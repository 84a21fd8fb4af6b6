SPECIFICATION Spec
CONSTANTS
    Main = Main
    Helpers = {h1}
    PipeCap = 1
    LineBound = 2
INVARIANTS
    EveryLineIsForwarded
