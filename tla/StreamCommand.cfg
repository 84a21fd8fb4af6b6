SPECIFICATION FairSpec
CONSTANTS
    Main = Main
    Helpers = {h1}
    PipeCap = 1
    LineBound = 2
INVARIANTS
    OutputIsComplete
    NothingHoldsOn
PROPERTIES
    CommandEnds
    EndIsNear
    ActsAsOneProgram
