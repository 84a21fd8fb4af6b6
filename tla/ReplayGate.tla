------------------------------ MODULE ReplayGate ------------------------------
(***************************************************************************)
(* What internal/auth's JTISet promises the handlers: CheckAndAdd accepts  *)
(* a token the first time any of them shows it, and refuses it ever after; *)
(* it refuses no token for any other reason.  How long entries are kept,   *)
(* how many there are and in which order handlers come does not matter.    *)
(*                                                                         *)
(* ReplayCache, the cache itself, implements this specification.  So does  *)
(* DeployServer, which has the handlers in full and of the cache only what *)
(* it may forget.                                                          *)
(***************************************************************************)
CONSTANTS
    Handlers,  \* who looks tokens up
    Tokens     \* OIDC tokens, one for one with their jti claims

VARIABLES
    held,  \* pairs <<h, t>>: h has validated t and not yet looked it up
    spent  \* tokens that were accepted

vars == <<held, spent>>

Init ==
    /\ held = {}
    /\ spent = {}

\* Validate accepts the token; its handler is about to look it up.
Hold(h, t) ==
    /\ \A u \in Tokens : <<h, u>> \notin held
    /\ held' = held \cup {<<h, t>>}
    /\ UNCHANGED spent

Accept(h, t) ==
    /\ <<h, t>> \in held
    /\ t \notin spent
    /\ held' = held \ {<<h, t>>}
    /\ spent' = spent \cup {t}

Refuse(h, t) ==
    /\ <<h, t>> \in held
    /\ t \in spent
    /\ held' = held \ {<<h, t>>}
    /\ UNCHANGED spent

Next ==
    \E h \in Handlers, t \in Tokens : Hold(h, t) \/ Accept(h, t) \/ Refuse(h, t)

Spec == Init /\ [][Next]_vars
=============================================================================
