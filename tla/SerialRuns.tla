------------------------------ MODULE SerialRuns ------------------------------
(***************************************************************************)
(* What internal/server promises about runs, whatever its handlers,        *)
(* goroutines and channels do: the host is changed by one run at a time,   *)
(* no token pays for two runs, and an endpoint's last result is the result *)
(* of the last run of that endpoint to end, published as the run ends.     *)
(* DeployServer implements this specification.                             *)
(***************************************************************************)
EXTENDS Naturals

CONSTANTS
    Requests,   \* who asks for runs
    Endpoints,  \* the kinds of run
    Tokens,     \* each pays for at most one run
    Idle,       \* nothing is running
    NoResult    \* no run of the endpoint has ended

Statuses == {"ok", "fail"}

Run == [req : Requests, endpoint : Endpoints, startedAt : Nat]

VARIABLES
    running,  \* the run in progress, or Idle
    spent,    \* tokens that have paid for a run
    now,      \* the clock runs are stamped with
    board     \* board[e]: the last result of endpoint e

vars == <<running, spent, now, board>>

Init ==
    /\ running = Idle
    /\ spent = {}
    /\ now = 0
    /\ board = [e \in Endpoints |-> NoResult]

Begin(r, e, t) ==
    /\ running = Idle
    /\ t \notin spent
    /\ spent' = spent \cup {t}
    /\ now' = now + 1
    /\ running' = [req |-> r, endpoint |-> e, startedAt |-> now + 1]
    /\ UNCHANGED board

End(status) ==
    /\ running # Idle
    /\ board' = [board EXCEPT ![running.endpoint] =
                   [req |-> running.req, startedAt |-> running.startedAt,
                    status |-> status]]
    /\ running' = Idle
    /\ UNCHANGED <<spent, now>>

SomeEnd == \E status \in Statuses : End(status)

Next ==
    \/ \E r \in Requests, e \in Endpoints, t \in Tokens : Begin(r, e, t)
    \/ SomeEnd

Spec == Init /\ [][Next]_vars
=============================================================================
