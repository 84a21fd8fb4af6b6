------------------------------- MODULE MCDaemon -------------------------------
(* Small instances of Daemon for TLC. *)
EXTENDS Daemon, TLC

CONSTANTS t1, t2

MCPins == t1 :> {"deploy", "tf-apply"} @@ t2 :> {"tf-apply"}

MCRegistered == {"deploy", "tf-apply"}

\* Requests that pass every gate before the token's, for two endpoints and with
\* a token for each.
With(e, t) == [endpoint |-> e, ip |-> TRUE, bearer |-> TRUE, jti |-> t, body |-> TRUE]

MCCalls == {With("deploy", t1), With("tf-apply", t2)}
=============================================================================
