---------------------------- MODULE MCDeployServer ----------------------------
(* Small instances of DeployServer for TLC. *)
EXTENDS DeployServer, TLC

CONSTANTS t1, t2

\* Nothing in the configuration keeps two validators from accepting one token.
MCPins == t1 :> {"deploy", "tf-apply"} @@ t2 :> {"deploy"}

MCRegistered == {"deploy", "tf-apply"}

\* A request that passes every gate before the token's.
With(e, t) == [endpoint |-> e, ip |-> TRUE, bearer |-> TRUE, jti |-> t, body |-> TRUE]

\* Requests of two endpoints that compete for the lock and for a token, one with
\* a body that does not decode, and one for each gate that fails: the route, the
\* address, the header, the claims.
MCCalls ==
    {With("deploy", t1), With("deploy", t2), With("tf-apply", t1),
     [With("deploy", t1) EXCEPT !.body = FALSE],
     With("tf-plan", t1),
     [With("deploy", t1) EXCEPT !.ip = FALSE],
     [With("deploy", t1) EXCEPT !.bearer = FALSE],
     With("tf-apply", t2)}

\* Requests that reach the lock, of endpoints whose runs treat a cancelled
\* context differently.
MCLiveCalls == {With("deploy", t2), With("tf-apply", t1)}

MCSymmetry == Permutations(Requests)
=============================================================================
