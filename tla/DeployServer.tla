------------------------------ MODULE DeployServer ------------------------------
(***************************************************************************)
(* internal/server: the daemon's three mutating endpoints, /deploy,        *)
(* /tf-apply and /tf-plan.  A request passes the gates (route, source IP,  *)
(* bearer token, pinned claims), spends its token's jti in the replay      *)
(* cache all endpoints share, has its body checked, waits for applyMu, and *)
(* then streams the events of a run that is executed by a second           *)
(* goroutine.  When the run is over its result becomes the endpoint's last *)
(* result, is sent as the terminal line, and applyMu is released.          *)
(*                                                                         *)
(* The run is what server.Deployer, TFApplier and TFPlanner promise: it    *)
(* sends events, closes the channel when it is finished, and returns nil   *)
(* or an error.  DeployRun and TfRun model what runs do to the host.       *)
(***************************************************************************)
EXTENDS Integers, FiniteSets

CONSTANTS
    Requests,    \* HTTP requests, each with a handler goroutine of its own
    NoRequest,   \* what applyMu holds when it is free
    Tokens,      \* OIDC tokens, one for one with their jti claims
    Pins,        \* Pins[t]: the endpoints whose pinned claims token t meets
    Calls,       \* what requests may carry, a subset of Call
    Registered,  \* endpoints with a route: those with a validator and a runner
    NoResult,    \* a nil last result
    ChanCap,     \* capacity of the events channel (8 in the handlers)
    EventBound   \* bound on the events one run sends

Endpoints == {"deploy", "tf-apply", "tf-plan"}

\* ip and bearer: the address is allowed, the header is well formed; body: the
\* JSON decodes, to a version X.Y.Z or a sha of 40 digits.
Call == [endpoint : Endpoints, ip : BOOLEAN, bearer : BOOLEAN,
         jti : Tokens, body : BOOLEAN]

Statuses == {"ok", "fail"}

Result == [req : Requests, startedAt : Nat, status : Statuses]

ASSUME ServerAssumption ==
    /\ NoRequest \notin Requests
    /\ NoRequest \notin [req : Requests, endpoint : Endpoints, startedAt : Nat]
    /\ IsFiniteSet(Requests)
    /\ Pins \in [Tokens -> SUBSET Endpoints]
    /\ Calls \subseteq Call
    /\ Registered \subseteq Endpoints
    /\ NoResult \notin Result
    /\ ChanCap \in Nat \ {0}
    /\ EventBound \in Nat

VARIABLES
    call,       \* call[r]: what r carries, settled by its client
    pc,         \* pc[r]: where r's handler goroutine is
    cancelled,  \* requests whose context is done: client gone, or a deadline passed
    expired,    \* tokens whose exp has passed
    seen,       \* the jti entries of the replay cache
    applyMu,    \* the request that holds applyMu, or NoRequest
    work,       \* work[r]: where the goroutine that executes r's run is
    offered,    \* offered[r]: events the run has started to send
    dropped,    \* dropped[r]: events a cancelled terraform run gave up sending
    written,    \* written[r]: events handed to the response encoder
    errCh,      \* errCh[r]: the status the run's return value stands for
    clock,      \* the time of day, which startedAt reads
    startedAt,  \* startedAt[r]: when r's run was started
    last        \* last[e]: lastResult, lastTFApplyResult, lastTFPlanResult

netVars   == <<call, cancelled, expired>>
runVars   == <<work, offered, dropped, written, errCh>>
boardVars == <<clock, startedAt, last>>
vars == <<call, pc, cancelled, expired, seen, applyMu,
          work, offered, dropped, written, errCh, clock, startedAt, last>>

-----------------------------------------------------------------------------
(* The program counter of a handler, and the parts of it that matter. *)

Streaming == {"draining", "writing"}
Settling  == {"storing", "replying", "unlocking"}
Locked    == Streaming \cup Settling
Admitted  == {"body", "queued", "rejected", "done"} \cup Locked
PCs       == {"idle", "gates", "checking", "refused"} \cup Admitted

\* Run has been called and has not returned: it may be changing the host.
Active(r) == work[r] \in {"working", "emitting"}

\* The request was let past the replay gate.
SpentToken(r) == pc[r] \in Admitted

TypeOK ==
    /\ call \in [Requests -> Calls]
    /\ pc \in [Requests -> PCs]
    /\ cancelled \subseteq Requests
    /\ expired \subseteq Tokens
    /\ seen \subseteq Tokens
    /\ applyMu \in Requests \cup {NoRequest}
    /\ work \in [Requests -> {"none", "working", "emitting", "closed", "sent"}]
    /\ offered \in [Requests -> Nat]
    /\ dropped \in [Requests -> Nat]
    /\ written \in [Requests -> Nat]
    /\ errCh \in [Requests -> Statuses \cup {"none"}]
    /\ clock \in Nat
    /\ startedAt \in [Requests -> Nat]
    /\ last \in [Endpoints -> Result \cup {NoResult}]

Init ==
    /\ call \in [Requests -> Calls]
    /\ pc = [r \in Requests |-> "idle"]
    /\ cancelled = {}
    /\ expired = {}
    /\ seen = {}
    /\ applyMu = NoRequest
    /\ work = [r \in Requests |-> "none"]
    /\ offered = [r \in Requests |-> 0]
    /\ dropped = [r \in Requests |-> 0]
    /\ written = [r \in Requests |-> 0]
    /\ errCh = [r \in Requests |-> "none"]
    /\ clock = 0
    /\ startedAt = [r \in Requests |-> 0]
    /\ last = [e \in Endpoints |-> NoResult]

Goto(r, label) == pc' = [pc EXCEPT ![r] = label]

-----------------------------------------------------------------------------
(* The environment: clients, clocks and the cache's own expiry. *)

Arrive(r) ==
    /\ pc[r] = "idle"
    /\ Goto(r, "gates")
    /\ UNCHANGED <<netVars, seen, applyMu, runVars, boardVars>>

\* net/http cancels the request context when the client disconnects or the
\* 15 minute read or write timeout passes, wherever the handler is.
Cancel(r) ==
    /\ pc[r] \notin {"idle", "refused", "rejected", "done"}
    /\ r \notin cancelled
    /\ cancelled' = cancelled \cup {r}
    /\ UNCHANGED <<call, pc, expired, seen, applyMu, runVars, boardVars>>

Expire(t) ==
    /\ t \notin expired
    /\ expired' = expired \cup {t}
    /\ UNCHANGED <<call, pc, cancelled, seen, applyMu, runVars, boardVars>>

\* Mistake: entries that live shorter than the token.
DeadAtAnyTime(t) == t \in Tokens

Dead(t) == t \in expired

\* The cache lets go of an entry only when the token is dead and no handler
\* stands between validating it and looking it up: the 30 minutes an entry
\* lives exceed a token's life by far more than the time between those two
\* statements.  ReplayCache states and checks when that is so.
Forget(t) ==
    /\ t \in seen
    /\ Dead(t)
    /\ \A r \in Requests : pc[r] = "checking" => call[r].jti # t
    /\ seen' = seen \ {t}
    /\ UNCHANGED <<pc, netVars, applyMu, runVars, boardVars>>

-----------------------------------------------------------------------------
(* The gates. *)

\* Mistake: the claims are not pinned to the endpoint.
ValidatesAnyAudience(r) == call[r].jti \notin expired

\* Validate accepts a live token whose claims meet the endpoint's pins.
Validates(r) ==
    /\ call[r].endpoint \in Pins[call[r].jti]
    /\ call[r].jti \notin expired

PassesGates(r) ==
    /\ call[r].endpoint \in Registered
    /\ call[r].ip
    /\ call[r].bearer
    /\ Validates(r)

Gates(r) ==
    /\ pc[r] = "gates"
    /\ Goto(r, IF PassesGates(r) THEN "checking" ELSE "refused")
    /\ UNCHANGED <<netVars, seen, applyMu, runVars, boardVars>>

\* Mistake: the jti is added before it is looked for.
FindsOwnEntry(r) ==
    /\ pc[r] = "checking"
    /\ seen' = seen \cup {call[r].jti}
    /\ Goto(r, "refused")
    /\ UNCHANGED <<netVars, applyMu, runVars, boardVars>>

\* JTISet.CheckAndAdd, atomic under the set's mutex.
CheckAndAdd(r) ==
    /\ pc[r] = "checking"
    /\ seen' = seen \cup {call[r].jti}
    /\ Goto(r, IF call[r].jti \in seen THEN "refused" ELSE "body")
    /\ UNCHANGED <<netVars, applyMu, runVars, boardVars>>

\* The body of a cancelled request may fail to arrive; the token stays spent.
DecodeBody(r) ==
    /\ pc[r] = "body"
    /\ \/ call[r].body /\ Goto(r, "queued")
       \/ (~call[r].body \/ r \in cancelled) /\ Goto(r, "rejected")
    /\ UNCHANGED <<netVars, seen, applyMu, runVars, boardVars>>

-----------------------------------------------------------------------------
(* The locked section. *)

\* Mistake: a mutex per endpoint.
FreeForEndpoint(r) ==
    \A q \in Requests :
        pc[q] \in Locked => call[q].endpoint # call[r].endpoint

LockFree(r) == applyMu = NoRequest

\* applyMu.Lock() takes any waiter; neither the context nor the token is looked
\* at again before the run is started.
Acquire(r) ==
    /\ pc[r] = "queued"
    /\ LockFree(r)
    /\ applyMu' = r
    /\ clock' = clock + 1
    /\ startedAt' = [startedAt EXCEPT ![r] = clock + 1]
    /\ work' = [work EXCEPT ![r] = "working"]
    /\ Goto(r, "draining")
    /\ UNCHANGED <<netVars, seen, offered, dropped, written, errCh, last>>

\* Events in the channel: sent, and not yet received by the handler.
Buffered(r) ==
    offered[r] - (dropped[r] + written[r]
                    + (IF work[r] = "emitting" THEN 1 ELSE 0)
                    + (IF pc[r] = "writing" THEN 1 ELSE 0))

Receive(r) ==
    /\ pc[r] = "draining"
    /\ Buffered(r) > 0
    /\ Goto(r, "writing")
    /\ UNCHANGED <<netVars, seen, applyMu, runVars, boardVars>>

\* Mistake: an event whose write failed goes back to be written again.
RewriteUntilSent(r) ==
    /\ pc[r] = "writing"
    /\ written' = IF r \in cancelled THEN written ELSE [written EXCEPT ![r] = @ + 1]
    /\ Goto(r, "draining")
    /\ UNCHANGED <<netVars, seen, applyMu, work, offered, dropped, errCh, boardVars>>

\* Encode and Flush.  Their errors are ignored, so the loop goes on draining
\* for a client that is gone.
Write(r) ==
    /\ pc[r] = "writing"
    /\ written' = [written EXCEPT ![r] = @ + 1]
    /\ Goto(r, "draining")
    /\ UNCHANGED <<netVars, seen, applyMu, work, offered, dropped, errCh, boardVars>>

\* Mistake: the handler leaves when the request is cancelled.
OverOrCancelled(r) == work[r] = "sent" \/ r \in cancelled

RunOver(r) == work[r] = "sent"

\* Mistake: the handler waits for errCh and leaves what is in the channel.
NotWriting(r) == pc[r] # "writing"

Drained(r) == Buffered(r) = 0

\* The range loop ends on a closed and empty channel; <-errCh then waits for
\* the run's return value.
Finish(r) ==
    /\ pc[r] = "draining"
    /\ RunOver(r)
    /\ Drained(r)
    /\ Goto(r, "storing")
    /\ UNCHANGED <<netVars, seen, applyMu, runVars, boardVars>>

\* Mistake: only successes are recorded.
StoreSuccess(r) ==
    /\ pc[r] = "storing"
    /\ last' = IF errCh[r] = "ok"
                 THEN [last EXCEPT ![call[r].endpoint] =
                         [req |-> r, startedAt |-> startedAt[r], status |-> "ok"]]
                 ELSE last
    /\ Goto(r, "replying")
    /\ UNCHANGED <<netVars, seen, applyMu, runVars, clock, startedAt>>

Store(r) ==
    /\ pc[r] = "storing"
    /\ last' = [last EXCEPT ![call[r].endpoint] =
                  [req |-> r, startedAt |-> startedAt[r], status |-> errCh[r]]]
    /\ Goto(r, "replying")
    /\ UNCHANGED <<netVars, seen, applyMu, runVars, clock, startedAt>>

\* The terminal line, encoded while applyMu is still held.
Reply(r) ==
    /\ pc[r] = "replying"
    /\ Goto(r, "unlocking")
    /\ UNCHANGED <<netVars, seen, applyMu, runVars, boardVars>>

\* Mistake: the lock is not released when the run failed.
UnlockAfterSuccess(r) ==
    /\ pc[r] = "unlocking"
    /\ applyMu' = IF errCh[r] = "ok" THEN NoRequest ELSE applyMu
    /\ Goto(r, "done")
    /\ UNCHANGED <<netVars, seen, runVars, boardVars>>

Unlock(r) ==
    /\ pc[r] = "unlocking"
    /\ applyMu' = NoRequest
    /\ Goto(r, "done")
    /\ UNCHANGED <<netVars, seen, runVars, boardVars>>

-----------------------------------------------------------------------------
(* The goroutine that executes the run. *)

\* A terraform run has two readers that may both be sending; one sender stands for
\* them.  The run returns only after both, so what is counted comes out the same.
Emit(r) ==
    /\ work[r] = "working"
    /\ offered[r] < EventBound
    /\ offered' = [offered EXCEPT ![r] = @ + 1]
    /\ work' = [work EXCEPT ![r] = "emitting"]
    /\ UNCHANGED <<pc, netVars, seen, applyMu, dropped, written, errCh, boardVars>>

Send(r) ==
    /\ work[r] = "emitting"
    /\ Buffered(r) < ChanCap
    /\ work' = [work EXCEPT ![r] = "working"]
    /\ UNCHANGED <<pc, netVars, seen, applyMu, offered, dropped, written, errCh, boardVars>>

\* Only the terraform runs select on the context; deploy's emit waits.
Drop(r) ==
    /\ work[r] = "emitting"
    /\ call[r].endpoint # "deploy"
    /\ r \in cancelled
    /\ dropped' = [dropped EXCEPT ![r] = @ + 1]
    /\ work' = [work EXCEPT ![r] = "working"]
    /\ UNCHANGED <<pc, netVars, seen, applyMu, offered, written, errCh, boardVars>>

\* The deferred close(events) comes before the value reaches errCh.
Return(r, status) ==
    /\ work[r] = "working"
    /\ errCh' = [errCh EXCEPT ![r] = status]
    /\ work' = [work EXCEPT ![r] = "closed"]
    /\ UNCHANGED <<pc, netVars, seen, applyMu, offered, dropped, written, boardVars>>

SendErr(r) ==
    /\ work[r] = "closed"
    /\ work' = [work EXCEPT ![r] = "sent"]
    /\ UNCHANGED <<pc, netVars, seen, applyMu, offered, dropped, written, errCh, boardVars>>

-----------------------------------------------------------------------------
Handler(r) ==
    \/ Gates(r) \/ CheckAndAdd(r) \/ DecodeBody(r)
    \/ Acquire(r) \/ Receive(r) \/ Write(r) \/ Finish(r)
    \/ Store(r) \/ Reply(r) \/ Unlock(r)

Runner(r) ==
    \/ Emit(r) \/ Send(r) \/ Drop(r) \/ SendErr(r)
    \/ \E status \in Statuses : Return(r, status)

Environment ==
    \/ \E r \in Requests : Arrive(r) \/ Cancel(r)
    \/ \E t \in Tokens : Expire(t) \/ Forget(t)

\* Every request is answered: the only state in which the handlers may stop.
Rest ==
    /\ \A r \in Requests : pc[r] \in {"refused", "rejected", "done"}
    /\ UNCHANGED vars

Next ==
    \/ Environment
    \/ \E r \in Requests : Handler(r) \/ Runner(r)
    \/ Rest

Spec == Init /\ [][Next]_vars

(***************************************************************************)
(* Fairness.  A goroutine that can take a step takes it.  Reading a body   *)
(* and writing to a client wait for the client, and a run waits for the    *)
(* programs it has started: those steps are sure to happen only once the   *)
(* context is done, when the connection fails and the programs are killed. *)
(* The context of every request in progress is done after 15 minutes.      *)
(***************************************************************************)
Prompt(r) ==
    \/ Gates(r) \/ CheckAndAdd(r) \/ Acquire(r)
    \/ Receive(r) \/ Finish(r) \/ Store(r) \/ Unlock(r)

WaitsForClient(r) == DecodeBody(r) \/ Write(r) \/ Reply(r)

Fairness ==
    \A r \in Requests :
        /\ WF_vars(Prompt(r))
        /\ WF_vars(r \in cancelled /\ WaitsForClient(r))
        /\ WF_vars(Send(r) \/ SendErr(r))
        /\ WF_vars(r \in cancelled /\ \E status \in Statuses : Return(r, status))
        /\ WF_vars(Cancel(r))

FairSpec == Spec /\ Fairness

-----------------------------------------------------------------------------
(* Safety. *)

\* At most one run is changing the host, of whatever endpoint, even while its
\* client is gone: the lock is held until the run has returned, not until the
\* handler has no one to write to (applyMu, deploy_handler.go:59-63).
OneRunAtATime ==
    \A q, r \in Requests : Active(q) /\ Active(r) => q = r

\* A token is let past the replay gate once in the daemon's life: also when two
\* endpoints that accept it are asked at once, when its first request is
\* rejected for its body, and after the cache has forgotten it (jti.go:27-35).
AtMostOncePerToken ==
    \A q, r \in Requests :
        SpentToken(q) /\ SpentToken(r) /\ call[q].jti = call[r].jti => q = r

\* A run belongs to a request that met every gate of its own endpoint: a token
\* with other claims starts no run there (tfapply_handler.go:48-51).
RunsAreAuthorised ==
    \A r \in Requests :
        work[r] # "none" =>
            /\ call[r].endpoint \in Registered
            /\ call[r].ip /\ call[r].bearer /\ call[r].body
            /\ call[r].endpoint \in Pins[call[r].jti]

\* Before the result is recorded and the terminal line sent, every event the
\* run sent has been written; only a cancelled terraform run loses any
\* (deploy_handler.go:85-89).
StreamIsComplete ==
    \A r \in Requests :
        /\ pc[r] \in Settling \cup {"done"} => offered[r] = written[r] + dropped[r]
        /\ dropped[r] > 0 => r \in cancelled /\ call[r].endpoint # "deploy"

\* Once a client can have its terminal line, /status of that endpoint shows
\* that result, or the result of a run started later: it never denies or
\* contradicts what a client was told (deploy_handler.go:104-109).
StatusCoversAnswers ==
    \A r \in Requests :
        pc[r] \in {"replying", "unlocking", "done"} =>
            LET shown == last[call[r].endpoint]
            IN  /\ shown # NoResult
                /\ shown.startedAt >= startedAt[r]
                /\ shown.startedAt = startedAt[r] =>
                       shown.req = r /\ shown.status = errCh[r]

\* The run of r, or the handler that reads its events, has a step to take.
RunCanGoOn(r) ==
    \/ work[r] \in {"working", "closed"}
    \/ work[r] = "emitting" /\ Buffered(r) < ChanCap

HandlerCanGoOn(r) ==
    \/ pc[r] \in {"writing"} \cup Settling
    \/ pc[r] = "draining" /\ Buffered(r) > 0
    \/ pc[r] = "draining" /\ RunOver(r) /\ Drained(r)

\* Nobody waits for an applyMu that nobody will release: its holder has a step to
\* take, or the run it waits for has.  A full channel, a run that waits for its
\* reader and a reader that waits for its run never come together, and a handler
\* that has gone left the lock free (deploy_handler.go:62-63, 79-89).
LockIsNeverStuck ==
    applyMu # NoRequest => HandlerCanGoOn(applyMu) \/ RunCanGoOn(applyMu)

\* /status never goes back: what replaces a last result was started later.
\* Results are stored under applyMu, so they are stored in the order the runs
\* were started, however slow the clients are (deploy_handler.go:104-106).
StatusNeverGoesBack ==
    [][\A e \in Endpoints :
          last'[e] # last[e] =>
              /\ last'[e] # NoResult
              /\ last[e] # NoResult => last'[e].startedAt > last[e].startedAt]_vars

-----------------------------------------------------------------------------
(* Liveness, under FairSpec. *)

\* Every request that reaches the daemon is answered, whatever its client
\* does: a slow or absent client, a full events channel or a hung program
\* cannot keep a handler, and applyMu with it, for ever (server.go:79-83).
EveryRequestIsAnswered ==
    \A r \in Requests :
        pc[r] = "gates" ~> pc[r] \in {"refused", "rejected", "done"}

-----------------------------------------------------------------------------
(* Refinement: runs happen one after the other, as SerialRuns says. *)

\* A run is in progress from the moment applyMu is taken until its result is
\* stored.
RunInProgress ==
    IF applyMu # NoRequest /\ pc[applyMu] \in Streaming \cup {"storing"}
      THEN [req |-> applyMu, endpoint |-> call[applyMu].endpoint,
            startedAt |-> startedAt[applyMu]]
      ELSE NoRequest

TokensOfRuns == {call[r].jti : r \in {q \in Requests : work[q] # "none"}}

Serial == INSTANCE SerialRuns WITH
            Idle <- NoRequest, running <- RunInProgress,
            spent <- TokensOfRuns, now <- clock, board <- last

\* The handlers, goroutines and channels together behave as runs that happen
\* one at a time, each paid for by a token of its own, whose results appear
\* when they end.
RunsAreSerial == Serial!Spec

-----------------------------------------------------------------------------
(* Refinement: the gates use the replay cache as ReplayGate says. *)

\* A handler has a token in its hands between Validate and CheckAndAdd.
Held == {<<r, call[r].jti>> : r \in {q \in Requests : pc[q] = "checking"}}

Spent == {call[r].jti : r \in {q \in Requests : SpentToken(q)}}

Gate == INSTANCE ReplayGate WITH
          Handlers <- Requests, held <- Held, spent <- Spent

\* The replay cache the handlers share lets a token past when it is first shown
\* and never again, and turns away none that was not let past before; as
\* ReplayGate says, and as ReplayCache keeps (deploy_handler.go:43-46).
FirstSightingsOnly == Gate!Spec
=============================================================================
