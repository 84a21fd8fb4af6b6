-------------------------- MODULE DeployServerProofs --------------------------
(***************************************************************************)
(* Proofs about DeployServer, for any number of requests, any tokens and   *)
(* any capacity of the events channel.                                     *)
(***************************************************************************)
EXTENDS DeployServer, TLAPS

(* The inductive invariant, in parts. *)

\* Who is between applyMu.Lock and the deferred Unlock holds applyMu.
LockInv ==
    /\ \A r \in Requests : pc[r] \in Locked <=> applyMu = r

\* The run's goroutine lives inside the locked section, and has said how the
\* run ended before the handler goes on.
WorkInv ==
    \A r \in Requests :
        /\ work[r] = "none" <=> pc[r] \notin Locked \cup {"done"}
        /\ pc[r] \in Settling \cup {"done"} => work[r] = "sent"
        /\ work[r] \in {"closed", "sent"} => errCh[r] \in Statuses

\* The token of an admitted request is in the cache, or it is dead and no
\* request that carries it is past the validator.
TokenInv ==
    \A r \in Requests :
        SpentToken(r) /\ call[r].jti \notin seen =>
            /\ call[r].jti \in expired
            /\ \A q \in Requests : pc[q] = "checking" => call[q].jti # call[r].jti

\* What the gates have established so far.
GateInv ==
    \A r \in Requests :
        /\ pc[r] \in {"checking"} \cup Admitted =>
               /\ call[r].endpoint \in Registered
               /\ call[r].ip /\ call[r].bearer
               /\ call[r].endpoint \in Pins[call[r].jti]
        /\ pc[r] \in {"queued", "done"} \cup Locked => call[r].body

\* Runs are stamped in the order they take applyMu: the one in progress is the
\* latest, and no stored result is later.
ClockInv ==
    /\ \A r \in Requests :
           /\ startedAt[r] <= clock
           /\ pc[r] \in Locked => startedAt[r] = clock
           /\ pc[r] \in Streaming \cup {"storing"} =>
                  \A e \in Endpoints :
                      last[e] # NoResult => last[e].startedAt < clock
    /\ \A e \in Endpoints : last[e] # NoResult => last[e].startedAt <= clock
    /\ \A q, r \in Requests :
           work[q] # "none" /\ work[r] # "none" /\ q # r => startedAt[q] # startedAt[r]

\* The cache knows of no token but those that were let past.
SeenInv == seen \subseteq Spent

\* The channel never holds more than its capacity, nor less than nothing.
ChanInv == \A r \in Requests : 0 <= Buffered(r) /\ Buffered(r) <= ChanCap

IInv ==
    /\ TypeOK /\ LockInv /\ WorkInv /\ TokenInv /\ GateInv /\ ClockInv
    /\ AtMostOncePerToken /\ StreamIsComplete /\ StatusCoversAnswers
    /\ SeenInv /\ ChanInv

-----------------------------------------------------------------------------
(* Type correctness. *)

LEMMA InitType == Init => TypeOK
  BY ServerAssumption DEF Init, TypeOK, PCs

\* A step keeps every variable in its type; Store needs to know that the run
\* has returned a status.
LEMMA NextType == TypeOK /\ WorkInv /\ [Next]_vars => TypeOK'
<1> SUFFICES ASSUME TypeOK, WorkInv, [Next]_vars
             PROVE  TypeOK'
  OBVIOUS
<1> USE DEF TypeOK, PCs, Admitted, Locked, Streaming, Settling, Goto,
            netVars, runVars, boardVars
<1>1. ASSUME NEW r \in Requests, Arrive(r) PROVE TypeOK'
  BY <1>1 DEF Arrive
<1>2. ASSUME NEW r \in Requests, Cancel(r) PROVE TypeOK'
  BY <1>2 DEF Cancel
<1>3. ASSUME NEW t \in Tokens, Expire(t) PROVE TypeOK'
  BY <1>3 DEF Expire
<1>4. ASSUME NEW t \in Tokens, Forget(t) PROVE TypeOK'
  BY <1>4 DEF Forget
<1>5. ASSUME NEW r \in Requests, Gates(r) PROVE TypeOK'
  BY <1>5 DEF Gates
<1>6. ASSUME NEW r \in Requests, CheckAndAdd(r) PROVE TypeOK'
  <2>1. call[r].jti \in Tokens
    BY ServerAssumption DEF Call
  <2> QED
    BY <1>6, <2>1 DEF CheckAndAdd
<1>7. ASSUME NEW r \in Requests, DecodeBody(r) PROVE TypeOK'
  BY <1>7 DEF DecodeBody
<1>8. ASSUME NEW r \in Requests, Acquire(r) PROVE TypeOK'
  BY <1>8 DEF Acquire
<1>9. ASSUME NEW r \in Requests, Receive(r) \/ Finish(r) \/ Reply(r) PROVE TypeOK'
  BY <1>9 DEF Receive, Finish, Reply
<1>10. ASSUME NEW r \in Requests, Write(r) PROVE TypeOK'
  BY <1>10 DEF Write
<1>11. ASSUME NEW r \in Requests, Store(r) PROVE TypeOK'
  <2>1. /\ call[r].endpoint \in Endpoints
        /\ errCh[r] \in Statuses
    BY <1>11, ServerAssumption DEF Store, WorkInv, Call
  <2>2. [req |-> r, startedAt |-> startedAt[r], status |-> errCh[r]] \in Result
    BY <2>1 DEF Result
  <2> QED
    BY <1>11, <2>1, <2>2 DEF Store
<1>12. ASSUME NEW r \in Requests, Unlock(r) PROVE TypeOK'
  BY <1>12 DEF Unlock
<1>13. ASSUME NEW r \in Requests, Emit(r) PROVE TypeOK'
  BY <1>13 DEF Emit
<1>14. ASSUME NEW r \in Requests, Send(r) \/ SendErr(r) PROVE TypeOK'
  BY <1>14 DEF Send, SendErr
<1>15. ASSUME NEW r \in Requests, Drop(r) PROVE TypeOK'
  BY <1>15 DEF Drop
<1>16. ASSUME NEW r \in Requests, NEW status \in Statuses, Return(r, status)
       PROVE  TypeOK'
  BY <1>16 DEF Return
<1>17. CASE Rest \/ UNCHANGED vars
  BY <1>17 DEF Rest, vars
<1> QED
  BY <1>1, <1>2, <1>3, <1>4, <1>5, <1>6, <1>7, <1>8, <1>9, <1>10, <1>11, <1>12,
     <1>13, <1>14, <1>15, <1>16, <1>17 DEF Next, Environment, Handler, Runner

-----------------------------------------------------------------------------
(* The lock and the goroutine behind it. *)

\* Only Acquire enters the locked section, when applyMu is free; only Unlock
\* leaves it.
LEMMA NextLock == TypeOK /\ LockInv /\ [Next]_vars => LockInv'
<1> SUFFICES ASSUME TypeOK, LockInv, [Next]_vars
             PROVE  LockInv'
  OBVIOUS
<1> USE ServerAssumption
    DEF TypeOK, LockInv, PCs, Admitted, Locked, Streaming, Settling, Goto,
        netVars, runVars, boardVars
<1>1. ASSUME NEW r \in Requests,
             Arrive(r) \/ Gates(r) \/ CheckAndAdd(r) \/ DecodeBody(r)
      PROVE  LockInv'
  BY <1>1 DEF Arrive, Gates, CheckAndAdd, DecodeBody
<1>2. ASSUME NEW r \in Requests, Acquire(r) PROVE LockInv'
  BY <1>2 DEF Acquire, LockFree
<1>3. ASSUME NEW r \in Requests,
             Receive(r) \/ Write(r) \/ Finish(r) \/ Store(r) \/ Reply(r)
      PROVE  LockInv'
  BY <1>3 DEF Receive, Write, Finish, Store, Reply
<1>4. ASSUME NEW r \in Requests, Unlock(r) PROVE LockInv'
  BY <1>4 DEF Unlock
<1>5. ASSUME NEW r \in Requests, Runner(r) \/ Cancel(r) PROVE LockInv'
  BY <1>5 DEF Runner, Emit, Send, Drop, SendErr, Return, Cancel
<1>6. ASSUME NEW t \in Tokens, Expire(t) \/ Forget(t) PROVE LockInv'
  BY <1>6 DEF Expire, Forget
<1>7. CASE Rest \/ UNCHANGED vars
  BY <1>7 DEF Rest, vars
<1> QED
  BY <1>1, <1>2, <1>3, <1>4, <1>5, <1>6, <1>7 DEF Next, Environment, Handler

\* The handler leaves its loop only when the run has sent its return value.
LEMMA NextWork == TypeOK /\ WorkInv /\ [Next]_vars => WorkInv'
<1> SUFFICES ASSUME TypeOK, WorkInv, [Next]_vars
             PROVE  WorkInv'
  OBVIOUS
<1> USE DEF TypeOK, WorkInv, PCs, Admitted, Locked, Streaming, Settling, Goto,
            netVars, runVars, boardVars
<1>1. ASSUME NEW r \in Requests,
             Arrive(r) \/ Gates(r) \/ CheckAndAdd(r) \/ DecodeBody(r)
      PROVE  WorkInv'
  BY <1>1 DEF Arrive, Gates, CheckAndAdd, DecodeBody
<1>2. ASSUME NEW r \in Requests, Acquire(r) PROVE WorkInv'
  BY <1>2 DEF Acquire
<1>3. ASSUME NEW r \in Requests, Receive(r) \/ Write(r) PROVE WorkInv'
  BY <1>3 DEF Receive, Write
<1>4. ASSUME NEW r \in Requests, Finish(r) PROVE WorkInv'
  BY <1>4 DEF Finish, RunOver
<1>5. ASSUME NEW r \in Requests, Store(r) \/ Reply(r) \/ Unlock(r) PROVE WorkInv'
  BY <1>5 DEF Store, Reply, Unlock
<1>6. ASSUME NEW r \in Requests, Emit(r) \/ Send(r) \/ Drop(r) \/ SendErr(r)
      PROVE  WorkInv'
  BY <1>6 DEF Emit, Send, Drop, SendErr
<1>7. ASSUME NEW r \in Requests, NEW status \in Statuses, Return(r, status)
      PROVE  WorkInv'
  BY <1>7 DEF Return
<1>8. ASSUME NEW r \in Requests, Cancel(r) PROVE WorkInv'
  BY <1>8 DEF Cancel
<1>9. ASSUME NEW t \in Tokens, Expire(t) \/ Forget(t) PROVE WorkInv'
  BY <1>9 DEF Expire, Forget
<1>10. CASE Rest \/ UNCHANGED vars
  BY <1>10 DEF Rest, vars
<1> QED
  BY <1>1, <1>2, <1>3, <1>4, <1>5, <1>6, <1>7, <1>8, <1>9, <1>10
  DEF Next, Environment, Handler, Runner

-----------------------------------------------------------------------------
(* The gates and the tokens. *)

\* A jti leaves the cache only when no request can still be admitted with it,
\* and is looked up and entered in one step.
LEMMA NextToken ==
    TypeOK /\ TokenInv /\ AtMostOncePerToken /\ [Next]_vars
        => TokenInv' /\ AtMostOncePerToken'
<1> SUFFICES ASSUME TypeOK, TokenInv, AtMostOncePerToken, [Next]_vars
             PROVE  TokenInv' /\ AtMostOncePerToken'
  OBVIOUS
<1> USE DEF TypeOK, TokenInv, AtMostOncePerToken, SpentToken,
            PCs, Admitted, Locked, Streaming, Settling, Goto,
            netVars, runVars, boardVars
<1> DEFINE Goal == TokenInv' /\ AtMostOncePerToken'
<1>1. ASSUME NEW r \in Requests, Arrive(r) PROVE Goal
  BY <1>1 DEF Arrive
<1>2. ASSUME NEW r \in Requests, Gates(r) PROVE Goal
  BY <1>2 DEF Gates, PassesGates, Validates
<1>3. ASSUME NEW r \in Requests, CheckAndAdd(r) PROVE Goal
  BY <1>3 DEF CheckAndAdd
<1>4. ASSUME NEW r \in Requests, DecodeBody(r) PROVE Goal
  BY <1>4 DEF DecodeBody
<1>5. ASSUME NEW r \in Requests,
             Acquire(r) \/ Receive(r) \/ Write(r) \/ Finish(r) \/ Store(r)
               \/ Reply(r) \/ Unlock(r)
      PROVE  Goal
  BY <1>5 DEF Acquire, Receive, Write, Finish, Store, Reply, Unlock
<1>6. ASSUME NEW r \in Requests, Runner(r) \/ Cancel(r) PROVE Goal
  BY <1>6 DEF Runner, Emit, Send, Drop, SendErr, Return, Cancel
<1>7. ASSUME NEW t \in Tokens, Expire(t) PROVE Goal
  BY <1>7 DEF Expire
<1>8. ASSUME NEW t \in Tokens, Forget(t) PROVE Goal
  BY <1>8 DEF Forget, Dead
<1>9. CASE Rest \/ UNCHANGED vars
  BY <1>9 DEF Rest, vars
<1> QED
  BY <1>1, <1>2, <1>3, <1>4, <1>5, <1>6, <1>7, <1>8, <1>9
  DEF Next, Environment, Handler

\* What a gate has established stays established: a request's call never changes.
LEMMA NextGate == TypeOK /\ GateInv /\ [Next]_vars => GateInv'
<1> SUFFICES ASSUME TypeOK, GateInv, [Next]_vars
             PROVE  GateInv'
  OBVIOUS
<1> USE DEF TypeOK, GateInv, PCs, Admitted, Locked, Streaming, Settling, Goto,
            netVars, runVars, boardVars
<1>1. ASSUME NEW r \in Requests, Arrive(r) \/ Gates(r) PROVE GateInv'
  BY <1>1 DEF Arrive, Gates, PassesGates, Validates
<1>2. ASSUME NEW r \in Requests, CheckAndAdd(r) \/ DecodeBody(r) PROVE GateInv'
  BY <1>2 DEF CheckAndAdd, DecodeBody
<1>3. ASSUME NEW r \in Requests,
             Acquire(r) \/ Receive(r) \/ Write(r) \/ Finish(r) \/ Store(r)
               \/ Reply(r) \/ Unlock(r)
      PROVE  GateInv'
  BY <1>3 DEF Acquire, Receive, Write, Finish, Store, Reply, Unlock
<1>4. ASSUME NEW r \in Requests, Runner(r) \/ Cancel(r) PROVE GateInv'
  BY <1>4 DEF Runner, Emit, Send, Drop, SendErr, Return, Cancel
<1>5. ASSUME NEW t \in Tokens, Expire(t) \/ Forget(t) PROVE GateInv'
  BY <1>5 DEF Expire, Forget
<1>6. CASE Rest \/ UNCHANGED vars
  BY <1>6 DEF Rest, vars
<1> QED
  BY <1>1, <1>2, <1>3, <1>4, <1>5, <1>6 DEF Next, Environment, Handler

-----------------------------------------------------------------------------
(* Events, results and the order of runs. *)

\* Finish leaves nothing in the channel, and the run has sent its last event.
LEMMA NextStream ==
    TypeOK /\ WorkInv /\ StreamIsComplete /\ [Next]_vars => StreamIsComplete'
<1> SUFFICES ASSUME TypeOK, WorkInv, StreamIsComplete, [Next]_vars
             PROVE  StreamIsComplete'
  OBVIOUS
<1> USE DEF TypeOK, WorkInv, StreamIsComplete, PCs, Admitted, Locked, Streaming,
            Settling, Goto, netVars, runVars, boardVars
<1>1. ASSUME NEW r \in Requests,
             Arrive(r) \/ Gates(r) \/ CheckAndAdd(r) \/ DecodeBody(r) \/ Acquire(r)
      PROVE  StreamIsComplete'
  BY <1>1 DEF Arrive, Gates, CheckAndAdd, DecodeBody, Acquire
<1>2. ASSUME NEW r \in Requests, Receive(r) \/ Write(r) PROVE StreamIsComplete'
  BY <1>2 DEF Receive, Write
<1>3. ASSUME NEW r \in Requests, Finish(r) PROVE StreamIsComplete'
  BY <1>3 DEF Finish, RunOver, Drained, Buffered
<1>4. ASSUME NEW r \in Requests, Store(r) \/ Reply(r) \/ Unlock(r)
      PROVE  StreamIsComplete'
  BY <1>4 DEF Store, Reply, Unlock
<1>5. ASSUME NEW r \in Requests, Runner(r) \/ Cancel(r) PROVE StreamIsComplete'
  BY <1>5 DEF Runner, Emit, Send, Drop, SendErr, Return, Cancel
<1>6. ASSUME NEW t \in Tokens, Expire(t) \/ Forget(t) PROVE StreamIsComplete'
  BY <1>6 DEF Expire, Forget
<1>7. CASE Rest \/ UNCHANGED vars
  BY <1>7 DEF Rest, vars
<1> QED
  BY <1>1, <1>2, <1>3, <1>4, <1>5, <1>6, <1>7 DEF Next, Environment, Handler

\* The run in progress is the latest: applyMu keeps another one from being
\* stamped before its result is stored.
LEMMA NextClock ==
    TypeOK /\ LockInv /\ WorkInv /\ ClockInv /\ [Next]_vars => ClockInv'
<1> SUFFICES ASSUME TypeOK, LockInv, WorkInv, ClockInv, [Next]_vars
             PROVE  ClockInv'
  OBVIOUS
<1> USE ServerAssumption
    DEF TypeOK, LockInv, WorkInv, ClockInv, PCs, Admitted, Locked, Streaming,
        Settling, Goto, netVars, runVars, boardVars
<1>1. ASSUME NEW r \in Requests,
             Arrive(r) \/ Gates(r) \/ CheckAndAdd(r) \/ DecodeBody(r)
      PROVE  ClockInv'
  BY <1>1 DEF Arrive, Gates, CheckAndAdd, DecodeBody
<1>2. ASSUME NEW r \in Requests, Acquire(r) PROVE ClockInv'
  BY <1>2 DEF Acquire, LockFree, Result
<1>3. ASSUME NEW r \in Requests,
             Receive(r) \/ Write(r) \/ Finish(r) \/ Reply(r) \/ Unlock(r)
      PROVE  ClockInv'
  BY <1>3 DEF Receive, Write, Finish, Reply, Unlock
<1>4. ASSUME NEW r \in Requests, Store(r) PROVE ClockInv'
  BY <1>4 DEF Store
<1>5. ASSUME NEW r \in Requests, Runner(r) \/ Cancel(r) PROVE ClockInv'
  BY <1>5 DEF Runner, Emit, Send, Drop, SendErr, Return, Cancel
<1>6. ASSUME NEW t \in Tokens, Expire(t) \/ Forget(t) PROVE ClockInv'
  BY <1>6 DEF Expire, Forget
<1>7. CASE Rest \/ UNCHANGED vars
  BY <1>7 DEF Rest, vars
<1> QED
  BY <1>1, <1>2, <1>3, <1>4, <1>5, <1>6, <1>7 DEF Next, Environment, Handler

\* A result is replaced only by that of a later run, because the one that is
\* stored comes from the latest run of all.
LEMMA NextStatus ==
    TypeOK /\ LockInv /\ WorkInv /\ ClockInv /\ StatusCoversAnswers /\ [Next]_vars
        => StatusCoversAnswers'
<1> SUFFICES ASSUME TypeOK, LockInv, WorkInv, ClockInv, StatusCoversAnswers, [Next]_vars
             PROVE  StatusCoversAnswers'
  OBVIOUS
<1> USE DEF TypeOK, StatusCoversAnswers, PCs, Admitted, Locked, Streaming, Settling,
            Goto, netVars, runVars, boardVars
<1>1. ASSUME NEW r \in Requests,
             Arrive(r) \/ Gates(r) \/ CheckAndAdd(r) \/ DecodeBody(r)
      PROVE  StatusCoversAnswers'
  BY <1>1 DEF Arrive, Gates, CheckAndAdd, DecodeBody
<1>2. ASSUME NEW r \in Requests, Acquire(r) PROVE StatusCoversAnswers'
  BY <1>2 DEF Acquire
<1>3. ASSUME NEW r \in Requests,
             Receive(r) \/ Write(r) \/ Finish(r) \/ Reply(r) \/ Unlock(r)
      PROVE  StatusCoversAnswers'
  BY <1>3 DEF Receive, Write, Finish, Reply, Unlock
<1>4. ASSUME NEW r \in Requests, Store(r) PROVE StatusCoversAnswers'
  BY <1>4, ServerAssumption DEF Store, LockInv, WorkInv, ClockInv, Call, Result
<1>5. ASSUME NEW r \in Requests, Runner(r) \/ Cancel(r) PROVE StatusCoversAnswers'
  BY <1>5, ServerAssumption
  DEF Runner, Emit, Send, Drop, SendErr, Return, Cancel, WorkInv
<1>6. ASSUME NEW t \in Tokens, Expire(t) \/ Forget(t) PROVE StatusCoversAnswers'
  BY <1>6 DEF Expire, Forget
<1>7. CASE Rest \/ UNCHANGED vars
  BY <1>7 DEF Rest, vars
<1> QED
  BY <1>1, <1>2, <1>3, <1>4, <1>5, <1>6, <1>7 DEF Next, Environment, Handler

\* CheckAndAdd enters the token it lets past, and no other step adds to the cache
\* or takes an admission back.
LEMMA NextSeen == TypeOK /\ SeenInv /\ [Next]_vars => SeenInv'
<1> SUFFICES ASSUME TypeOK, SeenInv, [Next]_vars,
                    NEW t, t \in seen'
             PROVE  \E q \in Requests : SpentToken(q)' /\ call'[q].jti = t
  BY DEF SeenInv, Spent
<1>1. call' = call
  BY DEF Next, Environment, Handler, Runner, Rest, Arrive, Cancel, Expire, Forget,
         Gates, CheckAndAdd, DecodeBody, Acquire, Receive, Write, Finish, Store, Reply,
         Unlock, Emit, Send, Drop, Return, SendErr, vars, netVars
<1>2. ASSUME NEW q \in Requests, SpentToken(q)
      PROVE  SpentToken(q)'
  <2> USE <1>2 DEF TypeOK, SpentToken, PCs, Admitted, Locked, Streaming, Settling, Goto
  <2>1. ASSUME NEW r \in Requests, Handler(r) PROVE SpentToken(q)'
    BY <2>1
    DEF Handler, Gates, CheckAndAdd, DecodeBody, Acquire, Receive, Write, Finish, Store,
        Reply, Unlock
  <2>2. ASSUME NEW r \in Requests, Runner(r) \/ Arrive(r) \/ Cancel(r)
        PROVE  SpentToken(q)'
    BY <2>2 DEF Runner, Arrive, Cancel, Emit, Send, Drop, Return, SendErr
  <2>3. ASSUME NEW u \in Tokens, Expire(u) \/ Forget(u) PROVE SpentToken(q)'
    BY <2>3 DEF Expire, Forget
  <2>4. CASE Rest \/ UNCHANGED vars
    BY <2>4 DEF Rest, vars
  <2> QED
    BY <2>1, <2>2, <2>3, <2>4 DEF Next, Environment
<1>3. CASE t \in seen
  BY <1>1, <1>2, <1>3 DEF SeenInv, Spent
<1>4. CASE t \notin seen
  <2>1. PICK r \in Requests : CheckAndAdd(r)
    BY <1>4
    DEF Next, Environment, Handler, Runner, Rest, Arrive, Cancel, Expire, Forget,
        Gates, DecodeBody, Acquire, Receive, Write, Finish, Store, Reply,
        Unlock, Emit, Send, Drop, Return, SendErr, vars, netVars
  <2>2. call[r].jti = t /\ pc'[r] = "body"
    BY <1>4, <2>1 DEF CheckAndAdd, Goto, TypeOK
  <2> QED
    BY <1>1, <2>2 DEF SpentToken, Admitted
<1> QED
  BY <1>3, <1>4

\* The channel of one run is within its bounds.
ChanOf(r) == 0 <= Buffered(r) /\ Buffered(r) <= ChanCap

\* Send waits for room, Receive for an event; what else the handler and the run do
\* leaves the channel alone.
LEMMA StepKeepsChan ==
    ASSUME TypeOK, WorkInv, [Next]_vars, NEW q \in Requests, ChanOf(q)
    PROVE  ChanOf(q)'
<1> USE ServerAssumption
    DEF TypeOK, ChanOf, Buffered, PCs, Admitted, Locked, Streaming, Settling, Goto,
        netVars, runVars, boardVars
<1>1. ASSUME NEW r \in Requests,
             Arrive(r) \/ Gates(r) \/ CheckAndAdd(r) \/ DecodeBody(r)
      PROVE  ChanOf(q)'
  <2>1. /\ UNCHANGED <<offered, dropped, written, work>>
        /\ pc[r] # "writing"
        /\ \E p \in PCs \ {"writing"} : pc' = [pc EXCEPT ![r] = p]
    BY <1>1 DEF Arrive, Gates, CheckAndAdd, DecodeBody
  <2>2. pc'[q] = "writing" <=> pc[q] = "writing"
    BY <2>1
  <2> QED
    BY <2>1, <2>2
<1>2. ASSUME NEW r \in Requests, Acquire(r) PROVE ChanOf(q)'
  <2>1. work[r] = "none" /\ pc[r] = "queued"
    BY <1>2 DEF Acquire, WorkInv
  <2>2. /\ UNCHANGED <<offered, dropped, written>>
        /\ work' = [work EXCEPT ![r] = "working"] /\ pc' = [pc EXCEPT ![r] = "draining"]
    BY <1>2 DEF Acquire
  <2>3. /\ work'[q] = "emitting" <=> work[q] = "emitting"
        /\ pc'[q] = "writing" <=> pc[q] = "writing"
    BY <2>1, <2>2
  <2> QED
    BY <2>2, <2>3
<1>3. ASSUME NEW r \in Requests, Receive(r) PROVE ChanOf(q)'
  BY <1>3 DEF Receive
<1>4. ASSUME NEW r \in Requests, Write(r) PROVE ChanOf(q)'
  BY <1>4 DEF Write
<1>5. ASSUME NEW r \in Requests, Finish(r) \/ Store(r) \/ Reply(r) \/ Unlock(r)
      PROVE  ChanOf(q)'
  BY <1>5 DEF Finish, Store, Reply, Unlock
<1>6. ASSUME NEW r \in Requests, Emit(r) PROVE ChanOf(q)'
  BY <1>6 DEF Emit
<1>7. ASSUME NEW r \in Requests, Send(r) PROVE ChanOf(q)'
  BY <1>7 DEF Send
<1>8. ASSUME NEW r \in Requests, Drop(r) PROVE ChanOf(q)'
  BY <1>8 DEF Drop
<1>9. ASSUME NEW r \in Requests, SendErr(r) PROVE ChanOf(q)'
  BY <1>9 DEF SendErr
<1>10. ASSUME NEW r \in Requests, NEW status \in Statuses, Return(r, status)
       PROVE  ChanOf(q)'
  BY <1>10 DEF Return
<1>11. ASSUME NEW r \in Requests, Cancel(r) PROVE ChanOf(q)'
  BY <1>11 DEF Cancel
<1>12. ASSUME NEW t \in Tokens, Expire(t) \/ Forget(t) PROVE ChanOf(q)'
  BY <1>12 DEF Expire, Forget
<1>13. CASE Rest \/ UNCHANGED vars
  BY <1>13 DEF Rest, vars
<1> QED
  BY <1>1, <1>2, <1>3, <1>4, <1>5, <1>6, <1>7, <1>8, <1>9, <1>10, <1>11, <1>12, <1>13
  DEF Next, Environment, Handler, Runner

\* So every channel stays within its bounds.
LEMMA NextChan == TypeOK /\ WorkInv /\ ChanInv /\ [Next]_vars => ChanInv'
  BY StepKeepsChan DEF ChanInv, ChanOf

-----------------------------------------------------------------------------
(* The inductive invariant. *)

LEMMA InitIInv == Init => IInv
<1> SUFFICES ASSUME Init
             PROVE  IInv
  OBVIOUS
<1>1. TypeOK
  BY InitType
<1>2. LockInv /\ WorkInv /\ TokenInv /\ GateInv
  BY ServerAssumption
  DEF Init, LockInv, WorkInv, TokenInv, GateInv, SpentToken,
      Admitted, Locked, Streaming, Settling
<1>3. ClockInv
  BY DEF Init, ClockInv, Locked, Streaming, Settling
<1>4. AtMostOncePerToken /\ StreamIsComplete /\ StatusCoversAnswers
  BY DEF Init, AtMostOncePerToken, StreamIsComplete, StatusCoversAnswers, SpentToken,
         Admitted, Locked, Streaming, Settling
<1>5. SeenInv
  BY DEF Init, SeenInv
<1>6. ChanInv
  BY ServerAssumption DEF Init, ChanInv, Buffered
<1> QED
  BY <1>1, <1>2, <1>3, <1>4, <1>5, <1>6 DEF IInv

\* IInv holds in every reachable state.
THEOREM Invariance == Spec => []IInv
<1>1. IInv /\ [Next]_vars => IInv'
  BY NextType, NextLock, NextWork, NextToken, NextGate, NextClock, NextStream, NextStatus,
     NextSeen, NextChan
  DEF IInv
<1> QED
  BY <1>1, InitIInv, PTL DEF Spec

-----------------------------------------------------------------------------
(* What follows from it. *)

\* Every variable keeps its type, for any requests, tokens and capacities.
THEOREM TypeCorrect == Spec => []TypeOK
  BY Invariance, PTL DEF IInv

\* At most one run is changing the host, whatever endpoints are asked and however
\* many requests wait: an active run's handler is still in the locked section.
THEOREM MutualExclusion == Spec => []OneRunAtATime
<1>1. IInv => OneRunAtATime
  <2> SUFFICES ASSUME IInv, NEW q \in Requests, NEW r \in Requests, Active(q), Active(r)
               PROVE  q = r
    BY DEF OneRunAtATime
  <2>1. ASSUME NEW p \in Requests, Active(p) PROVE pc[p] \in Locked
    BY <2>1 DEF IInv, WorkInv, Active, Settling
  <2>2. applyMu = q /\ applyMu = r
    BY <2>1 DEF IInv, LockInv
  <2> QED
    BY <2>2
<1> QED
  BY <1>1, Invariance, PTL

\* No token is admitted twice in the daemon's life.
THEOREM AtMostOnce == Spec => []AtMostOncePerToken
  BY Invariance, PTL DEF IInv

\* A run belongs to a request that met every gate of its own endpoint.
THEOREM Authorised == Spec => []RunsAreAuthorised
<1>1. IInv => RunsAreAuthorised
  BY DEF IInv, RunsAreAuthorised, WorkInv, GateInv, Admitted
<1> QED
  BY <1>1, Invariance, PTL

\* No event is left behind when the result is recorded.
THEOREM StreamComplete == Spec => []StreamIsComplete
  BY Invariance, PTL DEF IInv

\* The status endpoints never deny or contradict a terminal line.
THEOREM StatusCovers == Spec => []StatusCoversAnswers
  BY Invariance, PTL DEF IInv

\* However many requests wait and however small the channel, the holder of applyMu
\* Who holds applyMu, or the run it waits for, can go on: a reader that finds the
\* channel empty has a run that is not blocked on it.
LEMMA HolderGoesOn ==
    ASSUME TypeOK, LockInv, WorkInv, NEW r \in Requests, applyMu = r, ChanOf(r)
    PROVE  HandlerCanGoOn(r) \/ RunCanGoOn(r)
<1>1. pc[r] \in Locked
  BY DEF LockInv
<1>2. CASE pc[r] # "draining"
  BY <1>1, <1>2 DEF HandlerCanGoOn, Locked, Streaming
<1>3. CASE pc[r] = "draining"
  <2>1. work[r] \in {"working", "emitting", "closed", "sent"}
    BY <1>1 DEF TypeOK, WorkInv
  <2>2. 0 <= Buffered(r) /\ Buffered(r) <= ChanCap /\ Buffered(r) \in Int
    BY DEF TypeOK, ChanOf, Buffered
  <2>3. CASE Buffered(r) > 0
    BY <1>3, <2>3 DEF HandlerCanGoOn
  <2>4. CASE Buffered(r) = 0
    BY <1>3, <2>1, <2>4, ServerAssumption
    DEF HandlerCanGoOn, RunCanGoOn, RunOver, Drained
  <2> QED
    BY <2>2, <2>3, <2>4
<1> QED
  BY <1>2, <1>3

\* or its run has a step to take: what Receive cannot do, Send or Finish can.
THEOREM NeverStuck == Spec => []LockIsNeverStuck
<1>1. IInv => LockIsNeverStuck
  BY HolderGoesOn DEF IInv, TypeOK, ChanInv, ChanOf, LockIsNeverStuck
<1> QED
  BY <1>1, Invariance, PTL

\* A last result is only ever replaced by that of a run started later.
THEOREM StatusOrdered == Spec => StatusNeverGoesBack
<1> DEFINE Forward ==
      \A e \in Endpoints :
          last'[e] # last[e] =>
              /\ last'[e] # NoResult
              /\ last[e] # NoResult => last'[e].startedAt > last[e].startedAt
<1>1. IInv /\ [Next]_vars => [Forward]_vars
  <2> SUFFICES ASSUME IInv, Next
               PROVE  Forward
    OBVIOUS
  <2>1. CASE UNCHANGED last
    BY <2>1
  <2>2. ASSUME NEW r \in Requests, Store(r) PROVE Forward
    <3>1. [req |-> r, startedAt |-> startedAt[r], status |-> errCh[r]] \in Result
      BY <2>2 DEF IInv, TypeOK, WorkInv, Settling, Store, Result
    <3> QED
      BY <2>2, <3>1, ServerAssumption
      DEF IInv, TypeOK, ClockInv, Locked, Settling, Store, Call, Result
  <2> QED
    BY <2>1, <2>2
    DEF Next, Environment, Handler, Runner, Rest, Arrive, Cancel, Expire, Forget,
        Gates, CheckAndAdd, DecodeBody, Acquire, Receive, Write, Finish, Reply,
        Unlock, Emit, Send, Drop, Return, SendErr, vars, boardVars
<1> QED
  BY <1>1, Invariance, PTL DEF Spec, StatusNeverGoesBack

-----------------------------------------------------------------------------
(* The refinement. *)

\* A step of the server is a run that begins, a run that ends, or neither.
LEMMA StepIsSerial == IInv /\ IInv' /\ [Next]_vars => [Serial!Next]_(Serial!vars)
<1> SUFFICES ASSUME IInv, IInv', [Next]_vars
             PROVE  [Serial!Next]_(Serial!vars)
  OBVIOUS
<1> USE ServerAssumption
    DEF IInv, TypeOK, Goto, netVars, runVars, boardVars,
        PCs, Admitted, Locked, Streaming, Settling, RunInProgress, TokensOfRuns
<1>1. ASSUME NEW r \in Requests,
             Arrive(r) \/ Gates(r) \/ CheckAndAdd(r) \/ DecodeBody(r)
      PROVE  UNCHANGED Serial!vars
  BY <1>1 DEF Arrive, Gates, CheckAndAdd, DecodeBody, LockInv, Serial!vars
<1>2. ASSUME NEW r \in Requests, Acquire(r)
      PROVE  Serial!Begin(r, call[r].endpoint, call[r].jti)
  <2>1. RunInProgress = NoRequest
    BY <1>2 DEF Acquire, LockFree
  <2>2. call[r].jti \notin TokensOfRuns
    BY <1>2 DEF Acquire, WorkInv, AtMostOncePerToken, SpentToken
  <2>3. TokensOfRuns' = TokensOfRuns \cup {call[r].jti}
    BY <1>2 DEF Acquire
  <2>4. RunInProgress' = [req |-> r, endpoint |-> call[r].endpoint, startedAt |-> clock + 1]
    BY <1>2 DEF Acquire
  <2> QED
    BY <1>2, <2>1, <2>2, <2>3, <2>4 DEF Acquire, Serial!Begin
<1>3. ASSUME NEW r \in Requests,
             Receive(r) \/ Write(r) \/ Finish(r) \/ Reply(r) \/ Unlock(r)
      PROVE  UNCHANGED Serial!vars
  BY <1>3 DEF Receive, Write, Finish, Reply, Unlock, LockInv, Serial!vars
<1>4. ASSUME NEW r \in Requests, Store(r) PROVE Serial!End(errCh[r])
  <2>1. applyMu = r
    BY <1>4 DEF Store, LockInv
  <2>2. RunInProgress = [req |-> r, endpoint |-> call[r].endpoint, startedAt |-> startedAt[r]]
    BY <1>4, <2>1 DEF Store
  <2>3. RunInProgress # NoRequest
    BY <2>2 DEF Call
  <2>4. RunInProgress' = NoRequest
    BY <1>4, <2>1 DEF Store
  <2>5. UNCHANGED TokensOfRuns
    BY <1>4 DEF Store
  <2> QED
    BY <1>4, <2>2, <2>3, <2>4, <2>5 DEF Store, Serial!End
<1>5. ASSUME NEW r \in Requests, Runner(r) \/ Cancel(r) PROVE UNCHANGED Serial!vars
  <2>1. UNCHANGED <<RunInProgress, clock, last>>
    BY <1>5 DEF Runner, Emit, Send, Drop, SendErr, Return, Cancel
  <2>2. UNCHANGED TokensOfRuns
    BY <1>5 DEF Runner, Emit, Send, Drop, SendErr, Return, Cancel
  <2> QED
    BY <2>1, <2>2 DEF Serial!vars
<1>6. ASSUME NEW t \in Tokens, Expire(t) \/ Forget(t) PROVE UNCHANGED Serial!vars
  BY <1>6 DEF Expire, Forget, Serial!vars
<1>7. CASE Rest \/ UNCHANGED vars
  BY <1>7 DEF Rest, vars, Serial!vars
<1>8. ASSUME NEW r \in Requests, Acquire(r) PROVE Serial!Next
  <2>1. call[r].endpoint \in Endpoints /\ call[r].jti \in Tokens
    BY DEF Call
  <2>2. Serial!Begin(r, call[r].endpoint, call[r].jti)
    BY <1>2, <1>8
  <2> HIDE DEF IInv, TypeOK, RunInProgress, TokensOfRuns
  <2> QED
    BY <2>1, <2>2, Zenon DEF Serial!Next
<1>9. ASSUME NEW r \in Requests, Store(r) PROVE Serial!Next
  <2>1. errCh[r] \in Serial!Statuses
    BY <1>9 DEF Store, WorkInv, Serial!Statuses, Statuses
  <2>2. Serial!End(errCh[r])
    BY <1>4, <1>9
  <2> HIDE DEF IInv, TypeOK, RunInProgress, TokensOfRuns
  <2> QED
    BY <2>1, <2>2, Zenon DEF Serial!Next, Serial!SomeEnd
<1>10. Serial!Next \/ UNCHANGED Serial!vars
  <2> HIDE DEF IInv, TypeOK, RunInProgress, TokensOfRuns
  <2> QED
    BY <1>1, <1>3, <1>5, <1>6, <1>7, <1>8, <1>9 DEF Next, Environment, Handler
<1> QED
  BY <1>10

\* The server implements SerialRuns: runs happen one at a time, each paid for by
\* a token of its own, and their results appear when they end.
THEOREM ServerIsSerial == Spec => RunsAreSerial
<1>1. Init => Serial!Init
  BY ServerAssumption
  DEF Init, Serial!Init, RunInProgress, TokensOfRuns
<1> QED
  BY <1>1, Invariance, StepIsSerial, PTL DEF Spec, RunsAreSerial, Serial!Spec

\* Gates is Hold, for a request that passes; a refused one holds nothing.
LEMMA GatesIsHold ==
    ASSUME IInv, NEW r \in Requests, Gates(r)
    PROVE  (\E t \in Tokens : Gate!Hold(r, t)) \/ UNCHANGED <<Held, Spent>>
<1> DEFINE t == call[r].jti
<1>1. /\ pc \in [Requests -> PCs] /\ pc[r] = "gates" /\ call' = call
      /\ pc' = [pc EXCEPT ![r] = IF PassesGates(r) THEN "checking" ELSE "refused"]
  BY DEF IInv, TypeOK, Gates, Goto, netVars
<1>2. t \in Tokens
  BY ServerAssumption DEF IInv, TypeOK, Call
<1>3. UNCHANGED Spent
  BY <1>1 DEF Spent, SpentToken, Admitted, Locked, Streaming, Settling
<1>4. CASE PassesGates(r)
  <2>1. \A u \in Tokens : <<r, u>> \notin Held
    BY <1>1 DEF Held
  <2>2. Held' = Held \cup {<<r, t>>}
    BY <1>1, <1>4 DEF Held
  <2> QED
    BY <1>2, <1>3, <2>1, <2>2 DEF Gate!Hold
<1>5. CASE ~PassesGates(r)
  BY <1>1, <1>3, <1>5 DEF Held
<1> QED
  BY <1>4, <1>5

\* CheckAndAdd is Accept or Refuse, by whether a request spent the token before.
LEMMA CheckIsAnswer ==
    ASSUME IInv, NEW r \in Requests, CheckAndAdd(r)
    PROVE  \E t \in Tokens : Gate!Accept(r, t) \/ Gate!Refuse(r, t)
<1> DEFINE t == call[r].jti
<1>1. /\ pc \in [Requests -> PCs] /\ pc[r] = "checking" /\ call' = call
      /\ pc' = [pc EXCEPT ![r] = IF t \in seen THEN "refused" ELSE "body"]
  BY DEF IInv, TypeOK, CheckAndAdd, Goto, netVars
<1>2. t \in Tokens
  BY ServerAssumption DEF IInv, TypeOK, Call
<1>3. <<r, t>> \in Held /\ Held' = Held \ {<<r, t>>}
  BY <1>1 DEF Held
<1> USE DEF SpentToken, Admitted, Locked, Streaming, Settling
<1>4. CASE t \in seen
  <2>1. t \in Spent
    BY <1>4 DEF IInv, SeenInv
  <2>2. Spent' = Spent
    BY <1>1, <1>4 DEF Spent
  <2> QED
    BY <1>2, <1>3, <2>1, <2>2 DEF Gate!Refuse
<1>5. CASE t \notin seen
  <2>1. t \notin Spent
    BY <1>1, <1>5 DEF IInv, TokenInv, Spent
  <2>2. Spent' = Spent \cup {t}
    BY <1>1, <1>5 DEF Spent
  <2> QED
    BY <1>2, <1>3, <2>1, <2>2 DEF Gate!Accept
<1> QED
  BY <1>4, <1>5

LEMMA StepIsGate == IInv /\ [Next]_vars => [Gate!Next]_(Gate!vars)
<1> SUFFICES ASSUME IInv, [Next]_vars
             PROVE  Gate!Next \/ UNCHANGED <<Held, Spent>>
  BY DEF Gate!vars
<1>1. ASSUME UNCHANGED <<call, pc>>
      PROVE  UNCHANGED <<Held, Spent>>
  BY <1>1 DEF Held, Spent, SpentToken
<1>2. ASSUME NEW r \in Requests, Gates(r)
      PROVE  Gate!Next \/ UNCHANGED <<Held, Spent>>
  BY <1>2, GatesIsHold DEF Gate!Next
<1>3. ASSUME NEW r \in Requests, CheckAndAdd(r)
      PROVE  Gate!Next
  BY <1>3, CheckIsAnswer DEF Gate!Next
<1>4. ASSUME NEW r \in Requests,
             Arrive(r) \/ DecodeBody(r) \/ Acquire(r) \/ Receive(r) \/ Write(r)
               \/ Finish(r) \/ Store(r) \/ Reply(r) \/ Unlock(r)
      PROVE  UNCHANGED <<Held, Spent>>
  <2>1. /\ pc \in [Requests -> PCs] /\ call' = call
        /\ \A q \in Requests : pc'[q] = "checking" <=> pc[q] = "checking"
        /\ \A q \in Requests : pc'[q] \in Admitted <=> pc[q] \in Admitted
    BY <1>4
    DEF IInv, TypeOK, PCs, Admitted, Locked, Streaming, Settling, Goto, netVars,
        Arrive, DecodeBody, Acquire, Receive, Write, Finish, Store, Reply, Unlock
  <2> QED
    BY <2>1 DEF Held, Spent, SpentToken
<1>5. ASSUME NEW r \in Requests, Runner(r) \/ Cancel(r)
      PROVE  UNCHANGED <<call, pc>>
  BY <1>5 DEF Runner, Emit, Send, Drop, SendErr, Return, Cancel, netVars
<1>6. ASSUME NEW t \in Tokens, Expire(t) \/ Forget(t)
      PROVE  UNCHANGED <<call, pc>>
  BY <1>6 DEF Expire, Forget, netVars
<1>7. ASSUME Rest \/ UNCHANGED vars
      PROVE  UNCHANGED <<call, pc>>
  BY <1>7 DEF Rest, vars
<1> QED
  BY <1>1, <1>2, <1>3, <1>4, <1>5, <1>6, <1>7 DEF Next, Environment, Handler

\* The server implements ReplayGate: what the handlers do with tokens, endpoints
\* racing and entries forgotten, comes to letting each past once, at its first
\* showing, and turning it away at every other (deploy_handler.go:43-46).
THEOREM ServerIsGate == Spec => FirstSightingsOnly
<1>1. Init => Gate!Init
  BY DEF Init, Gate!Init, Held, Spent, SpentToken, Admitted, Locked, Streaming, Settling
<1> QED
  BY <1>1, Invariance, StepIsGate, PTL DEF Spec, FirstSightingsOnly, Gate!Spec
=============================================================================
