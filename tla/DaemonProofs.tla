----------------------------- MODULE DaemonProofs -----------------------------
(***************************************************************************)
(* Proofs about Daemon, for any number of requests, tokens and restarts.   *)
(* What DeployServerProofs shows of one life of the process is used where  *)
(* it survives a restart; what it shows of the cache and the last results  *)
(* does not, and is restated here for the life the process is in.          *)
(***************************************************************************)
EXTENDS Daemon, DeployServerProofs

\* A process that is down serves no one.
DownInv == phase = "down" => \A r \in Requests : r \notin InFlight

\* A program that goes on alone belongs to a request that was cut off, by an exit
\* that left no other program.
OrphanInv ==
    /\ \A r \in orphans : pc[r] = "refused" /\ born[r] \in abrupt
    /\ \A q, r \in orphans : born[q] = born[r] => q = r

\* The run in progress is of this life, which has not ended yet.
BornInv ==
    /\ phase # "down" => starts \notin abrupt
    /\ \A r \in Requests : Active(r) => phase # "down" /\ born[r] = starts

Waits(r) == pc[r] \in {"body", "queued"}

\* No request that carries t will be let past the replay gate in this life.
Barred(t) ==
    \/ t \in seen
    \/ t \in expired /\ \A q \in Requests : pc[q] = "checking" => call[q].jti # t

\* Each life lets a token start one run: as long as it may, or a request that it
\* was let past the gate for has not started its run, there was none in this life.
TokenLifeInv ==
    /\ \A t \in Tokens :
          /\ ran[t] <= starts
          /\ ran[t] = starts => Barred(t)
    /\ \A r \in Requests : Waits(r) =>
          /\ Barred(call[r].jti)
          /\ ran[call[r].jti] < starts
          /\ \A q \in Requests : Waits(q) /\ call[q].jti = call[r].jti => q = r

MetGates(r) ==
    /\ call[r].endpoint \in Registered
    /\ call[r].ip /\ call[r].bearer /\ call[r].body
    /\ call[r].endpoint \in Pins[call[r].jti]

\* A program that goes on alone was let in by the gates of its day.
OrphanGateInv == \A r \in orphans : MetGates(r)

\* The channel of a request that was not cut off is within its bounds: of one that
\* was, the handler and the run lost what they had in their hands.
LifeChanInv == \A r \in Requests : pc[r] # "refused" => ChanOf(r)

DInv ==
    /\ DTypeOK /\ LockInv /\ WorkInv
    /\ GateInv /\ StreamIsComplete
    /\ DownInv /\ OrphanInv /\ BornInv /\ TokenLifeInv /\ StatusIsOfThisLife
    /\ OrphanGateInv /\ LifeChanInv

-----------------------------------------------------------------------------
LEMMA InitDInv == DInit => DInv
<1> SUFFICES ASSUME DInit PROVE DInv
  OBVIOUS
<1>1. TypeOK /\ LockInv /\ WorkInv /\ GateInv /\ StreamIsComplete
  BY InitIInv DEF DInit, IInv
<1>6. OrphanGateInv /\ LifeChanInv
  BY InitIInv DEF DInit, IInv, ChanInv, ChanOf, OrphanGateInv, LifeChanInv
<1>2. DTypeOK
  <2>1. 1 \in 1..MaxStarts /\ [t \in Tokens |-> 0] \in [Tokens -> Nat]
    BY DaemonAssumption
  <2>2. born \in [Requests -> 0..MaxStarts] /\ abrupt \subseteq 1..starts
    BY DaemonAssumption DEF DInit
  <2> QED
    BY <1>1, <2>1, <2>2 DEF DInit, DTypeOK
<1>3. DownInv /\ OrphanInv /\ BornInv
  BY DEF DInit, Init, DownInv, OrphanInv, BornInv, Active
<1>5. StatusIsOfThisLife
  BY DEF DInit, Init, StatusIsOfThisLife
<1>4. TokenLifeInv
  <2>1. starts = 1 /\ \A t \in Tokens : ran[t] = 0
    BY DEF DInit
  <2>2. \A r \in Requests : ~Waits(r)
    BY DEF DInit, Init, Waits
  <2> QED
    BY <2>1, <2>2 DEF TokenLifeInv
<1> QED
  BY <1>1, <1>2, <1>3, <1>4, <1>5, <1>6 DEF DInv

\* Whatever the daemon does short of an abrupt exit or a start is a step of the
\* server, or none.
LEMMA ServerStep ==
    ASSUME [DNext]_dvars, ~ExitAbruptly, ~Start
    PROVE  [Next]_vars
<1>1. ASSUME NEW r \in Requests, Serve(r) PROVE [Next]_vars
  BY <1>1 DEF Serve, Next, Environment
<1>2. ASSUME NEW t \in Tokens, Age(t) PROVE [Next]_vars
  BY <1>2 DEF Age, Next, Environment
<1>3. ASSUME \/ \E r \in Requests : OrphanEnds(r)
             \/ Terminate \/ ExitDrained \/ DRest \/ UNCHANGED dvars
      PROVE  [Next]_vars
  BY <1>3 DEF OrphanEnds, Terminate, ExitDrained, DRest, dvars
<1> QED
  BY <1>1, <1>2, <1>3 DEF DNext

\* Types, the lock and the runs' goroutines: they survive both exits and starts.
LEMMA NextServer ==
    DInv /\ [DNext]_dvars => DTypeOK' /\ LockInv' /\ WorkInv'
<1> SUFFICES ASSUME DInv, [DNext]_dvars PROVE DTypeOK' /\ LockInv' /\ WorkInv'
  OBVIOUS
<1>1. TypeOK' /\ LockInv' /\ WorkInv'
  <2>1. CASE ~ExitAbruptly /\ ~Start
    BY <2>1, ServerStep, NextType, NextLock, NextWork DEF DInv, DTypeOK
  <2>2. CASE ExitAbruptly
    BY <2>2, ServerAssumption
    DEF ExitAbruptly, InFlight, DInv, DTypeOK, TypeOK, LockInv, WorkInv, PCs, Admitted,
        Locked, Streaming, Settling, netVars, boardVars
  <2>3. CASE Start
    BY <2>3
    DEF Start, DInv, DTypeOK, TypeOK, LockInv, WorkInv, netVars, runVars
  <2> QED
    BY <2>1, <2>2, <2>3
<1> DEFINE Life == /\ phase' \in {"up", "draining", "down"}
                   /\ starts' \in 1..MaxStarts
                   /\ orphans' \subseteq Requests
                   /\ ran' \in [Tokens -> Nat]
                   /\ born' \in [Requests -> 0..MaxStarts]
                   /\ abrupt' \subseteq 1..starts'
<1>2. Life
  <2>0. DTypeOK
    BY DEF DInv
  <2>1. ASSUME NEW r \in Requests, Serve(r) PROVE Life
    <3>1. ran \in [Tokens -> Nat] /\ call[r].jti \in Tokens
      BY <2>0, ServerAssumption DEF DTypeOK, TypeOK, Call
    <3>2. ran' = ran \/ ran' = [ran EXCEPT ![call[r].jti] = @ + 1]
      BY <2>1 DEF Serve
    <3>3. ran' \in [Tokens -> Nat]
      BY <3>1, <3>2
    <3>4. born' \in [Requests -> 0..MaxStarts]
      BY <2>0, <2>1 DEF Serve, DTypeOK
    <3> QED
      BY <2>0, <2>1, <3>3, <3>4 DEF Serve, DTypeOK
  <2>2. ASSUME NEW t \in Tokens, Age(t) PROVE Life
    BY <2>0, <2>2 DEF Age, lifeVars, DTypeOK
  <2>3. CASE Terminate \/ ExitDrained
    BY <2>0, <2>3 DEF Terminate, ExitDrained, DTypeOK
  <2>6. CASE ExitAbruptly
    <3>1. starts \in 1..starts
      BY <2>0, DaemonAssumption DEF DTypeOK
    <3>2. /\ phase' = "down" /\ UNCHANGED <<starts, ran, born>>
          /\ orphans' \in {orphans, orphans \cup {r \in Requests : Active(r)}}
          /\ abrupt' = abrupt \cup {starts}
      BY <2>6 DEF ExitAbruptly
    <3> QED
      BY <2>0, <3>1, <3>2 DEF DTypeOK
  <2>4. CASE Start
    BY <2>0, <2>4, DaemonAssumption DEF Start, DTypeOK
  <2>5. CASE (\E r \in Requests : OrphanEnds(r)) \/ DRest \/ UNCHANGED dvars
    BY <2>0, <2>5 DEF OrphanEnds, DRest, dvars, lifeVars, DTypeOK
  <2> QED
    BY <2>1, <2>2, <2>3, <2>4, <2>5, <2>6 DEF DNext
<1> QED
  BY <1>1, <1>2 DEF DTypeOK

\* Who is refused, or cut off, stays so.
LEMMA RefusedStays ==
    ASSUME TypeOK, [DNext]_dvars, NEW r \in Requests, pc[r] = "refused"
    PROVE  pc'[r] = "refused"
<1>1. ASSUME NEW q \in Requests, Serve(q) PROVE pc'[r] = "refused"
  BY <1>1
  DEF Serve, Arrive, Cancel, Handler, Gates, CheckAndAdd, DecodeBody, Acquire, Receive,
      Write, Finish, Store, Reply, Unlock, Runner, Emit, Send, Drop, SendErr, Return,
      Goto, TypeOK
<1>2. CASE ExitAbruptly
  BY <1>2 DEF ExitAbruptly
<1>3. CASE \/ \E t \in Tokens : Age(t)
           \/ Terminate \/ ExitDrained \/ Start \/ DRest \/ UNCHANGED dvars
           \/ \E q \in Requests : OrphanEnds(q)
  BY <1>3
  DEF Age, Expire, Forget, Terminate, ExitDrained, Start, DRest, OrphanEnds, dvars, vars
<1> QED
  BY <1>1, <1>2, <1>3 DEF DNext

\* Who is down serves no one, and only who was cut off leaves a program.
LEMMA NextDown ==
    DInv /\ [DNext]_dvars => DownInv' /\ OrphanInv' /\ BornInv'
<1> DEFINE Goal == DownInv' /\ OrphanInv' /\ BornInv'
<1> SUFFICES ASSUME DInv, [DNext]_dvars PROVE Goal
  OBVIOUS
<1>0. /\ TypeOK /\ LockInv /\ WorkInv /\ DownInv /\ OrphanInv /\ BornInv
      /\ orphans \subseteq Requests
      /\ starts \in Nat /\ abrupt \subseteq 1..starts
      /\ born \in [Requests -> 0..MaxStarts]
  BY DEF DInv, DTypeOK
<1>1. ASSUME NEW r \in Requests, Serve(r) PROVE Goal
  <2>1. phase' # "down" /\ UNCHANGED <<phase, starts, orphans, abrupt>>
    BY <1>1 DEF Serve, Running
  <2>2. \A q \in Requests : pc[q] = "refused" => pc'[q] = "refused"
    BY <1>0, RefusedStays
  <2>3. \A q \in Requests : q # r \/ pc[r] # "queued" => born'[q] = born[q]
    BY <1>0, <1>1 DEF Serve, StartsRun
  <2>4. OrphanInv'
    BY <1>0, <2>1, <2>2, <2>3 DEF OrphanInv
  <2>5. ASSUME NEW q \in Requests, Active(q)' PROVE born'[q] = starts
    <3>1. CASE Acquire(r)
      <4>1. q = r \/ Active(q)
        BY <1>0, <2>5, <3>1 DEF Acquire, Active, TypeOK
      <4>2. born'[r] = starts
        BY <1>0, <1>1, <3>1 DEF Serve, StartsRun, Acquire, Goto, TypeOK
      <4> QED
        BY <1>0, <2>3, <4>1, <4>2 DEF BornInv
    <3>2. CASE ~Acquire(r)
      <4>1. Active(q)
        BY <1>0, <1>1, <2>5, <3>2
        DEF Serve, Arrive, Cancel, Handler, Gates, CheckAndAdd, DecodeBody, Receive, Write,
            Finish, Store, Reply, Unlock, Runner, Emit, Send, Drop, SendErr, Return,
            Active, TypeOK, runVars
      <4>2. pc[q] # "queued"
        BY <1>0, <4>1 DEF WorkInv, Active, Locked, Streaming, Settling
      <4> QED
        BY <1>0, <2>3, <4>1, <4>2 DEF BornInv
    <3> QED
      BY <3>1, <3>2
  <2> QED
    BY <1>0, <2>1, <2>4, <2>5 DEF DownInv, BornInv
<1>2. ASSUME NEW t \in Tokens, Age(t) PROVE Goal
  BY <1>0, <1>2
  DEF Age, Expire, Forget, lifeVars, runVars, DownInv, OrphanInv, BornInv, InFlight, Active
<1>3. CASE Terminate
  BY <1>0, <1>3 DEF Terminate, vars, DownInv, OrphanInv, BornInv, InFlight, Active
<1>4. CASE ExitAbruptly
  <2>1. \A r \in Requests :
          /\ pc'[r] = IF r \in InFlight THEN "refused" ELSE pc[r]
          /\ work'[r] = IF r \in InFlight THEN "none" ELSE work[r]
    BY <1>4 DEF ExitAbruptly
  <2>2. \A r \in Requests : Active(r) => r \in InFlight
    BY <1>0 DEF Active, WorkInv, InFlight, Locked, Streaming, Settling
  <2>3. DownInv'
    BY <2>1 DEF DownInv, InFlight
  <2>4. \A r \in Requests : ~Active(r)'
    BY <2>1, <2>2 DEF Active
  <2>5. phase # "down" /\ phase' = "down" /\ born' = born /\ starts' = starts
        /\ abrupt' = abrupt \cup {starts}
    BY <1>4 DEF ExitAbruptly
  <2>6. \A r \in orphans' : r \in orphans \/ (r \in Requests /\ Active(r))
    BY <1>4 DEF ExitAbruptly
  <2>7. \A q, r \in Requests : Active(q) /\ Active(r) => q = r
    BY <1>0 DEF Active, LockInv, WorkInv, Locked, Settling
  <2>8. \A r \in orphans' : pc'[r] = "refused" /\ born'[r] \in abrupt'
    BY <1>0, <2>1, <2>2, <2>5, <2>6 DEF OrphanInv, BornInv, InFlight
  <2>9. \A q, r \in orphans' : born'[q] = born'[r] => q = r
    BY <1>0, <2>5, <2>6, <2>7 DEF OrphanInv, BornInv
  <2> QED
    BY <2>3, <2>4, <2>5, <2>8, <2>9 DEF OrphanInv, BornInv
<1>5. CASE Start
  BY <1>0, <1>5 DEF Start, DownInv, OrphanInv, BornInv, runVars, Active
<1>6. ASSUME NEW r \in Requests, OrphanEnds(r) PROVE Goal
  BY <1>0, <1>6 DEF OrphanEnds, vars, DownInv, OrphanInv, BornInv, InFlight, Active
<1>7. CASE DRest \/ UNCHANGED dvars
  BY <1>0, <1>7
  DEF DRest, dvars, vars, lifeVars, DownInv, OrphanInv, BornInv, InFlight, Active
<1>8. CASE ExitDrained
  <2>1. \A r \in Requests : ~Active(r)
    BY <1>0, <1>8
    DEF ExitDrained, Quiesced, Active, WorkInv, InFlight, Locked, Streaming, Settling
  <2> QED
    BY <1>0, <1>8, <2>1
    DEF ExitDrained, Quiesced, vars, DownInv, OrphanInv, BornInv, InFlight, Active
<1> QED
  BY <1>1, <1>2, <1>3, <1>4, <1>5, <1>6, <1>7, <1>8 DEF DNext

\* A life lets a token start one run.
LEMMA NextTokenLife == DInv /\ [DNext]_dvars => TokenLifeInv'
<1> SUFFICES ASSUME DInv, [DNext]_dvars PROVE TokenLifeInv'
  OBVIOUS
<1>0. /\ TypeOK /\ TokenLifeInv /\ DownInv
      /\ ran \in [Tokens -> Nat] /\ starts \in Nat
      /\ \A r \in Requests : call[r].jti \in Tokens
  BY ServerAssumption, DaemonAssumption DEF DInv, DTypeOK, TypeOK, Call
<1> USE <1>0 DEF TypeOK, TokenLifeInv, Waits, Barred
<1>1. ASSUME NEW r \in Requests, Serve(r) PROVE TokenLifeInv'
  <2> USE DEF Goto, netVars, runVars, boardVars
  <2>0. starts' = starts /\ (ran' # ran => pc[r] = "queued" /\ pc'[r] = "draining")
    BY <1>1 DEF Serve, StartsRun
  <2>1. CASE Arrive(r)
    BY <2>0, <2>1 DEF Arrive
  <2>2. CASE Gates(r)
    BY <2>0, <2>2 DEF Gates, PassesGates, Validates
  <2>3. CASE CheckAndAdd(r)
    <3>1. /\ ran' = ran /\ call' = call /\ expired' = expired
          /\ seen' = seen \cup {call[r].jti}
          /\ \A q \in Requests : pc'[q] = IF q # r THEN pc[q]
                                          ELSE IF call[r].jti \in seen THEN "refused" ELSE "body"
      BY <2>0, <2>3 DEF CheckAndAdd
    <3>2. \A t \in Tokens : Barred(t) => Barred(t)'
      BY <3>1
    <3>3. pc[r] = "checking" /\ Barred(call[r].jti)'
      BY <2>3, <3>1 DEF CheckAndAdd
    <3>4. ASSUME Waits(r)'
          PROVE  ~Barred(call[r].jti)
      BY <3>1, <3>3, <3>4
    <3>5. \A q \in Requests : Waits(q)' => q = r \/ Waits(q)
      BY <3>1
    <3>6. Waits(r)' => /\ ran[call[r].jti] < starts
                       /\ \A q \in Requests : Waits(q) => call[q].jti # call[r].jti
      <4> HIDE DEF Barred, Waits
      <4> QED
        BY <3>4
    <3> HIDE DEF Barred, Waits
    <3> QED
      BY <2>0, <3>1, <3>2, <3>3, <3>5, <3>6
  <2>4. CASE DecodeBody(r)
    BY <2>0, <2>4 DEF DecodeBody
  <2>5. CASE Acquire(r)
    <3>1. ran' = [ran EXCEPT ![call[r].jti] = @ + 1]
      BY <1>1, <2>5 DEF Serve, StartsRun, Acquire
    <3>2. \A t \in Tokens : ran'[t] = IF t = call[r].jti THEN ran[t] + 1 ELSE ran[t]
      BY <3>1
    <3>3. \A t \in Tokens : Barred(t) => Barred(t)'
      BY <2>5 DEF Acquire
    <3>4. \A q \in Requests : Waits(q)' => Waits(q) /\ q # r
      BY <2>5 DEF Acquire
    <3>5. call' = call /\ Waits(r)
      BY <2>5 DEF Acquire
    <3> HIDE DEF Waits, Barred
    <3> QED
      BY <2>0, <3>2, <3>3, <3>4, <3>5
  <2>6. CASE Receive(r) \/ Write(r) \/ Finish(r) \/ Store(r) \/ Reply(r) \/ Unlock(r)
    BY <2>0, <2>6 DEF Receive, Write, Finish, Store, Reply, Unlock
  <2>7. CASE Runner(r) \/ Cancel(r)
    BY <2>0, <2>7 DEF Runner, Emit, Send, Drop, SendErr, Return, Cancel
  <2> QED
    BY <1>1, <2>1, <2>2, <2>3, <2>4, <2>5, <2>6, <2>7 DEF Serve, Handler
<1>2. ASSUME NEW t \in Tokens, Age(t) PROVE TokenLifeInv'
  BY <1>2 DEF Age, Expire, Forget, Dead, lifeVars, netVars, runVars, boardVars
<1>3. CASE Terminate \/ ExitDrained \/ DRest \/ UNCHANGED dvars
  BY <1>3 DEF Terminate, ExitDrained, DRest, dvars, vars, lifeVars
<1>4. CASE ExitAbruptly
  <2>1. /\ UNCHANGED <<call, expired, seen, starts, ran>>
        /\ \A r \in Requests : pc'[r] = pc[r] \/ pc'[r] = "refused"
    BY <1>4 DEF ExitAbruptly, netVars
  <2> QED
    BY <2>1
<1>5. CASE Start
  <2>1. \A r \in Requests : ~Waits(r)'
    BY <1>5 DEF Start, DownInv, InFlight
  <2>2. starts' = starts + 1 /\ ran' = ran
    BY <1>5 DEF Start
  <2> QED
    BY <2>1, <2>2
<1>6. ASSUME NEW r \in Requests, OrphanEnds(r) PROVE TokenLifeInv'
  BY <1>6 DEF OrphanEnds, vars
<1> QED
  BY <1>1, <1>2, <1>3, <1>4, <1>5, <1>6 DEF DNext

\* What /status shows.
LEMMA NextBoardOfLife == DInv /\ [DNext]_dvars => StatusIsOfThisLife'
<1> SUFFICES ASSUME DInv, [DNext]_dvars PROVE StatusIsOfThisLife'
  OBVIOUS
<1>0. TypeOK /\ WorkInv /\ OrphanInv /\ StatusIsOfThisLife /\ NoResult \notin Result
  BY ServerAssumption DEF DInv, DTypeOK
<1>s. \A e \in Endpoints : last[e] # NoResult => last[e].req \in Requests
  BY <1>0 DEF TypeOK, Result
<1> USE DEF StatusIsOfThisLife
<1>1. ASSUME NEW r \in Requests, Serve(r) PROVE StatusIsOfThisLife'
  <2>0. phase # "down" /\ phase' = phase /\ orphans' = orphans
    BY <1>1 DEF Serve, Running
  <2>1. \A q \in Requests : work[q] = "sent" => work'[q] = "sent"
    BY <1>0, <1>1
    DEF Serve, Arrive, Cancel, Handler, Gates, CheckAndAdd, DecodeBody, Acquire, Receive,
        Write, Finish, Store, Reply, Unlock, Runner, Emit, Send, Drop, SendErr, Return,
        Goto, TypeOK, WorkInv, runVars, Locked, Streaming, Settling
  <2>2. CASE Store(r)
    <3>1. work[r] = "sent" /\ r \notin orphans
      BY <1>0, <2>2 DEF Store, WorkInv, OrphanInv, Settling
    <3>2. \A e \in Endpoints : last'[e] = last[e] \/ last'[e].req = r
      BY <1>0, <2>2 DEF Store, TypeOK
    <3> QED
      BY <1>0, <1>s, <2>0, <2>1, <3>1, <3>2
  <2>3. CASE ~Store(r)
    <3>1. last' = last
      BY <1>1, <2>3
      DEF Serve, Arrive, Cancel, Handler, Gates, CheckAndAdd, DecodeBody, Acquire, Receive,
          Write, Finish, Reply, Unlock, Runner, Emit, Send, Drop, SendErr, Return, boardVars
    <3> QED
      BY <1>0, <1>s, <2>0, <2>1, <3>1
  <2> QED
    BY <2>2, <2>3
<1>2. ASSUME NEW t \in Tokens, Age(t) PROVE StatusIsOfThisLife'
  BY <1>0, <1>2 DEF Age, Expire, Forget, lifeVars, runVars, boardVars
<1>3. CASE Terminate \/ ExitDrained \/ DRest \/ UNCHANGED dvars
  BY <1>0, <1>3 DEF Terminate, ExitDrained, DRest, dvars, vars, lifeVars
<1>4. CASE ExitAbruptly
  <2>1. \A e \in Endpoints : last[e] # NoResult => last[e].req \notin orphans'
    BY <1>0, <1>s, <1>4 DEF ExitAbruptly, Active
  <2> QED
    BY <1>4, <2>1 DEF ExitAbruptly, boardVars
<1>5. CASE Start
  BY <1>5 DEF Start
<1>6. ASSUME NEW r \in Requests, OrphanEnds(r) PROVE StatusIsOfThisLife'
  BY <1>0, <1>6 DEF OrphanEnds, vars
<1> QED
  BY <1>1, <1>2, <1>3, <1>4, <1>5, <1>6 DEF DNext

\* What the gates established and what was streamed also survive both.
LEMMA NextGatesOfLife ==
    DInv /\ [DNext]_dvars => GateInv' /\ StreamIsComplete'
<1> SUFFICES ASSUME DInv, [DNext]_dvars PROVE GateInv' /\ StreamIsComplete'
  OBVIOUS
<1>1. CASE ~ExitAbruptly /\ ~Start
  BY <1>1, ServerStep, NextGate, NextStream DEF DInv, DTypeOK
<1>2. CASE ExitAbruptly
  <2>1. \A r \in Requests : pc'[r] = pc[r] \/ pc'[r] = "refused"
    BY <1>2 DEF ExitAbruptly
  <2>2. UNCHANGED <<call, cancelled, offered, written, dropped>>
    BY <1>2 DEF ExitAbruptly, netVars
  <2> QED
    BY <2>1, <2>2
    DEF DInv, GateInv, StreamIsComplete, Admitted, Locked, Streaming, Settling
<1>3. CASE Start
  BY <1>3 DEF Start, DInv, GateInv, StreamIsComplete, netVars, runVars
<1> QED
  BY <1>1, <1>2, <1>3

\* What a request carries is settled by its client.
LEMMA CallStays == [DNext]_dvars => call' = call
<1>1. [Next]_vars => call' = call
  BY DEF Next, Environment, Handler, Runner, Rest, Arrive, Cancel, Expire, Forget,
         Gates, CheckAndAdd, DecodeBody, Acquire, Receive, Write, Finish, Store, Reply,
         Unlock, Emit, Send, Drop, Return, SendErr, vars, netVars
<1>2. ExitAbruptly \/ Start => call' = call
  BY DEF ExitAbruptly, Start, netVars
<1> QED
  BY <1>1, <1>2, ServerStep

\* A run that is cut off has been through the gates.
LEMMA NextOrphanGate == DInv /\ [DNext]_dvars => OrphanGateInv'
<1> SUFFICES ASSUME DInv, [DNext]_dvars PROVE OrphanGateInv'
  OBVIOUS
<1>1. \A r \in orphans' : r \in orphans \/ (r \in Requests /\ Active(r))
  BY DEF DNext, Serve, Age, Terminate, ExitDrained, ExitAbruptly, Start, OrphanEnds, DRest,
         dvars, lifeVars
<1>2. \A r \in Requests : Active(r) => MetGates(r)
  BY DEF DInv, WorkInv, GateInv, Active, MetGates, Admitted, Settling
<1>3. call' = call
  BY CallStays
<1> QED
  BY <1>1, <1>2, <1>3 DEF DInv, OrphanGateInv, MetGates

\* The channels of the requests that were not cut off.
LEMMA NextLifeChan == DInv /\ [DNext]_dvars => LifeChanInv'
<1> SUFFICES ASSUME DInv, [DNext]_dvars, NEW r \in Requests, pc'[r] # "refused"
             PROVE  ChanOf(r)'
  BY DEF LifeChanInv
<1>1. pc[r] # "refused" /\ ChanOf(r)
  BY RefusedStays DEF DInv, DTypeOK, LifeChanInv
<1>2. CASE ~ExitAbruptly /\ ~Start
  BY <1>1, <1>2, ServerStep, StepKeepsChan DEF DInv, DTypeOK
<1>3. CASE ExitAbruptly
  <2>1. /\ pc'[r] = pc[r] /\ work'[r] = work[r]
        /\ UNCHANGED <<offered, dropped, written>>
    BY <1>3 DEF ExitAbruptly
  <2> QED
    BY <1>1, <2>1 DEF ChanOf, Buffered
<1>4. CASE Start
  BY <1>1, <1>4 DEF Start, runVars, ChanOf, Buffered
<1> QED
  BY <1>2, <1>3, <1>4

LEMMA DInvariance == DSpec => []DInv
<1>1. DInv /\ [DNext]_dvars => DInv'
  BY NextServer, NextDown, NextTokenLife, NextBoardOfLife, NextGatesOfLife,
     NextOrphanGate, NextLifeChan
  DEF DInv
<1> QED
  BY InitDInv, <1>1, PTL DEF DSpec

-----------------------------------------------------------------------------
\* Programs that are at work at once are of different lives, and all but the one
\* of the last were left by an exit that abandoned a request.
THEOREM OverlapNeedsAbruptExit == DSpec => []OverlapTakesAbruptExit
<1>1. DInv => OverlapTakesAbruptExit
  <2> SUFFICES ASSUME DInv, NEW q \in Programs, NEW r \in Programs, q # r
               PROVE  /\ born[q] # born[r]
                      /\ born[q] < born[r] => born[q] \in abrupt
    BY DEF OverlapTakesAbruptExit
  <2>1. \A p \in Programs : p \in orphans \/ (p \in Requests /\ Active(p))
    BY DEF Programs
  <2>2. \A p \in orphans : born[p] \in abrupt /\ born[p] <= starts
    BY DEF DInv, DTypeOK, OrphanInv
  <2>3. \A p \in Requests : Active(p) =>
           /\ pc[p] \in Locked
           /\ born[p] = starts /\ starts \notin abrupt
    BY DEF DInv, WorkInv, BornInv, Active, Locked, Settling
  <2>4. ~(q \in Requests /\ Active(q) /\ r \in Requests /\ Active(r))
    BY <2>3 DEF DInv, LockInv
  <2>5. starts \in Nat
    BY DaemonAssumption DEF DInv, DTypeOK
  <2>6. CASE q \in orphans
    BY <2>1, <2>2, <2>3, <2>6 DEF DInv, OrphanInv
  <2>7. CASE q \in Requests /\ Active(q) /\ r \in orphans
    <3>1. born[q] = starts /\ born[r] \in abrupt /\ born[r] <= starts
      BY <2>2, <2>3, <2>7
    <3>2. starts \notin abrupt /\ born[r] \in Nat
      BY <2>3, <2>5, <2>7, <3>1 DEF DInv, DTypeOK
    <3> QED
      BY <2>5, <3>1, <3>2
  <2> QED
    BY <2>1, <2>4, <2>6, <2>7
<1> QED
  BY <1>1, DInvariance, PTL

\* A token starts no more runs than the daemon has had lives.
THEOREM SecondRunNeedsRestart == DSpec => []SecondRunTakesRestart
<1>1. DInv => SecondRunTakesRestart
  BY DEF DInv, TokenLifeInv, SecondRunTakesRestart
<1> QED
  BY <1>1, DInvariance, PTL

\* What /status shows belongs to the life of the daemon that shows it.
THEOREM StatusOfThisLife == DSpec => []StatusIsOfThisLife
<1>1. DInv => StatusIsOfThisLife
  BY DEF DInv
<1> QED
  BY <1>1, DInvariance, PTL

\* Whatever lives the daemon has had, a program that is at work was let in by the
\* gates of its own endpoint.
THEOREM ProgramsAuthorised == DSpec => []ProgramsAreAuthorised
<1>1. DInv => ProgramsAreAuthorised
  <2> SUFFICES ASSUME DInv, NEW r \in Programs PROVE MetGates(r)
    BY DEF ProgramsAreAuthorised, MetGates
  <2>1. CASE r \in orphans
    BY <2>1 DEF DInv, OrphanGateInv
  <2>2. CASE r \in Requests /\ Active(r)
    BY <2>2 DEF DInv, WorkInv, GateInv, Active, MetGates, Admitted, Settling
  <2> QED
    BY <2>1, <2>2 DEF Programs
<1> QED
  BY <1>1, DInvariance, PTL

\* No exit and no restart leaves applyMu with a holder that will not release it.
THEOREM NeverStuckInAnyLife == DSpec => []LockIsNeverStuck
<1>1. DInv => LockIsNeverStuck
  <2> SUFFICES ASSUME DInv, applyMu # NoRequest
               PROVE  HandlerCanGoOn(applyMu) \/ RunCanGoOn(applyMu)
    BY DEF LockIsNeverStuck
  <2>1. applyMu \in Requests /\ TypeOK /\ LockInv /\ WorkInv
    BY DEF DInv, DTypeOK, TypeOK
  <2>2. pc[applyMu] # "refused"
    BY <2>1 DEF LockInv, Locked, Streaming, Settling
  <2>3. ChanOf(applyMu)
    BY <2>1, <2>2 DEF DInv, LifeChanInv
  <2> QED
    BY <2>1, <2>3, HolderGoesOn
<1> QED
  BY <1>1, DInvariance, PTL

\* In every life the terminal line comes after every event of its run.
THEOREM StreamCompleteInAnyLife == DSpec => []StreamIsComplete
<1>1. DInv => StreamIsComplete
  BY DEF DInv
<1> QED
  BY <1>1, DInvariance, PTL
=============================================================================
