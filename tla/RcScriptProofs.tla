---------------------------- MODULE RcScriptProofs ----------------------------
(***************************************************************************)
(* Proofs about RcScript, for any number of pids, invocations and polls.   *)
(***************************************************************************)
EXTENDS RcScript, TLAPS

\* Where the one daemon is to be found while invocation i is at its step.
Located(i) ==
    /\ step[i] \in {"stop", "term", "start", "recheck"} =>
         \A p \in Pids : IsDaemon(p) => pidfile = p
    /\ step[i] \in {"poll", "kill", "write"} =>
         \A p \in Pids : IsDaemon(p) => pid[i] = p
    /\ step[i] \in {"remove", "launch"} => \A p \in Pids : ~IsDaemon(p)

\* Invocations follow one another, and each knows where the daemon is.
Orderly ==
    /\ \A i, j \in Invocations : Busy(i) /\ Busy(j) => i = j
    /\ AllIdle => \A p \in Pids : IsDaemon(p) => pidfile = p
    /\ \A i \in Invocations : Located(i)

\* stop looks a bounded number of times.
PollInv == \A i \in Invocations : step[i] = "poll" => polls[i] < Polls

IInv == TypeOK /\ PollInv /\ (~disturbed => Orderly)

-----------------------------------------------------------------------------
\* Type correctness.
LEMMA NextType == TypeOK /\ PollInv /\ [Next]_vars => TypeOK'
<1> SUFFICES ASSUME TypeOK, PollInv, [Next]_vars PROVE TypeOK'
  OBVIOUS
<1> USE RcAssumption DEF TypeOK, Become, Goto, scriptVars, Live, Steps
<1>1. ASSUME NEW p \in Pids, Listen(p) \/ Die(p) \/ Recycle(p) PROVE TypeOK'
  BY <1>1 DEF Listen, Die, Recycle
<1>2. ASSUME NEW i \in Invocations, NEW what \in {"start", "stop", "restart"},
             Invoke(i, what)
      PROVE  TypeOK'
  <2>1. disturbed' \in BOOLEAN
    BY <1>2, Zenon DEF Invoke
  <2> QED
    BY <1>2, <2>1 DEF Invoke
<1>3. ASSUME NEW i \in Invocations, Interrupt(i) PROVE TypeOK'
  BY <1>3 DEF Interrupt
<1>4. ASSUME NEW i \in Invocations, Term(i) PROVE TypeOK'
  BY <1>4 DEF Term, AfterTerm
<1>5. ASSUME NEW i \in Invocations, Poll(i) PROVE TypeOK'
  BY <1>5 DEF Poll, PollInv
<1>6. ASSUME NEW i \in Invocations, StopChecks(i) \/ Kill(i) \/ Remove(i) PROVE TypeOK'
  <2>1. AfterStop(i) \in {"start", "idle"}
    BY DEF AfterStop
  <2>2. CASE StopChecks(i)
    BY <2>1, <2>2 DEF StopChecks
  <2>3. CASE Kill(i)
    BY <2>3 DEF Kill, Exists
  <2>4. CASE Remove(i)
    BY <2>1, <2>4 DEF Remove
  <2> QED
    BY <1>6, <2>2, <2>3, <2>4
<1>7. ASSUME NEW i \in Invocations, StartChecks(i) \/ WritePid(i) \/ Recheck(i)
      PROVE  TypeOK'
  BY <1>7 DEF StartChecks, WritePid, Recheck
<1>8. ASSUME NEW i \in Invocations, NEW p \in Pids, Launch(i, p) PROVE TypeOK'
  BY <1>8 DEF Launch
<1>9. CASE UNCHANGED vars
  BY <1>9 DEF vars
<1> QED
  BY <1>1, <1>2, <1>3, <1>4, <1>5, <1>6, <1>7, <1>8, <1>9 DEF Next, Script

\* Every step keeps the bound on the looks.
LEMMA NextPoll == TypeOK /\ PollInv /\ [Next]_vars => PollInv'
  BY RcAssumption
  DEF TypeOK, PollInv, Next, Listen, Die, Recycle, Invoke, Interrupt, Script, StopChecks,
      AfterStop, Term, Poll, Kill, Remove, StartChecks, Launch, WritePid, Recheck, Goto,
      scriptVars, vars

\* Processes that come and go by themselves leave every daemon where it was.
LEMMA ProcessKeeps ==
    ASSUME TypeOK, Orderly, NEW p \in Pids, Listen(p) \/ Die(p) \/ Recycle(p)
    PROVE  Orderly'
<1>1. \A q \in Pids : IsDaemon(q)' => IsDaemon(q)
  BY DEF TypeOK, Listen, Die, Recycle, Become, IsDaemon, Live
<1>2. UNCHANGED <<pidfile, step, pid>>
  BY DEF Listen, Die, Recycle, scriptVars
<1> QED
  BY <1>1, <1>2, Zenon DEF Orderly, Located, AllIdle, Busy

\* An invocation that is alone knows where the daemon is after each step, too.
LEMMA ScriptKeeps ==
    ASSUME TypeOK, Orderly, NEW i \in Invocations, Script(i)
    PROVE  Orderly'
<1> USE RcAssumption
<1>1. Busy(i) /\ \A j \in Invocations \ {i} : step[j] = "idle" /\ step'[j] = "idle"
  BY DEF Orderly, TypeOK, Busy, Goto, Script, StopChecks, Term, Poll, Kill, Remove,
         StartChecks, Launch, WritePid, Recheck
<1>2. Located(i)
  BY DEF Orderly
<1>3. SUFFICES /\ step'[i] = "idle" => \A p \in Pids : IsDaemon(p)' => pidfile' = p
               /\ Located(i)'
  BY <1>1 DEF Orderly, Located, AllIdle, Busy, IsDaemon
<1> USE DEF TypeOK, Located, Goto, Become, IsDaemon, Exists
<1>4. CASE StopChecks(i)
  BY <1>2, <1>4 DEF StopChecks, AfterStop, Status, Live
<1>5. CASE Term(i)
  BY <1>2, <1>5 DEF Term, AfterTerm, Live
<1>6. CASE Poll(i)
  BY <1>2, <1>6 DEF Poll, Live
<1>7. CASE Kill(i)
  BY <1>2, <1>7 DEF Kill, Live
<1>8. CASE Remove(i)
  BY <1>2, <1>8 DEF Remove, AfterStop, Live
<1>9. CASE StartChecks(i)
  BY <1>2, <1>9 DEF StartChecks, Status, Live
<1>10. ASSUME NEW p \in Pids, Launch(i, p)
       PROVE  /\ step'[i] = "idle" => \A q \in Pids : IsDaemon(q)' => pidfile' = q
              /\ Located(i)'
  BY <1>2, <1>10 DEF Launch, Live
<1>11. CASE WritePid(i) \/ Recheck(i)
  BY <1>2, <1>11 DEF WritePid, Recheck, Live
<1> QED
  BY <1>4, <1>5, <1>6, <1>7, <1>8, <1>9, <1>10, <1>11 DEF Script

\* The invariant holds in every reachable state.
LEMMA Invariance == Spec => []IInv
<1>1. Init => IInv
  <2> SUFFICES ASSUME Init PROVE IInv
    OBVIOUS
  <2>1. TypeOK
    <3>1. proc \in [Pids -> Live \cup {"dying", "dead", "foreign"}]
      BY DEF Init
    <3>2. polls \in [Invocations -> 0..Polls]
      BY RcAssumption DEF Init
    <3> QED
      BY <3>1, <3>2 DEF Init, TypeOK, Steps
  <2> QED
    BY <2>1 DEF Init, IInv, PollInv, Orderly, Located, AllIdle, Busy, IsDaemon, Live
<1>2. IInv /\ [Next]_vars => IInv'
  <2> SUFFICES ASSUME IInv, [Next]_vars, ~disturbed' PROVE Orderly'
    BY NextType, NextPoll DEF IInv
  <2>1. CASE UNCHANGED vars
    BY <2>1 DEF IInv, vars, scriptVars, Orderly, Located, AllIdle, Busy, IsDaemon
  <2>2. ASSUME NEW p \in Pids, Listen(p) \/ Die(p) \/ Recycle(p) PROVE Orderly'
    <3>1. ~disturbed
      BY <2>2 DEF Listen, Die, Recycle, scriptVars
    <3> QED
      BY <2>2, <3>1, ProcessKeeps DEF IInv
  <2>3. ASSUME NEW i \in Invocations, NEW what \in {"start", "stop", "restart"},
               Invoke(i, what)
        PROVE  Orderly'
    <3>1. ~disturbed /\ AllIdle
      BY <2>3 DEF Invoke, AllIdle
    <3>2. /\ \A p \in Pids : IsDaemon(p) => pidfile = p
          /\ proc' = proc /\ pidfile' = pidfile /\ pid' = pid
          /\ step'[i] \in {"start", "stop"}
          /\ \A j \in Invocations \ {i} : step'[j] = "idle"
      BY <2>3, <3>1 DEF IInv, TypeOK, Orderly, Invoke, Goto, AllIdle, Busy
    <3> QED
      BY <3>2 DEF Orderly, Located, AllIdle, Busy, IsDaemon
  <2>4. ASSUME NEW i \in Invocations, Interrupt(i) PROVE FALSE
    BY <2>4 DEF Interrupt
  <2>5. ASSUME NEW i \in Invocations, Script(i) PROVE Orderly'
    <3>1. ~disturbed
      BY <2>5
      DEF Script, StopChecks, Term, Poll, Kill, Remove, StartChecks, Launch,
          WritePid, Recheck
    <3> QED
      BY <2>5, <3>1, ScriptKeeps DEF IInv
  <2> QED
    BY <2>1, <2>2, <2>3, <2>4, <2>5 DEF Next
<1> QED
  BY <1>1, <1>2, PTL DEF Spec

-----------------------------------------------------------------------------
\* The host has one daemon at most, and the pid file names it.
THEOREM OneTracked == Spec => []OneTrackedDaemon
<1>1. IInv => OneTrackedDaemon
  <2> SUFFICES ASSUME IInv, ~disturbed PROVE OneTrackedDaemon
    BY DEF OneTrackedDaemon
  <2>1. Orderly
    BY DEF IInv
  <2>2. \A p, q \in Pids : IsDaemon(p) /\ IsDaemon(q) => p = q
    <3>1. CASE AllIdle
      BY <2>1, <3>1 DEF Orderly
    <3>2. CASE ~AllIdle
      <4>1. PICK i \in Invocations : Busy(i)
        BY <3>2 DEF AllIdle
      <4> QED
        BY <2>1, <4>1 DEF IInv, TypeOK, Steps, Orderly, Located, Busy
    <3> QED
      BY <3>1, <3>2
  <2> QED
    BY <2>1, <2>2 DEF OneTrackedDaemon, Orderly
<1> QED
  BY <1>1, Invariance, PTL

\* A stop leaves no daemon behind.
THEOREM StopLeaves == Spec => StopLeavesNone
<1> DEFINE Step ==
      \A i \in Invocations :
          /\ ~disturbed'
          /\ step[i] \in {"stop", "remove"} /\ step'[i] \in {"idle", "start"}
          => \A p \in Pids : proc'[p] \notin Live
<1>1. IInv /\ [Next]_vars => [Step]_vars
  <2> SUFFICES ASSUME IInv, Next, NEW i \in Invocations, ~disturbed',
                      step[i] \in {"stop", "remove"}, step'[i] \in {"idle", "start"},
                      NEW p \in Pids
               PROVE  proc'[p] \notin Live
    OBVIOUS
  <2>1. StopChecks(i) \/ Remove(i)
    <3>1. ASSUME NEW j \in Invocations, Script(j), j # i PROVE FALSE
      BY <3>1
      DEF IInv, TypeOK, Goto, Script, StopChecks, Term, Poll, Kill, Remove, StartChecks,
          Launch, WritePid, Recheck
    <3>2. ASSUME NEW j \in Invocations, NEW what \in {"start", "stop", "restart"},
                 Invoke(j, what)
          PROVE  FALSE
      BY <3>2 DEF IInv, TypeOK, Goto, Invoke, Busy
    <3>3. ASSUME NEW j \in Invocations, Interrupt(j) PROVE FALSE
      BY <3>3 DEF Interrupt
    <3>4. ASSUME NEW q \in Pids, Listen(q) \/ Die(q) \/ Recycle(q) PROVE FALSE
      BY <3>4 DEF Listen, Die, Recycle, scriptVars
    <3>5. Script(i)
      BY <3>1, <3>2, <3>3, <3>4 DEF Next
    <3> QED
      BY <3>5 DEF Script, Term, Poll, Kill, StartChecks, Launch, WritePid, Recheck
  <2>2. Located(i) /\ ~disturbed
    BY <2>1 DEF IInv, Orderly, StopChecks, Remove
  <2>3. ~IsDaemon(p) /\ proc' = proc
    <3>1. CASE StopChecks(i)
      BY <2>2, <3>1, RcAssumption
      DEF IInv, TypeOK, StopChecks, Status, Exists, Goto, Located, IsDaemon, Live
    <3>2. CASE Remove(i)
      BY <2>2, <3>2 DEF Remove, Located
    <3> QED
      BY <2>1, <3>1, <3>2
  <2> QED
    BY <2>3 DEF IsDaemon
<1> QED
  BY <1>1, Invariance, PTL DEF Spec, StopLeavesNone
=============================================================================
