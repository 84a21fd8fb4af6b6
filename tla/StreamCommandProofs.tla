------------------------- MODULE StreamCommandProofs -------------------------
(***************************************************************************)
(* Proofs about StreamCommand, for any helpers and any number of lines.    *)
(***************************************************************************)
EXTENDS StreamCommand, TLAPS

\* Where the caller is, and what exec's goroutine and the readers do meanwhile.
CallerInv ==
    /\ main = "start" => watch = "off" /\ \A p \in Procs : ~Alive(p)
    /\ main \in {"reading", "waiting", "reaped"} => watch \in {"watching", "cancelled"}
    /\ main = "returned" => watch # "watching"
    /\ watch = "off" => \A s \in Streams : reader[s] = "off" /\ printed[s] = 0
                                           /\ captured[s] = 0 /\ passed[s] = 0
    /\ watch # "off" => \A s \in Streams : reader[s] # "off"
    /\ watch # "off" /\ main # "reading" => BothDone

\* Nothing is left of a group that was killed.
KillInv == watch = "cancelled" => \A p \in Procs : ~Alive(p)

\* A reader has at most one line in its hand, unless it gave one up.
LineInv ==
    \A s \in Streams :
        /\ captured[s] <= printed[s]
        /\ ctxDone \/ passed[s] = IF reader[s] = "send" THEN captured[s] - 1
                                                        ELSE captured[s]

\* A reader that is done has seen the end of its stream, or a line that was too
\* long, or that the context was done.
DoneInv ==
    \A s \in Streams :
        reader[s] = "done" =>
            \/ ctxDone
            \/ long[s] # 0
            \/ Closed(s) /\ captured[s] = printed[s]

IInv == TypeOK /\ CallerInv /\ KillInv /\ LineInv /\ DoneInv

-----------------------------------------------------------------------------
\* Nothing has been started.
LEMMA InitIInv == Init => IInv
  BY StreamAssumption
  DEF Init, IInv, TypeOK, CallerInv, KillInv, LineInv, DoneInv, Alive, Procs, Streams

\* Type correctness.
LEMMA NextType == TypeOK /\ [Next]_vars => TypeOK'
<1> SUFFICES ASSUME TypeOK, [Next]_vars PROVE TypeOK'
  OBVIOUS
<1> USE StreamAssumption
    DEF TypeOK, Procs, Alive, groupVars, outputVars, lineVars, Goto, Unread
<1>1. CASE Cancel
  BY <1>1 DEF Cancel
<1>2. ASSUME NEW p \in Procs, NEW h \in Helpers, Spawn(p, h) PROVE TypeOK'
  <2>1. PICK inherited \in SUBSET holds[p] : holds' = [holds EXCEPT ![h] = inherited]
    BY <1>2 DEF Spawn
  <2>2. inherited \in SUBSET Streams
    BY <2>1
  <2>3. holds' \in [Procs -> SUBSET Streams]
    BY <2>1, <2>2, Zenon
  <2> QED
    BY <1>2, <2>3 DEF Spawn
<1>3. ASSUME NEW p \in Procs, NEW s \in Streams, NEW tooLong \in BOOLEAN,
             WriteLine(p, s, tooLong)
      PROVE  TypeOK'
  BY <1>3 DEF WriteLine
<1>4. ASSUME NEW p \in Procs, NEW s \in Streams, Close(p, s) PROVE TypeOK'
  BY <1>4 DEF Close
<1>5. ASSUME NEW p \in Procs, NEW how \in {"ok", "fail"}, Exit(p, how) PROVE TypeOK'
  BY <1>5 DEF Exit
<1>6. CASE WatchCancels
  BY <1>6 DEF WatchCancels, Kill
<1>7. ASSUME NEW s \in Streams, Reader(s) PROVE TypeOK'
  BY <1>7 DEF Reader, Scan, ScanEnds, Send, Check
<1>8. CASE Caller
  BY <1>8 DEF Caller, StartFails, Start, ReadersDone, Reap, Return
<1>9. CASE Rest \/ UNCHANGED vars
  BY <1>9 DEF Rest, vars
<1> QED
  BY <1>1, <1>2, <1>3, <1>4, <1>5, <1>6, <1>7, <1>8, <1>9 DEF Next, Programs

\* A stream that is closed stays closed: who starts another program passes on no
\* more than it holds.
LEMMA ClosedStays ==
    ASSUME TypeOK, Next, main # "start", NEW s \in Streams, Closed(s)
    PROVE  Closed(s)'
<1> USE StreamAssumption
    DEF TypeOK, Procs, Alive, Closed, groupVars, outputVars, lineVars
<1>1. ASSUME NEW p \in Procs, NEW h \in Helpers, Spawn(p, h) PROVE Closed(s)'
  <2>1. PICK inherited \in SUBSET holds[p] : holds' = [holds EXCEPT ![h] = inherited]
    BY <1>1 DEF Spawn
  <2>2. s \notin inherited
    BY <1>1, <2>1 DEF Spawn
  <2> QED
    BY <1>1, <2>1, <2>2 DEF Spawn
<1>2. ASSUME NEW p \in Procs, NEW t \in Streams, NEW b \in BOOLEAN, WriteLine(p, t, b)
      PROVE  Closed(s)'
  BY <1>2 DEF WriteLine
<1>3. ASSUME NEW p \in Procs, NEW t \in Streams, Close(p, t) PROVE Closed(s)'
  BY <1>3 DEF Close
<1>4. ASSUME NEW p \in Procs, NEW how \in {"ok", "fail"}, Exit(p, how) PROVE Closed(s)'
  BY <1>4 DEF Exit
<1>5. CASE WatchCancels
  BY <1>5 DEF WatchCancels, Kill
<1>6. CASE Cancel \/ Rest
  BY <1>6 DEF Cancel, Rest, vars
<1>7. ASSUME NEW t \in Streams, Reader(t) PROVE Closed(s)'
  BY <1>7 DEF Reader, Scan, ScanEnds, Send, Check
<1>8. CASE Caller
  BY <1>8 DEF Caller, StartFails, Start, ReadersDone, Reap, Return
<1> QED
  BY <1>1, <1>2, <1>3, <1>4, <1>5, <1>6, <1>7, <1>8 DEF Next, Programs

\* Once every program is dead none is started.
LEMMA DeadStay ==
    ASSUME TypeOK, Next, main # "start", \A p \in Procs : ~Alive(p)
    PROVE  \A p \in Procs : ~Alive(p)'
<1> USE StreamAssumption
    DEF TypeOK, Procs, Alive, groupVars, outputVars, lineVars
<1>1. CASE Programs
  BY <1>1 DEF Programs, Spawn, WriteLine, Close, Exit
<1>2. CASE WatchCancels
  BY <1>2 DEF WatchCancels, Kill
<1>3. CASE Cancel \/ Rest
  BY <1>3 DEF Cancel, Rest, vars
<1>4. ASSUME NEW t \in Streams, Reader(t) PROVE \A p \in Procs : ~Alive(p)'
  BY <1>4 DEF Reader, Scan, ScanEnds, Send, Check
<1>5. CASE Caller
  BY <1>5 DEF Caller, StartFails, Start, ReadersDone, Reap, Return
<1> QED
  BY <1>1, <1>2, <1>3, <1>4, <1>5 DEF Next

\* Every step keeps what is said of the caller.
LEMMA NextCaller == IInv /\ [Next]_vars => CallerInv'
<1> SUFFICES ASSUME IInv, [Next]_vars PROVE CallerInv'
  OBVIOUS
<1> USE StreamAssumption
    DEF IInv, TypeOK, CallerInv, BothDone, groupVars, outputVars, lineVars, Goto
<1>1. CASE Cancel
  BY <1>1 DEF Cancel, Alive
<1>2. CASE Programs
  BY <1>2 DEF Programs, Spawn, WriteLine, Close, Exit, Alive, Procs
<1>3. CASE WatchCancels
  BY <1>3 DEF WatchCancels, Kill, Alive
<1>4. ASSUME NEW s \in Streams, Reader(s) PROVE CallerInv'
  BY <1>4 DEF Reader, Scan, ScanEnds, Send, Check, Alive
<1>5. CASE Caller
  BY <1>5 DEF Caller, StartFails, Start, ReadersDone, Reap, Return, Alive
<1>6. CASE Rest \/ UNCHANGED vars
  BY <1>6 DEF Rest, vars, Alive
<1> QED
  BY <1>1, <1>2, <1>3, <1>4, <1>5, <1>6 DEF Next

\* Every step keeps what is said of killed groups.
LEMMA NextKill == IInv /\ [Next]_vars => KillInv'
<1> SUFFICES ASSUME IInv, [Next]_vars, watch' = "cancelled"
             PROVE  \A p \in Procs : ~Alive(p)'
  BY DEF KillInv, Alive
<1>1. CASE watch = "cancelled" /\ Next
  BY <1>1, DeadStay DEF IInv, KillInv, CallerInv
<1>2. CASE WatchCancels
  BY <1>2 DEF WatchCancels, Kill, Alive, IInv, TypeOK
<1>3. CASE watch # "cancelled" /\ ~WatchCancels /\ Next
  BY <1>3
  DEF Next, Cancel, Programs, Spawn, WriteLine, Close, Exit, Reader, Scan, ScanEnds,
      Send, Check, Caller, StartFails, Start, ReadersDone, Reap, Return, Rest, vars
<1>4. CASE UNCHANGED vars
  BY <1>4 DEF vars, IInv, KillInv, Alive
<1> QED
  BY <1>1, <1>2, <1>3, <1>4

\* Every step keeps the count of the lines.
LEMMA NextLine == IInv /\ [Next]_vars => LineInv'
<1> SUFFICES ASSUME IInv, [Next]_vars PROVE LineInv'
  OBVIOUS
<1> USE StreamAssumption
    DEF IInv, TypeOK, LineInv, groupVars, outputVars, lineVars, Goto, Unread
<1>1. CASE Cancel
  BY <1>1 DEF Cancel
<1>2. CASE Programs
  BY <1>2 DEF Programs, Spawn, WriteLine, Close, Exit
<1>3. CASE WatchCancels
  BY <1>3 DEF WatchCancels
<1>4. ASSUME NEW s \in Streams, Reader(s) PROVE LineInv'
  BY <1>4 DEF Reader, Scan, ScanEnds, Send, Check, GivesUp
<1>5. CASE Caller
  BY <1>5 DEF Caller, StartFails, Start, ReadersDone, Reap, Return, CallerInv
<1>6. CASE Rest \/ UNCHANGED vars
  BY <1>6 DEF Rest, vars
<1> QED
  BY <1>1, <1>2, <1>3, <1>4, <1>5, <1>6 DEF Next

\* Every step keeps what is said of readers that are done.
LEMMA NextDone == IInv /\ [Next]_vars => DoneInv'
<1>1. CASE UNCHANGED vars
  BY <1>1 DEF vars, IInv, DoneInv, Closed, Alive
<1>2. ASSUME IInv, Next, NEW s \in Streams, reader'[s] = "done", ~ctxDone', long'[s] = 0
      PROVE  Closed(s)' /\ captured'[s] = printed'[s]
  <2> USE StreamAssumption
      DEF IInv, TypeOK, groupVars, outputVars, lineVars, Goto
  <2>1. ~ctxDone
    BY <1>2
    DEF Next, Cancel, Programs, Spawn, WriteLine, Close, Exit, WatchCancels, Reader, Scan,
        ScanEnds, Send, Check, Caller, StartFails, Start, ReadersDone, Reap, Return,
        Rest, vars
  <2>2. main # "start"
    BY <1>2, <2>1
    DEF CallerInv, Next, Cancel, Programs, Spawn, WriteLine, Close, Exit, WatchCancels,
        Reader, Scan, ScanEnds, Send, Check, Caller, StartFails, Start, ReadersDone,
        Reap, Return, Rest, vars
  <2>3. CASE reader[s] = "done"
    <3>1. long[s] = 0
      BY <1>2
      DEF Next, Cancel, Programs, Spawn, WriteLine, Close, Exit, WatchCancels, Reader, Scan,
          ScanEnds, Send, Check, Caller, StartFails, Start, ReadersDone, Reap, Return,
          Rest, vars
    <3>2. Closed(s) /\ captured[s] = printed[s]
      BY <1>2, <2>1, <2>3, <3>1 DEF DoneInv
    <3>3. Closed(s)'
      BY <1>2, <2>2, <3>2, ClosedStays
    <3>4. captured'[s] = captured[s] /\ printed'[s] = printed[s]
      BY <1>2, <2>3, <3>2
      DEF Next, Cancel, Programs, Spawn, WriteLine, Close, Exit, WatchCancels, Reader, Scan,
          ScanEnds, Send, Check, Caller, StartFails, Start, ReadersDone, Reap, Return,
          Rest, vars, Closed
    <3> QED
      BY <3>2, <3>3, <3>4
  <2>4. CASE reader[s] # "done"
    <3>1. ScanEnds(s)
      BY <1>2, <2>1, <2>4
      DEF Next, Cancel, Programs, Spawn, WriteLine, Close, Exit, WatchCancels, Reader, Scan,
          ScanEnds, Send, Check, Leaves, Caller, StartFails, Start, ReadersDone, Reap,
          Return, Rest, vars
    <3>2. ~NextTooLong(s)
      BY <1>2, <3>1 DEF NextTooLong, ScanEnds
    <3>3. Closed(s) /\ captured[s] = printed[s]
      BY <1>2, <3>1, <3>2 DEF ScanEnds, Unread, LineInv
    <3> QED
      BY <3>1, <3>3 DEF ScanEnds, Closed, Alive
  <2> QED
    BY <2>3, <2>4
<1> QED
  BY <1>1, <1>2 DEF DoneInv

\* The invariant holds in every reachable state.
LEMMA Invariance == Spec => []IInv
<1>1. IInv /\ [Next]_vars => IInv'
  BY NextType, NextCaller, NextKill, NextLine, NextDone DEF IInv
<1> QED
  BY <1>1, InitIInv, PTL DEF Spec

-----------------------------------------------------------------------------
\* Every variable of StreamCommand keeps its type.
THEOREM TypeCorrect == Spec => []TypeOK
  BY Invariance, PTL DEF IInv

\* What was captured and passed on is all that was printed.
THEOREM OutputComplete == Spec => []OutputIsComplete
<1>1. IInv => OutputIsComplete
  BY DEF IInv, CallerInv, LineInv, DoneInv, BothDone, OutputIsComplete, Returned
<1> QED
  BY <1>1, Invariance, PTL

\* Nothing of a command is left when it has returned.
THEOREM NothingLeft == Spec => []NothingHoldsOn
<1>1. IInv => NothingHoldsOn
  BY DEF IInv, TypeOK, CallerInv, KillInv, DoneInv, BothDone, Closed,
         NothingHoldsOn, Returned
<1> QED
  BY <1>1, Invariance, PTL

\* Once the context is done, one of the daemon's goroutines can go on until
\* streamCommand has returned.
THEOREM NoneStuck == Spec => []NobodyIsStuck
<1>1. IInv => NobodyIsStuck
  <2> SUFFICES ASSUME IInv, ctxDone, main \in {"reading", "waiting", "reaped"},
                      watch # "watching", ~CallerCanGoOn
               PROVE  \E s \in Streams : ReaderCanGoOn(s)
    BY DEF NobodyIsStuck
  <2>1. watch = "cancelled" /\ \A p \in Procs : ~Alive(p)
    BY DEF IInv, CallerInv, KillInv
  <2>2. main = "reading" /\ ~BothDone
    BY <2>1 DEF CallerCanGoOn, Procs
  <2>3. PICK s \in Streams : reader[s] # "done"
    BY <2>2 DEF BothDone
  <2>4. reader[s] \in {"scan", "send", "check"}
    BY <2>1, <2>3 DEF IInv, TypeOK, CallerInv
  <2> QED
    BY <2>1, <2>4 DEF ReaderCanGoOn, Closed
<1> QED
  BY <1>1, Invariance, PTL

\* The measure is a number, so it cannot go down for ever.
LEMMA StepsLeftType == TypeOK => StepsLeft \in 0..10
  BY DEF TypeOK, Streams, StepsLeft, ReaderStepsLeft, CallerStepsLeft

\* Once the context is done, each step of a goroutine brings the end nearer.
THEOREM NearsTheEnd == Spec => EndIsNear
<1>1. ASSUME IInv, [Next]_vars, ctxDone
      PROVE  IF UNCHANGED <<main, watch, reader, captured, passed>>
               THEN StepsLeft' = StepsLeft
               ELSE StepsLeft' < StepsLeft
  <2> USE DEF groupVars, outputVars, lineVars, StepsLeft, ReaderStepsLeft, CallerStepsLeft
  <2>1. CASE UNCHANGED <<main, watch, reader, captured, passed>>
    BY <2>1
  <2>2. ASSUME Caller
        PROVE  StepsLeft' < StepsLeft
    <3>1. \/ main \in {"start", "reaped"} /\ main' = "returned"
          \/ main = "reading" /\ main' = "waiting"
          \/ main = "waiting" /\ main' = "reaped"
      BY <1>1, <2>2 DEF Caller, StartFails, Start, ReadersDone, Reap, Return
    <3>2. CallerStepsLeft' < CallerStepsLeft
      BY <3>1
    <3>3. /\ CallerStepsLeft \in 0..3 /\ CallerStepsLeft' \in 0..3
          /\ \A s \in Streams : ReaderStepsLeft(s) \in 0..3
      OBVIOUS
    <3>4. reader' = reader
      BY <1>1, <2>2 DEF Caller, StartFails, Start, ReadersDone, Reap, Return
    <3>5. watch' = "watching" => watch = "watching"
      BY <1>1, <2>2 DEF Caller, StartFails, Start, ReadersDone, Reap, Return
    <3> HIDE DEF CallerStepsLeft
    <3> QED
      BY <3>2, <3>3, <3>4, <3>5 DEF Streams
  <2>3. ASSUME NEW s \in Streams, Reader(s)
        PROVE  StepsLeft' < StepsLeft
    <3>1. reader[s] \in {"scan", "send", "check"}
      BY <2>3 DEF Reader, Scan, ScanEnds, Send, Check
    <3>2. \/ reader[s] = "scan" /\ reader'[s] \in {"send", "done"}
          \/ reader[s] = "send" /\ reader'[s] = "check"
          \/ reader[s] = "check" /\ reader'[s] = "done"
      BY <1>1, <2>3 DEF IInv, TypeOK, Reader, Scan, ScanEnds, Send, Check, Goto, Leaves
    <3>3. \A t \in Streams \ {s} : ReaderStepsLeft(t)' = ReaderStepsLeft(t)
      BY <1>1, <2>3 DEF IInv, TypeOK, Reader, Scan, ScanEnds, Send, Check, Goto
    <3>4. main' = main /\ watch' = watch
      BY <2>3 DEF Reader, Scan, ScanEnds, Send, Check
    <3>5. /\ ReaderStepsLeft(s)' < ReaderStepsLeft(s)
          /\ \A t \in Streams : /\ ReaderStepsLeft(t) \in 0..3
                              /\ ReaderStepsLeft(t)' \in 0..3
      BY <3>2
    <3> HIDE DEF ReaderStepsLeft
    <3> QED
      BY <3>3, <3>4, <3>5 DEF Streams
  <2>4. CASE WatchCancels
    BY <1>1, <2>4 DEF WatchCancels, IInv, TypeOK, Streams
  <2>5. CASE Cancel \/ Programs \/ Rest \/ UNCHANGED vars
    BY <2>1, <2>5 DEF Cancel, Programs, Spawn, WriteLine, Close, Exit, Rest, vars
  <2>6. StepsLeft' < StepsLeft => ~UNCHANGED <<main, watch, reader, captured, passed>>
    BY <1>1, StepsLeftType DEF IInv
  <2> QED
    BY <1>1, <2>1, <2>2, <2>3, <2>4, <2>5, <2>6 DEF Next
<1>2. IInv /\ [Next]_vars
        => [ctxDone =>
              IF UNCHANGED <<main, watch, reader, captured, passed>>
                THEN StepsLeft' = StepsLeft
                ELSE StepsLeft' < StepsLeft]_vars
  BY <1>1
<1> QED
  BY <1>2, Invariance, PTL DEF Spec, EndIsNear

-----------------------------------------------------------------------------
(* The refinement of OneProgram. *)

\* How the program stands, and what may be said of it.
EndInv ==
    /\ main = "start" => proc[Main] = "unborn"
    /\ proc[Main] = "unborn" => main \in {"start", "returned"}
    /\ main = "reaped" => proc[Main] = "dead"
    /\ main = "returned" => ~Alive(Main)
    /\ status = "none" <=> proc[Main] # "dead"
    /\ watch = "cancelled" => ctxDone
    /\ main # "returned" => result = "none"

\* Nothing has been started.
LEMMA InitEnd == Init => EndInv
  BY StreamAssumption DEF Init, EndInv, Alive, Procs

\* Only Start brings the program to life, and nothing does so twice.
LEMMA NextEnd == IInv /\ EndInv /\ [Next]_vars => EndInv'
<1> SUFFICES ASSUME IInv, EndInv, [Next]_vars PROVE EndInv'
  OBVIOUS
<1> USE StreamAssumption
    DEF IInv, TypeOK, EndInv, Alive, Procs, groupVars, outputVars, lineVars
<1>1. CASE Cancel
  BY <1>1 DEF Cancel
<1>2. ASSUME NEW p \in Procs, NEW h \in Helpers, Spawn(p, h) PROVE EndInv'
  BY <1>2 DEF Spawn
<1>3. ASSUME NEW p \in Procs, NEW s \in Streams, NEW b \in BOOLEAN,
             WriteLine(p, s, b) \/ Close(p, s)
      PROVE  EndInv'
  BY <1>3 DEF WriteLine, Close
<1>4. ASSUME NEW p \in Procs, NEW how \in {"ok", "fail"}, Exit(p, how) PROVE EndInv'
  BY <1>4 DEF Exit
<1>5. CASE WatchCancels
  BY <1>5 DEF WatchCancels, Kill
<1>6. ASSUME NEW s \in Streams, Reader(s) PROVE EndInv'
  BY <1>6 DEF Reader, Scan, ScanEnds, Send, Check
<1>7. CASE Caller
  <2>1. CASE Start
    BY <2>1 DEF Start
  <2>2. CASE StartFails
    BY <2>2 DEF StartFails
  <2>3. CASE ReadersDone \/ Reap
    BY <2>3 DEF ReadersDone, Reap
  <2>4. CASE Return
    BY <2>4 DEF Return
  <2> QED
    BY <1>7, <2>1, <2>2, <2>3, <2>4 DEF Caller
<1>8. CASE Rest \/ UNCHANGED vars
  BY <1>8 DEF Rest, vars
<1> QED
  BY <1>1, <1>2, <1>3, <1>4, <1>5, <1>6, <1>7, <1>8 DEF Next, Programs

\* Every step of the goroutines and programs is one of OneProgram, or none.
LEMMA StepIsProgram ==
    IInv /\ EndInv /\ [Next]_vars => [Program!Next]_(Program!vars)
<1> SUFFICES ASSUME IInv, EndInv, [Next]_vars
             PROVE  Program!Next \/ UNCHANGED <<ctxDone, Stage, status, result>>
  BY DEF Program!vars
<1> USE DEF Stage, groupVars, outputVars, lineVars
<1>1. CASE Cancel
  BY <1>1 DEF Cancel, Program!Next, Program!Cancel
<1>2. CASE Programs
  <2>1. ASSUME NEW how \in {"ok", "fail"}, Exit(Main, how)
        PROVE  Program!End(how)
    <3>1. main \in {"reading", "waiting"} /\ status = "none" /\ status' = how
      BY <2>1 DEF Exit, Alive, IInv, TypeOK, EndInv
    <3> QED
      BY <2>1, <3>1 DEF Exit, Program!End
  <2>2. ASSUME NEW p \in Procs, NEW how \in {"ok", "fail"}, Exit(p, how), p # Main
        PROVE  UNCHANGED <<ctxDone, Stage, status, result>>
    BY <2>2 DEF Exit
  <2>3. ASSUME NEW p \in Procs, NEW h \in Helpers, Spawn(p, h)
        PROVE  UNCHANGED <<ctxDone, Stage, status, result>>
    BY <2>3 DEF Spawn
  <2>4. ASSUME NEW p \in Procs, NEW s \in Streams, NEW b \in BOOLEAN,
               WriteLine(p, s, b) \/ Close(p, s)
        PROVE  UNCHANGED <<ctxDone, Stage, status, result>>
    BY <2>4 DEF WriteLine, Close
  <2> QED
    BY <1>2, <2>1, <2>2, <2>3, <2>4 DEF Programs, Program!Next
<1>3. CASE WatchCancels
  <2>1. CASE Alive(Main)
    <3>1. main \in {"reading", "waiting"} /\ status = "none" /\ status' = "killed"
      BY <1>3, <2>1 DEF WatchCancels, Alive, IInv, TypeOK, EndInv
    <3>2. Program!End("killed")
      BY <1>3, <3>1 DEF WatchCancels, Program!End
    <3> QED
      BY <3>2 DEF Program!Next
  <2>2. CASE ~Alive(Main)
    BY <1>3, <2>2 DEF WatchCancels
  <2> QED
    BY <2>1, <2>2
<1>4. ASSUME NEW s \in Streams, Reader(s)
      PROVE  UNCHANGED <<ctxDone, Stage, status, result>>
  BY <1>4 DEF Reader, Scan, ScanEnds, Send, Check
<1>5. CASE StartFails
  BY <1>5 DEF StartFails, Program!Next, Program!StartFails
<1>6. CASE Start
  BY <1>6 DEF Start, Program!Next, Program!Start
<1>7. CASE ReadersDone \/ Reap
  BY <1>7 DEF ReadersDone, Reap
<1>8. CASE Return
  <2>1. status # "none" /\ (watch # "watching" => ctxDone)
    BY <1>8 DEF Return, IInv, CallerInv, EndInv
  <2>2. Program!Answer
    BY <1>8, <2>1 DEF Return, Program!Answer
  <2> QED
    BY <2>2 DEF Program!Next
<1>9. CASE Rest \/ UNCHANGED vars
  BY <1>9 DEF Rest, vars
<1> QED
  BY <1>1, <1>2, <1>3, <1>4, <1>5, <1>6, <1>7, <1>8, <1>9 DEF Next, Caller

\* To TfRun a command is one program.
THEOREM CommandIsProgram == Spec => ActsAsOneProgram
<1>1. Init => Program!Init
  BY DEF Init, Stage, Program!Init
<1>2. Spec => []EndInv
  BY InitEnd, NextEnd, Invariance, PTL DEF Spec
<1>3. Spec => [][Program!Next]_(Program!vars)
  BY <1>2, StepIsProgram, Invariance, PTL DEF Spec
<1> QED
  BY <1>1, <1>3, PTL DEF Spec, ActsAsOneProgram, Program!Spec
=============================================================================
