------------------------- MODULE DeployServiceProofs -------------------------
(***************************************************************************)
(* Proofs about DeployRun, for any number of containers and any versions,  *)
(* and about DeployService, for any number of requests as well: what is    *)
(* shown of runs is lifted to the service.                                 *)
(***************************************************************************)
EXTENDS DeployService, TLAPS

-----------------------------------------------------------------------------
(* DeployRun. *)

InLoop == {"read", "write", "fill", "update", "updating", "health"}

Deployed(c) == template[c] = version /\ (stray \/ container[c] = version)

\* What is true of a run on its way: the containers behind it are deployed, the
\* one it is at is part way, those ahead are as it found them.
Progress ==
    /\ pc \in {"pull", "pulling", "tag", "tagging"} =>
           current = 1 /\ \A c \in Containers : UntouchedBy(c)
    /\ pc \in {"tag", "tagging"} => version \in images
    /\ pc \in InLoop =>
           /\ stray \/ latest = version
           /\ version \in images
           /\ \A c \in 1..(current - 1) : Deployed(c)
           /\ \A c \in (current + 1)..N : UntouchedBy(c)
           /\ stray \/ pc = "health" \/ container[current] = before.container[current]
    /\ pc \in {"read", "write"} => UntouchedBy(current)
    /\ pc \in {"write", "fill", "update", "updating", "health"} =>
           before.template[current] # Torn
    /\ pc \in {"update", "updating", "health"} => template[current] = version
    /\ pc = "health" => stray \/ container[current] = version

\* A version that got past the first container is not broken.
Sound == pc \in InLoop /\ current > 1 => version \notin Broken

\* A result is there exactly when no run is going on.
ResultInv == pc # "idle" => result = "none"

\* A command whose daemon is dead belongs to the run that crashed, or was there
\* when the present one began.  It re-creates no broken container but the first,
\* and if it is of the last run, none but the one that run had got to.
OrphanInv ==
    /\ stray \/ orphans = {} \/ (pc = "idle" /\ result = "crash")
    /\ \A o \in orphans :
         /\ o.step = "updating" /\ o.at # 1 => o.version \notin Broken
         /\ ~stray => o.version = version /\ o.at = current
         /\ ~stray /\ o.step = "updating" =>
              /\ template[current] = version
              /\ before.template[current] # Torn
              /\ \A c \in 1..(current - 1) : Deployed(c)
              /\ \A c \in (current + 1)..N : UntouchedBy(c)

IInv ==
    /\ TypeOK /\ Progress /\ Sound /\ ResultInv /\ OrphanInv
    /\ OkMeansDeployed /\ RolloutInOrder /\ BrokenStopsAtFirst /\ TornStaysTorn

-----------------------------------------------------------------------------
(* Type correctness. *)

LEMMA NextType == TypeOK /\ Progress /\ [Next]_vars => TypeOK'
<1> SUFFICES ASSUME TypeOK, Progress, [Next]_vars
             PROVE  TypeOK'
  OBVIOUS
<1> USE RunAssumption
    DEF TypeOK, Pins, Made, Containers, Programs, Command, Fail, Continue,
        dockerVars, hostVars, runVars
<1>1. ASSUME NEW v \in Versions, Begin(v) PROVE TypeOK'
  BY <1>1 DEF Begin
<1>2. CASE Cancel
  BY <1>2 DEF Cancel
<1>3. CASE Pull
  BY <1>3 DEF Pull
<1>4. CASE Tag
  BY <1>4 DEF Tag
<1>5. CASE ReadTemplate
  BY <1>5 DEF ReadTemplate
<1>6. CASE TruncateTemplate
  BY <1>6 DEF TruncateTemplate
<1>7. CASE FillTemplate
  BY <1>7 DEF FillTemplate
<1>8. CASE Healthy
  BY <1>8 DEF Healthy, AtLast
<1>9. CASE GiveUp
  BY <1>9 DEF GiveUp
<1>10. CASE UpdateContainer
  BY <1>10 DEF UpdateContainer, Progress
<1>11. CASE Crash
  BY <1>11 DEF Crash, Progress
<1>12. CASE UNCHANGED vars
  BY <1>12 DEF vars
<1>13. CASE StartPull \/ StartTag \/ StartUpdate
  BY <1>13 DEF StartPull, StartTag, StartUpdate, Start
<1>14. ASSUME NEW o \in orphans, OrphanRemoves(o) \/ OrphanEnds(o) PROVE TypeOK'
  BY <1>14 DEF OrphanRemoves, OrphanEnds, Recreated
<1> HIDE DEF TypeOK, Progress, Sound
<1> QED
  BY <1>1, <1>2, <1>3, <1>4, <1>5, <1>6, <1>7, <1>8, <1>9, <1>10, <1>11, <1>12,
     <1>13, <1>14
  DEF Next, Run, Orphans

-----------------------------------------------------------------------------
(* The loop over the containers. *)

\* Each step of the loop moves the boundary between deployed and untouched
\* containers by at most the container it is at.
LEMMA NextProgress ==
    TypeOK /\ Progress /\ OrphanInv /\ [Next]_vars => Progress'
<1> SUFFICES ASSUME TypeOK, Progress, OrphanInv, [Next]_vars
             PROVE  Progress'
  OBVIOUS
<1> USE RunAssumption
    DEF TypeOK, Pins, Made, Containers, Fail, Continue,
        dockerVars, hostVars, runVars,
        Progress, InLoop, Deployed, UntouchedBy
<1>1. ASSUME NEW v \in Versions, Begin(v) PROVE Progress'
  BY <1>1 DEF Begin
<1>2. CASE Cancel
  BY <1>2 DEF Cancel
<1>3. CASE Pull
  BY <1>3 DEF Pull
<1>4. CASE Tag
  BY <1>4 DEF Tag
<1>5. CASE ReadTemplate
  BY <1>5 DEF ReadTemplate, HasRepoTag
<1>6. CASE TruncateTemplate
  BY <1>6 DEF TruncateTemplate
<1>7. CASE FillTemplate
  BY <1>7 DEF FillTemplate
<1>8. CASE UpdateContainer
  BY <1>8 DEF UpdateContainer
<1>9. CASE Healthy
  BY <1>9 DEF Healthy, AtLast
<1>10. CASE GiveUp
  BY <1>10 DEF GiveUp
<1>11. CASE Crash
  BY <1>11 DEF Crash
<1>12. CASE UNCHANGED vars
  BY <1>12 DEF vars
<1>13. CASE StartPull \/ StartTag \/ StartUpdate
  BY <1>13 DEF StartPull, StartTag, StartUpdate, Start
<1>14. ASSUME NEW o \in orphans, OrphanRemoves(o) \/ OrphanEnds(o) PROVE Progress'
  BY <1>14 DEF OrphanInv, OrphanRemoves, OrphanEnds, Recreated
<1> HIDE DEF TypeOK, Progress, Sound
<1> QED
  BY <1>1, <1>2, <1>3, <1>4, <1>5, <1>6, <1>7, <1>8, <1>9, <1>10, <1>11, <1>12,
     <1>13, <1>14
  DEF Next, Run, Orphans

\* The loop goes on only after a probe that no broken image answers.
LEMMA NextSound ==
    TypeOK /\ Progress /\ Sound /\ [Next]_vars => Sound'
<1> SUFFICES ASSUME TypeOK, Progress, Sound, [Next]_vars
             PROVE  Sound'
  OBVIOUS
<1> USE RunAssumption
    DEF TypeOK, Pins, Made, Containers, Fail, Continue,
        dockerVars, hostVars, runVars,
        Sound, InLoop
<1>1. ASSUME NEW v \in Versions, Begin(v) PROVE Sound'
  BY <1>1 DEF Begin
<1>2. CASE Cancel
  BY <1>2 DEF Cancel
<1>3. CASE Pull
  BY <1>3 DEF Pull
<1>4. CASE Tag
  BY <1>4 DEF Tag, Progress
<1>5. CASE ReadTemplate
  BY <1>5 DEF ReadTemplate
<1>6. CASE TruncateTemplate
  BY <1>6 DEF TruncateTemplate
<1>7. CASE FillTemplate
  BY <1>7 DEF FillTemplate
<1>8. CASE UpdateContainer
  BY <1>8 DEF UpdateContainer
<1>9. CASE Healthy
  BY <1>9 DEF Healthy, AtLast, Matches
<1>10. CASE GiveUp
  BY <1>10 DEF GiveUp
<1>11. CASE Crash
  BY <1>11 DEF Crash
<1>12. CASE UNCHANGED vars
  BY <1>12 DEF vars
<1>13. CASE StartPull \/ StartTag \/ StartUpdate
  BY <1>13 DEF StartPull, StartTag, StartUpdate, Start
<1>14. ASSUME NEW o \in orphans, OrphanRemoves(o) \/ OrphanEnds(o) PROVE Sound'
  BY <1>14 DEF OrphanRemoves, OrphanEnds, Recreated
<1> HIDE DEF TypeOK, Progress, Sound
<1> QED
  BY <1>1, <1>2, <1>3, <1>4, <1>5, <1>6, <1>7, <1>8, <1>9, <1>10, <1>11, <1>12,
     <1>13, <1>14
  DEF Next, Run, Orphans

-----------------------------------------------------------------------------
(* The properties are kept, given the progress of the run. *)

LEMMA NextResult ==
    ResultInv /\ [Next]_vars => ResultInv'
<1> SUFFICES ASSUME ResultInv, [Next]_vars
             PROVE  ResultInv'
  OBVIOUS
<1> USE RunAssumption
    DEF ResultInv, Fail, Continue, hostVars, runVars, dockerVars
<1>1. ASSUME NEW v \in Versions, Begin(v) PROVE ResultInv'
  BY <1>1 DEF Begin
<1>2. CASE Cancel
  BY <1>2 DEF Cancel
<1>3. CASE Pull
  BY <1>3 DEF Pull
<1>4. CASE Tag
  BY <1>4 DEF Tag
<1>5. CASE ReadTemplate
  BY <1>5 DEF ReadTemplate
<1>6. CASE TruncateTemplate
  BY <1>6 DEF TruncateTemplate
<1>7. CASE FillTemplate
  BY <1>7 DEF FillTemplate
<1>8. CASE UpdateContainer
  BY <1>8 DEF UpdateContainer
<1>9. CASE Healthy
  BY <1>9 DEF Healthy
<1>10. CASE GiveUp
  BY <1>10 DEF GiveUp
<1>11. CASE Crash
  BY <1>11 DEF Crash
<1>12. CASE UNCHANGED vars
  BY <1>12 DEF vars
<1>13. CASE StartPull \/ StartTag \/ StartUpdate
  BY <1>13 DEF StartPull, StartTag, StartUpdate, Start
<1>14. ASSUME NEW o \in orphans, OrphanRemoves(o) \/ OrphanEnds(o) PROVE ResultInv'
  BY <1>14 DEF OrphanRemoves, OrphanEnds, Recreated
<1> HIDE DEF ResultInv
<1> QED
  BY <1>1, <1>2, <1>3, <1>4, <1>5, <1>6, <1>7, <1>8, <1>9, <1>10, <1>11, <1>12,
     <1>13, <1>14
  DEF Next, Run, Orphans

\* The run returns nil only from the last container, all others being behind it.
LEMMA NextDeployed ==
    TypeOK /\ Progress /\ ResultInv /\ OrphanInv /\ OkMeansDeployed /\ [Next]_vars => OkMeansDeployed'
<1> SUFFICES ASSUME TypeOK, Progress, ResultInv, OrphanInv, OkMeansDeployed, [Next]_vars
             PROVE  OkMeansDeployed'
  OBVIOUS
<1> USE RunAssumption
    DEF TypeOK, Pins, Made, Containers, Fail, Continue,
        dockerVars, hostVars, runVars,
        Progress, InLoop, Deployed, UntouchedBy,
        ResultInv, OkMeansDeployed
<1>1. ASSUME NEW v \in Versions, Begin(v) PROVE OkMeansDeployed'
  BY <1>1 DEF Begin
<1>2. CASE Cancel
  BY <1>2 DEF Cancel
<1>3. CASE Pull
  BY <1>3 DEF Pull
<1>4. CASE Tag
  BY <1>4 DEF Tag
<1>5. CASE ReadTemplate
  BY <1>5 DEF ReadTemplate
<1>6. CASE TruncateTemplate
  BY <1>6 DEF TruncateTemplate
<1>7. CASE FillTemplate
  BY <1>7 DEF FillTemplate
<1>8. CASE UpdateContainer
  BY <1>8 DEF UpdateContainer
<1>9. CASE Healthy
  BY <1>9 DEF Healthy, AtLast
<1>10. CASE GiveUp
  BY <1>10 DEF GiveUp
<1>11. CASE Crash
  BY <1>11 DEF Crash
<1>12. CASE UNCHANGED vars
  BY <1>12 DEF vars
<1>13. CASE StartPull \/ StartTag \/ StartUpdate
  BY <1>13 DEF StartPull, StartTag, StartUpdate, Start
<1>14. ASSUME NEW o \in orphans, OrphanRemoves(o) \/ OrphanEnds(o) PROVE OkMeansDeployed'
  BY <1>14 DEF OrphanInv, OrphanRemoves, OrphanEnds, Recreated
<1> HIDE DEF TypeOK, Progress, OkMeansDeployed
<1> QED
  BY <1>1, <1>2, <1>3, <1>4, <1>5, <1>6, <1>7, <1>8, <1>9, <1>10, <1>11, <1>12,
     <1>13, <1>14
  DEF Next, Run, Orphans

\* What a run touches is the container it is at, and all behind that are deployed.
LEMMA NextOrder ==
    TypeOK /\ Progress /\ OrphanInv /\ RolloutInOrder /\ [Next]_vars => RolloutInOrder'
<1> SUFFICES ASSUME TypeOK, Progress, OrphanInv, RolloutInOrder, [Next]_vars
             PROVE  RolloutInOrder'
  OBVIOUS
<1> USE RunAssumption
    DEF TypeOK, Pins, Made, Containers, Fail, Continue,
        dockerVars, hostVars, runVars,
        Progress, InLoop, Deployed, UntouchedBy,
        RolloutInOrder
<1>1. ASSUME NEW v \in Versions, Begin(v) PROVE RolloutInOrder'
  BY <1>1 DEF Begin
<1>2. CASE Cancel
  BY <1>2 DEF Cancel
<1>3. CASE Pull
  BY <1>3 DEF Pull
<1>4. CASE Tag
  BY <1>4 DEF Tag
<1>5. CASE ReadTemplate
  BY <1>5 DEF ReadTemplate
<1>6. CASE TruncateTemplate
  BY <1>6 DEF TruncateTemplate
<1>7. CASE FillTemplate
  BY <1>7 DEF FillTemplate
<1>8. CASE UpdateContainer
  <2> SUFFICES ASSUME NEW c \in Containers
               PROVE  \/ UntouchedBy(c)'
                      \/ (\A d \in 1..(c - 1) : Deployed(d))'
    OBVIOUS
  <2>1. ASSUME NEW d \in Containers, d # current
        PROVE  template'[d] = template[d] /\ container'[d] = container[d]
    BY <1>8, <2>1 DEF UpdateContainer
  <2>2. UNCHANGED runVars
    BY <1>8 DEF UpdateContainer
  <2>3. CASE c > current
    <3>1. UntouchedBy(c)'
      BY <1>8, <2>1, <2>2, <2>3 DEF UpdateContainer
    <3> QED
      BY <3>1
  <2>4. CASE c <= current
    <3>1. (\A d \in 1..(c - 1) : Deployed(d))'
      BY <1>8, <2>1, <2>2, <2>4 DEF UpdateContainer
    <3> QED
      BY <3>1
  <2> QED
    BY <2>3, <2>4
<1>9. CASE Healthy
  BY <1>9 DEF Healthy, AtLast
<1>10. CASE GiveUp
  BY <1>10 DEF GiveUp
<1>11. CASE Crash
  BY <1>11 DEF Crash
<1>12. CASE UNCHANGED vars
  BY <1>12 DEF vars
<1>13. CASE StartPull \/ StartTag \/ StartUpdate
  BY <1>13 DEF StartPull, StartTag, StartUpdate, Start
<1>14. ASSUME NEW o \in orphans, OrphanRemoves(o) \/ OrphanEnds(o) PROVE RolloutInOrder'
  BY <1>14 DEF OrphanInv, OrphanRemoves, OrphanEnds, Recreated
<1> HIDE DEF TypeOK, Progress, RolloutInOrder
<1> QED
  BY <1>1, <1>2, <1>3, <1>4, <1>5, <1>6, <1>7, <1>8, <1>9, <1>10, <1>11, <1>12,
     <1>13, <1>14
  DEF Next, Run, Orphans

\* Past the first container the version is not broken.
LEMMA NextBroken ==
    TypeOK /\ Progress /\ Sound /\ OrphanInv /\ BrokenStopsAtFirst /\ [Next]_vars =>
        BrokenStopsAtFirst'
<1> SUFFICES ASSUME TypeOK, Progress, Sound, OrphanInv, BrokenStopsAtFirst, [Next]_vars
             PROVE  BrokenStopsAtFirst'
  OBVIOUS
<1> USE RunAssumption
    DEF TypeOK, Pins, Made, Containers, Fail, Continue,
        dockerVars, hostVars, runVars,
        Progress, InLoop, Deployed, UntouchedBy,
        Sound, BrokenStopsAtFirst
<1>1. ASSUME NEW v \in Versions, Begin(v) PROVE BrokenStopsAtFirst'
  BY <1>1 DEF Begin
<1>2. CASE Cancel
  BY <1>2 DEF Cancel
<1>3. CASE Pull
  BY <1>3 DEF Pull
<1>4. CASE Tag
  BY <1>4 DEF Tag
<1>5. CASE ReadTemplate
  BY <1>5 DEF ReadTemplate
<1>6. CASE TruncateTemplate
  BY <1>6 DEF TruncateTemplate
<1>7. CASE FillTemplate
  BY <1>7 DEF FillTemplate
<1>8. CASE UpdateContainer
  BY <1>8 DEF UpdateContainer
<1>9. CASE Healthy
  BY <1>9 DEF Healthy, AtLast
<1>10. CASE GiveUp
  BY <1>10 DEF GiveUp
<1>11. CASE Crash
  BY <1>11 DEF Crash
<1>12. CASE UNCHANGED vars
  BY <1>12 DEF vars
<1>13. CASE StartPull \/ StartTag \/ StartUpdate
  BY <1>13 DEF StartPull, StartTag, StartUpdate, Start
<1>14. ASSUME NEW o \in orphans, OrphanRemoves(o) \/ OrphanEnds(o) PROVE BrokenStopsAtFirst'
  <2>1. template' = template
    BY <1>14 DEF OrphanRemoves, OrphanEnds
  <2>2. o.at \in Containers /\ o.version \in Versions
    BY DEF Command
  <2>3. \A c \in Containers : c # o.at => container'[c] = container[c]
    BY <1>14, <2>2 DEF OrphanRemoves, OrphanEnds, Recreated
  <2>4. \/ container' = container
        \/ /\ o.step = "updating"
           /\ container'[o.at] \in {Absent, o.version, template[o.at]}
    BY <1>14, <2>2 DEF OrphanRemoves, OrphanEnds, Recreated
  <2>5. o.step = "updating" /\ o.at # 1 =>
          o.version \notin Broken /\ template[o.at] \notin Broken /\ Absent \notin Broken
    BY <2>2 DEF OrphanInv
  <2> SUFFICES ASSUME NEW c \in Containers \ {1}
               PROVE  container'[c] \notin Broken
    BY <2>1
  <2> QED
    BY <2>3, <2>4, <2>5
<1> HIDE DEF TypeOK, Progress, BrokenStopsAtFirst
<1> QED
  BY <1>1, <1>2, <1>3, <1>4, <1>5, <1>6, <1>7, <1>8, <1>9, <1>10, <1>11, <1>12,
     <1>13, <1>14
  DEF Next, Run, Orphans

\* The run does not get past reading a torn template.
LEMMA NextTorn ==
    TypeOK /\ Progress /\ OrphanInv /\ TornStaysTorn /\ [Next]_vars => TornStaysTorn'
<1> SUFFICES ASSUME TypeOK, Progress, OrphanInv, TornStaysTorn, [Next]_vars
             PROVE  TornStaysTorn'
  OBVIOUS
<1> USE RunAssumption
    DEF TypeOK, Pins, Made, Containers, Fail, Continue,
        dockerVars, hostVars, runVars,
        Progress, InLoop, Deployed, UntouchedBy,
        TornStaysTorn
<1>1. ASSUME NEW v \in Versions, Begin(v) PROVE TornStaysTorn'
  BY <1>1 DEF Begin
<1>2. CASE Cancel
  BY <1>2 DEF Cancel
<1>3. CASE Pull
  BY <1>3 DEF Pull
<1>4. CASE Tag
  BY <1>4 DEF Tag
<1>5. CASE ReadTemplate
  BY <1>5 DEF ReadTemplate, HasRepoTag
<1>6. CASE TruncateTemplate
  BY <1>6 DEF TruncateTemplate
<1>7. CASE FillTemplate
  BY <1>7 DEF FillTemplate
<1>8. CASE UpdateContainer
  BY <1>8 DEF UpdateContainer
<1>9. CASE Healthy
  BY <1>9 DEF Healthy, AtLast
<1>10. CASE GiveUp
  BY <1>10 DEF GiveUp
<1>11. CASE Crash
  BY <1>11 DEF Crash
<1>12. CASE UNCHANGED vars
  BY <1>12 DEF vars
<1>13. CASE StartPull \/ StartTag \/ StartUpdate
  BY <1>13 DEF StartPull, StartTag, StartUpdate, Start
<1>14. ASSUME NEW o \in orphans, OrphanRemoves(o) \/ OrphanEnds(o) PROVE TornStaysTorn'
  BY <1>14 DEF OrphanInv, OrphanRemoves, OrphanEnds, Recreated
<1> HIDE DEF TypeOK, Progress, TornStaysTorn
<1> QED
  BY <1>1, <1>2, <1>3, <1>4, <1>5, <1>6, <1>7, <1>8, <1>9, <1>10, <1>11, <1>12,
     <1>13, <1>14
  DEF Next, Run, Orphans

\* A run's command is left only when the run crashes, and then no run goes on.
LEMMA NextOrphans ==
    TypeOK /\ Progress /\ Sound /\ OrphanInv /\ [Next]_vars => OrphanInv'
<1> SUFFICES ASSUME TypeOK, Progress, Sound, OrphanInv, [Next]_vars
             PROVE  OrphanInv'
  OBVIOUS
<1> USE RunAssumption
    DEF TypeOK, Pins, Made, Containers, Programs, Fail, Continue,
        dockerVars, hostVars, runVars, Deployed, UntouchedBy, OrphanInv
<1>1. ASSUME NEW v \in Versions, Begin(v) PROVE OrphanInv'
  BY <1>1 DEF Begin
<1>2. CASE Cancel
  BY <1>2 DEF Cancel
<1>3. CASE Pull \/ Tag
  BY <1>3 DEF Pull, Tag
<1>4. CASE ReadTemplate \/ TruncateTemplate \/ FillTemplate
  BY <1>4 DEF ReadTemplate, TruncateTemplate, FillTemplate
<1>5. CASE UpdateContainer
  BY <1>5 DEF UpdateContainer
<1>6. CASE Healthy \/ GiveUp
  BY <1>6 DEF Healthy, GiveUp
<1>7. CASE Crash
  BY <1>7 DEF Crash, Progress, Sound, InLoop
<1>8. CASE UNCHANGED vars
  BY <1>8 DEF vars
<1>9. CASE StartPull \/ StartTag \/ StartUpdate
  BY <1>9 DEF StartPull, StartTag, StartUpdate, Start
<1>10. ASSUME NEW o \in orphans, OrphanRemoves(o) \/ OrphanEnds(o) PROVE OrphanInv'
  <2>1. /\ orphans' \subseteq orphans
        /\ UNCHANGED <<pc, current, result, template, version, before, stray>>
    BY <1>10 DEF OrphanRemoves, OrphanEnds
  <2>2. \A c \in Containers : c # o.at => container'[c] = container[c]
    BY <1>10 DEF Command, OrphanRemoves, OrphanEnds, Recreated
  <2>3. ~stray => o.at = current
    OBVIOUS
  <2> QED
    BY <2>1, <2>2, <2>3
<1> HIDE DEF TypeOK, OrphanInv
<1> QED
  BY <1>1, <1>2, <1>3, <1>4, <1>5, <1>6, <1>7, <1>8, <1>9, <1>10
  DEF Next, Run, Orphans

-----------------------------------------------------------------------------
(* The inductive invariant, and what follows from it. *)

LEMMA InitIInv == Init => IInv
<1> SUFFICES ASSUME Init
             PROVE  IInv
  OBVIOUS
<1> USE RunAssumption DEF Init, Containers, Pins, Made
<1>1. TypeOK
  <2>1. template \in [Containers -> Pins] /\ container \in [Containers -> Made]
    OBVIOUS
  <2>2. before \in [template : [Containers -> Pins], container : [Containers -> Made]]
    BY <2>1
  <2>3. latest \in Made /\ current \in Containers /\ images \subseteq Versions
    OBVIOUS
  <2> HIDE DEF Containers, Pins, Made
  <2> QED
    BY <2>1, <2>2, <2>3 DEF TypeOK
<1>2. Progress /\ Sound /\ ResultInv /\ OrphanInv
  BY DEF Progress, Sound, ResultInv, OrphanInv, InLoop
<1>3. OkMeansDeployed /\ RolloutInOrder /\ TornStaysTorn
  BY DEF OkMeansDeployed, RolloutInOrder, TornStaysTorn, UntouchedBy
<1>4. BrokenStopsAtFirst
  <2>1. ASSUME NEW c \in Containers
        PROVE  template[c] \notin Broken /\ container[c] \notin Broken
    OBVIOUS
  <2> QED
    BY <2>1 DEF BrokenStopsAtFirst
<1> QED
  BY <1>1, <1>2, <1>3, <1>4 DEF IInv

\* IInv holds in every reachable state.
THEOREM Invariance == Spec => []IInv
<1>1. IInv /\ [Next]_vars => IInv'
  BY NextType, NextProgress, NextSound, NextResult, NextDeployed, NextOrder,
     NextBroken, NextTorn, NextOrphans
  DEF IInv
<1> QED
  BY <1>1, InitIInv, PTL DEF Spec

\* Every variable keeps its type, for any number of containers.
THEOREM TypeCorrect == Spec => []TypeOK
  BY Invariance, PTL DEF IInv

\* A run that returned nil left the whole host at its version.
THEOREM OkIsDeployed == Spec => []OkMeansDeployed
  BY Invariance, PTL DEF IInv

\* No container is touched before all those ahead of it are at the version.
THEOREM InOrder == Spec => []RolloutInOrder
  BY Invariance, PTL DEF IInv

\* A broken image goes no further than the first container.
THEOREM BrokenStops == Spec => []BrokenStopsAtFirst
  BY Invariance, PTL DEF IInv

\* A torn template stays torn, and its container alone.
THEOREM TornStays == Spec => []TornStaysTorn
  BY Invariance, PTL DEF IInv

\* Containers are created only at the version that is pinned, tagged and pulled,
\* or by a command that outlived its daemon, at the version that one had pinned.
THEOREM Created == Spec => CreatedAsPinned
<1> DEFINE Step ==
      \A c \in Containers :
          container'[c] # container[c] /\ container'[c] # Absent =>
              \/ /\ container'[c] = template[c]
                 /\ template[c] = version
                 /\ stray \/ latest = version
                 /\ version \in images
              \/ \E o \in orphans :
                   /\ o.step = "updating" /\ o.at = c
                   /\ container'[c] \in {o.version, template[c]}
<1>1. IInv /\ [Next]_vars => [Step]_vars
  <2> SUFFICES ASSUME IInv, Next
               PROVE  Step
    OBVIOUS
  <2>1. CASE UpdateContainer
    BY <2>1 DEF IInv, TypeOK, Progress, InLoop, UpdateContainer, Continue
  <2>2. ASSUME NEW o \in orphans, OrphanRemoves(o) \/ OrphanEnds(o)
        PROVE  Step
    <3> SUFFICES ASSUME NEW c \in Containers,
                        container'[c] # container[c], container'[c] # Absent
                 PROVE  /\ o.step = "updating" /\ o.at = c
                        /\ container'[c] \in {o.version, template[c]}
      OBVIOUS
    <3> QED
      BY <2>2 DEF IInv, TypeOK, Command, OrphanRemoves, OrphanEnds, Recreated
  <2>3. CASE UNCHANGED container
    BY <2>3
  <2> QED
    BY <2>1, <2>2, <2>3
    DEF Next, Run, Orphans, Begin, Cancel, StartPull, StartTag, StartUpdate, Start,
        Pull, Tag, ReadTemplate, TruncateTemplate, FillTemplate, Healthy, GiveUp,
        Crash, hostVars
<1> QED
  BY <1>1, Invariance, PTL DEF Spec, CreatedAsPinned

\* A run whose context is done starts no command, and changes nothing but by the
\* command that is ending and in the template it is at.
THEOREM CancelledPins == Spec => CancelledRunOnlyPins
<1> DEFINE Step ==
      pc # "idle" /\ ctxDone =>
          /\ pc' \in Programs => pc' = pc
          /\ pc \notin Programs /\ orphans = {} => UNCHANGED <<images, latest, container>>
          /\ \A c \in Containers : template'[c] # template[c] => c = current
<1>1. IInv /\ [Next]_vars => [Step]_vars
  <2> SUFFICES ASSUME IInv, Next, pc # "idle", ctxDone
               PROVE  Step
    OBVIOUS
  <2>1. ~Cancel /\ \A v \in Versions : ~Begin(v)
    BY DEF Cancel, Begin
  <2>2. CASE Pull \/ Tag \/ UpdateContainer
    BY <2>2 DEF Pull, Tag, UpdateContainer, Programs, Fail, Continue
  <2>3. CASE ReadTemplate \/ TruncateTemplate \/ FillTemplate \/ Healthy \/ GiveUp
    BY <2>3
    DEF IInv, TypeOK, ReadTemplate, TruncateTemplate, FillTemplate, Healthy, GiveUp,
        Programs, Fail, Continue, hostVars, dockerVars
  <2>4. CASE StartPull \/ StartTag \/ StartUpdate \/ Crash
    BY <2>4
    DEF StartPull, StartTag, StartUpdate, Start, Starts, Crash, Programs, Fail, hostVars
  <2>5. CASE Orphans
    BY <2>5 DEF Orphans, OrphanRemoves, OrphanEnds
  <2> QED
    BY <2>1, <2>2, <2>3, <2>4, <2>5 DEF Next, Run
<1> QED
  BY <1>1, Invariance, PTL DEF Spec, CancelledRunOnlyPins

\* A run whose context is done is over within five of its steps, wherever it is.
THEOREM CancelledEnds == Spec => CancelledRunEndsSoon
<1> DEFINE Step ==
      pc # "idle" /\ ctxDone =>
          \/ UNCHANGED <<pc, current, template, result>>
          \/ StepsLeft' < StepsLeft
<1>1. IInv /\ [Next]_vars => [Step]_vars
  <2> SUFFICES ASSUME IInv, Next, pc # "idle", ctxDone, ~Orphans
               PROVE  StepsLeft' < StepsLeft
    BY DEF Orphans, OrphanRemoves, OrphanEnds
  <2>1. ~Cancel /\ ~Healthy /\ \A v \in Versions : ~Begin(v)
    BY DEF Cancel, Healthy, Begin
  <2>2. \/ pc' = "idle"
        \/ pc = "pulling" /\ pc' = "tag"
        \/ pc = "tagging" /\ pc' = "read"
        \/ pc = "read" /\ pc' = "write"
        \/ pc = "write" /\ pc' = "fill"
        \/ pc = "fill" /\ pc' = "update"
        \/ pc = "updating" /\ pc' = "health"
    BY <2>1
    DEF Next, Run, StartPull, StartTag, StartUpdate, Start, Starts, Pull, Tag,
        ReadTemplate, TruncateTemplate, FillTemplate, UpdateContainer, GiveUp, Crash,
        Fail, Continue
  <2> QED
    BY <2>2 DEF StepsLeft, IInv, TypeOK, Programs
<1> QED
  BY <1>1, Invariance, PTL DEF Spec, CancelledRunEndsSoon

-----------------------------------------------------------------------------
(* DeployService. *)

WantInv == want \in [Requests -> Versions]

\* applyMu is held by the one handler that is past it, and a run is in progress
\* only while that handler waits for it.
LockInv ==
    /\ phase \in [Requests -> {"away", "queued"} \cup Locked]
    /\ holder \in Requests \cup {NoRequest}
    /\ \A r \in Requests : phase[r] \in Locked <=> holder = r
    /\ pc # "idle" => holder # NoRequest /\ phase[holder] = "running"

\* The last result, once it is stored, is that of the last run.
BoardInv ==
    /\ \A r \in Requests : phase[r] \in {"running", "storing"} =>
         version = want[r] /\ (pc = "idle" => result \in {"ok", "fail"})
    /\ (\A r \in Requests : phase[r] \notin {"running", "storing"}) /\ last # NoResult =>
         last = [version |-> version, status |-> result]

\* A run whose request left before it began does not get past docker pull.
LeftInv ==
    /\ gone \subseteq Requests
    /\ left \subseteq gone
    /\ \A r \in left : phase[r] \in Locked => ctxDone /\ pc \in {"idle", "pull"}

ServiceInv == WantInv /\ LockInv /\ BoardInv /\ LeftInv

-----------------------------------------------------------------------------
\* What a request asks for is a version.
LEMMA Wants == SSpec => []WantInv
<1>1. SInit => WantInv
  BY DEF SInit, WantInv
<1>2. WantInv /\ [SNext]_svars => WantInv'
  BY DEF WantInv, SNext, Arrive, Leave, Acquire, RunStep, OrphanStep, Finish, Store,
         Unlock, Restart, serviceVars, svars
<1> QED
  BY <1>1, <1>2, PTL DEF SSpec

\* Every step of the service is a step of DeployRun, or leaves the host and the
\* run alone.
LEMMA StepLifts == WantInv /\ [SNext]_svars => [Next]_vars
<1> SUFFICES ASSUME WantInv, [SNext]_svars PROVE [Next]_vars
  OBVIOUS
<1>1. CASE RunStep \/ OrphanStep
  BY <1>1 DEF RunStep, OrphanStep, Next
<1>2. ASSUME NEW r \in Requests, NEW v \in Versions, Arrive(r, v) PROVE [Next]_vars
  BY <1>2 DEF Arrive
<1>3. ASSUME NEW r \in Requests, Leave(r) PROVE [Next]_vars
  BY <1>3 DEF Leave, Next
<1>4. ASSUME NEW r \in Requests, Acquire(r) PROVE [Next]_vars
  BY <1>4 DEF WantInv, Acquire, Next
<1>5. ASSUME NEW r \in Requests, Finish(r) \/ Store(r) \/ Unlock(r) PROVE [Next]_vars
  BY <1>5 DEF Finish, Store, Unlock
<1>6. CASE Restart
  BY <1>6 DEF Restart, Next
<1>7. CASE UNCHANGED svars
  BY <1>7 DEF svars
<1> QED
  BY <1>1, <1>2, <1>3, <1>4, <1>5, <1>6, <1>7 DEF SNext

\* To the host the service is one run after another: what DeployRun promises of
\* runs that are alone holds for those of any number of requests.
THEOREM RunsAsAlone == SSpec => Spec
<1>1. SInit => Init
  BY DEF SInit
<1> QED
  BY <1>1, StepLifts, Wants, PTL DEF SSpec, Spec

\* Nothing but a run's own steps moves it, and none ends it with a result other
\* than ok or fail.
LEMMA RunMoves ==
    ASSUME Run
    PROVE  /\ UNCHANGED <<version, ctxDone>>
           /\ result' = result \/ result' \in {"ok", "fail"}
           /\ pc' = "idle" => result' \in {"ok", "fail"}
           /\ pc # "idle"
  BY DEF Run, StartPull, StartTag, StartUpdate, Start, Pull, Tag, ReadTemplate,
         TruncateTemplate, FillTemplate, UpdateContainer, Healthy, GiveUp, Continue,
         Fail, runVars

\* Commands that are left from an earlier daemon move no run, and no template.
LEMMA OrphansAside ==
    ASSUME OrphanStep
    PROVE  UNCHANGED <<pc, version, ctxDone, result, template, serviceVars>>
  BY DEF OrphanStep, Orphans, OrphanRemoves, OrphanEnds, runVars

\* The lock.
LEMMA NextLock == ServiceInv /\ [SNext]_svars => LockInv'
<1> SUFFICES ASSUME ServiceInv, [SNext]_svars PROVE LockInv'
  OBVIOUS
<1> USE ServiceAssumption DEF ServiceInv, LockInv, Locked, Goto
<1>1. CASE RunStep
  BY <1>1 DEF RunStep, serviceVars
<1>2. ASSUME NEW r \in Requests, NEW v \in Versions, Arrive(r, v) PROVE LockInv'
  BY <1>2 DEF Arrive, vars
<1>3. ASSUME NEW r \in Requests, Leave(r) PROVE LockInv'
  BY <1>3 DEF Leave, Cancel, vars
<1>4. ASSUME NEW r \in Requests, Acquire(r) PROVE LockInv'
  BY <1>4 DEF Acquire
<1>5. ASSUME NEW r \in Requests, Finish(r) \/ Store(r) \/ Unlock(r) PROVE LockInv'
  BY <1>5 DEF Finish, Store, Unlock, vars
<1>6. CASE Restart
  BY <1>6 DEF Restart, Crash, vars
<1>7. CASE UNCHANGED svars
  BY <1>7 DEF svars, vars, serviceVars
<1>8. CASE OrphanStep
  BY <1>8, OrphansAside DEF serviceVars
<1> QED
  BY <1>1, <1>2, <1>3, <1>4, <1>5, <1>6, <1>7, <1>8 DEF SNext

\* The last result.
LEMMA NextBoard == ServiceInv /\ [SNext]_svars => BoardInv'
<1> SUFFICES ASSUME ServiceInv, [SNext]_svars PROVE BoardInv'
  OBVIOUS
<1> USE ServiceAssumption DEF ServiceInv, WantInv, LockInv, BoardInv, Locked, Goto
<1>1. CASE RunStep
  <2>1. phase[holder] = "running" /\ holder \in Requests /\ UNCHANGED serviceVars
    BY <1>1 DEF RunStep
  <2>2. version' = version /\ (pc' = "idle" => result' \in {"ok", "fail"})
    BY <1>1, RunMoves DEF RunStep
  <2> QED
    BY <2>1, <2>2 DEF serviceVars
<1>2. ASSUME NEW r \in Requests, NEW v \in Versions, Arrive(r, v) PROVE BoardInv'
  BY <1>2 DEF Arrive, vars
<1>3. ASSUME NEW r \in Requests, Leave(r) PROVE BoardInv'
  BY <1>3 DEF Leave, Cancel, vars
<1>4. ASSUME NEW r \in Requests, Acquire(r) PROVE BoardInv'
  BY <1>4 DEF Acquire, Begin
<1>5. ASSUME NEW r \in Requests, Finish(r) PROVE BoardInv'
  BY <1>5 DEF Finish, vars
<1>6. ASSUME NEW r \in Requests, Store(r) PROVE BoardInv'
  BY <1>6 DEF Store, vars
<1>7. ASSUME NEW r \in Requests, Unlock(r) PROVE BoardInv'
  BY <1>7 DEF Unlock, vars
<1>8. CASE Restart
  BY <1>8 DEF Restart
<1>9. CASE UNCHANGED svars
  BY <1>9 DEF svars, vars, serviceVars
<1>10. CASE OrphanStep
  BY <1>10, OrphansAside DEF serviceVars
<1> QED
  BY <1>1, <1>2, <1>3, <1>4, <1>5, <1>6, <1>7, <1>8, <1>9, <1>10 DEF SNext

\* A run that has no context to start docker pull with ends there.
LEMMA PullAlone ==
    ASSUME Run, ctxDone, pc \in {"idle", "pull"}
    PROVE  pc' = "idle" /\ UNCHANGED <<images, latest, template, container, ctxDone>>
  BY DEF Run, StartPull, StartTag, StartUpdate, Start, hostVars, Pull, Tag, ReadTemplate, TruncateTemplate, FillTemplate, UpdateContainer,
         Healthy, GiveUp, Starts, Fail, runVars

\* Requests that have left.
LEMMA NextLeft == ServiceInv /\ [SNext]_svars => LeftInv'
<1> SUFFICES ASSUME ServiceInv, [SNext]_svars PROVE LeftInv'
  OBVIOUS
<1> USE DEF ServiceInv
<1>1. CASE RunStep
  <2>1. Run /\ phase[holder] = "running" /\ holder \in Requests /\ UNCHANGED serviceVars
    BY <1>1 DEF RunStep, LockInv
  <2>2. ASSUME NEW r \in left, phase[r] \in Locked PROVE ctxDone' /\ pc' \in {"idle", "pull"}
    <3>1. ctxDone /\ pc \in {"idle", "pull"}
      BY <2>2 DEF LeftInv
    <3> QED
      BY <2>1, <3>1, PullAlone
  <2> QED
    BY <2>1, <2>2 DEF serviceVars, LeftInv
<1>2. ASSUME NEW r \in Requests, NEW v \in Versions, Arrive(r, v) PROVE LeftInv'
  BY <1>2 DEF Arrive, vars, LeftInv, LockInv, Locked, Goto
<1>3. ASSUME NEW r \in Requests, Leave(r) PROVE LeftInv'
  <2>1. gone' \subseteq Requests /\ left' \subseteq gone'
    BY <1>3 DEF Leave, LeftInv
  <2>2. pc' = pc /\ (ctxDone => ctxDone') /\ phase' = phase
    BY <1>3 DEF Leave, Cancel, vars
  <2>3. \A q \in left' : phase[q] \in Locked => q \in left
    BY <1>3 DEF Leave, Locked
  <2> QED
    BY <2>1, <2>2, <2>3 DEF LeftInv
<1>4. ASSUME NEW r \in Requests, Acquire(r) PROVE LeftInv'
  <2>1. left' = left /\ gone' = gone /\ pc' = "pull" /\ ctxDone' = (r \in gone)
    BY <1>4 DEF Acquire, Begin, OwnContext
  <2>2. \A q \in Requests : phase'[q] \in Locked => q = r
    BY <1>4, ServiceAssumption DEF Acquire, Goto, LockInv
  <2>3. gone \subseteq Requests /\ left \subseteq gone
    BY DEF LeftInv
  <2> QED
    BY <2>1, <2>2, <2>3 DEF LeftInv
<1>5. ASSUME NEW r \in Requests, Finish(r) \/ Store(r) \/ Unlock(r) PROVE LeftInv'
  <2>1. /\ gone' \subseteq Requests
        /\ left' \subseteq gone' /\ left' \subseteq left
        /\ pc' = pc /\ ctxDone' = ctxDone
    BY <1>5 DEF Finish, Store, Unlock, vars, LeftInv
  <2>2. \A q \in Requests : phase'[q] \in Locked => phase[q] \in Locked
    BY <1>5 DEF Finish, Store, Unlock, Goto, LockInv, Locked
  <2> QED
    BY <2>1, <2>2 DEF LeftInv
<1>6. CASE Restart
  BY <1>6 DEF Restart, LeftInv
<1>7. CASE UNCHANGED svars
  BY <1>7 DEF svars, vars, serviceVars, LeftInv
<1>8. CASE OrphanStep
  BY <1>8, OrphansAside DEF serviceVars, LeftInv
<1> QED
  BY <1>1, <1>2, <1>3, <1>4, <1>5, <1>6, <1>7, <1>8 DEF SNext

\* The invariant of the service.
LEMMA ServiceInvariance == SSpec => []ServiceInv
<1>1. SInit => ServiceInv
  BY ServiceAssumption
  DEF SInit, Init, ServiceInv, WantInv, LockInv, BoardInv, LeftInv, Locked
<1>2. ServiceInv /\ WantInv' /\ [SNext]_svars => ServiceInv'
  BY NextLock, NextBoard, NextLeft DEF ServiceInv
<1> QED
  BY <1>1, <1>2, Wants, PTL DEF SSpec

-----------------------------------------------------------------------------
\* A /status that says ok tells the truth about the host.
THEOREM StatusIsTrue == SSpec => []StatusTellsTheHost
<1>1. ServiceInv /\ OkMeansDeployed => StatusTellsTheHost
  <2> SUFFICES ASSUME ServiceInv, OkMeansDeployed,
                      holder = NoRequest \/ phase[holder] = "unlocking",
                      last # NoResult, last.status = "ok"
               PROVE  Pinned(last.version) /\ (stray \/ HostAt(last.version))
    BY DEF StatusTellsTheHost
  <2>1. \A r \in Requests : phase[r] \notin {"running", "storing"}
    BY ServiceAssumption DEF ServiceInv, LockInv, Locked
  <2>2. last = [version |-> version, status |-> result]
    BY <2>1 DEF ServiceInv, BoardInv
  <2> QED
    BY <2>2 DEF OkMeansDeployed, Pinned, HostAt
<1> QED
  BY <1>1, ServiceInvariance, RunsAsAlone, OkIsDeployed, PTL

\* A request that left while it waited changes nothing on the host.
THEOREM LeftIsHarmless == SSpec => LeftInQueueChangesNothing
<1> DEFINE Step == holder # NoRequest /\ holder \in left =>
                     UNCHANGED template /\ (orphans = {} => UNCHANGED hostVars)
<1>1. ServiceInv /\ [SNext]_svars => [Step]_svars
  <2> SUFFICES ASSUME ServiceInv, SNext, holder # NoRequest, holder \in left
               PROVE  UNCHANGED template /\ (orphans = {} => UNCHANGED hostVars)
    OBVIOUS
  <2>1. ctxDone /\ pc \in {"idle", "pull"}
    BY DEF ServiceInv, LockInv, LeftInv, Locked
  <2>2. CASE RunStep
    BY <2>1, <2>2, PullAlone DEF RunStep, hostVars
  <2>3. ASSUME NEW r \in Requests, NEW v \in Versions, Arrive(r, v)
        PROVE  UNCHANGED hostVars
    BY <2>3 DEF Arrive, vars, hostVars
  <2>4. ASSUME NEW r \in Requests,
               Leave(r) \/ Acquire(r) \/ Finish(r) \/ Store(r) \/ Unlock(r)
        PROVE  UNCHANGED hostVars
    BY <2>4
    DEF Leave, Cancel, Acquire, Begin, Finish, Store, Unlock, vars, hostVars
  <2>5. CASE Restart
    BY <2>1, <2>5 DEF Restart, Crash, vars, hostVars
  <2>6. CASE OrphanStep
    BY <2>6, OrphansAside DEF OrphanStep, Orphans
  <2> QED
    BY <2>2, <2>3, <2>4, <2>5, <2>6 DEF SNext, hostVars
<1> QED
  BY <1>1, ServiceInvariance, PTL DEF SSpec, LeftInQueueChangesNothing
=============================================================================
