----------------------------- MODULE TfRunProofs -----------------------------
(***************************************************************************)
(* Proofs about TfRun, for any commits and any number of attempts.         *)
(***************************************************************************)
EXTENDS TfRun, TLAPS

Early == {"clear", "resolve", "clone", "cloning", "checkout", "checking", "stat"}

Trying == {"init", "initialising", "decide", "backoff"}

Commands == {"apply", "applyLock", "plan", "planLock"} \cup Locked

\* Past git checkout the work directory holds the commit that was asked for, and
\* past terraform init it is initialised; if nobody else was writing to it.
WorkInv ==
    /\ pc \in {"stat"} \cup Trying \cup Commands => sha \notin Unknown
    /\ ~stray =>
         /\ pc \in {"checkout", "checking"} => tree = "cloned"
         /\ pc \in {"stat"} \cup Trying \cup Commands => tree = sha
         /\ pc \in Trying \cup Commands => sha \notin Rootless
         /\ pc \in Commands => inited

\* The lock is held by exactly the program that is running, or by one orphan.
LockInv ==
    /\ lock = "held" <=> pc \in Locked
    /\ \A o \in orphans : o.step \in Locked => lock = "orphan"
    /\ \A o, p \in orphans : o.step \in Locked /\ p.step \in Locked => o = p

\* No attempt follows the last.
AttemptInv ==
    /\ pc \in Early => attempt = 0
    /\ pc = "init" => attempt < MaxAttempts
    /\ pc \in {"initialising", "decide"} => attempt >= 1
    /\ BackoffFits

\* Only an apply that has started makes a difference to the infrastructure.
InfraInv ==
    /\ pc \in {"apply", "applyLock", "applying"} => kind = "apply"
    /\ pc \in {"plan", "planLock", "planning"} => kind = "plan"
    /\ ~stray /\ pc \notin {"idle", "applying"} => infra = before
    /\ pc # "idle" => result = "none"

\* A program whose daemon is dead was there when the run began, or is what the last
\* run left when it crashed.
StrayInv == stray \/ orphans = {} \/ (pc = "idle" /\ result = "crash")

IInv ==
    /\ TypeOK /\ WorkInv /\ LockInv /\ AttemptInv /\ InfraInv /\ StrayInv
    /\ OkMeansApplied

-----------------------------------------------------------------------------
\* The first run finds whatever is there, and has done nothing.
LEMMA InitIInv == Init => IInv
<1> SUFFICES ASSUME Init PROVE IInv
  OBVIOUS
<1>1. attempt \in 0..MaxAttempts
  BY TfAssumption DEF Init
<1>2. TypeOK
  BY <1>1, Zenon DEF Init, TypeOK, Trees
<1>3. WorkInv /\ LockInv /\ AttemptInv
  BY DEF Init, WorkInv, LockInv, AttemptInv, BackoffFits, Locked, Early, Trying, Commands
<1>4. InfraInv /\ StrayInv /\ OkMeansApplied
  BY DEF Init, InfraInv, StrayInv, OkMeansApplied
<1> QED
  BY <1>1, <1>2, <1>3, <1>4 DEF IInv

\* Type correctness: AttemptInv bounds the attempts, WorkInv says what is applied.
LEMMA NextType ==
    TypeOK /\ WorkInv /\ AttemptInv /\ [Next]_vars => TypeOK'
<1> SUFFICES ASSUME TypeOK, WorkInv, AttemptInv, [Next]_vars
             PROVE  TypeOK'
  OBVIOUS
<1> USE TfAssumption
    DEF TypeOK, Trees, Locked, Programs, Command, Fail, Continue, Starts,
        workVars, hostVars, initVars, runVars,
        WorkInv, Trying, Commands, AttemptInv
<1>1. ASSUME NEW k \in {"apply", "plan"}, NEW s \in Shas, Begin(k, s) PROVE TypeOK'
  <2>1. ctxDone' \in BOOLEAN /\ stray' \in BOOLEAN
    BY <1>1, Zenon DEF Begin
  <2>2. /\ pc' = "clear" /\ result' = "none"
        /\ kind' = k /\ sha' = s /\ before' = infra
        /\ attempt' = 0 /\ transient' = FALSE
    BY <1>1 DEF Begin
  <2>3. UNCHANGED <<tree, inited, lock, infra, orphans>>
    BY <1>1 DEF Begin
  <2>4. attempt' \in 0..MaxAttempts
    BY <2>2
  <2> QED
    BY <2>1, <2>2, <2>3, <2>4, Zenon
<1>2. CASE Cancel
  BY <1>2 DEF Cancel
<1>3. CASE OutsideLock
  BY <1>3 DEF OutsideLock
<1>4. CASE StartClone \/ StartCheckout \/ StartApply \/ StartPlan
  BY <1>4 DEF StartClone, StartCheckout, StartApply, StartPlan, Start
<1>5. CASE StartInit
  <2>1. transient' \in BOOLEAN
    BY <1>5, Zenon DEF StartInit
  <2>2. attempt' \in 0..MaxAttempts
    BY <1>5 DEF StartInit
  <2> QED
    BY <1>5, <2>1, <2>2 DEF StartInit
<1>6. CASE ClearWorkDir
  <2>1. inited' \in BOOLEAN
    BY <1>6, Zenon DEF ClearWorkDir
  <2>2. tree' \in Trees
    BY <1>6 DEF ClearWorkDir
  <2>3. pc' \in {"idle", "resolve"} /\ result' \in {result, "fail"}
    BY <1>6 DEF ClearWorkDir
  <2>4. UNCHANGED <<lock, infra, kind, sha, attempt, transient, ctxDone, before, orphans, stray>>
    BY <1>6 DEF ClearWorkDir
  <2> QED
    BY <2>1, <2>2, <2>3, <2>4
<1>7. CASE ResolveCloneURL
  BY <1>7 DEF ResolveCloneURL, Mint
<1>8. CASE Clone
  BY <1>8 DEF Clone, Leavings
<1>9. CASE Checkout
  BY <1>9 DEF Checkout, CheckedOut, Leavings
<1>10. CASE StatRoot
  BY <1>10 DEF StatRoot
<1>11. CASE TfInit
  <2>1. inited' \in BOOLEAN
    BY <1>11, Zenon DEF TfInit, Requested
  <2>2. transient' \in BOOLEAN
    BY <1>11, Zenon DEF TfInit, Requested
  <2> QED
    BY <1>11, <2>1, <2>2 DEF TfInit, Requested
<1>12. CASE Decide
  BY <1>12 DEF Decide, LastAttempt
<1>13. CASE Backoff
  BY <1>13 DEF Backoff
<1>14. CASE LockForApply \/ LockForPlan
  BY <1>14 DEF LockForApply, LockForPlan, TakeLock
<1>15. CASE Change
  BY <1>15 DEF Change
<1>16. CASE EndTerraform
  <2>1. infra' \in Shas \cup {Mixed}
    BY <1>16 DEF EndTerraform, Outcome
  <2>2. lock' = "free" /\ pc' = "idle"
    BY <1>16 DEF EndTerraform
  <2>3. result' \in {"ok", "fail"}
    BY <1>16 DEF EndTerraform
  <2>4. UNCHANGED <<tree, inited, kind, sha, attempt, transient, ctxDone, before, orphans, stray>>
    BY <1>16 DEF EndTerraform
  <2> QED
    BY <2>1, <2>2, <2>3, <2>4
<1>17. CASE TerraformFails
  BY <1>17 DEF TerraformFails
<1>18. CASE Kill
  <2>1. infra' \in Shas \cup {Mixed}
    BY <1>18 DEF Kill, Outcome
  <2>2. lock' = "stale" /\ pc' = "idle" /\ result' = "fail"
    BY <1>18 DEF Kill
  <2>3. UNCHANGED <<tree, inited, kind, sha, attempt, transient, ctxDone, before, orphans, stray>>
    BY <1>18 DEF Kill
  <2> QED
    BY <2>1, <2>2, <2>3
<1>19. CASE Crash
  <2>1. inited' \in BOOLEAN
    BY <1>19, Zenon DEF Crash
  <2>2. tree' \in Trees
    BY <1>19 DEF Crash
  <2>3. lock' \in {lock, "orphan"}
    BY <1>19 DEF Crash
  <2>4. orphans' \subseteq Command
    BY <1>19 DEF Crash
  <2>5. pc' = "idle" /\ result' = "crash"
    BY <1>19 DEF Crash
  <2>6. UNCHANGED <<infra, kind, sha, attempt, transient, ctxDone, before, stray>>
    BY <1>19 DEF Crash
  <2> QED
    BY <2>1, <2>2, <2>3, <2>4, <2>5, <2>6
<1>20. CASE UNCHANGED vars
  BY <1>20 DEF vars
<1>21. ASSUME NEW o \in orphans,
              OrphanWrites(o) \/ OrphanLocks(o) \/ OrphanChanges(o) \/ OrphanEnds(o)
       PROVE  TypeOK'
  <2>1. inited' \in BOOLEAN
    BY <1>21, Zenon DEF OrphanWrites, OrphanLocks, OrphanChanges, OrphanEnds
  <2>2. tree' \in Trees
    BY <1>21 DEF OrphanWrites, OrphanLocks, OrphanChanges, OrphanEnds
  <2>3. infra' \in Shas \cup {Mixed}
    BY <1>21 DEF OrphanWrites, OrphanLocks, OrphanChanges, OrphanEnds
  <2>4. lock' \in {lock, "orphan", "free", "stale"}
    BY <1>21 DEF OrphanWrites, OrphanLocks, OrphanChanges, OrphanEnds
  <2>5. orphans' \subseteq Command
    BY <1>21 DEF OrphanWrites, OrphanLocks, OrphanChanges, OrphanEnds
  <2>6. UNCHANGED <<pc, result, kind, sha, attempt, transient, ctxDone, before, stray>>
    BY <1>21 DEF OrphanWrites, OrphanLocks, OrphanChanges, OrphanEnds
  <2> QED
    BY <2>1, <2>2, <2>3, <2>4, <2>5, <2>6
<1> HIDE DEF TypeOK, WorkInv, AttemptInv
<1> QED
  BY <1>1, <1>2, <1>3, <1>4, <1>5, <1>6, <1>7, <1>8, <1>9, <1>10,
     <1>11, <1>12, <1>13, <1>14, <1>15, <1>16, <1>17, <1>18, <1>19, <1>20, <1>21
  DEF Next, Starting, Prepare, Terraform, Orphans

\* The way from an arbitrary directory to an initialised commit.
LEMMA NextWork ==
    TypeOK /\ WorkInv /\ StrayInv /\ [Next]_vars => WorkInv'
<1> SUFFICES ASSUME TypeOK, WorkInv, StrayInv, [Next]_vars
             PROVE  WorkInv'
  OBVIOUS
<1> USE TfAssumption
    DEF TypeOK, Trees, Locked, Programs, Command, Fail, Continue, Starts,
        workVars, hostVars, initVars, runVars,
        WorkInv, Trying, Commands, StrayInv
<1>1. ASSUME NEW k \in {"apply", "plan"}, NEW s \in Shas, Begin(k, s) PROVE WorkInv'
  BY <1>1 DEF Begin
<1>2. CASE Cancel
  BY <1>2 DEF Cancel
<1>3. CASE OutsideLock
  BY <1>3 DEF OutsideLock
<1>4. CASE StartClone \/ StartCheckout \/ StartApply \/ StartPlan
  BY <1>4 DEF StartClone, StartCheckout, StartApply, StartPlan, Start
<1>5. CASE StartInit
  BY <1>5 DEF StartInit
<1>6. CASE ClearWorkDir
  BY <1>6 DEF ClearWorkDir
<1>7. CASE ResolveCloneURL
  BY <1>7 DEF ResolveCloneURL, Mint
<1>8. CASE Clone
  BY <1>8 DEF Clone, Leavings
<1>9. CASE Checkout
  BY <1>9 DEF Checkout, CheckedOut, Leavings
<1>10. CASE StatRoot
  BY <1>10 DEF StatRoot
<1>11. CASE TfInit
  BY <1>11 DEF TfInit, Requested
<1>12. CASE Decide
  BY <1>12 DEF Decide, LastAttempt
<1>13. CASE Backoff
  BY <1>13 DEF Backoff
<1>14. CASE LockForApply \/ LockForPlan
  BY <1>14 DEF LockForApply, LockForPlan, TakeLock
<1>15. CASE Change
  BY <1>15 DEF Change
<1>16. CASE EndTerraform
  BY <1>16 DEF EndTerraform, Outcome
<1>17. CASE TerraformFails
  BY <1>17 DEF TerraformFails
<1>18. CASE Kill
  BY <1>18 DEF Kill, Outcome
<1>19. CASE Crash
  BY <1>19 DEF Crash
<1>20. CASE UNCHANGED vars
  BY <1>20 DEF vars
<1>21. ASSUME NEW o \in orphans,
              OrphanWrites(o) \/ OrphanLocks(o) \/ OrphanChanges(o) \/ OrphanEnds(o)
       PROVE  WorkInv'
  BY <1>21 DEF OrphanWrites, OrphanLocks, OrphanChanges, OrphanEnds
<1> HIDE DEF TypeOK, WorkInv, StrayInv
<1> QED
  BY <1>1, <1>2, <1>3, <1>4, <1>5, <1>6, <1>7, <1>8, <1>9, <1>10,
     <1>11, <1>12, <1>13, <1>14, <1>15, <1>16, <1>17, <1>18, <1>19, <1>20, <1>21
  DEF Next, Starting, Prepare, Terraform, Orphans

\* Every way out of a terraform program lets go of the lock.
LEMMA NextLock ==
    TypeOK /\ LockInv /\ [Next]_vars => LockInv'
<1> SUFFICES ASSUME TypeOK, LockInv, [Next]_vars
             PROVE  LockInv'
  OBVIOUS
<1> USE TfAssumption
    DEF TypeOK, Trees, Locked, Programs, Command, Fail, Continue, Starts,
        workVars, hostVars, initVars, runVars,
        LockInv
<1>1. ASSUME NEW k \in {"apply", "plan"}, NEW s \in Shas, Begin(k, s) PROVE LockInv'
  BY <1>1 DEF Begin
<1>2. CASE Cancel
  BY <1>2 DEF Cancel
<1>3. CASE OutsideLock
  BY <1>3 DEF OutsideLock
<1>4. CASE StartClone \/ StartCheckout \/ StartApply \/ StartPlan
  BY <1>4 DEF StartClone, StartCheckout, StartApply, StartPlan, Start
<1>5. CASE StartInit
  BY <1>5 DEF StartInit
<1>6. CASE ClearWorkDir
  BY <1>6 DEF ClearWorkDir
<1>7. CASE ResolveCloneURL
  BY <1>7 DEF ResolveCloneURL, Mint
<1>8. CASE Clone
  BY <1>8 DEF Clone, Leavings
<1>9. CASE Checkout
  BY <1>9 DEF Checkout, CheckedOut, Leavings
<1>10. CASE StatRoot
  BY <1>10 DEF StatRoot
<1>11. CASE TfInit
  BY <1>11 DEF TfInit, Requested
<1>12. CASE Decide
  BY <1>12 DEF Decide, LastAttempt
<1>13. CASE Backoff
  BY <1>13 DEF Backoff
<1>14. CASE LockForApply \/ LockForPlan
  BY <1>14 DEF LockForApply, LockForPlan, TakeLock
<1>15. CASE Change
  BY <1>15 DEF Change
<1>16. CASE EndTerraform
  BY <1>16 DEF EndTerraform, Outcome
<1>17. CASE TerraformFails
  BY <1>17 DEF TerraformFails
<1>18. CASE Kill
  BY <1>18 DEF Kill, Outcome
<1>19. CASE Crash
  BY <1>19 DEF Crash
<1>20. CASE UNCHANGED vars
  BY <1>20 DEF vars
<1>21. ASSUME NEW o \in orphans,
              OrphanWrites(o) \/ OrphanLocks(o) \/ OrphanChanges(o) \/ OrphanEnds(o)
       PROVE  LockInv'
  BY <1>21 DEF OrphanWrites, OrphanLocks, OrphanChanges, OrphanEnds
<1> HIDE DEF TypeOK, LockInv
<1> QED
  BY <1>1, <1>2, <1>3, <1>4, <1>5, <1>6, <1>7, <1>8, <1>9, <1>10,
     <1>11, <1>12, <1>13, <1>14, <1>15, <1>16, <1>17, <1>18, <1>19, <1>20, <1>21
  DEF Next, Starting, Prepare, Terraform, Orphans

\* Another attempt is decided on only when it is not the last.
LEMMA NextAttempt ==
    TypeOK /\ AttemptInv /\ [Next]_vars => AttemptInv'
<1> SUFFICES ASSUME TypeOK, AttemptInv, [Next]_vars
             PROVE  AttemptInv'
  OBVIOUS
<1> USE TfAssumption
    DEF TypeOK, Trees, Locked, Programs, Command, Fail, Continue, Starts,
        workVars, hostVars, initVars, runVars,
        AttemptInv, BackoffFits, Early
<1>1. ASSUME NEW k \in {"apply", "plan"}, NEW s \in Shas, Begin(k, s) PROVE AttemptInv'
  BY <1>1 DEF Begin
<1>2. CASE Cancel
  BY <1>2 DEF Cancel
<1>3. CASE OutsideLock
  BY <1>3 DEF OutsideLock
<1>4. CASE StartClone \/ StartCheckout \/ StartApply \/ StartPlan
  BY <1>4 DEF StartClone, StartCheckout, StartApply, StartPlan, Start
<1>5. CASE StartInit
  BY <1>5 DEF StartInit
<1>6. CASE ClearWorkDir
  BY <1>6 DEF ClearWorkDir
<1>7. CASE ResolveCloneURL
  BY <1>7 DEF ResolveCloneURL, Mint
<1>8. CASE Clone
  BY <1>8 DEF Clone, Leavings
<1>9. CASE Checkout
  BY <1>9 DEF Checkout, CheckedOut, Leavings
<1>10. CASE StatRoot
  BY <1>10 DEF StatRoot
<1>11. CASE TfInit
  BY <1>11 DEF TfInit, Requested
<1>12. CASE Decide
  BY <1>12 DEF Decide, LastAttempt
<1>13. CASE Backoff
  BY <1>13 DEF Backoff
<1>14. CASE LockForApply \/ LockForPlan
  BY <1>14 DEF LockForApply, LockForPlan, TakeLock
<1>15. CASE Change
  BY <1>15 DEF Change
<1>16. CASE EndTerraform
  BY <1>16 DEF EndTerraform, Outcome
<1>17. CASE TerraformFails
  BY <1>17 DEF TerraformFails
<1>18. CASE Kill
  BY <1>18 DEF Kill, Outcome
<1>19. CASE Crash
  BY <1>19 DEF Crash
<1>20. CASE UNCHANGED vars
  BY <1>20 DEF vars
<1>21. ASSUME NEW o \in orphans,
              OrphanWrites(o) \/ OrphanLocks(o) \/ OrphanChanges(o) \/ OrphanEnds(o)
       PROVE  AttemptInv'
  BY <1>21 DEF OrphanWrites, OrphanLocks, OrphanChanges, OrphanEnds
<1> HIDE DEF TypeOK, AttemptInv
<1> QED
  BY <1>1, <1>2, <1>3, <1>4, <1>5, <1>6, <1>7, <1>8, <1>9, <1>10,
     <1>11, <1>12, <1>13, <1>14, <1>15, <1>16, <1>17, <1>18, <1>19, <1>20, <1>21
  DEF Next, Starting, Prepare, Terraform, Orphans

\* Each step but those of a running apply leaves the infrastructure alone.
LEMMA NextInfra ==
    TypeOK /\ InfraInv /\ StrayInv /\ [Next]_vars => InfraInv'
<1> SUFFICES ASSUME TypeOK, InfraInv, StrayInv, [Next]_vars
             PROVE  InfraInv'
  OBVIOUS
<1> USE TfAssumption
    DEF TypeOK, Trees, Locked, Programs, Command, Fail, Continue, Starts,
        workVars, hostVars, initVars, runVars,
        InfraInv, StrayInv
<1>1. ASSUME NEW k \in {"apply", "plan"}, NEW s \in Shas, Begin(k, s) PROVE InfraInv'
  BY <1>1 DEF Begin
<1>2. CASE Cancel
  BY <1>2 DEF Cancel
<1>3. CASE OutsideLock
  BY <1>3 DEF OutsideLock
<1>4. CASE StartClone \/ StartCheckout \/ StartApply \/ StartPlan
  BY <1>4 DEF StartClone, StartCheckout, StartApply, StartPlan, Start
<1>5. CASE StartInit
  BY <1>5 DEF StartInit
<1>6. CASE ClearWorkDir
  BY <1>6 DEF ClearWorkDir
<1>7. CASE ResolveCloneURL
  BY <1>7 DEF ResolveCloneURL, Mint
<1>8. CASE Clone
  BY <1>8 DEF Clone, Leavings
<1>9. CASE Checkout
  BY <1>9 DEF Checkout, CheckedOut, Leavings
<1>10. CASE StatRoot
  BY <1>10 DEF StatRoot
<1>11. CASE TfInit
  BY <1>11 DEF TfInit, Requested
<1>12. CASE Decide
  BY <1>12 DEF Decide, LastAttempt
<1>13. CASE Backoff
  BY <1>13 DEF Backoff
<1>14. CASE LockForApply \/ LockForPlan
  BY <1>14 DEF LockForApply, LockForPlan, TakeLock
<1>15. CASE Change
  BY <1>15 DEF Change
<1>16. CASE EndTerraform
  BY <1>16 DEF EndTerraform, Outcome
<1>17. CASE TerraformFails
  BY <1>17 DEF TerraformFails
<1>18. CASE Kill
  BY <1>18 DEF Kill, Outcome
<1>19. CASE Crash
  BY <1>19 DEF Crash
<1>20. CASE UNCHANGED vars
  BY <1>20 DEF vars
<1>21. ASSUME NEW o \in orphans,
              OrphanWrites(o) \/ OrphanLocks(o) \/ OrphanChanges(o) \/ OrphanEnds(o)
       PROVE  InfraInv'
  BY <1>21 DEF OrphanWrites, OrphanLocks, OrphanChanges, OrphanEnds
<1> HIDE DEF TypeOK, InfraInv, StrayInv
<1> QED
  BY <1>1, <1>2, <1>3, <1>4, <1>5, <1>6, <1>7, <1>8, <1>9, <1>10,
     <1>11, <1>12, <1>13, <1>14, <1>15, <1>16, <1>17, <1>18, <1>19, <1>20, <1>21
  DEF Next, Starting, Prepare, Terraform, Orphans

\* A program is left behind only by a crash, and then no run goes on.
LEMMA NextStray ==
    StrayInv /\ [Next]_vars => StrayInv'
<1> SUFFICES ASSUME StrayInv, [Next]_vars
             PROVE  StrayInv'
  OBVIOUS
<1> USE TfAssumption
    DEF TypeOK, Trees, Locked, Programs, Command, Fail, Continue, Starts,
        workVars, hostVars, initVars, runVars,
        StrayInv
<1>1. ASSUME NEW k \in {"apply", "plan"}, NEW s \in Shas, Begin(k, s) PROVE StrayInv'
  BY <1>1 DEF Begin
<1>2. CASE Cancel
  BY <1>2 DEF Cancel
<1>3. CASE OutsideLock
  BY <1>3 DEF OutsideLock
<1>4. CASE StartClone \/ StartCheckout \/ StartApply \/ StartPlan
  BY <1>4 DEF StartClone, StartCheckout, StartApply, StartPlan, Start
<1>5. CASE StartInit
  BY <1>5 DEF StartInit
<1>6. CASE ClearWorkDir
  BY <1>6 DEF ClearWorkDir
<1>7. CASE ResolveCloneURL
  BY <1>7 DEF ResolveCloneURL, Mint
<1>8. CASE Clone
  BY <1>8 DEF Clone, Leavings
<1>9. CASE Checkout
  BY <1>9 DEF Checkout, CheckedOut, Leavings
<1>10. CASE StatRoot
  BY <1>10 DEF StatRoot
<1>11. CASE TfInit
  BY <1>11 DEF TfInit, Requested
<1>12. CASE Decide
  BY <1>12 DEF Decide, LastAttempt
<1>13. CASE Backoff
  BY <1>13 DEF Backoff
<1>14. CASE LockForApply \/ LockForPlan
  BY <1>14 DEF LockForApply, LockForPlan, TakeLock
<1>15. CASE Change
  BY <1>15 DEF Change
<1>16. CASE EndTerraform
  BY <1>16 DEF EndTerraform, Outcome
<1>17. CASE TerraformFails
  BY <1>17 DEF TerraformFails
<1>18. CASE Kill
  BY <1>18 DEF Kill, Outcome
<1>19. CASE Crash
  BY <1>19 DEF Crash
<1>20. CASE UNCHANGED vars
  BY <1>20 DEF vars
<1>21. ASSUME NEW o \in orphans,
              OrphanWrites(o) \/ OrphanLocks(o) \/ OrphanChanges(o) \/ OrphanEnds(o)
       PROVE  StrayInv'
  BY <1>21 DEF OrphanWrites, OrphanLocks, OrphanChanges, OrphanEnds
<1> HIDE DEF StrayInv
<1> QED
  BY <1>1, <1>2, <1>3, <1>4, <1>5, <1>6, <1>7, <1>8, <1>9, <1>10,
     <1>11, <1>12, <1>13, <1>14, <1>15, <1>16, <1>17, <1>18, <1>19, <1>20, <1>21
  DEF Next, Starting, Prepare, Terraform, Orphans

\* A run returns nil only from a terraform program that ended well.
LEMMA NextOk ==
    TypeOK /\ WorkInv /\ InfraInv /\ StrayInv /\ OkMeansApplied /\ [Next]_vars => OkMeansApplied'
<1> SUFFICES ASSUME TypeOK, WorkInv, InfraInv, StrayInv, OkMeansApplied, [Next]_vars
             PROVE  OkMeansApplied'
  OBVIOUS
<1> USE TfAssumption
    DEF TypeOK, Trees, Locked, Programs, Command, Fail, Continue, Starts,
        workVars, hostVars, initVars, runVars,
        WorkInv, InfraInv, StrayInv, Commands, OkMeansApplied
<1>1. ASSUME NEW k \in {"apply", "plan"}, NEW s \in Shas, Begin(k, s) PROVE OkMeansApplied'
  BY <1>1 DEF Begin
<1>2. CASE Cancel
  BY <1>2 DEF Cancel
<1>3. CASE OutsideLock
  BY <1>3 DEF OutsideLock
<1>4. CASE StartClone \/ StartCheckout \/ StartApply \/ StartPlan
  BY <1>4 DEF StartClone, StartCheckout, StartApply, StartPlan, Start
<1>5. CASE StartInit
  BY <1>5 DEF StartInit
<1>6. CASE ClearWorkDir
  BY <1>6 DEF ClearWorkDir
<1>7. CASE ResolveCloneURL
  BY <1>7 DEF ResolveCloneURL, Mint
<1>8. CASE Clone
  BY <1>8 DEF Clone, Leavings
<1>9. CASE Checkout
  BY <1>9 DEF Checkout, CheckedOut, Leavings
<1>10. CASE StatRoot
  BY <1>10 DEF StatRoot
<1>11. CASE TfInit
  BY <1>11 DEF TfInit, Requested
<1>12. CASE Decide
  BY <1>12 DEF Decide, LastAttempt
<1>13. CASE Backoff
  BY <1>13 DEF Backoff
<1>14. CASE LockForApply \/ LockForPlan
  BY <1>14 DEF LockForApply, LockForPlan, TakeLock
<1>15. CASE Change
  BY <1>15 DEF Change
<1>16. CASE EndTerraform
  BY <1>16 DEF EndTerraform, Outcome
<1>17. CASE TerraformFails
  BY <1>17 DEF TerraformFails
<1>18. CASE Kill
  BY <1>18 DEF Kill, Outcome
<1>19. CASE Crash
  BY <1>19 DEF Crash
<1>20. CASE UNCHANGED vars
  BY <1>20 DEF vars
<1>21. ASSUME NEW o \in orphans,
              OrphanWrites(o) \/ OrphanLocks(o) \/ OrphanChanges(o) \/ OrphanEnds(o)
       PROVE  OkMeansApplied'
  BY <1>21 DEF OrphanWrites, OrphanLocks, OrphanChanges, OrphanEnds
<1> HIDE DEF TypeOK, WorkInv, InfraInv, StrayInv, OkMeansApplied
<1> QED
  BY <1>1, <1>2, <1>3, <1>4, <1>5, <1>6, <1>7, <1>8, <1>9, <1>10,
     <1>11, <1>12, <1>13, <1>14, <1>15, <1>16, <1>17, <1>18, <1>19, <1>20, <1>21
  DEF Next, Starting, Prepare, Terraform, Orphans

-----------------------------------------------------------------------------
\* IInv holds in every reachable state.
THEOREM Invariance == Spec => []IInv
<1>1. IInv /\ [Next]_vars => IInv'
  BY NextType, NextWork, NextLock, NextAttempt, NextInfra, NextStray, NextOk DEF IInv
<1> QED
  BY <1>1, InitIInv, PTL DEF Spec

\* Every variable keeps its type; in particular terraform init is tried at most
\* MaxAttempts times.
THEOREM TypeCorrect == Spec => []TypeOK
  BY Invariance, PTL DEF IInv

\* There is a backoff for every retry, for any number of attempts.
THEOREM BackoffsSuffice == Spec => []BackoffFits
  BY Invariance, PTL DEF IInv, AttemptInv

\* A run that returned nil did what it was asked to.
THEOREM OkIsApplied == Spec => []OkMeansApplied
  BY Invariance, PTL DEF IInv

\* The infrastructure changes only under the lock, from the commit asked for.
THEOREM AppliesAsked == Spec => AppliesWhatWasAsked
<1> DEFINE Step ==
      infra' # infra =>
          \/ /\ kind = "apply" /\ pc = "applying"
             /\ lock = "held"
             /\ stray \/ (tree = sha /\ inited)
             /\ sha \notin Unknown /\ (stray \/ sha \notin Rootless)
          \/ lock = "orphan" /\ \E o \in orphans : o.step = "applying"
<1>1. IInv /\ [Next]_vars => [Step]_vars
  <2> SUFFICES ASSUME IInv, Next, infra' # infra
               PROVE  pc = "applying" \/ \E o \in orphans : o.step = "applying"
    BY DEF IInv, WorkInv, LockInv, InfraInv, Commands, Locked
  <2>1. CASE Change \/ EndTerraform \/ Kill
    BY <2>1 DEF Change, EndTerraform, Kill
  <2>2. CASE Orphans
    BY <2>2 DEF Orphans, OrphanWrites, OrphanLocks, OrphanChanges, OrphanEnds
  <2> QED
    BY <2>1, <2>2
    DEF Next, Starting, Prepare, Terraform, Begin, Cancel, OutsideLock, ClearWorkDir,
        ResolveCloneURL, StartClone, StartCheckout, StartInit, StartApply, StartPlan,
        Start, Clone, Checkout, StatRoot, TfInit, Decide, Backoff,
        LockForApply, LockForPlan, TakeLock, TerraformFails, Crash, hostVars
<1> QED
  BY <1>1, Invariance, PTL DEF Spec, AppliesWhatWasAsked

\* A run whose context is done starts no program.
THEOREM CancelledWipes == Spec => CancelledRunOnlyWipes
<1> DEFINE Step ==
      pc # "idle" /\ ctxDone =>
          /\ pc' \in Programs => pc \in Programs
          /\ pc \notin Programs /\ orphans = {} =>
               /\ infra' = infra
               /\ lock' # "held"
               /\ tree' \in {tree, "empty", "partial", "absent"}
<1>1. IInv /\ [Next]_vars => [Step]_vars
  <2> SUFFICES ASSUME IInv, Next, pc # "idle", ctxDone, pc \notin Programs
               PROVE  /\ pc' \notin Programs
                      /\ orphans = {} =>
                           /\ infra' = infra
                           /\ lock' # "held"
                           /\ tree' \in {tree, "empty", "partial", "absent"}
    OBVIOUS
  <2>1. lock # "held"
    BY DEF IInv, LockInv, Programs
  <2>2. ASSUME NEW k \in {"apply", "plan"}, NEW s \in Shas PROVE ~Begin(k, s)
    BY DEF Begin
  <2>3. ~(Terraform \/ Clone \/ Checkout \/ TfInit \/ Cancel)
    BY DEF Terraform, LockForApply, LockForPlan, TakeLock, Change, EndTerraform,
           TerraformFails, Kill, Clone, Checkout, TfInit, Cancel, Programs, Locked
  <2>4. CASE ClearWorkDir \/ Crash
    BY <2>1, <2>4 DEF ClearWorkDir, Crash, Fail, Continue, Programs, Locked, workVars
  <2>5. CASE OutsideLock \/ ResolveCloneURL \/ StatRoot \/ Decide \/ Backoff
    BY <2>1, <2>5
    DEF OutsideLock, ResolveCloneURL, Mint, StatRoot, Decide, Backoff,
        Fail, Continue, Programs, Locked, hostVars, workVars
  <2>6. CASE Starting
    BY <2>1, <2>6
    DEF Starting, StartClone, StartCheckout, StartInit, StartApply, StartPlan, Start,
        Starts, Fail, Continue, Programs, Locked, hostVars
  <2>7. CASE Orphans
    BY <2>7 DEF Orphans, OrphanWrites, OrphanLocks, OrphanChanges, OrphanEnds
  <2> QED
    BY <2>2, <2>3, <2>4, <2>5, <2>6, <2>7 DEF Next, Prepare
<1> QED
  BY <1>1, Invariance, PTL DEF Spec, CancelledRunOnlyWipes

\* A run whose context is done is over within four of its steps, wherever it is.
THEOREM CancelledEnds == Spec => CancelledRunEndsSoon
<1> DEFINE Step ==
      pc # "idle" /\ ctxDone =>
          \/ UNCHANGED <<pc, attempt, result>>
          \/ StepsLeft' < StepsLeft
<1>1. IInv /\ [Next]_vars => [Step]_vars
  <2> SUFFICES ASSUME IInv, Next, pc # "idle", ctxDone,
                      ~UNCHANGED <<pc, attempt, result>>
               PROVE  StepsLeft' < StepsLeft
    OBVIOUS
  <2>1. ASSUME NEW k \in {"apply", "plan"}, NEW s \in Shas PROVE ~Begin(k, s)
    BY DEF Begin
  <2>2. ~Cancel /\ ~OutsideLock /\ ~Change /\ ~Orphans
    BY DEF Cancel, OutsideLock, Change, Orphans, OrphanWrites, OrphanLocks,
           OrphanChanges, OrphanEnds, initVars
  <2>3. CASE Crash \/ EndTerraform \/ TerraformFails \/ Kill
    <3>1. pc' = "idle"
      BY <2>3 DEF Crash, EndTerraform, TerraformFails, Kill, Fail
    <3> QED
      BY <3>1 DEF StepsLeft, IInv, TypeOK, Programs, Locked
  <2>4. CASE Starting \/ Prepare \/ LockForApply \/ LockForPlan
    <3>1. \/ pc' = "idle"
          \/ pc = "clear" /\ pc' = "resolve"
          \/ pc = "resolve" /\ pc' = "clone"
          \/ pc = "cloning" /\ pc' = "checkout"
          \/ pc = "checking" /\ pc' = "stat"
          \/ pc = "stat" /\ pc' = "init"
          \/ pc \in {"init", "initialising"} /\ pc' = "decide"
          \/ pc = "initialising" /\ pc' \in {"apply", "plan"}
          \/ pc = "backoff" /\ pc' = "init"
          \/ pc = "applyLock" /\ pc' = "applying"
          \/ pc = "planLock" /\ pc' = "planning"
      BY <2>4
      DEF IInv, TypeOK, Starting, StartClone, StartCheckout, StartInit, StartApply,
          StartPlan, Start, Starts, Prepare, ClearWorkDir, ResolveCloneURL, Mint, Clone,
          Checkout, StatRoot, TfInit, Requested, Decide, Backoff, LockForApply,
          LockForPlan, TakeLock, Fail, Continue
    <3> QED
      BY <3>1 DEF StepsLeft, IInv, TypeOK, Programs, Locked
  <2> QED
    BY <2>1, <2>2, <2>3, <2>4 DEF Next, Terraform
<1> QED
  BY <1>1, Invariance, PTL DEF Spec, CancelledRunEndsSoon
=============================================================================
