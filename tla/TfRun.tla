-------------------------------- MODULE TfRun --------------------------------
(***************************************************************************)
(* internal/tfapply: one run after another of tfapply.Orchestrator, Run    *)
(* for /tf-apply and Plan for /tf-plan.  A run wipes the work directory,   *)
(* clones the repository at a commit with a token minted for it, and runs  *)
(* terraform init, which it tries again after transient failures; then it  *)
(* runs terraform apply or terraform plan, once.  The first error ends the *)
(* run.                                                                    *)
(*                                                                         *)
(* As in DeployRun, runs come one at a time, the context may be done from  *)
(* the start or later, and a program is started in one step, unless the    *)
(* context is done, and ends in another.  apply and plan hold terraform's  *)
(* state lock while they work, and SIGKILL leaves it behind.  When the     *)
(* daemon dies its program goes on alone, in the directory and under the   *)
(* lock that the runs of the next daemon will want.                        *)
(***************************************************************************)
EXTENDS Integers, FiniteSets

CONSTANTS
    Shas,         \* commits that may be asked for
    Unknown,      \* commits the repository does not have
    Rootless,     \* commits without the terraform root
    Mints,        \* whether clones use a minted token (a github.com repository)
    MaxAttempts,  \* tries of terraform init: 3 in retry.go
    Mixed,        \* infrastructure that may be of more than one commit
    MaxOrphans    \* bound on the programs that go on alone at one time

ASSUME TfAssumption ==
    /\ Unknown \subseteq Shas
    /\ Rootless \subseteq Shas
    /\ Mints \in BOOLEAN
    /\ MaxAttempts \in Nat \ {0}
    /\ Mixed \notin Shas
    /\ Shas \cap {"absent", "empty", "partial", "cloned"} = {}
    /\ MaxOrphans \in Nat

VARIABLES
    tree,      \* what the work directory holds
    inited,    \* terraform init succeeded in that directory
    lock,      \* terraform's state lock
    infra,     \* the commit the infrastructure was last applied from, or Mixed
    pc,        \* the next step of the run, or "idle"
    kind,      \* "apply" or "plan"
    sha,       \* the commit the last or current run is for
    attempt,   \* tries of terraform init so far
    transient, \* the last failed try looked like a network failure
    ctxDone,   \* the context of the run is done
    result,    \* how the last run ended; "none" while it goes on
    before,    \* the infrastructure as the run found it
    orphans,   \* programs whose daemon is dead
    stray      \* there were some when the last or current run began

workVars == <<tree, inited>>
hostVars == <<tree, inited, lock, infra>>
initVars == <<attempt, transient>>
runVars  == <<kind, sha, ctxDone, before, stray>>
vars == <<tree, inited, lock, infra, pc, kind, sha, attempt, transient,
          ctxDone, result, before, orphans, stray>>

Trees == Shas \cup {"absent", "empty", "partial", "cloned"}

\* The two programs that work under terraform's lock, and all of them.
Locked == {"applying", "planning"}

Programs == {"cloning", "checking", "initialising", "applyLock", "planLock"} \cup Locked

\* A program, and the commit it is for; Mixed if its directory is not that alone.
Command == [step : Programs, source : Shas \cup {Mixed}]

TypeOK ==
    /\ tree \in Trees
    /\ inited \in BOOLEAN
    /\ lock \in {"free", "held", "stale", "outside", "orphan"}
    /\ infra \in Shas \cup {Mixed}
    /\ pc \in {"idle", "clear", "resolve", "clone", "checkout", "stat", "init",
               "decide", "backoff", "apply", "plan"} \cup Programs
    /\ kind \in {"apply", "plan"}
    /\ sha \in Shas
    /\ attempt \in 0..MaxAttempts
    /\ transient \in BOOLEAN
    /\ ctxDone \in BOOLEAN
    /\ result \in {"none", "ok", "fail", "crash"}
    /\ before \in Shas \cup {Mixed}
    /\ orphans \subseteq Command
    /\ stray \in BOOLEAN

\* A run may find anything in the work directory.
Init ==
    /\ tree \in Trees
    /\ inited \in BOOLEAN
    /\ lock = "free"
    /\ infra \in Shas
    /\ pc = "idle"
    /\ kind \in {"apply", "plan"}
    /\ sha \in Shas
    /\ attempt = 0
    /\ transient = FALSE
    /\ ctxDone = FALSE
    /\ result = "none"
    /\ before = infra
    /\ orphans = {}
    /\ stray = FALSE

Fail == pc' = "idle" /\ result' = "fail"

Continue(label) == pc' = label /\ UNCHANGED result

-----------------------------------------------------------------------------
(* A request starts a run; people and other jobs use terraform's lock too. *)

Begin(k, s) ==
    /\ pc = "idle"
    /\ pc' = "clear"
    /\ kind' = k
    /\ sha' = s
    /\ attempt' = 0
    /\ transient' = FALSE
    /\ ctxDone' \in BOOLEAN
    /\ result' = "none"
    /\ before' = infra
    /\ stray' = (orphans # {})
    /\ UNCHANGED <<hostVars, orphans>>

Cancel ==
    /\ pc # "idle"
    /\ ~ctxDone
    /\ ctxDone' = TRUE
    /\ UNCHANGED <<hostVars, initVars, pc, kind, sha, result, before, orphans, stray>>

\* Someone else takes the lock, releases it, or clears a lock left behind.
OutsideLock ==
    /\ \/ lock = "free" /\ lock' = "outside"
       \/ lock \in {"outside", "stale"} /\ lock' = "free"
    /\ UNCHANGED <<workVars, infra, initVars, runVars, pc, result, orphans>>

\* Mistake: programs that are run without the context.
StartsAnyway == ctxDone \in BOOLEAN

\* exec does not start a program when the context is done.
Starts == ~ctxDone

Start(label, running) ==
    /\ pc = label
    /\ (Starts /\ Continue(running)) \/ Fail
    /\ UNCHANGED <<hostVars, initVars, runVars, orphans>>

-----------------------------------------------------------------------------
(* prepare *)

\* RemoveAll and MkdirAll, which do not look at the context.
ClearWorkDir ==
    /\ pc = "clear"
    /\ \/ tree' = "empty" /\ Continue("resolve")
       \/ tree' \in {tree, "partial", "absent"} /\ Fail
    /\ inited' \in (IF tree' = tree THEN {inited, FALSE} ELSE {FALSE})
    /\ UNCHANGED <<lock, infra, initVars, runVars, orphans>>

\* AppTokenSource.Mint: a token takes a request, and so the context; the key may
\* be unreadable, and GitHub may refuse.
Mint == (~ctxDone /\ Continue("clone")) \/ Fail

ResolveCloneURL ==
    /\ pc = "resolve"
    /\ IF Mints THEN Mint ELSE Continue("clone")
    /\ UNCHANGED <<hostVars, initVars, runVars, orphans>>

StartClone    == Start("clone", "cloning")
StartCheckout == Start("checkout", "checking")

Leavings == {tree, "partial"}

\* git clone ends.  It had refused a directory that held anything when it began.
Clone ==
    /\ pc = "cloning"
    /\ \/ /\ tree = "empty" \/ stray
          /\ tree' = IF tree = "empty" THEN "cloned" ELSE "partial"
          /\ Continue("checkout")
       \/ tree' \in Leavings /\ Fail
    /\ UNCHANGED <<inited, lock, infra, initVars, runVars, orphans>>

CheckedOut == IF tree = "cloned" THEN sha ELSE "partial"

\* Mistake: the exit status of git checkout is ignored.
CheckoutIgnoringErrors ==
    /\ pc = "checking"
    /\ tree' \in Leavings \cup (IF sha \notin Unknown THEN {CheckedOut} ELSE {})
    /\ Continue("stat")
    /\ UNCHANGED <<inited, lock, infra, initVars, runVars, orphans>>

\* git checkout ends.
Checkout ==
    /\ pc = "checking"
    /\ \/ sha \notin Unknown /\ tree' = CheckedOut /\ Continue("stat")
       \/ tree' \in Leavings /\ Fail
    /\ UNCHANGED <<inited, lock, infra, initVars, runVars, orphans>>

StatRoot ==
    /\ pc = "stat"
    /\ \/ tree \notin Rootless /\ Continue("init")
       \/ Fail
    /\ UNCHANGED <<hostVars, initVars, runVars, orphans>>

-----------------------------------------------------------------------------
(* terraform init, and whether it is tried again *)

\* One attempt begins.  When it cannot be started there is no output, and so none
\* that looks like a network failure.
StartInit ==
    /\ pc = "init"
    /\ attempt' = attempt + 1
    /\ \/ Starts /\ Continue("initialising") /\ UNCHANGED transient
       \/ Continue("decide") /\ transient' = FALSE
    /\ UNCHANGED <<hostVars, runVars, orphans>>

\* Mistake: a plan is run, whatever was asked for.
AlwaysPlan == "plan"

\* Run goes on to tfApply, Plan to tfPlan.
Requested == kind

\* terraform init ends.
TfInit ==
    /\ pc = "initialising"
    /\ \/ inited' = TRUE /\ UNCHANGED transient /\ Continue(Requested)
       \/ inited' = FALSE /\ transient' \in BOOLEAN /\ Continue("decide")
    /\ UNCHANGED <<tree, lock, infra, attempt, runVars, orphans>>

\* Mistake: the attempt that was just made is not counted.
OneMoreAttempt == attempt = MaxAttempts + 1

LastAttempt == attempt = MaxAttempts

\* Mistake: a network failure is tried again though the context is done.
DecideByOutput ==
    /\ pc = "decide"
    /\ IF LastAttempt \/ ~transient THEN Fail ELSE Continue("backoff")
    /\ UNCHANGED <<hostVars, initVars, runVars, orphans>>

Decide ==
    /\ pc = "decide"
    /\ IF ctxDone \/ LastAttempt \/ ~transient THEN Fail ELSE Continue("backoff")
    /\ UNCHANGED <<hostVars, initVars, runVars, orphans>>

\* sleepCtx: select takes either branch when the timer and the context are ready.
Backoff ==
    /\ pc = "backoff"
    /\ \/ Continue("init")
       \/ ctxDone /\ Fail
    /\ UNCHANGED <<hostVars, initVars, runVars, orphans>>

-----------------------------------------------------------------------------
(* terraform apply and terraform plan *)

StartApply == Start("apply", "applyLock")
StartPlan  == Start("plan", "planLock")

\* Both fail when the lock is taken: apply at once, plan after 60 seconds.
TakeLock(label, running) ==
    /\ pc = label
    /\ \/ lock = "free" /\ lock' = "held" /\ Continue(running)
       \/ UNCHANGED lock /\ Fail
    /\ UNCHANGED <<workVars, infra, initVars, runVars, orphans>>

LockForApply == TakeLock("applyLock", "applying")

\* Mistake: plan waits for the lock as long as it takes, out of reach of SIGKILL.
PlanWaitsForLock ==
    /\ pc = "planLock"
    /\ lock = "free"
    /\ lock' = "held"
    /\ Continue("planning")
    /\ UNCHANGED <<workVars, infra, initVars, runVars, orphans>>

LockForPlan == TakeLock("planLock", "planning")

\* What terraform apply makes of the infrastructure.
Outcome == IF stray THEN Mixed ELSE tree

\* apply is under way: some resources are changed.
Change ==
    /\ pc = "applying"
    /\ infra' = Mixed
    /\ UNCHANGED <<workVars, lock, initVars, runVars, pc, result, orphans>>

\* terraform ends by itself and releases the lock.  Wait still returns an error
\* when the context was done before it looked.
EndTerraform ==
    /\ pc \in Locked
    /\ infra' = IF pc = "applying" THEN Outcome ELSE infra
    /\ lock' = "free"
    /\ pc' = "idle"
    /\ result' \in (IF ctxDone THEN {"ok", "fail"} ELSE {"ok"})
    /\ UNCHANGED <<workVars, initVars, runVars, orphans>>

TerraformFails ==
    /\ pc \in Locked
    /\ lock' = "free"
    /\ Fail
    /\ UNCHANGED <<workVars, infra, initVars, runVars, orphans>>

\* The process group is killed, perhaps when only the lock was left to release.
Kill ==
    /\ pc \in Locked
    /\ ctxDone
    /\ lock' = "stale"
    /\ infra' \in {infra} \cup (IF pc = "applying" THEN {Outcome} ELSE {})
    /\ Fail
    /\ UNCHANGED <<workVars, initVars, runVars, orphans>>

-----------------------------------------------------------------------------
(* The daemon dies, and what it leaves. *)

\* A program that it had started goes on alone; one that dies with it is one that
\* ends before anything else happens.
Crash ==
    /\ pc # "idle"
    /\ pc' = "idle"
    /\ result' = "crash"
    /\ IF pc \in Programs
         THEN /\ Cardinality(orphans) < MaxOrphans
              /\ orphans' = orphans \cup
                    {[step |-> pc, source |-> IF stray THEN Mixed ELSE sha]}
              /\ lock' = IF pc \in Locked THEN "orphan" ELSE lock
         ELSE UNCHANGED <<orphans, lock>>
    /\ IF pc = "clear"
         THEN tree' \in {tree, "partial", "absent", "empty"} /\ inited' \in {inited, FALSE}
         ELSE UNCHANGED workVars
    /\ UNCHANGED <<infra, initVars, runVars>>

\* git and terraform init write to the directory, whosever it is by now.
OrphanWrites(o) ==
    /\ o \in orphans
    /\ \/ o.step \in {"cloning", "checking"} /\ tree' = "partial" /\ UNCHANGED inited
       \/ o.step = "initialising" /\ inited' \in BOOLEAN /\ UNCHANGED tree
    /\ UNCHANGED <<lock, infra, initVars, runVars, pc, result, orphans>>

\* apply and plan take the lock when it is free.
OrphanLocks(o) ==
    /\ o \in orphans
    /\ o.step \in {"applyLock", "planLock"}
    /\ lock = "free"
    /\ lock' = "orphan"
    /\ orphans' = (orphans \ {o}) \cup
          {[o EXCEPT !.step = IF o.step = "applyLock" THEN "applying" ELSE "planning"]}
    /\ UNCHANGED <<workVars, infra, initVars, runVars, pc, result>>

OrphanChanges(o) ==
    /\ o \in orphans
    /\ o.step = "applying"
    /\ infra' = Mixed
    /\ UNCHANGED <<workVars, lock, initVars, runVars, pc, result, orphans>>

\* It ends by itself or is killed, and has applied its commit or not.
OrphanEnds(o) ==
    /\ o \in orphans
    /\ orphans' = orphans \ {o}
    /\ infra' \in {infra} \cup (IF o.step = "applying" THEN {o.source} ELSE {})
    /\ lock' \in (IF o.step \in Locked THEN {"free", "stale"} ELSE {lock})
    /\ UNCHANGED <<workVars, initVars, runVars, pc, result>>

-----------------------------------------------------------------------------
Starting ==
    StartClone \/ StartCheckout \/ StartInit \/ StartApply \/ StartPlan

Prepare ==
    \/ ClearWorkDir \/ ResolveCloneURL \/ Clone \/ Checkout \/ StatRoot
    \/ TfInit \/ Decide \/ Backoff

Terraform ==
    \/ LockForApply \/ LockForPlan
    \/ Change \/ EndTerraform \/ TerraformFails \/ Kill

Orphans ==
    \E o \in orphans :
        OrphanWrites(o) \/ OrphanLocks(o) \/ OrphanChanges(o) \/ OrphanEnds(o)

Next ==
    \/ \E k \in {"apply", "plan"}, s \in Shas : Begin(k, s)
    \/ Cancel \/ OutsideLock \/ Starting \/ Prepare \/ Terraform \/ Crash \/ Orphans

Spec == Init /\ [][Next]_vars

(***************************************************************************)
(* Fairness: file operations finish, programs are started or refused, and  *)
(* so are decisions and the backoff over.  Programs and the token request  *)
(* may take for ever; they are sure to end when the context is done, which *)
(* the server's 15 minute timeouts see to.  Nothing is promised of         *)
(* programs whose daemon is dead.                                          *)
(***************************************************************************)
Fairness ==
    /\ WF_vars(ClearWorkDir \/ StatRoot \/ Decide \/ Backoff)
    /\ WF_vars(Starting)
    /\ WF_vars(ctxDone /\ (ResolveCloneURL \/ Clone \/ Checkout \/ TfInit))
    /\ WF_vars(ctxDone /\ (LockForApply \/ LockForPlan))
    /\ WF_vars(Kill)
    /\ WF_vars(Cancel)

FairSpec == Spec /\ Fairness

-----------------------------------------------------------------------------
(* Properties. *)

\* The infrastructure changes only by a run of /tf-apply, under terraform's lock,
\* and from a work directory which that same run has checked out at the commit
\* it was asked for and initialised; whatever earlier runs, cancelled or crashed
\* anywhere, left in the directory (orchestrator.go:136-162).  Of the directory
\* that is not so when a program of a dead daemon was still at work as the run
\* began; and such a program, too, changes the infrastructure only under the lock.
AppliesWhatWasAsked ==
    [][infra' # infra =>
          \/ /\ kind = "apply" /\ pc = "applying"
             /\ lock = "held"
             /\ stray \/ (tree = sha /\ inited)
             /\ sha \notin Unknown /\ (stray \/ sha \notin Rootless)
          \/ lock = "orphan" /\ \E o \in orphans : o.step = "applying"]_vars

\* A run that returned nil did all it was asked to: after /tf-apply the
\* infrastructure is that of its commit, after /tf-plan it is as it was; unless a
\* program of a dead daemon was still at work when it began.  The converse fails:
\* a run that failed may have applied its commit.
OkMeansApplied ==
    result = "ok" /\ ~stray => infra = (IF kind = "apply" THEN sha ELSE before)

\* Once its context is done a run starts no program.  But for what a program does
\* that is being killed, it takes no lock, applies nothing, and leaves of the work
\* directory at most less than it found: a request that was cancelled in the queue
\* still wipes it (orchestrator.go:142).
CancelledRunOnlyWipes ==
    [][pc # "idle" /\ ctxDone =>
          /\ pc' \in Programs => pc \in Programs
          /\ pc \notin Programs /\ orphans = {} =>
               /\ infra' = infra
               /\ lock' # "held"
               /\ tree' \in {tree, "empty", "partial", "absent"}]_vars

\* Steps that are left to a run whose context is done, at most.
StepsLeft ==
    CASE pc = "idle"                                        -> 0
      [] pc = "checking"                                    -> 4
      [] pc \in {"clear", "stat", "backoff"}                -> 3
      [] pc \in {"resolve", "cloning", "init", "initialising",
                 "applyLock", "planLock"}                   -> 2
      [] OTHER                                              -> 1

\* Once its context is done a run is over within four of its steps, wherever it
\* is.  sleepCtx may still choose the timer, and then terraform init is tried
\* once more, which cannot start it; no second backoff follows (retry.go:97-136).
\* An apply that is being killed may still take the lock and change resources.
CancelledRunEndsSoon ==
    [][pc # "idle" /\ ctxDone =>
          \/ UNCHANGED <<pc, attempt, result>>
          \/ StepsLeft' < StepsLeft]_vars

\* There is a backoff for every retry: the attempt that failed is never the last
\* one when initBackoffs, which has one entry less than there are attempts, is
\* indexed with it (retry.go:115-126).
BackoffFits == pc = "backoff" => attempt \in 1..(MaxAttempts - 1)

\* Every run ends: however long programs hang, someone else keeps the lock, or
\* the registry stays down (under FairSpec).
EveryRunEnds == pc # "idle" ~> pc = "idle"
=============================================================================
