------------------------------ MODULE DeployRun ------------------------------
(***************************************************************************)
(* internal/deploy: what one run after another of deploy.Orchestrator does *)
(* to the host.  A run pulls image:version, tags it image:latest, and then *)
(* for each container in order pins the container's Unraid template to the *)
(* version, has update_container re-create the container from its          *)
(* template, and waits until the container reports the version.  The first *)
(* error ends the run; nothing is rolled back.                             *)
(*                                                                         *)
(* Runs come one at a time (DeployServer proves it).  The context of a run *)
(* may be done from the start, when its request was cancelled while it     *)
(* waited for applyMu, or become done between any two steps.  A command is *)
(* started in one step, unless the context is done, and ends in another,   *)
(* whose outcome may be partial: its process group is killed when the      *)
(* context is done meanwhile.  When the daemon dies nobody kills the group *)
(* and the command goes on alone, beside the runs of the next daemon.      *)
(***************************************************************************)
EXTENDS Integers, FiniteSets

CONSTANTS
    N,         \* containers, in the order they are deployed
    Versions,  \* versions that may be deployed
    Broken,    \* versions whose image never reports its own version as healthy
    Torn,      \* a template without a <Repository> tag of the image
    Absent,    \* what is left when a container was removed and not re-created
    MaxOrphans \* bound on the commands that go on alone at one time

Containers == 1..N

ASSUME RunAssumption ==
    /\ N \in Nat \ {0}
    /\ Broken \subseteq Versions
    /\ Torn \notin Versions
    /\ Absent \notin Versions
    /\ MaxOrphans \in Nat

VARIABLES
    images,     \* versions of the image that docker holds locally
    latest,     \* the version image:latest points to, or Absent
    template,   \* template[c]: the version c's template pins, or Torn
    container,  \* container[c]: the version c was created from, or Absent
    pc,         \* the next step of the run, or "idle"
    version,    \* the version the last or current run deploys
    current,    \* the container the run is at
    ctxDone,    \* the context of the run is done
    result,     \* how the last run ended; "none" while it goes on
    before,     \* templates and containers as the run found them
    orphans,    \* commands whose daemon is dead
    stray       \* there were some when the last or current run began

dockerVars == <<images, latest>>
hostVars   == <<images, latest, template, container>>
runVars    == <<version, ctxDone, before, stray>>
vars == <<images, latest, template, container,
          pc, version, current, ctxDone, result, before, orphans, stray>>

Pins == Versions \cup {Torn}
Made == Versions \cup {Absent}

Programs == {"pulling", "tagging", "updating"}

\* A command for a version, and for update_container its container.
Command == [step : Programs, version : Versions, at : Containers]

TypeOK ==
    /\ images \subseteq Versions
    /\ latest \in Made
    /\ template \in [Containers -> Pins]
    /\ container \in [Containers -> Made]
    /\ pc \in {"idle", "pull", "tag", "read", "write", "fill", "update", "health"}
              \cup Programs
    /\ version \in Versions
    /\ current \in Containers
    /\ ctxDone \in BOOLEAN
    /\ result \in {"none", "ok", "fail", "crash"}
    /\ before \in [template : [Containers -> Pins], container : [Containers -> Made]]
    /\ orphans \subseteq Command
    /\ stray \in BOOLEAN

\* The host as an operator hands it over: every template usable, everything that
\* runs healthy.
Init ==
    /\ images = {}
    /\ latest \in Made
    /\ template \in [Containers -> Versions \ Broken]
    /\ container \in [Containers -> Made \ Broken]
    /\ pc = "idle"
    /\ version \in Versions
    /\ current = 1
    /\ ctxDone = FALSE
    /\ result = "none"
    /\ before = [template |-> template, container |-> container]
    /\ orphans = {}
    /\ stray = FALSE

Fail ==
    /\ pc' = "idle"
    /\ result' = "fail"
    /\ UNCHANGED current

Continue(label) == pc' = label /\ UNCHANGED <<current, result>>

-----------------------------------------------------------------------------
(* A request starts a run; its context may be done by then, or later. *)

Begin(v) ==
    /\ pc = "idle"
    /\ pc' = "pull"
    /\ version' = v
    /\ current' = 1
    /\ ctxDone' \in BOOLEAN
    /\ result' = "none"
    /\ before' = [template |-> template, container |-> container]
    /\ stray' = (orphans # {})
    /\ UNCHANGED <<hostVars, orphans>>

Cancel ==
    /\ pc # "idle"
    /\ ~ctxDone
    /\ ctxDone' = TRUE
    /\ UNCHANGED <<hostVars, pc, version, current, result, before, orphans, stray>>

\* Mistake: a command that is run without the context.
StartsAnyway == ctxDone \in BOOLEAN

Starts == ~ctxDone

\* exec starts a command in a process group of its own, or does not.
Start(label, running) ==
    /\ pc = label
    /\ (Starts /\ Continue(running)) \/ Fail
    /\ UNCHANGED <<hostVars, runVars, orphans>>

StartPull   == Start("pull", "pulling")
StartTag    == Start("tag", "tagging")
StartUpdate == Start("update", "updating")

\* docker pull ends.  When it fails or is killed it may have brought the image.
Pull ==
    /\ pc = "pulling"
    /\ \/ images' = images \cup {version} /\ Continue("tag")
       \/ images' \in {images, images \cup {version}} /\ Fail
    /\ UNCHANGED <<latest, template, container, runVars, orphans>>

\* Mistake: the error of docker tag is ignored.
TagIgnoringErrors ==
    /\ pc = "tagging"
    /\ latest' \in {latest, version}
    /\ Continue("read")
    /\ UNCHANGED <<images, template, container, runVars, orphans>>

\* docker tag image:version image:latest ends.
Tag ==
    /\ pc = "tagging"
    /\ \/ version \in images /\ latest' = version /\ Continue("read")
       \/ latest' \in {latest, version} /\ Fail
    /\ UNCHANGED <<images, template, container, runVars, orphans>>

\* Mistake: whatever the file holds is replaced.
Replaceable(text) == text \in Pins

HasRepoTag(text) == text # Torn

\* os.ReadFile and ReplaceRepoTag: an error when there is no tag to replace.
\* Neither looks at the context.
ReadTemplate ==
    /\ pc = "read"
    /\ \/ HasRepoTag(template[current]) /\ Continue("write")
       \/ Fail
    /\ UNCHANGED <<hostVars, runVars, orphans>>

\* os.WriteFile first truncates the file,
TruncateTemplate ==
    /\ pc = "write"
    /\ \/ /\ template' = [template EXCEPT ![current] = Torn]
          /\ Continue("fill")
       \/ UNCHANGED template /\ Fail
    /\ UNCHANGED <<dockerVars, container, runVars, orphans>>

\* Mistake: all templates are pinned before the first container is updated.
FillAllFirst ==
    /\ pc = "fill"
    /\ template' = [template EXCEPT ![current] = version]
    /\ pc' = IF current = N THEN "update" ELSE "read"
    /\ current' = IF current = N THEN 1 ELSE current + 1
    /\ UNCHANGED <<dockerVars, container, runVars, result, orphans>>

\* and then writes it.
FillTemplate ==
    /\ pc = "fill"
    /\ \/ /\ template' = [template EXCEPT ![current] = version]
          /\ Continue("update")
       \/ UNCHANGED template /\ Fail
    /\ UNCHANGED <<dockerVars, container, runVars, orphans>>

\* update_container stops and removes the container and creates it from its
\* template; when it fails or is killed it may be anywhere on that way.
UpdateContainer ==
    /\ pc = "updating"
    /\ \/ /\ container' = [container EXCEPT ![current] = template[current]]
          /\ Continue("health")
       \/ /\ \E left \in {container[current], Absent, template[current]} :
                container' = [container EXCEPT ![current] = left]
          /\ Fail
    /\ UNCHANGED <<dockerVars, template, runVars, orphans>>

\* Mistake: any healthy answer will do.
AnswersAtAll == container[current] # Absent

\* A probe that matches: /api/health answers 200 with the expected version.
Matches ==
    /\ container[current] = version
    /\ version \notin Broken

\* Mistakes: the loop over the containers ends early, or late.
LastButOne == current >= N - 1
PastLast == current > N

AtLast == current = N

\* Health.Wait returns nil, and the loop over the containers goes on.
Healthy ==
    /\ pc = "health"
    /\ ~ctxDone
    /\ Matches
    /\ IF AtLast
         THEN pc' = "idle" /\ result' = "ok" /\ UNCHANGED current
         ELSE pc' = "read" /\ current' = current + 1 /\ UNCHANGED result
    /\ UNCHANGED <<hostVars, runVars, orphans>>

\* Mistake: the poll loop looks at the context only after a match.
GiveUpAfterMatch ==
    /\ pc = "health"
    /\ ctxDone
    /\ Matches
    /\ Fail
    /\ UNCHANGED <<hostVars, runVars, orphans>>

\* Health.Wait gives up: maxWait has passed, or the context is done.
GiveUp ==
    /\ pc = "health"
    /\ Fail
    /\ UNCHANGED <<hostVars, runVars, orphans>>

\* The daemon dies.  A command it had started goes on alone; one that dies with it
\* is one that ends before anything else happens.
Crash ==
    /\ pc # "idle"
    /\ pc' = "idle"
    /\ result' = "crash"
    /\ IF pc \in Programs
         THEN /\ Cardinality(orphans) < MaxOrphans
              /\ orphans' = orphans \cup
                             {[step |-> pc, version |-> version, at |-> current]}
         ELSE UNCHANGED orphans
    /\ UNCHANGED <<hostVars, current, runVars>>

\* update_container without its daemon removes the container,
OrphanRemoves(o) ==
    /\ o \in orphans
    /\ o.step = "updating"
    /\ container' = [container EXCEPT ![o.at] = Absent]
    /\ UNCHANGED <<dockerVars, template, pc, current, result, runVars, orphans>>

\* and creates it from the template as it read it, earlier or just now.
Recreated(o) ==
    IF o.step = "updating"
      THEN {[container EXCEPT ![o.at] = made] : made \in {o.version, template[o.at]} \ {Torn}}
      ELSE {}

\* A command without its daemon ends, and has had its effect or not.
OrphanEnds(o) ==
    /\ o \in orphans
    /\ orphans' = orphans \ {o}
    /\ images' \in {images} \cup (IF o.step = "pulling" THEN {images \cup {o.version}} ELSE {})
    /\ latest' \in {latest} \cup (IF o.step = "tagging" THEN {o.version} ELSE {})
    /\ container' \in {container} \cup Recreated(o)
    /\ UNCHANGED <<template, pc, current, result, runVars>>

-----------------------------------------------------------------------------
Run ==
    \/ StartPull \/ Pull \/ StartTag \/ Tag
    \/ ReadTemplate \/ TruncateTemplate \/ FillTemplate
    \/ StartUpdate \/ UpdateContainer \/ Healthy \/ GiveUp

Orphans == \E o \in orphans : OrphanRemoves(o) \/ OrphanEnds(o)

Next ==
    \/ \E v \in Versions : Begin(v)
    \/ Cancel \/ Run \/ Crash \/ Orphans

Spec == Init /\ [][Next]_vars

(***************************************************************************)
(* Fairness: file operations finish, commands are started or refused, and  *)
(* Health.Wait has a deadline of its own.  docker and update_container may *)
(* hang, and are only sure to end when the context is done and kills them, *)
(* which the server's 15 minute timeouts see to.  Nothing is promised of   *)
(* commands whose daemon is dead.                                          *)
(***************************************************************************)
Fairness ==
    /\ WF_vars(ReadTemplate \/ TruncateTemplate \/ FillTemplate)
    /\ WF_vars(StartPull \/ StartTag \/ StartUpdate)
    /\ WF_vars(Healthy \/ GiveUp)
    /\ WF_vars(ctxDone /\ (Pull \/ Tag \/ UpdateContainer))
    /\ WF_vars(Cancel)

FairSpec == Spec /\ Fairness

-----------------------------------------------------------------------------
(* Properties. *)

\* A run that returned nil left every template pinned to its version, every
\* container created from it, and image:latest pointing to it: nothing that an
\* earlier failed, cancelled or crashed run left behind shows through
\* (orchestrator.go:49-63).  Only if a command of a dead daemon was still at work
\* when the run began may tag and containers be another version's; templates not
\* even then.
OkMeansDeployed ==
    result = "ok" =>
        /\ \A c \in Containers : template[c] = version
        /\ stray \/ (latest = version /\ \A c \in Containers : container[c] = version)

UntouchedBy(c) ==
    /\ template[c] = before.template[c]
    /\ stray \/ container[c] = before.container[c]

\* A container, or its template, is not touched by a run before every container
\* ahead of it is pinned and created at the run's version; this stays so when
\* the run fails, is cancelled, or dies and leaves a command at work
\* (orchestrator.go:57-61).  Of containers it says nothing when a command of an
\* earlier daemon was at work beside the run.
RolloutInOrder ==
    \A c \in Containers :
        \/ UntouchedBy(c)
        \/ \A d \in 1..(c - 1) :
             template[d] = version /\ (stray \/ container[d] = version)

\* An image that never becomes healthy stops at the first container: none of
\* the others is ever pinned to it or created from it, in any run, and by no
\* command that outlives its run (doc.go:13-14).
BrokenStopsAtFirst ==
    \A c \in Containers \ {1} :
        /\ template[c] \notin Broken
        /\ container[c] \notin Broken

\* A container is only ever created at the version its template pins, which is
\* the version being deployed, once that version has been pulled and tagged
\* (orchestrator.go:76-99); or by an update_container whose daemon is dead, at the
\* version that one's run had pinned, or a later run since.
CreatedAsPinned ==
    [][\A c \in Containers :
          container'[c] # container[c] /\ container'[c] # Absent =>
              \/ /\ container'[c] = template[c]
                 /\ template[c] = version
                 /\ stray \/ latest = version
                 /\ version \in images
              \/ \E o \in orphans :
                   /\ o.step = "updating" /\ o.at = c
                   /\ container'[c] \in {o.version, template[c]}]_vars

\* Once its context is done a run starts no command and changes no image, no tag
\* and no container, but for what the command does that is being killed; others'
\* commands aside.  It may still pin the template it is at, and no other: the file
\* operations do not look at the context (orchestrator.go:86-96).
CancelledRunOnlyPins ==
    [][pc # "idle" /\ ctxDone =>
          /\ pc' \in Programs => pc' = pc
          /\ pc \notin Programs /\ orphans = {} => UNCHANGED <<images, latest, container>>
          /\ \A c \in Containers : template'[c] # template[c] => c = current]_vars

\* Steps that are left to a run whose context is done, at most.
StepsLeft ==
    CASE pc = "idle"                    -> 0
      [] pc = "tagging"                 -> 5
      [] pc = "read"                    -> 4
      [] pc = "write"                   -> 3
      [] pc \in {"fill", "pulling", "updating"} -> 2
      [] OTHER                          -> 1

\* Once its context is done a run is over within five of its steps, wherever it
\* is: it finishes at most the command that was just ending and the template it
\* is at, goes on to no other container, and never waits for one to become healthy
\* (orchestrator.go:57-61, health.go:47-56).
CancelledRunEndsSoon ==
    [][pc # "idle" /\ ctxDone =>
          \/ UNCHANGED <<pc, current, template, result>>
          \/ StepsLeft' < StepsLeft]_vars

\* A run that finds a template torn leaves it torn and its container alone: what a
\* crash or a full disk did to a template no later deploy repairs, or deploys
\* past (template.go:25-31).
TornStaysTorn ==
    \A c \in Containers :
        before.template[c] = Torn => template[c] = Torn /\ UntouchedBy(c)

\* Every run ends, though docker and update_container may hang (under FairSpec).
EveryRunEnds == pc # "idle" ~> pc = "idle"
=============================================================================
