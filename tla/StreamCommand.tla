----------------------------- MODULE StreamCommand -----------------------------
(***************************************************************************)
(* internal/tfapply, streamCommand: one program that git or terraform runs *)
(* as, its process group, two pipes, and the goroutines that read them.    *)
(* The caller starts the program, waits for both readers, and only then    *)
(* calls cmd.Wait.  exec's own goroutine waits for the context and kills   *)
(* the group when it is done; Wait takes its verdict or calls it off.      *)
(*                                                                         *)
(* A program may start others, which inherit its ends of the pipes and     *)
(* may outlive it.  A pipe reaches its end when nobody holds it any more.  *)
(* A line of more than one MiB ends a scanner for good.  Lines are counted *)
(* and not spelled out.                                                    *)
(*                                                                         *)
(* Assumed of the programs: none leaves its process group and keeps a      *)
(* pipe.  git's background maintenance leaves, and closes its pipes.       *)
(***************************************************************************)
EXTENDS Integers

CONSTANTS
    Main,       \* the program streamCommand starts
    Helpers,    \* programs that it, or one of them, may start
    PipeCap,    \* lines a pipe holds
    LineBound   \* bound on the lines of one stream

Procs == Helpers \cup {Main}
Streams == {"stdout", "stderr"}

ASSUME StreamAssumption ==
    /\ Main \notin Helpers
    /\ PipeCap \in Nat \ {0}
    /\ LineBound \in Nat

VARIABLES
    ctxDone,   \* the context of the run is done
    main,      \* where streamCommand is
    result,    \* what it returned
    watch,     \* exec's goroutine that watches the context
    proc,      \* proc[p]: not started yet, alive or dead
    holds,     \* holds[p]: the streams p has an open end of
    status,    \* how Main ended
    printed,   \* printed[s]: lines written to the pipe
    long,      \* long[s]: the first of them that is too long, or 0
    reader,    \* reader[s]: where the stream's pipeLines is
    captured,  \* captured[s]: lines the capturing emit has noted
    passed     \* passed[s]: of these, lines that reached the events channel

groupVars  == <<proc, holds, status>>
outputVars == <<printed, long>>
lineVars   == <<captured, passed>>
vars == <<ctxDone, main, result, watch, proc, holds, status,
          printed, long, reader, captured, passed>>

TypeOK ==
    /\ ctxDone \in BOOLEAN
    /\ main \in {"start", "reading", "waiting", "reaped", "returned"}
    /\ result \in {"none", "ok", "fail"}
    /\ watch \in {"off", "watching", "cancelled", "released"}
    /\ proc \in [Procs -> {"unborn", "alive", "dead"}]
    /\ holds \in [Procs -> SUBSET Streams]
    /\ status \in {"none", "ok", "fail", "killed"}
    /\ printed \in [Streams -> Nat]
    /\ long \in [Streams -> Nat]
    /\ reader \in [Streams -> {"off", "scan", "send", "check", "done"}]
    /\ captured \in [Streams -> Nat]
    /\ passed \in [Streams -> Nat]

Alive(p) == proc[p] = "alive"

\* Nobody can write to the stream, now or later.
Closed(s) == \A p \in Procs : Alive(p) => s \notin holds[p]

Init ==
    /\ ctxDone \in BOOLEAN
    /\ main = "start"
    /\ result = "none"
    /\ watch = "off"
    /\ proc = [p \in Procs |-> "unborn"]
    /\ holds = [p \in Procs |-> {}]
    /\ status = "none"
    /\ printed = [s \in Streams |-> 0]
    /\ long = [s \in Streams |-> 0]
    /\ reader = [s \in Streams |-> "off"]
    /\ captured = [s \in Streams |-> 0]
    /\ passed = [s \in Streams |-> 0]

-----------------------------------------------------------------------------
(* The request's context. *)

Cancel ==
    /\ main # "returned"
    /\ ~ctxDone
    /\ ctxDone' = TRUE
    /\ UNCHANGED <<main, result, watch, groupVars, outputVars, reader, lineVars>>

-----------------------------------------------------------------------------
(* The programs. *)

\* Main or a helper starts another, which gets some of its streams.
Spawn(p, h) ==
    /\ Alive(p)
    /\ proc[h] = "unborn"
    /\ \E inherited \in SUBSET holds[p] : holds' = [holds EXCEPT ![h] = inherited]
    /\ proc' = [proc EXCEPT ![h] = "alive"]
    /\ UNCHANGED <<ctxDone, main, result, watch, status, outputVars, reader, lineVars>>

\* Lines in the pipe: written, and not yet taken out by the scanner.
Unread(s) == printed[s] - captured[s]

WriteLine(p, s, tooLong) ==
    /\ Alive(p)
    /\ s \in holds[p]
    /\ main # "returned"
    /\ Unread(s) < PipeCap
    /\ printed[s] < LineBound
    /\ printed' = [printed EXCEPT ![s] = @ + 1]
    /\ long' = IF tooLong /\ long[s] = 0
                 THEN [long EXCEPT ![s] = printed[s] + 1] ELSE long
    /\ UNCHANGED <<ctxDone, main, result, watch, groupVars, reader, lineVars>>

Close(p, s) ==
    /\ Alive(p)
    /\ s \in holds[p]
    /\ holds' = [holds EXCEPT ![p] = @ \ {s}]
    /\ UNCHANGED <<ctxDone, main, result, watch, proc, status, outputVars, reader, lineVars>>

Exit(p, how) ==
    /\ Alive(p)
    /\ proc' = [proc EXCEPT ![p] = "dead"]
    /\ status' = IF p = Main THEN how ELSE status
    /\ UNCHANGED <<ctxDone, main, result, watch, holds, outputVars, reader, lineVars>>

-----------------------------------------------------------------------------
(* exec's goroutine. *)

\* Mistake: only the program itself is killed, as exec does by default.
KillLeader(p) == IF p = Main /\ Alive(p) THEN "dead" ELSE proc[p]

\* SIGKILL to the process group.
Kill(p) == IF Alive(p) THEN "dead" ELSE proc[p]

WatchCancels ==
    /\ watch = "watching"
    /\ ctxDone
    /\ proc' = [p \in Procs |-> Kill(p)]
    /\ status' = IF Alive(Main) THEN "killed" ELSE status
    /\ watch' = "cancelled"
    /\ UNCHANGED <<ctxDone, main, result, holds, outputVars, reader, lineVars>>

-----------------------------------------------------------------------------
(* pipeLines, one for each stream. *)

Goto(s, label) == reader' = [reader EXCEPT ![s] = label]

NextTooLong(s) == long[s] = captured[s] + 1

\* scanner.Scan and the first half of the capturing emit.
Scan(s) ==
    /\ reader[s] = "scan"
    /\ Unread(s) > 0
    /\ ~NextTooLong(s)
    /\ captured' = [captured EXCEPT ![s] = @ + 1]
    /\ Goto(s, "send")
    /\ UNCHANGED <<ctxDone, main, result, watch, groupVars, outputVars, passed>>

\* scanner.Scan returns false: at the end of the stream, or because the line is
\* too long; scanner.Err, which would tell, is not asked.
ScanEnds(s) ==
    /\ reader[s] = "scan"
    /\ IF Unread(s) > 0 THEN NextTooLong(s) ELSE Closed(s)
    /\ Goto(s, "done")
    /\ UNCHANGED <<ctxDone, main, result, watch, groupVars, outputVars, lineVars>>

\* Mistake: the send does not look at the context.
NoWayOut == FALSE

GivesUp == ctxDone

\* emit: the line is passed on; or the context is done and it is given up.
Send(s) ==
    /\ reader[s] = "send"
    /\ \/ passed' = [passed EXCEPT ![s] = @ + 1]
       \/ GivesUp /\ UNCHANGED passed
    /\ Goto(s, "check")
    /\ UNCHANGED <<ctxDone, main, result, watch, groupVars, outputVars, captured>>

\* Mistake: a reader goes on to the end of its stream, whatever the context says.
NeverLeaves == FALSE

Leaves == ctxDone

Check(s) ==
    /\ reader[s] = "check"
    /\ Goto(s, IF Leaves THEN "done" ELSE "scan")
    /\ UNCHANGED <<ctxDone, main, result, watch, groupVars, outputVars, lineVars>>

-----------------------------------------------------------------------------
(* streamCommand. *)

\* cmd.Start fails: the context is done, or there is no such program.
StartFails ==
    /\ main = "start"
    /\ main' = "returned"
    /\ result' = "fail"
    /\ UNCHANGED <<ctxDone, watch, groupVars, outputVars, reader, lineVars>>

Start ==
    /\ main = "start"
    /\ ~ctxDone
    /\ main' = "reading"
    /\ watch' = "watching"
    /\ proc' = [proc EXCEPT ![Main] = "alive"]
    /\ holds' = [holds EXCEPT ![Main] = Streams]
    /\ reader' = [s \in Streams |-> "scan"]
    /\ UNCHANGED <<ctxDone, result, status, outputVars, lineVars>>

\* Mistake: what is left in the pipes is not waited for once the program is dead.
DoneOrDead == ~Alive(Main) \/ \A s \in Streams : reader[s] = "done"

BothDone == \A s \in Streams : reader[s] = "done"

ReadersDone ==
    /\ main = "reading"
    /\ BothDone
    /\ main' = "waiting"
    /\ UNCHANGED <<ctxDone, result, watch, groupVars, outputVars, reader, lineVars>>

\* Mistake: streamCommand returns when the output has ended.
ReapAtOnce ==
    /\ main = "waiting"
    /\ main' = "reaped"
    /\ UNCHANGED <<ctxDone, result, watch, groupVars, outputVars, reader, lineVars>>

\* cmd.Wait: the program is dead,
Reap ==
    /\ main = "waiting"
    /\ ~Alive(Main)
    /\ main' = "reaped"
    /\ UNCHANGED <<ctxDone, result, watch, groupVars, outputVars, reader, lineVars>>

\* and exec's goroutine is called off, or has been at work.
Return ==
    /\ main = "reaped"
    /\ main' = "returned"
    /\ watch' = IF watch = "watching" THEN "released" ELSE watch
    /\ result' = IF watch = "watching" /\ status = "ok" THEN "ok" ELSE "fail"
    /\ UNCHANGED <<ctxDone, groupVars, outputVars, reader, lineVars>>

-----------------------------------------------------------------------------
Programs ==
    \/ \E p \in Procs, h \in Helpers : Spawn(p, h)
    \/ \E p \in Procs, s \in Streams, tooLong \in BOOLEAN : WriteLine(p, s, tooLong)
    \/ \E p \in Procs, s \in Streams : Close(p, s)
    \/ \E p \in Procs, how \in {"ok", "fail"} : Exit(p, how)

Reader(s) == Scan(s) \/ ScanEnds(s) \/ Send(s) \/ Check(s)

Caller == StartFails \/ Start \/ ReadersDone \/ Reap \/ Return

\* All there is to do is done.
Rest == main = "returned" /\ UNCHANGED vars

Next ==
    \/ Cancel \/ Programs \/ WatchCancels
    \/ \E s \in Streams : Reader(s)
    \/ Caller \/ Rest

Spec == Init /\ [][Next]_vars

(***************************************************************************)
(* Fairness: goroutines that can take a step take it, and the context is   *)
(* done some time.  The programs may hang.  The event's consumer may be    *)
(* slow for ever: a send is only sure to end when the context is done.     *)
(***************************************************************************)
Fairness ==
    /\ WF_vars(Cancel)
    /\ WF_vars(WatchCancels)
    /\ WF_vars(Caller)
    /\ \A s \in Streams :
         /\ WF_vars(Scan(s) \/ ScanEnds(s) \/ Check(s))
         /\ WF_vars(GivesUp /\ Send(s))

FairSpec == Spec /\ Fairness

-----------------------------------------------------------------------------
(* Properties. *)

Returned == main = "returned" /\ watch # "off"

\* When streamCommand has returned, what was captured and what was passed on is
\* all that the program and its helpers ever printed, in either stream, unless
\* the context was done or a line was too long.  withInitRetry classifies the
\* captured text, so a lost line is a wrong decision (retry.go:66-87).
OutputIsComplete ==
    Returned /\ ~ctxDone =>
        \A s \in Streams :
            long[s] = 0 => captured[s] = printed[s] /\ passed[s] = printed[s]

\* When streamCommand has returned, no program holds on to a pipe, and none at
\* all is left of a group that was killed: the next command, or the next run,
\* does not share the work directory with it.  The ways out: a line was too long,
\* or the context was done just when the program had ended
\* (orchestrator.go:297-303, 321-324).
NothingHoldsOn ==
    Returned =>
        /\ watch = "cancelled" => \A p \in Procs : ~Alive(p)
        /\ \A s \in Streams :
             Closed(s) \/ long[s] # 0 \/ (ctxDone /\ watch = "released")

\* streamCommand returns, though programs hang, helpers keep the pipes open, a
\* scanner has stopped at a long line so that a program blocks on a full pipe, or
\* nobody takes the events (under FairSpec; orchestrator.go:318-324).
CommandEnds == main = "reading" ~> main = "returned"

\* What follows says, state by state and step by step, why it returns.  A reader
\* that is not done can take a step, and so can the caller:
ReaderCanGoOn(s) ==
    \/ reader[s] \in {"send", "check"}
    \/ reader[s] = "scan" /\ (Unread(s) > 0 \/ Closed(s))

CallerCanGoOn ==
    \/ main = "reading" /\ BothDone
    \/ main = "waiting" /\ ~Alive(Main)
    \/ main = "reaped"

\* Once the context is done, one of the daemon's own goroutines can go on until
\* streamCommand has returned: none waits for a program that is still alive, for
\* a pipe that a helper keeps, or for a line to be taken (orchestrator.go:300-324).
NobodyIsStuck ==
    ctxDone /\ main \in {"reading", "waiting", "reaped"} =>
        watch = "watching" \/ CallerCanGoOn \/ \E s \in Streams : ReaderCanGoOn(s)

\* Steps the daemon's goroutines still have to take once the context is done.
ReaderStepsLeft(s) ==
    CASE reader[s] = "scan"  -> 3
      [] reader[s] = "send"  -> 2
      [] reader[s] = "check" -> 1
      [] OTHER               -> 0

CallerStepsLeft ==
    CASE main = "reading"          -> 3
      [] main = "waiting"          -> 2
      [] main \in {"start", "reaped"} -> 1
      [] OTHER                     -> 0

StepsLeft ==
    ReaderStepsLeft("stdout") + ReaderStepsLeft("stderr")
        + CallerStepsLeft + (IF watch = "watching" THEN 1 ELSE 0)

\* Once the context is done, each step of the daemon's goroutines brings the end
\* nearer, however much the programs still print, and no step of the programs
\* puts it off: ten steps and streamCommand has returned (orchestrator.go:327-338,
\* 318-324).
EndIsNear ==
    [][ctxDone =>
         IF UNCHANGED <<main, watch, reader, captured, passed>>
           THEN StepsLeft' = StepsLeft
           ELSE StepsLeft' < StepsLeft]_vars

-----------------------------------------------------------------------------
(* Refinement: to TfRun a command is one program. *)

Stage ==
    CASE main = "start"    -> "ready"
      [] main = "returned" -> "over"
      [] OTHER             -> "running"

Program == INSTANCE OneProgram WITH
             stage <- Stage, ended <- status, answer <- result

\* The goroutines, pipes and helpers together act as the one program that TfRun
\* makes of a command: it is not started once the context is done, is killed only
\* then, and what is returned is said of a program that has ended
\* (orchestrator.go:296-325).
ActsAsOneProgram == Program!Spec

-----------------------------------------------------------------------------
\* The comment on streamCommand has stdout and stderr forwarded line by line
\* (orchestrator.go:293-294).  It does not hold: a line of more than one MiB ends
\* the stream without an error, and the command may still succeed.
EveryLineIsForwarded ==
    Returned /\ result = "ok" /\ ~ctxDone =>
        \A s \in Streams : passed[s] = printed[s]
=============================================================================
