------------------------------- MODULE RcScript -------------------------------
(***************************************************************************)
(* package/rc.engram-deployer: the processes of a host, the pid file, and  *)
(* invocations of the script that start, stop or restart the daemon.  The  *)
(* boot sequence, the plugin's install hook and an operator call it, and   *)
(* nothing keeps two invocations apart.  Nothing else starts a daemon.     *)
(*                                                                         *)
(* A daemon boots, serves once it holds the port, gives the port up and    *)
(* drains after SIGTERM, and may die at any time.  The pid of a process    *)
(* that is gone may become that of any other program.                      *)
(***************************************************************************)
EXTENDS Integers

CONSTANTS
    Pids,         \* process ids
    NoPid,        \* the pid file does not exist, or is empty
    Invocations,  \* invocations of the script that may go on side by side
    Polls         \* how often stop looks before it kills (10 in the script)

ASSUME RcAssumption ==
    /\ NoPid \notin Pids
    /\ Polls \in Nat \ {0}

VARIABLES
    proc,      \* proc[p]: what runs as p
    pidfile,   \* what the pid file holds
    op,        \* op[i]: what invocation i was last asked for
    step,      \* step[i]: where it is
    pid,       \* pid[i]: its variable of that name
    polls,     \* polls[i]: how often it has looked
    disturbed  \* invocations overlapped, or one was interrupted

scriptVars == <<op, step, pid, polls, disturbed>>
vars == <<proc, pidfile, scriptVars>>

Live == {"booting", "serving", "draining"}
Steps == {"idle", "stop", "term", "poll", "kill", "remove", "start", "launch",
          "write", "recheck"}

TypeOK ==
    /\ proc \in [Pids -> Live \cup {"dying", "dead", "foreign"}]
    /\ pidfile \in Pids \cup {NoPid}
    /\ op \in [Invocations -> {"start", "stop", "restart"}]
    /\ step \in [Invocations -> Steps]
    /\ pid \in [Invocations -> Pids \cup {NoPid}]
    /\ polls \in [Invocations -> 0..Polls]
    /\ disturbed \in BOOLEAN

\* The host has booted: /var/run is empty.
Init ==
    /\ proc \in [Pids -> {"dead", "foreign"}]
    /\ pidfile = NoPid
    /\ op = [i \in Invocations |-> "start"]
    /\ step = [i \in Invocations |-> "idle"]
    /\ pid = [i \in Invocations |-> NoPid]
    /\ polls = [i \in Invocations |-> 0]
    /\ disturbed = FALSE

Busy(i) == step[i] # "idle"

\* A daemon that runs code of its own: not one that SIGKILL has hit.
IsDaemon(p) == proc[p] \in Live

\* kill -0 "$p" succeeds.
Exists(p) == p # NoPid /\ proc[p] # "dead"

\* status: the pid file names a process, of whatever program.
Status == Exists(pidfile)

-----------------------------------------------------------------------------
(* Processes. *)

Become(p, what) == proc' = [proc EXCEPT ![p] = what]

PortTaken == \E p \in Pids : proc[p] = "serving"

\* main's ListenAndServeTLS; a daemon that was killed may hold the port for a bit.
Listen(p) ==
    /\ proc[p] = "booting"
    /\ ~PortTaken
    /\ Become(p, "serving")
    /\ UNCHANGED <<pidfile, scriptVars>>

\* A daemon crashes, cannot listen, is not configured, or has drained; a killed
\* one is gone; another program ends.
Die(p) ==
    /\ proc[p] # "dead"
    /\ Become(p, "dead")
    /\ UNCHANGED <<pidfile, scriptVars>>

Recycle(p) ==
    /\ proc[p] = "dead"
    /\ Become(p, "foreign")
    /\ UNCHANGED <<pidfile, scriptVars>>

-----------------------------------------------------------------------------
(* Invocations. *)

Goto(i, label) == step' = [step EXCEPT ![i] = label]

Invoke(i, what) ==
    /\ ~Busy(i)
    /\ op' = [op EXCEPT ![i] = what]
    /\ Goto(i, IF what = "start" THEN "start" ELSE "stop")
    /\ disturbed' = (disturbed \/ \E j \in Invocations : Busy(j))
    /\ UNCHANGED <<proc, pidfile, pid, polls>>

\* Ctrl-C, or the session is lost.
Interrupt(i) ==
    /\ Busy(i)
    /\ Goto(i, "idle")
    /\ disturbed' = TRUE
    /\ UNCHANGED <<proc, pidfile, op, pid, polls>>

\* restart goes on with start, whatever stop returned.
AfterStop(i) == IF op[i] = "restart" THEN "start" ELSE "idle"

StopChecks(i) ==
    /\ step[i] = "stop"
    /\ IF Status THEN Goto(i, "term") /\ UNCHANGED pidfile
                 ELSE Goto(i, AfterStop(i)) /\ pidfile' = NoPid
    /\ UNCHANGED <<proc, op, pid, polls, disturbed>>

\* SIGTERM: a daemon drains, or dies if it has not asked for the signal yet; any
\* other program does as it likes.
AfterTerm(what) ==
    CASE what = "booting" -> {"draining", "dead"}
      [] what = "serving" -> {"draining"}
      [] what = "foreign" -> {"foreign", "dead"}
      [] OTHER            -> {what}

Term(i) ==
    /\ step[i] = "term"
    /\ pid' = [pid EXCEPT ![i] = pidfile]
    /\ IF pidfile = NoPid THEN UNCHANGED proc
       ELSE \E what \in AfterTerm(proc[pidfile]) : Become(pidfile, what)
    /\ polls' = [polls EXCEPT ![i] = 0]
    /\ Goto(i, "poll")
    /\ UNCHANGED <<pidfile, op, disturbed>>

\* Mistake: when it has waited long enough stop gives up.
GiveUpAfterPolls(i) ==
    /\ step[i] = "poll"
    /\ \/ ~Exists(pid[i]) /\ Goto(i, "remove") /\ UNCHANGED polls
       \/ /\ Exists(pid[i])
          /\ polls' = [polls EXCEPT ![i] = @ + 1]
          /\ Goto(i, IF polls[i] + 1 = Polls THEN "remove" ELSE "poll")
    /\ UNCHANGED <<proc, pidfile, op, pid, disturbed>>

Poll(i) ==
    /\ step[i] = "poll"
    /\ \/ ~Exists(pid[i]) /\ Goto(i, "remove") /\ UNCHANGED polls
       \/ /\ Exists(pid[i])
          /\ polls' = [polls EXCEPT ![i] = @ + 1]
          /\ Goto(i, IF polls[i] + 1 = Polls THEN "kill" ELSE "poll")
    /\ UNCHANGED <<proc, pidfile, op, pid, disturbed>>

\* SIGKILL; the script does not wait for the process to be gone.
Kill(i) ==
    /\ step[i] = "kill"
    /\ IF Exists(pid[i]) THEN Become(pid[i], "dying") ELSE UNCHANGED proc
    /\ Goto(i, "remove")
    /\ UNCHANGED <<pidfile, op, pid, polls, disturbed>>

Remove(i) ==
    /\ step[i] = "remove"
    /\ pidfile' = NoPid
    /\ Goto(i, AfterStop(i))
    /\ UNCHANGED <<proc, op, pid, polls, disturbed>>

\* Mistake: start does not look whether a daemon runs.
StartAnyway(i) ==
    /\ step[i] = "start"
    /\ Goto(i, "launch")
    /\ UNCHANGED <<proc, pidfile, op, pid, polls, disturbed>>

\* Nothing is started when the daemon runs, or binary or environment are missing.
StartChecks(i) ==
    /\ step[i] = "start"
    /\ \/ ~Status /\ Goto(i, "launch")
       \/ Goto(i, "idle")
    /\ UNCHANGED <<proc, pidfile, op, pid, polls, disturbed>>

\* The daemon is started in the background,
Launch(i, p) ==
    /\ step[i] = "launch"
    /\ proc[p] = "dead"
    /\ Become(p, "booting")
    /\ pid' = [pid EXCEPT ![i] = p]
    /\ Goto(i, "write")
    /\ UNCHANGED <<pidfile, op, polls, disturbed>>

\* and its pid then noted.
WritePid(i) ==
    /\ step[i] = "write"
    /\ pidfile' = pid[i]
    /\ Goto(i, "recheck")
    /\ UNCHANGED <<proc, op, pid, polls, disturbed>>

\* A second later start looks again; it only reports what it sees.
Recheck(i) ==
    /\ step[i] = "recheck"
    /\ Goto(i, "idle")
    /\ UNCHANGED <<proc, pidfile, op, pid, polls, disturbed>>

-----------------------------------------------------------------------------
Script(i) ==
    \/ StopChecks(i) \/ Term(i) \/ Poll(i) \/ Kill(i) \/ Remove(i)
    \/ StartChecks(i) \/ (\E p \in Pids : Launch(i, p)) \/ WritePid(i) \/ Recheck(i)

Next ==
    \/ \E p \in Pids : Listen(p) \/ Die(p) \/ Recycle(p)
    \/ \E i \in Invocations :
         \/ \E what \in {"start", "stop", "restart"} : Invoke(i, what)
         \/ Interrupt(i)
         \/ Script(i)

Spec == Init /\ [][Next]_vars

-----------------------------------------------------------------------------
(* Properties. *)

AllIdle == \A i \in Invocations : ~Busy(i)

\* Started, stopped and restarted in any order, while pids are reused, daemons
\* crash and a drain outlasts the script's patience, the host has one daemon at
\* most, and once the script is done the pid file names it: the mutex and the
\* replay cache in its memory are the only ones there are.  This takes that the
\* invocations follow one another and are not interrupted (rc:16-63, 79).
OneTrackedDaemon ==
    ~disturbed =>
        /\ \A p, q \in Pids : IsDaemon(p) /\ IsDaemon(q) => p = q
        /\ AllIdle => \A p \in Pids : IsDaemon(p) => pidfile = p

\* A stop, or the first half of a restart, leaves no daemon behind, also when it
\* drains for longer than stop waits (rc:44-63).
StopLeavesNone ==
    [][\A i \in Invocations :
          /\ ~disturbed'
          /\ step[i] \in {"stop", "remove"} /\ step'[i] \in {"idle", "start"}
          => \A p \in Pids : proc'[p] \notin Live]_vars
=============================================================================
