-------------------------------- MODULE Daemon --------------------------------
(***************************************************************************)
(* cmd/deployer and package/: the life of the process around DeployServer. *)
(* SIGTERM closes the listener and gives the requests in progress 10       *)
(* seconds; when they are not enough, Shutdown returns an error and main   *)
(* exits.  The rc script sends SIGKILL after 10 seconds of its own.  The   *)
(* package's install script restarts the daemon.                           *)
(*                                                                         *)
(* applyMu, the replay cache and the last results live in the process.     *)
(* The program a run has started has a process group of its own, which is  *)
(* killed when the run's context is done, but not when the daemon exits.   *)
(***************************************************************************)
EXTENDS DeployServer

CONSTANT MaxStarts  \* bound on how often the daemon is started

ASSUME DaemonAssumption == MaxStarts \in Nat \ {0}

VARIABLES
    phase,    \* "up", "draining" after SIGTERM, or "down"
    starts,   \* how often the daemon was started
    orphans,  \* requests whose program outlives the daemon that started it
    ran,      \* ran[t]: runs that were started for token t, in any life
    born,     \* born[r]: the life in which r's run was started, or 0
    abrupt    \* lives whose exit abandoned a request in progress

lifeVars == <<phase, starts, orphans, ran, born, abrupt>>
dvars == <<vars, lifeVars>>

DTypeOK ==
    /\ TypeOK
    /\ phase \in {"up", "draining", "down"}
    /\ starts \in 1..MaxStarts
    /\ orphans \subseteq Requests
    /\ ran \in [Tokens -> Nat]
    /\ born \in [Requests -> 0..MaxStarts]
    /\ abrupt \subseteq 1..starts

DInit ==
    /\ Init
    /\ phase = "up"
    /\ starts = 1
    /\ orphans = {}
    /\ ran = [t \in Tokens |-> 0]
    /\ born = [r \in Requests |-> 0]
    /\ abrupt = {}

InFlight == {r \in Requests : pc[r] \notin {"idle", "refused", "rejected", "done"}}

-----------------------------------------------------------------------------
(* The server at work: it takes no new request once it drains, but requests that *)
(* wait for applyMu still start their runs.                                       *)

Listening == phase = "up"

Running == phase # "down"

StartsRun(r) == pc[r] = "queued" /\ pc'[r] = "draining"

Serve(r) ==
    /\ Running
    /\ (Listening /\ Arrive(r)) \/ Cancel(r) \/ Handler(r) \/ Runner(r)
    /\ ran' = IF StartsRun(r) THEN [ran EXCEPT ![call[r].jti] = @ + 1] ELSE ran
    /\ born' = IF StartsRun(r) THEN [born EXCEPT ![r] = starts] ELSE born
    /\ UNCHANGED <<phase, starts, orphans, abrupt>>

\* Tokens grow old whether the daemon runs or not; the cache does not.
Age(t) ==
    /\ Expire(t) \/ (Running /\ Forget(t))
    /\ UNCHANGED lifeVars

-----------------------------------------------------------------------------
(* The process. *)

\* signal.NotifyContext turns SIGTERM into ctx.Done, and Shutdown closes the
\* listener.
Terminate ==
    /\ phase = "up"
    /\ phase' = "draining"
    /\ UNCHANGED <<vars, starts, orphans, ran, born, abrupt>>

Quiesced == InFlight = {}

\* Shutdown has seen the last request end.
ExitDrained ==
    /\ phase = "draining"
    /\ Quiesced
    /\ phase' = "down"
    /\ UNCHANGED <<vars, starts, orphans, ran, born, abrupt>>

\* The 10 seconds are over and log.Fatalf exits, or the rc script or a crash
\* kills the process.  The connections are reset.  The run in progress may have
\* a program running, which goes on without it.
ExitAbruptly ==
    /\ phase # "down"
    /\ InFlight # {}
    /\ phase' = "down"
    /\ orphans' \in {orphans, orphans \cup {r \in Requests : Active(r)}}
    /\ abrupt' = abrupt \cup {starts}
    /\ pc' = [r \in Requests |-> IF r \in InFlight THEN "refused" ELSE pc[r]]
    /\ work' = [r \in Requests |-> IF r \in InFlight THEN "none" ELSE work[r]]
    /\ applyMu' = NoRequest
    /\ UNCHANGED <<netVars, seen, offered, dropped, written, errCh, boardVars,
                   starts, ran, born>>

\* Mistake: the last results are kept in a file.
StartKeepingResults ==
    /\ phase = "down"
    /\ starts < MaxStarts
    /\ phase' = "up"
    /\ starts' = starts + 1
    /\ seen' = {}
    /\ UNCHANGED <<netVars, pc, applyMu, runVars, boardVars,
                   orphans, ran, born, abrupt>>

\* The rc script starts a process with an empty cache, a free lock and no results.
Start ==
    /\ phase = "down"
    /\ starts < MaxStarts
    /\ phase' = "up"
    /\ starts' = starts + 1
    /\ seen' = {}
    /\ last' = [e \in Endpoints |-> NoResult]
    /\ UNCHANGED <<netVars, pc, applyMu, runVars, clock, startedAt,
                   orphans, ran, born, abrupt>>

OrphanEnds(r) ==
    /\ r \in orphans
    /\ orphans' = orphans \ {r}
    /\ UNCHANGED <<vars, phase, starts, ran, born, abrupt>>

\* The daemon stays down, or has nothing left to do.
DRest ==
    /\ \A r \in Requests : r \notin InFlight
    /\ UNCHANGED dvars

DNext ==
    \/ \E r \in Requests : Serve(r) \/ OrphanEnds(r)
    \/ \E t \in Tokens : Age(t)
    \/ Terminate \/ ExitDrained \/ ExitAbruptly \/ Start
    \/ DRest

DSpec == DInit /\ [][DNext]_dvars

\* A goroutine of a running daemon takes its steps, as in DeployServer; a drain
\* ends, by itself or after its 10 seconds.
DFairness ==
    /\ \A r \in Requests :
          /\ WF_dvars(Prompt(r) /\ Serve(r))
          /\ WF_dvars(r \in cancelled /\ WaitsForClient(r) /\ Serve(r))
          /\ WF_dvars((Send(r) \/ SendErr(r)) /\ Serve(r))
          /\ WF_dvars(/\ r \in cancelled
                      /\ \E status \in Statuses : Return(r, status)
                      /\ Serve(r))
          /\ WF_dvars(Cancel(r) /\ Serve(r))
    /\ WF_dvars(ExitDrained \/ (phase = "draining" /\ ExitAbruptly))

DFairSpec == DSpec /\ DFairness

-----------------------------------------------------------------------------
(* Properties. *)

\* Programs that may be changing the host: of the run in progress, and of runs
\* whose daemon is gone.
Programs == {r \in Requests : Active(r)} \cup orphans

\* /deploy, /tf-apply and /tf-plan serialise (README.md:61-64, server.go:44-48):
\* no two programs that were started in one life of the daemon are at work on the
\* host at the same time, while it drains and after it is gone neither.  Programs
\* of two lives are, when the elder one's exit abandoned a request, and so each
\* exit after 10 seconds of drain leaves one program at most, however many lives
\* it goes on through (server.go:96-100).
OverlapTakesAbruptExit ==
    \A q, r \in Programs : q # r =>
        /\ born[q] # born[r]
        /\ born[q] < born[r] => born[q] \in abrupt

\* A second run for a token takes a second life of the daemon, and a third a
\* third: the cache forgets what it has seen only with the process
\* (main.go:271).
SecondRunTakesRestart ==
    \A t \in Tokens : ran[t] <= starts

\* What /status reports is a run of this life, whose client got its answer from
\* this process or is about to: nothing of an abandoned run shows.
StatusIsOfThisLife ==
    \A e \in Endpoints :
        last[e] # NoResult =>
            /\ phase = "down" \/ work[last[e].req] = "sent"
            /\ last[e].req \notin orphans

\* Every program that may be changing the host, also one whose daemon is gone,
\* belongs to a request that met the gates of its own endpoint, in whatever life
\* of the daemon it came: a restart forgets tokens, and lets no one past the
\* other gates (deploy_handler.go:30-57).
ProgramsAreAuthorised ==
    \A r \in Programs :
        /\ call[r].endpoint \in Registered
        /\ call[r].ip /\ call[r].bearer /\ call[r].body
        /\ call[r].endpoint \in Pins[call[r].jti]

\* Every request that has reached the daemon is answered or its connection is
\* reset, though the daemon may stop and start meanwhile (under DFairSpec).
NoRequestHangs ==
    \A r \in Requests : r \in InFlight ~> r \notin InFlight
=============================================================================
