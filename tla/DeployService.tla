---------------------------- MODULE DeployService ----------------------------
(***************************************************************************)
(* internal/server and internal/deploy together: requests for /deploy that *)
(* wait for applyMu in any order, and the runs they start on one host.     *)
(* DeployServer says how requests get this far, and DeployRun what a run   *)
(* does; here are the lock, the request's context as the run's context,    *)
(* and the last result, next to the templates and containers it is about.  *)
(* A restart of the daemon empties its memory and leaves the host, and the *)
(* command that was at work on it.                                         *)
(***************************************************************************)
EXTENDS DeployRun

CONSTANTS
    Requests,   \* handlers of /deploy; each serves one request after another
    NoRequest,  \* what applyMu holds when it is free
    NoResult    \* a nil last result

Result == [version : Versions, status : {"ok", "fail"}]

ASSUME ServiceAssumption ==
    /\ NoRequest \notin Requests
    /\ NoResult \notin Result

VARIABLES
    want,    \* want[r]: the version r asks for
    phase,   \* phase[r]: where r's handler is
    gone,    \* requests whose context is done
    left,    \* of these, the ones whose context was done before they had the lock
    holder,  \* applyMu
    last     \* what /status shows

serviceVars == <<want, phase, gone, left, holder, last>>
svars == <<vars, serviceVars>>

Locked == {"running", "storing", "unlocking"}

STypeOK ==
    /\ TypeOK
    /\ want \in [Requests -> Versions]
    /\ phase \in [Requests -> {"away", "queued"} \cup Locked]
    /\ gone \subseteq Requests
    /\ left \subseteq gone
    /\ holder \in Requests \cup {NoRequest}
    /\ last \in Result \cup {NoResult}

SInit ==
    /\ Init
    /\ want \in [Requests -> Versions]
    /\ phase = [r \in Requests |-> "away"]
    /\ gone = {}
    /\ left = {}
    /\ holder = NoRequest
    /\ last = NoResult

Goto(r, label) == phase' = [phase EXCEPT ![r] = label]

-----------------------------------------------------------------------------
\* A request has passed the gates, and its body names v.
Arrive(r, v) ==
    /\ phase[r] = "away"
    /\ want' = [want EXCEPT ![r] = v]
    /\ Goto(r, "queued")
    /\ UNCHANGED <<vars, gone, left, holder, last>>

\* The client leaves, or a deadline passes: the context is done, and with it that
\* of the run, which is the request's own.
Leave(r) ==
    /\ phase[r] # "away"
    /\ r \notin gone
    /\ gone' = gone \cup {r}
    /\ left' = IF phase[r] = "queued" THEN left \cup {r} ELSE left
    /\ IF phase[r] = "running" /\ pc # "idle" THEN Cancel ELSE UNCHANGED vars
    /\ UNCHANGED <<want, phase, holder, last>>

\* Mistake: the run gets a context of its own.
FreshContext(r) == ctxDone' = FALSE

OwnContext(r) == ctxDone' = (r \in gone)

\* applyMu.Lock lets any waiter in, whatever it waits for and however long; and
\* Run is called, though the client may be gone.
Acquire(r) ==
    /\ phase[r] = "queued"
    /\ holder = NoRequest
    /\ holder' = r
    /\ Begin(want[r])
    /\ OwnContext(r)
    /\ Goto(r, "running")
    /\ UNCHANGED <<want, gone, left, last>>

\* Commands that an earlier daemon left go on.
OrphanStep ==
    /\ Orphans
    /\ UNCHANGED serviceVars

\* Orchestrator.Run.
RunStep ==
    /\ holder # NoRequest
    /\ phase[holder] = "running"
    /\ Run
    /\ UNCHANGED serviceVars

\* The events are drained, and <-errCh has the run's error.
Finish(r) ==
    /\ phase[r] = "running"
    /\ pc = "idle"
    /\ Goto(r, "storing")
    /\ UNCHANGED <<vars, want, gone, left, holder, last>>

Store(r) ==
    /\ phase[r] = "storing"
    /\ last' = [version |-> want[r], status |-> result]
    /\ Goto(r, "unlocking")
    /\ UNCHANGED <<vars, want, gone, left, holder>>

\* The terminal line is sent, applyMu released, and the request over.
Unlock(r) ==
    /\ phase[r] = "unlocking"
    /\ holder' = NoRequest
    /\ Goto(r, "away")
    /\ gone' = gone \ {r}
    /\ left' = left \ {r}
    /\ UNCHANGED <<vars, want, last>>

\* Mistake: the last results are kept over a restart.
RestartKeepingResults ==
    /\ IF pc # "idle" THEN Crash ELSE UNCHANGED vars
    /\ phase' = [r \in Requests |-> "away"]
    /\ gone' = {} /\ left' = {}
    /\ holder' = NoRequest
    /\ UNCHANGED <<want, last>>

\* The daemon dies and is started again.
Restart ==
    /\ IF pc # "idle" THEN Crash ELSE UNCHANGED vars
    /\ phase' = [r \in Requests |-> "away"]
    /\ gone' = {} /\ left' = {}
    /\ holder' = NoRequest
    /\ last' = NoResult
    /\ UNCHANGED want

-----------------------------------------------------------------------------
SNext ==
    \/ \E r \in Requests :
         \/ \E v \in Versions : Arrive(r, v)
         \/ Leave(r) \/ Acquire(r) \/ Finish(r) \/ Store(r) \/ Unlock(r)
    \/ RunStep \/ OrphanStep \/ Restart

SSpec == SInit /\ [][SNext]_svars

-----------------------------------------------------------------------------
(* Properties. *)

Pinned(v) == \A c \in Containers : template[c] = v

HostAt(v) ==
    /\ latest = v
    /\ \A c \in Containers : template[c] = v /\ container[c] = v

\* While no run is in progress, a /status that says ok tells the truth about the
\* host: each template and container is at that version, however many requests
\* for other versions overtook it, left the queue, failed, or died with an earlier
\* life of the daemon (deploy_handler.go:62, 91-106).  Of a run that began while a
\* command of an earlier life was still at work it is true of the templates only.
StatusTellsTheHost ==
    /\ holder = NoRequest \/ phase[holder] = "unlocking"
    /\ last # NoResult
    /\ last.status = "ok"
    => Pinned(last.version) /\ (stray \/ HostAt(last.version))

\* A request whose client left while it waited still gets its turn, and its run
\* fails before it has changed anything on the host, templates included
\* (deploy_handler.go:62, 81-83; docker.go, orchestrator.go:49-55).
LeftInQueueChangesNothing ==
    [][holder # NoRequest /\ holder \in left =>
          UNCHANGED template /\ (orphans = {} => UNCHANGED hostVars)]_svars
=============================================================================
