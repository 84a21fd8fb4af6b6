# A TLA+ model of engram-deployer

engram-deployer is a daemon that a CI workflow asks, over HTTPS, to deploy a
version of Engram to the containers of one host, or to run `terraform apply` or
`terraform plan` there. It is small, but most of what can go wrong in it takes
several steps of several parties: clients that leave, tokens shown twice,
handlers that queue on one mutex, runs that are cancelled or killed anywhere,
programs that outlive those who started them, and a daemon that is restarted
while a run is going on. These modules model it, check it with TLC on small
instances, and prove its main safety properties with TLAPS for every value of
the constants. Paths are relative to `src/`.

## 1. The system

| component | code | state it keeps | operations | models |
|---|---|---|---|---|
| HTTP server | `internal/server` | `applyMu`, three last results; per request a handler and, while it holds the lock, a run goroutine with a channel of events and one for the error | `POST /deploy`, `/tf-apply`, `/tf-plan`, the status reads, shutdown | `DeployServer`, `DeployService` |
| Replay protection | `internal/auth/jti.go` | an LRU of jti entries with a time to live, and its mutex | `CheckAndAdd` | `ReplayCache` |
| OIDC validation | `internal/auth/oidc.go` | pins, the issuer's keys | `NewValidator`, `Validate` | `LoadConfig` |
| Address allowlist, bearer header | `internal/auth/ip.go`, `internal/server/middleware.go` | none | `Allowed`, `extractBearer` | partly, in `DeployServer` |
| Deploy run | `internal/deploy` | on the host: images, the `latest` tag, a template and a container for each name | pull, tag, then per container template, `update_container`, health poll | `DeployRun` |
| Terraform run | `internal/tfapply` | on the host: the work directory, terraform's state lock and what it manages | wipe, clone, checkout, init with retries, apply or plan | `TfRun` |
| Command output | `internal/tfapply/orchestrator.go`, `retry.go` | a process group, two pipes, two readers, exec's goroutine | `streamCommand`, `pipeLines`, the capturing emit | `StreamCommand` |
| App tokens | `internal/tfapply/ghapp_token.go` | none | `Verify`, `Mint` | partly, in `TfRun` |
| Configuration | `cmd/deployer/main.go` | none after start | `loadConfig`, wiring | `LoadConfig` |
| Process | `cmd/deployer` | whether it is up; the memory of all the above | start, SIGTERM, drain, exit, kill | `Daemon` |
| rc script | `package/rc.engram-deployer` | the pid file; the processes of the host | start, stop, restart | `RcScript` |

How they interact. At boot the rc script starts the daemon and notes its pid.
`main` turns the environment into validators and runners and listens. A handler
runs through the gates (route, address, header, claims, jti), decodes the body
and waits for `applyMu`. Holding it, it starts a goroutine that calls
`Deployer.Run`, `TFApplier.Run` or `TFPlanner.Plan` with the request's context,
passes on the events it receives from a channel of eight, and when the channel
is closed reads the run's error from a second channel, stores the result for
`/status`, writes it as the last line, and unlocks. All three endpoints share
the replay cache and the mutex. The request's context, which net/http ends when
the client leaves or after the server's 15 minute timeouts, is the only thing
that stops a run: it kills the process group of the program that is at work. The
state a run works on outlives the daemon; everything the daemon itself knows
does not.

What is hard, and what makes each part correct:

* server: runs exclude each other though their clients come and go; each
  token pays for one run; nothing is lost between run, stream and status; nobody
  waits for ever, though a slow client, a full channel and a hung program are
  all allowed;
* server and runs together: waiters overtake each other, leave the queue and still
  get their turn; what `/status` says must be true of the host all the same;
* replay cache: what expires or is evicted no longer matters;
* deploy run: whatever earlier runs left, nil means deployed, containers are
  touched in order, a broken image stops at the first one, a cancelled run stops;
* terraform run: what is applied is what was asked for, from a directory of this
  run alone; retries only where they are safe; every run ends;
* command output: two readers, a killer and helpers that inherit the pipes; what
  was captured is all there was, the command returns, and nothing is left behind;
* configuration: every setting may be blank; what is left out must neither open
  a validator nor start half an endpoint, and no token may drive two of them;
* process: a stop leaves no request hanging; what is lost with the memory of the
  process, and what is not;
* rc script: one daemon on a host where pids are reused and drains take their time.

`PROJECT.json` lists the hazards line by line, with the properties aimed at each.
Two have none: the rc script promises nothing when two invocations overlap, or
when the pid in its file has become another program's.

## 2. The modules

| module | models | extends or uses |
|---|---|---|
| `SerialRuns` | what the server promises: one run after another, each for a token of its own, whose result is published when it ends | |
| `ReplayGate` | what the replay cache promises the handlers: a token is accepted the first time it is shown, and refused ever after | |
| `OneProgram` | what a terraform run takes for granted of a command: one program, not started once the context is done, answered for once, after its end | |
| `DeployServer`, `DeployServerProofs` | `internal/server`: handlers, run goroutines, channels, lock, results | implements `SerialRuns` and `ReplayGate` |
| `Daemon`, `DaemonProofs` | the process around it: SIGTERM, drain, abrupt exit, restart, surviving programs | `DeployServer` |
| `ReplayCache`, `ReplayCacheProofs` | `JTISet` on its LRU, with time and capacity | implements `ReplayGate` |
| `DeployRun` | `internal/deploy`: runs on the host, one after another | its proofs are in `DeployServiceProofs` |
| `DeployService`, `DeployServiceProofs` | requests for `/deploy`, the lock, the context and the last result, around the runs | `DeployRun`, and implements it |
| `TfRun`, `TfRunProofs` | `internal/tfapply`: the same for terraform | |
| `StreamCommand`, `StreamCommandProofs` | one program of a terraform run, its group, pipes and readers | implements `OneProgram` |
| `LoadConfig`, `LoadConfigProofs` | `cmd/deployer` and `internal/auth`: environment to endpoints and the tokens they accept | |
| `RcScript`, `RcScriptProofs` | the rc script, the pid file and the host's processes | |
| `MC...` | small instances for TLC | their module |

Operators commented "Mistake:" are wrong versions of the definition that follows
them. Nothing uses them; each is a plausible bug, and substituting it makes a
property fail. That is how we know a property says something about the code.

### DeployServer

`pc[r]` is where request `r`'s handler is: `gates`, `checking` (between
`Validate` and `CheckAndAdd`), `body`, `queued` (at `applyMu.Lock`), then under
the lock `draining` or `writing`, `storing`, `replying`, `unlocking`, and at the
end `done`; or `refused` at a gate, `rejected` for its body. `work[r]` is where
the run's goroutine is. The events channel is not a sequence: what matters is how
many events were offered, given up and written, and `Buffered` says how many are
in it. Actions are the statements of the handlers that touch shared state or can
wait. The three handlers are the same code but for the validator, the runner and
where the result goes, so one set of actions serves them; the endpoints differ in
`Drop` (terraform runs give up an event when the context is done, deploy's `emit`
does not). A terraform run's events come from two readers, both of which may be at
the channel at once; `Emit` and `Send` have one sender for a run. The run returns
only after both readers, so which of them sends makes no difference to how many
events there are nor to the terminal line coming last.

`Cancel` may happen wherever a handler is; the code does not look at the context
between the gates and the run, and neither does the model. `Forget`, the cache
letting go of an entry, is guarded by what `ReplayCache` shows. `clock` is
logical: every run starts at a time of its own. Nothing is said about wall
clocks that are set back.

### Daemon

`DeployServer`'s steps while the process is up or draining; `Terminate` (no new
connections); `ExitDrained`; `ExitAbruptly`, for the end of the 10 second budget,
for `kill -9` by the rc script and for a crash; `Start` with an empty cache, a
free lock and no results. Programs run in process groups of their own, which only
the context kills, so an abrupt exit may leave one at work: `orphans`. What it goes
on to do to the host is in `DeployRun` and `TfRun`. `born[r]` is the life of the
daemon in which `r`'s run was started, and `abrupt` the set of lives whose exit
abandoned a request.

`README.md:55` says that the second sighting of a jti is refused, and line 61 that
the endpoints serialise on a mutex because concurrent runs would clash. The mutex
and the cache are memory, so both hold for one life of the process and not across
a kill. `OverlapTakesAbruptExit` and `SecondRunTakesRestart` say exactly what is
left. Programs at work together are always of different lives, and all but the
youngest were left by an exit that abandoned a request, so that each abrupt exit
adds one program at most, however many have gone before; a token starts at most
one run in each life.

### ReplayCache

Entries in order of use, a capacity, a time to live, tokens issued at any time
with a given lifetime, and handlers that validate a token and look it up up to
`Gap` later. Its assumption is the point: `TTL >= Lifetime + Gap`, and no more
than `Capacity` tokens issued in any period of `2 * (Lifetime + Gap)`. In
production these are 30 minutes against the few minutes GitHub gives a token, and
1000 entries. With a shorter TTL, a larger burst or a shorter period TLC finds a
token admitted twice or forgotten too early.

`FirstSightingsOnly` is the whole of what the handlers count on: behind its ages
and sizes the cache is `ReplayGate`, a set of tokens that only grows. That
`DeployServer` uses its own, smaller, cache as the same gate is proved, so the two
models meet in it.

### DeployRun and TfRun

Runs follow one another on a host that keeps what each of them left. The context
may be done when a run starts, because its request was cancelled in the queue, or
later. A command is started in one step (`StartPull`, `StartInit`, ...), which
`Starts` does not allow once the context is done, and ends in another with all of
its effect, part of it or none: one that was started in time may still do its work
while it is being killed. Templates are written in two steps, since `os.WriteFile`
truncates first. terraform's apply and plan take several steps, because what
happens meanwhile matters: they want the lock, the lock is held, others may want
it, the context may end, the infrastructure is partly changed. `Mint` is the App
token exchange that a clone begins with, which succeeds or fails.

`Crash` ends a run at any step, and the command it was at goes on as one of
`orphans`: update_container removes a container and creates it again whenever it
likes, a pull or a tag takes effect late, git and `terraform init` write to a work
directory that is the next run's by now, and terraform waits for its lock, takes
it, changes the infrastructure and leaves the lock free or stale. `stray` notes
that there were some when the present run began. The properties say what is
promised in that case and what is not: the code has nothing that keeps the two
apart, so of tags, containers and the work directory nothing is, while templates
(which no orphan writes), order among them, broken images and terraform's own lock
are as ever. A command that dies with its daemon is one that ends before anything
else happens. A directory torn by two programs at once is `partial`, and what is
applied from one is `Mixed`; orphans that are alike (same step and same version)
count once. The first run of `TfRun` finds an arbitrary work directory.

### DeployService

What neither `DeployServer` nor `DeployRun` can say by itself: a result in
`/status` against the host it is about. Handlers serve one request after another;
`Arrive` stands for all that comes before the queue, `Leave` ends the context
that the run shares (`OwnContext`), `Acquire` lets any waiter in, `Finish`, `Store`
and `Unlock` are the handler's end, `RunStep` is any step of `DeployRun`, and
`Restart` empties the memory and leaves the host, with the command that was at work
on it, whose further steps are `OrphanStep`.

### StreamCommand

`main` is `streamCommand`, `reader[s]` the `pipeLines` of a stream, `watch` the
goroutine that `os/exec` starts for `cmd.Cancel`, `proc` and `holds` the process
group and the open ends of the two pipes. A pipe holds `PipeCap` lines; a program
that finds it full waits. `Scan` is the scanner and the capturing emit, `Send`
the send to the events channel or, once the context is done, giving the line up,
`Check` the look at the context between lines, `ScanEnds` the end of the stream or
a line that is too long. The caller waits for both readers and then for the
program (`ReadersDone`, `Reap`, `Return`).

`EndIsNear` is the measure behind `CommandEnds`: once the context is done, every
step of the daemon's own goroutines brings the return nearer, no step of the
programs puts it off, and there are ten at most. `ActsAsOneProgram` says that to the
run all this is one program with an outcome, which is how `TfRun` has it.

### LoadConfig

`env` is the environment; an absent and an empty setting are the same. `cfg` is
`envOr` and `os.Getenv`, `Missing` the checks of `loadConfig`, `DeployPins`,
`TfApplyPins` and `TfPlanPins` what `main` hands to `NewValidator`, `Binding` what
that refuses, `Accepts` what `Validate` compares. `pc` goes through `main`'s steps
in order, each of which may be fatal. A `workflow_ref` is a value of which only
`PathOf`, the part before the `@`, is looked into. `Intended` is the property's
side: what the operator's settings say of a token.

`NoHalfEndpoint` says what holds of the terraform endpoints: they are served together
and completely, or not at all, and in that case none of the three core knobs
(`CoreKnobs`) was set. Which settings ask for them, and which of the others may be
blank, the repository says in several places that differ from the code and from
each other (see "What two runs find"): the comments at `main.go:142-144` and
`43-45` count three knobs, where the code looks at five settings; `README.md:78-79`
and `package/engram-deployer.env.sample:36-37` count every setting of the section;
and `main.go:162-164` and `env.sample:75-81` let a public repository go without App
credentials, which the code demands for every `https://github.com/` URL.
`README.md:54` says that a token minted for one endpoint cannot drive another: this
holds of `/tf-plan` whatever the settings, and of the other two unless an operator
gives them the same audience (`OneEndpointPerToken`).

### RcScript

`proc[p]` is what runs as pid `p`: a daemon that boots, serves, drains or is
dying, any other program, or nothing. `step[i]` is the line an invocation is at,
`pid[i]` its variable. A daemon serves once the port is free. `disturbed` notes
that invocations overlapped or one was interrupted (Ctrl-C, a lost session): the
script has no lock, and its properties are stated for invocations that follow one
another to their end. `kill -0` cannot tell whose a pid is, and the model's cannot
either: a reused pid is `foreign`.

## 3. The runs

| run | instance | question |
|---|---|---|
| `server` | 3 requests, 2 tokens, 8 kinds of call with every way to fail a gate, no events | mutual exclusion, at most once, authorisation, status against answers, refinement of `SerialRuns` |
| `answered` | 2 requests, 2 endpoints, channel of 1, 2 events, fairness | are streams complete, is the lock ever stuck, is every request answered |
| `daemon` | 2 requests, 2 tokens, 2 lives, fairness | what holds over drains, kills and restarts; is no request left hanging |
| `service` | 2 handlers, 2 versions, 2 containers, 1 orphan | is an ok in `/status` true of the host; is a request that left the queue harmless |
| `deploy_run` | 2 containers, 3 versions, one broken, 1 orphan | any history of deploys; that each ends, and within five steps of its context |
| `tf_run` | 4 commits, two of them unusable, 3 attempts, 1 orphan | any history of applies and plans; a backoff for every retry; that each ends, and within four steps of its context |
| `stream` | a program and 1 helper, pipes of 1 line, 2 lines a stream | is the output complete, does the command end and how soon, what is left of it; refinement of `OneProgram` |
| `replay_cache` | 3 tokens, 2 handlers, 2 entries, 8 ticks | does the cache forget only what no longer matters; refinement of `ReplayGate` |
| `config` | up to 3 settings changed in a full environment, or in one without terraform; and a public repository without App credentials | what is accepted, and what is served |
| `rc_script` | 3 pids, 2 invocations, 2 polls | one daemon, and none after stop |
| `long_line` (violated) | as `stream` | is every line forwarded |
| `blank_cache` (violated) | as `config`, 1 setting changed | does a blank setting disable the cache |

Why these bounds are enough to be of interest. Conflicts over the lock and over a
token are between two requests. In `service` each of the two handlers serves any
number of requests, so one that waits is overtaken as often as there are others that
do not. One orphan is a program next to a run; a second would do the same things to
the same host, except hold terraform's lock with the first, which the proofs exclude
for any number. A channel of one is full after one event, and with two the run
blocks in its send, which is the case eight slots and many events come to; the same
is true of a pipe of one line and two lines. Two containers are a first and a later
one, and histories are unbounded, so every pair of states one run can leave and the
next can find occurs. Three versions are a good one that runs, a good one that is
deployed and a bad one; `service` has two, one that `/status` is about and one that
gets in between. Three tokens overflow a cache of two. Eight ticks are more than one
`Window` of six, after which a further token may be issued. Two lives of the daemon
are a restart. Two helpers would not differ: what matters is that somebody beside
the program holds a pipe. Three settings changed at once cover a pin that is blank
together with the one that could stand in for it and the audience, at either
endpoint. Three pids are the daemon that runs, the one that is started and one that
is another program's; two polls are a last one and one before it.

All bounds are constants: `EventBound`, `LineBound`, `MaxStarts` and `MaxTime` cap
counters, `MaxOrphans` the programs that go on alone at one time (a crash that would
leave one more does not happen), `Deviations` the environments, the others are
sizes. `replay_cache` does not check deadlock because its clock stops at `MaxTime`;
everywhere else deadlock is checked, and `Rest` (`DRest`) is the way a module that
can be finished says so. Symmetry (handlers, versions, pids, invocations, tokens) is
used only in runs without liveness.

### What two runs find

`long_line`: `pipeLines` leaves its loop when `scanner.Scan` returns false and never
asks `scanner.Err` (`internal/tfapply/orchestrator.go:331-338`). A line of more
than one MiB ends the stream for good without an error. The comment on
`streamCommand` (lines 293-294) has all output forwarded line by line; the run
shows a command that succeeds with lines missing. A program that goes on printing
blocks on the pipe instead, until the context is done. `OutputIsComplete` says
that nothing else loses a line.

`blank_cache`: `package/engram-deployer.env.sample:61` and `cmd/deployer/main.go:64`
say that a blank `TF_PLUGIN_CACHE_DIR` disables the plugin cache. `envOr` takes a
blank setting for an absent one and puts the default directory (`main.go:116,
198-203`), so nothing can disable it.

Three more statements of the repository about settings do not hold, and are
definitions of `LoadConfig` at its end. None has a run of its own; put in the place of
`BlankDisablesCache` in `BlankCache.cfg`, TLC shows each violated.

* `CoreKnobsDecide`: by the comments at `main.go:142-144` and `43-45` the endpoint is
  "disabled cleanly" when the three core knobs are empty. `tfApplyEnabled` looks at
  the two AWS credentials as well (`main.go:190-196`), so with one of those and no
  knob the daemon refuses to start.
* `AnySettingEnables`: by `README.md:78-79` any `DEPLOYER_TF_APPLY_*` setting wires the
  endpoints, by `env.sample:36-37` any `DEPLOYER_TF_AWS_*` too. An audience, a ref, a
  repository URL or App credentials alone are read and ignored: the daemon serves
  without the endpoints.
* `PublicNeedsNoApp`: `main.go:162-164` and `env.sample:80-81` let the App credentials
  be blank for a public repository. `loadConfig` goes by the URL alone
  (`main.go:165-175`), and refuses to start without them.

### Fairness

A goroutine that can take a step takes it: that is Go's scheduler. `applyMu` is not
fair in the model: nothing orders the waiters. Steps that wait for a client (reading
a body, writing a line) or for a program (a run's return) are only promised once the
context is done, when connections fail and process groups are killed; the context is
promised to be done some time, because of `ReadTimeout` and `WriteTimeout`
(`server.go:83-84`). Commands are started, or refused; whether they end is not
promised before the context is done, and never of those whose daemon is dead. The
health poll has a deadline of its own. A drain ends by itself or by its budget. In
`StreamCommand` the readers, the caller and exec's goroutine are fair, the programs
are not, and a send to the events channel is only sure to end once the context is
done. Nothing is assumed of clients, registries, outside users of terraform's lock,
tokens or the cache.

### What is taken for granted

* No program leaves its process group and keeps a pipe open (git's background
  maintenance leaves, and closes its pipes). A killed group is gone.
* GitHub gives the subject of a pull request only to tokens with the ref of one,
  and operators name branches, not pull requests, in the `REF` settings
  (`ConfigAssumption`).
* A program does nothing to the host once it is killed or the run's command has
  returned (`NothingHoldsOn` is the part of that which the code answers for); only
  those whose daemon is dead go on, the `orphans`.
* Deploy's and terraform's orphans are not put beside each other's runs: they touch
  different things.
* In the rc script, looking at the pid file and signalling the process it names
  is one step.

## 4. The proofs

All theorems are about the module's specification without fairness, for any
constants that meet its assumption. Each is proved from an inductive invariant in
three facts: it holds at first, every action keeps it, and it implies the
property.

*DeployServer* (`ServerAssumption`). The properties are not inductive by
themselves. `OneRunAtATime` needs `LockInv`, that exactly the handler `applyMu`
names is under the lock, and `WorkInv`, that a run is at work only while its
handler drains. `AtMostOncePerToken` needs `TokenInv`: a spent token is in the
cache, or it is expired and no handler still has it in hand. `StreamIsComplete`
needs the count of events between the two goroutines; `StatusCoversAnswers`
and `StatusNeverGoesBack` need `ClockInv`, that start times of runs differ and that the
holder of the lock has the latest. `LockIsNeverStuck` needs `ChanInv`, the bounds of the
channel: a run that waits for room has a reader with something to read, and a
reader that waits has a run that can send or close (`HolderGoesOn`).

`ServerIsSerial` proves one refinement: `Acquire` is `Begin`, `Store` is `End`, all
else stutters. `ServerIsGate` proves another: the successful `CheckAndAdd` is
`Accept`, the refused one `Refuse`, a token that meets its claims is held. A refused
token was spent because of `SeenInv`: what is in the cache got there when it was
accepted. `AtMostOncePerToken` is the other half.

*Daemon* (`DInv`). Restarts break `TokenInv`, since the cache is emptied. In its
place `TokenLifeInv` counts: a token that has started as many runs as there were
lives is `Barred` (in the cache, or expired with no handler that has validated it
and not yet looked it up), and a handler between the gate and the lock has a token
that is barred, has started fewer, and that no other such handler has. `OrphanInv`
says that orphans are requests that are over, each left by the abrupt exit of the
life it was born in, and no two by the same; `BornInv` that the run in progress is
of the present life, which is not among `abrupt`; `DownInv` that a daemon that is
down has no request in flight. `OrphanGateInv` keeps for them that they met the
gates, after their handlers are gone, which gives `ProgramsAreAuthorised`.
`GateInv`, `StreamIsComplete` and the channel's bounds do not depend on the cache,
and so hold in every life (`NeverStuckInAnyLife`, `StreamCompleteInAnyLife`); the
bounds only for requests that were not cut off, since those lose what was in hand.

*ReplayCache* (`CacheAssumption`, any sizes and times). The hard part is that
no entry is evicted while its token matters, that is while a handler has it in its
hands or may yet get it (`Span`). `BurstInv` says that at most `Burst` tokens were
issued within the last `Window`. `OrderInv` says of two entries that when the one in
front was last used, its token mattered and the one behind had been issued: they
lie within a span of each other in that sense. Suppose the cache is full and its
last entry still matters. Then every entry in front of it was used while its
token mattered, so its token was issued within the window, and so was the newcomer:
these are `Capacity + 1` different tokens, by an injection of positions into
`Recent` more than `Burst` allows (`LastIsDone`). `EntryInv` does the same for the time
to live, `SlotInv` and `InHand` for handlers that were slow. `SpentInv` then says that
what was admitted and still matters is in the cache, which is both `OncePerToken` and,
step by step, the refinement `CacheIsGate`.

*DeployRun* (`RunAssumption`, any number of containers). `Progress` says what is
true of a run on its way: the containers behind it are deployed, those ahead are as
it found them, and what its step has established of the one it is at. `Sound` says
that a version that got past the first container is not broken, which is what makes
`BrokenStopsAtFirst` hold over histories. `OrphanInv` says of commands whose daemon
is dead that they are the crashed run's own, and then stand where `Progress` had got
to, or were there when the present run began; and that none of them re-creates any
but the first container from a broken image. `CancelledEnds` shows the measure
`StepsLeft`, at most five, to decrease in every step of a run whose context is done:
the part of termination that does not need fairness.

*DeployService*. `RunsAsAlone` is a refinement, `SSpec => Spec`: through the queue
the runs are what they are alone, so every theorem about `DeployRun` holds in the
service. Its `LockInv` ties the run to the holder of the lock and `BoardInv` the
last result to the run it came from; with `OkIsDeployed` they give
`StatusTellsTheHost`. `LeftInv`, that a run whose request left while it waited is
still at its first step, gives `LeftInQueueChangesNothing`.

*TfRun* (`TfAssumption`, any commits and number of attempts and orphans). `WorkInv`
says how far the work directory is, as long as nothing else was at work in it,
`LockInv` that the lock is held exactly while a program of the run has it, or by one
orphan, `AttemptInv` bounds the attempts, which gives `BackoffsSuffice`, and
`InfraInv` that only a running apply makes a difference. `StrayInv` says that an
orphan was there when the run began, or is what the last one left. `CancelledEnds` is
the same measure as for deploys, at most four; a run whose context is done can still
choose the timer of a backoff, and cannot choose it twice.

*StreamCommand* (`StreamAssumption`, any helpers, pipes and lines). `LineInv`: each
reader has at most one line in its hand. `DoneInv`: a reader that is done has seen
its stream closed and empty, a line that is too long, or the context done. That a
closed stream stays closed and empty is why the caller may read what was captured.
`NoneStuck` proves that once the context is done, one of the daemon's goroutines can
go on until the command has returned; `NearsTheEnd` proves that each of their steps
lowers `StepsLeft`, which is at most ten (`StepsLeftType`). Together they are why the
command returns; only that a goroutine that can go on does so is left to fairness.
`CommandIsProgram` proves the refinement of `OneProgram`, from `EndInv`, which ties the
caller to the program it waits for: `Start` is `Start`, the end of the main program is
`End`, `Return` is `Answer`, and readers, pipes and helpers stutter.

*LoadConfig* (`ConfigAssumption`, any environments and tokens). `StageInv` says
what has been established by the time `main` is where it is; above all that
nothing that is required is missing once `loadConfig` is past. `NoHalf` follows from that:
three of the five settings that ask for the endpoints are the core knobs.

*RcScript* (`RcAssumption`, any pids, invocations and polls). While nothing has
disturbed the script, `Orderly` says where the one daemon is to be found at each
line: in the file, in the invocation's variable, or nowhere.

Only model-checked: liveness (`EveryRequestIsAnswered`, `EveryRunEnds` of both runs,
`NoRequestHangs`, `CommandEnds`), which is out of the prover's reach. What these rest
on besides fairness is proved: `LockIsNeverStuck`, `CancelledRunEndsSoon`,
`NobodyIsStuck` and `EndIsNear`.

Proved and not checked by a run of its own: `StatusNeverGoesBack`, which `RunsAreSerial`
implies; `StatusIsOfThisLife` and `ProgramsAreAuthorised` of `Daemon`;
`FirstSightingsOnly` of `DeployServer`; `OncePerToken`, which `FirstSightingsOnly` of
`ReplayCache` implies; `NobodyIsStuck`, which `CommandEnds` implies; and the type
invariants of the modules whose runs check deeper ones.

## 5. Not modelled

* Parsing and wording: addresses, headers, JSON, JWT, event texts, result fields
  other than status, version and start time; settings that only name a path, an
  address or a duration.
* The case of a response writer that cannot flush: net/http's all can.
* Signatures, key refresh and TLS, which belong to libraries.
* The App token's exchange with GitHub beyond its outcome: it keeps no state.
* The content of command output, and so which of terraform's messages count as
  transient (a choice in `TfInit`; `StartInit` when there is no output at all).
* Packaging scripts and the plugin; that installing restarts the daemon is a use of
  `RcScript`'s restart and of `Daemon`'s `Start`.
* The tests' OIDC issuer.

## 6. Where to go on

* A composition of the lock with `TfRun` as `DeployService` is for `DeployRun`.
* `TfRun` with `OneProgram` as an instance for each of its programs, where it now has
  a step for its start and one for its end, with the outcomes `OneProgram` allows.
* The rc script when invocations overlap: what it still promises then.
