# Verification of the nate_ntm runtime

TLA+ models of the swarm runtime under `src/src/nate_ntm`, the TLC
configurations that check them and TLAPS proofs about them. Paths below are
relative to `src/src/nate_ntm` unless they begin with `src/`.

## 1. The system

nate_ntm runs a swarm of agents for a project directory. One process holds a
runtime daemon; clients steer it over a WebSocket JSON-RPC control API; what
must survive a restart is in `.nate_ntm/` inside the project. Agents, the mail
service and ACP are in-process stand-ins at this commit.

| Component | State it keeps | Operations |
|---|---|---|
| Event stream, `runtime/events.py` | the last `max_events` (200) events of one agent | `append`, `get_events` |
| Agent supervisor, `runtime/agents.py`, `runtime/state.py` | `RuntimeState.agents`: status, last error, handle, stream | register, launch, `mark_agent_failed`, `restart_agent`, `record_unread_mail`, `set_agent_status` |
| Scheduler, `runtime/scheduler.py` | `running` | `start` (launch, poll the mail once), `stop`, failure and restart of an agent |
| Daemon, `runtime/daemon.py` | `status`, `shutdown_requested`, the swarm metadata | `create`, `resume`, `start`, `request_shutdown`, `mark_stopped`, three views |
| Runner, `runtime/runner.py` | where the serving coroutine is | serve until shutdown; bridge from agent events to publish tasks |
| API server, `api/server.py` | `_subscriptions`, `_next_subscription_id` | `shutdown_runtime`, `subscribe_events`, `unsubscribe_events`, notifications of an event, the views |
| Dispatch, `api/jsonrpc.py` | none | one request to one response; exceptions to error codes |
| WebSocket server, `api/jsonrpc_ws.py` | `_subscription_clients`, `_client_subscriptions`, the connections | connection handler, cleanup, `publish_event`, `start`, `stop` |
| Metadata store, `runtime/metadata_store.py` | `swarm.json`, `agents/*.json` | atomic write, load, save |
| Adapters, `runtime/agent_mail_client.py`, `runtime/acp_client.py` | fake identities, unread counts | deterministic identifiers, unread flags |
| Configuration, `config/runtime_config.py` | none | arguments, environment and defaults to a `RuntimeConfig` |
| Command line and client, `cli.py`, `api/client.py` | none but the exit code | `runtime start`, `api call` (one connection, one request, one answer) |

**How they interact.** The daemon owns the scheduler, which calls the
supervisor synchronously. The supervisor appends an event to the agent's stream
and hands it to the callback that the runner installed; the callback creates an
asyncio task running `publish_event`, which asks the API server for the
matching subscriptions and sends to their connections one after the other. Each
connection has a handler coroutine that dispatches requests into the API
server, which reads and changes the daemon. The serving coroutine shares with
them nothing but the flag `shutdown_requested`, which it polls. Runs of the
command line meet in the metadata directories and at the addresses of control
APIs, both of which each of them works out from its own environment.

**What is hard.**

- *Interleaving at awaits.* Everything runs in one asyncio loop, so code
  between awaits is atomic; but `send`, `sleep`, `wait_closed` and the iteration
  over messages suspend, and state read before them is used after them: the
  audience of an event, the routing maps, the shutdown flag.
- *Partial failure.* `send` raises on a closed connection, the mail poll may
  raise in the middle of a start, the port may be in use, a write may fail after
  others succeeded.
- *Several processes.* Start-ups of the runtime for one directory are
  separated by nothing but a test for a file; a call and the runtime it is meant
  for read the same variables in different code.
- *Answers.* A request is carried out before its answer is sent, and the
  server may close, be interrupted or be killed in between.
- *Crash and power loss* between the steps of an atomic write, and between
  the files of one swarm.
- *Boundaries.* A stream that is full; ids that are computed from its length.
- *Liveness.* Shutdown and cancellation with requests still queued; slow and
  dead subscribers.

The file `PROJECT.json` lists each of these hazards at its line, with the properties
that cover it.

## 2. The modules

| Module | Models | Relation to others |
|---|---|---|
| `AgentEvents` | `AgentEventStream` as operators on sequences | no variables |
| `AgentSupervisor` | supervisor and agent state | extends `AgentEvents` |
| `RuntimeLifecycle` | abstract: what a client may rely on about the lifecycle | implemented by `RuntimeDaemon`, and kept by each daemon of `RuntimeCommand` |
| `RuntimeDaemon` | scheduler, daemon, serving coroutine, `runtime.shutdown`, views | extends `AgentSupervisor`: its actions are composed into the daemon's |
| `SubscriptionContract` | abstract: what `events.subscribe` promises | implemented by `EventFanout` |
| `EventFanout` | subscriptions, connection handlers, publish tasks, snapshots, server stop | stands beside the daemon, meets it in `Emit` |
| `AtomicStore` | abstract: files replaced as a whole, taken back by a power failure | implemented by `MetadataStore` |
| `MetadataStore` | atomic write call by call, `create`, `resume`, several processes | |
| `RuntimeConfig` | `load_runtime_config` and the address of the client, as operators | no variables |
| `JsonRpcDispatch` | what a frame is answered, as operators | no variables |
| `RuntimeCommand` | runs of `runtime start` and `api call` on one machine | extends `RuntimeConfig` and `JsonRpcDispatch`; of a daemon and of a store it keeps what other processes can see |
| `MC*` | constants and symmetry for TLC | |
| `*_proofs` | theorems and their proofs | extend the module of their name; those of `EventFanout` are in four: `EventFanout_proofs`, `EventFanoutDelivery_proofs` above it, and above that `EventFanoutContract_proofs` and `EventFanoutOrder_proofs` |

### AgentEvents and AgentSupervisor

`agents` is `RuntimeState.agents`. Every method of the supervisor is
synchronous and is one action; its effect on `agents` is an operator
(`Registered`, `Launched`, `NextEvent`, `WithEvent`) because the scheduler makes
several such calls in one step. `history[a]` has no counterpart in the code: it
is the sequence of events handed to `on_agent_event`, that is, what an observer
who missed nothing has seen. The properties relate it to what the program keeps.
An event is its number (the part of `event_id` after the colon), its type and
its error. `SetAgentStatus` sets any `AgentStatus` and publishes nothing, as the
code has it. So no property says of a status alone that events explain it;
`EntryFollowsEvents` says that this is the only way in which an entry departs from
them: every other change comes with one event, after which status, error and
process are what the event tells.

### RuntimeDaemon

The daemon is driven either by `serve_runtime_control_api` (`driver = "serve"`)
or by a program that embeds it and calls its methods in any order (`"embedded"`,
the CLI without `--with-control-api` and the tests). `pc` is the await at which
the serving coroutine is suspended, `ws` the WebSocket server, `call[c]` the
`runtime.shutdown` request of client `c`.

| Step of the code | Action |
|---|---|
| `await ws_server.start()` raises | `ServeBindFails` (outside the `try`: nothing is cleaned up) |
| the port is bound, `daemon.start()`, first test of the flag | `ServeBound`; `ServeStartRaises` when the mail poll raises |
| a sleep ends and the flag is set | `PollSeesShutdown` |
| cancellation in the sleep, in `wait_closed` | `ServeCancelled`, `ServeCancelledInStop` |
| `wait_closed` returns, `mark_stopped` | `ServeStopped`, only when no handler has a queued request |
| `shutdown_runtime`, Running or not | `ShutdownRuntime`, `ShutdownConflict` (error 1100) |
| calls from inside the process | `OwnerRequestsShutdown`, `AgentChanges` (failure, restart, `set_agent_status`), `Embedded*` |
| the environment (external) | `CallShutdown`, `CallLost`, `WsClosed`, `MailChanges` |

The views are the operators `OverviewStatus`, `DetailStatus` and `AgentCount`.

### EventFanout

One variable says which coroutine holds the loop (`current`); a step that does
not suspend leaves it with its coroutine, so no other coroutine can run in
between. A publish task goes through `queued`, `running`, then `drain` or
`ensure_open` while `send` suspends, then `done` or `failed`. New tasks first
run in order of creation, as asyncio's ready queue has it.

The connections are external, modelled from the legacy server of `websockets`
that the code imports: `send` writes the frame first and then waits while the
write buffer is over its limit, in turn with other senders of the same
connection (`drain` is that queue, 0 stands for the handler); on a closing
connection it waits for the close and then raises; on a closed one it raises
at once. Requests already received are still read by the handler after the
connection has closed. A lost or closed connection is not yet cleaned up: its
handler has first to run (`HandlerEnds`). A frame that `json.loads` cannot decode
raises something else than `JSONDecodeError` and ends the handler as an
exception (`HandlerRaises`); its connection is closed after the cleanup.

`DetailOf` is the part of `agent.get_detail` that belongs here: an event is in
the stream of its agent before its publish task first runs. It is the page that
the request asks for: the newest `PageSize(max_events)` events, where neither
the limit of the request nor `MaxEvents`, the capacity of the stream, can be exceeded
(`Newer` picks them). The messages of a
task are a set here, sent in the order of their ids (`IsNext`), which is the
order of the registry. `Sent` and `WasNotified` are read off the frames written to a connection; `Subscription`
maps them to `SubscriptionContract`, where subscriptions and events are numbered
as they come, a subscription is active or ended, and an event is offered to it
at most once.

### MetadataStore

A process is one run of the program. `files` is what a reader of each name
finds, `temp` the temporary file of each process. `MakeTemp`, `WriteTemp`,
`SyncTemp` and `Replace` are the calls of `_atomic_write_json` in order;
`WriteRaises` is an exception of any of them, with the best-effort removal of
the temporary file; `Dies` ends a process anywhere. A file carries whether its
text is whole and whether it is on the disk, so that a power failure
(`PowerFails`) may tear what was renamed without `fsync`, and may take back any
rename, each name on its own, since the directory is never synced. `happened`
is history: whether two start-ups have overlapped, whether the power has failed.

### RuntimeConfig, JsonRpcDispatch and RuntimeCommand

`RuntimeConfig` has one operator for each function of
`config/runtime_config.py`, on paths as sequences of names and on an environment
as a record of the five variables, each of which may be unset, empty, or text
that is no number. `ClientAddress` is what the options `--host` and `--port` of
`api call` make of the same environment, and `IsUri` says whether the text
`ws://host:port` that the client builds of it leads back to it: a host with colons, that
is an IPv6 literal (`IPv6Hosts`), stands there without its brackets. `Strip` is
`str.strip`, a constant, so that the proofs assume nothing of it. `JsonRpcDispatch` has a request's
validation, the outcome of a method (`Called`), the `except` clauses (`CodeOf`)
and the answer (`Reply`).

`RuntimeCommand` runs them as processes. A `runtime start` is created with
options and an environment; `pc` is the next thing it does to what others can
see: test for `swarm.json`, write or load it, bind, serve, close, end.

| Step of the code | Action |
|---|---|
| the configuration and the options are accepted or refused | `Starts` |
| `check_startup_preconditions` | `CreateAllowed`, `StartRefused` |
| `save_swarm_metadata`, or an exception on the way | `CreateWrites`, `CreateRaises` |
| `load_swarm_metadata`, its validation, the comparison of mail projects | `ResumeLoads`, `ResumeRaises` |
| no control API: start, shutdown and stop without an await | `SmokeTest` |
| `serve_runtime_control_api` | `ServeBound`, `ServeBindFails`, `StopBegins`, `StopEnds`; Control-C is `Interrupted` |
| `api call`: address, connection, request, answer, exit code | `CallStarts`, `CallConnects`, `CallRefused`, `CallReads` |
| the server handles the request, before or after it began to close | `Answers`, `AnswersInVain` |
| the environment (external) | `Killed`, `CallLost`, `DropsRequest` |

What was written is not what is loaded: the swarm id loses the blanks around it
(`Loaded`) and is then compared with the id of the configuration, which kept them
(`Validates`); the mail project, which was named after the id with its blanks, comes
back as it was (`Rebinds`). A port that is in use is not the only reason for
`ServeBindFails`: the host may be none of this machine. `Commands` are
the ways in which a run may call `runtime start`, any subset of `Options`.

`swarm.json` is one value here, replaced in one step: `WritesAreAtomic` is what
allows that. `by` in a swarm stands for its timestamps and names its writer;
the exit codes are 0 (`done`), 1 (`failed`) and 2 (`usage`). A wrong environment
gives `failed` before the options are looked at, as in the code.

## 3. The runs

| Run | Instance | Distinct states | Question |
|---|---|---|---|
| `supervisor` | 2 agents, streams of 2, 3 events each | 196 thousand | Do errors agree with the events, does an entry change only as an event tells, but for a status set from outside; is a stream the newest part of what happened; which ids do events get? |
| `daemon` | 2 agents, 2 clients, mail may raise | 322 thousand | Lifecycle contract, one accepted shutdown, readiness, one picture for clients, mail announced once; completion of a shutdown |
| `fanout` | 2 clients, 3 requests together, 2 agents, 2 events, pages of 1 | 8.9 million | Do the three maps agree; is a client notified of what it asked for, once, and only while it asks; do a snapshot, cut to its page, and the stream leave no gap? |
| `fanout_live` | 2 clients, 2 requests together, 2 agents, 2 events | 0.6 million | Order, the subscription contract, end of every publish task, removal of departed connections |
| `metadata` | 3 processes, overlap and power failure, 1 agent | 340 thousand | Are files atomic; is a runner's swarm on disk; without overlap, is `swarm.json` written once and does memory agree with disk? |
| `command` | 2 starts, 1 call, 2 projects side by side, 7 environments, 3 requests | 370 thousand | Do commands find the runtime and the swarm they mean; do exit codes and answers tell the truth; does everything end? |
| `event_ids`, `launch`, `fanout_lost`, `metadata_overwrite`, `metadata_partial`, `infinite_timeout` | | | the disagreements of section 6 |

**Why the bounds are enough.**
- A stream of 2 with 3 events per agent is empty, partly full, full, and has
  lost an event; repetition of ids needs `MaxEvents + 2` events, and has them in
  `event_ids`. In `daemon` one event per agent tells a launched agent from a failed
  or restarted one and shows mail. The theorems remove these bounds.
- Two clients are enough for one to win the shutdown and another to lose it;
  agents do not interact, so two are enough for one to differ from the rest.
- In `fanout` three requests allow one client to subscribe, unsubscribe and
  subscribe again or ask for details, two subscriptions of one client with a third of
  the other, or an unsubscribe of the other's subscription. An event with
  an audience of up to three meets every fate of a connection (slow, closing,
  lost, cleaned up, unsubscribed) before and after its turn. The second event of
  an agent is more than a page of 1 holds, so a client that subscribes between the
  two asks for a page that lacks the first. (That a page is cut by the capacity of the
  stream too is left to the theorem: both bounds enter only by their minimum.) `fanout_live` has two requests, for
  a subscriber each or an unsubscribe by another, and two events, for overtaking.
- Three processes are two that overlap and a third that starts after either
  has failed or died. The properties that presuppose one start-up at a time and
  the power on say so with `happened`, so that one run answers both questions.
- In `command` two starts are enough for a race, for a taken port and for a
  resume of what the other has left; a call meets a runtime in every state, and
  a third start or a second call would only repeat the part of another. The
  environments are the plain one; one with every variable set and a metadata
  directory that both projects share; the same with blanks around the swarm id and
  an IPv6 literal for the host; one whose swarm id is nothing but blanks; and three
  that are wrong in the port (empty, no number) or in the directory (too far
  away). `MCCommands` leaves out the second project where the directory is not
  shared, since the two never meet there, `--agents` in all environments but
  one, and the control API for the id of blanks. The requests get a result, an
  invalid parameter, an unknown agent and a state conflict.
- `EmitBound`, `MaxRequests`, `MaxEmitted` and `MaxAgents` only bound how much
  happens; `Leaving` switches off the end of connections. No run disables an
  action its question is about.

`CHECK_DEADLOCK FALSE` appears where everything may be over: all events
emitted, all connections closed, all processes ended. In the daemon something is
always enabled (mail arrives, agents fail), so it is checked there.

**Symmetry** is declared for agents, clients, processes and swarm ids in runs
without liveness properties only.

**Mutants.** Definitions marked `bug:` next to the ones they spoil are plausible
mistakes (a dropped guard, a wrong end, a missing reset, a step out of order).
No specification uses them; replacing the definition by its mutant makes the
property named in `PROJECT.json` fail.

## 4. Fairness

- `RuntimeDaemon`: weak fairness of the serving coroutine's own steps and of
  each connection handler. asyncio resumes what is ready; the close timeout of
  `websockets` bounds `wait_closed`. Nobody is obliged to call, to cancel, to
  bring mail or to change an agent. `LifecycleProgress` is stated for the served
  daemon only: an embedding program owes nobody a `mark_stopped`.
- `EventFanout`: weak fairness of handlers, of publish tasks and of senders
  whose wait is over; and, external, of `Resume` and `ConnectionClosed`: a
  paused connection is read again or is dropped by the keepalive, and a closing
  handshake has a timeout. Nobody has to connect, ask, leave or stop.
- `RuntimeCommand`: weak fairness of each start that can go on and of each call
  together with the handler that serves it: processes run, and the close timeout of
  `websockets` lets a closing server end. Nobody has to start, call, interrupt or
  kill anything.
- `AgentSupervisor` and `MetadataStore` have no fairness and no liveness
  properties: their callers decide.

## 5. What is proved

All theorems hold for every value of the constants that meets the named
assumptions; TLC evaluates these on the instances. They are bounds that are
numbers (`MaxEventsPositive`, `EmitBoundNat`, `MaxAgentsNat`, `BoundsAreNats`),
flags and statuses (`MailMayFailBoolean`, `LeavingBoolean`, `LastKnownStatus`),
values that must not be confused (`NoErrorIsNoError`, `AbsentIsNoFile`,
`NoneIsNothing`, `NoneIsNobody`, `ClientsAreNotTasks`, `TextsDiffer`), the shape
of requests and commands (`RequestsAreRequests`, `CommandsAreOptions`), and that
project paths are resolved (`ProjectsExist`).

**`AgentSupervisor_proofs`**: `TypeCorrect`, `StreamAgreesWithHistory`,
`EventIdFormula`, `ErrorIsReported`, `EntriesFollowTheirEvents`,
`PagesAreMostRecent`, `NoEntryIsLost`, `UniqueIdsUntilFull`. The inductive
invariant `IInv` joins the type invariant, the equality of a stream with the
last `MaxEvents` of its history, the closed form of the ids and the explanation
of the error by the last lifecycle event. Ids need the stream equality: an id is
computed from the length of the stream. `StreamAppendIsLastN` is the lemma that appending and trimming is
taking the last elements of the longer history, `LastNOfLastN` that a page of a
stream is a page of the history; `EmissionKeepsInv` serves the three actions
that emit, `RegistrationKeepsInv` the three that register.

**`RuntimeDaemon_proofs`**: `ImplementsLifecycle` (every step of the daemon is
a step or a stutter of `RuntimeLifecycle`), `OneShutdownAccepted`
(`ShutdownInv`), `ServerAndStatusAgree` (`ServerInv`), `RunningIsReady` and
`OneServedPicture` (`ReadyInv`), `DaemonTypeCorrect`, `MailIsAnnouncedAtStart`,
`NothingIsLeftBehind`, and `DaemonKeepsSupervisorInvariants`: the composed daemon keeps `IInv`, which
is restated agent by agent because a start of the scheduler emits mail for
several agents in one step. `ServerInv` adds that before the port is bound
nothing has happened but requests for a shutdown. `ReadyInv` says that the
daemon registers agents only by launching them all, so an entry has its
handle whatever is done to its status, and that whoever relies on the launch finds every agent registered;
it contains `IInv` for the types. `NothingLeftBehind` is the part of
`ShutdownCompletes`, `CallsAreAnswered` and `LifecycleProgress` that is a safety
property: whatever has to be done, the guard of the step that does it holds.

**`EventFanout_proofs`**, for any number of connections, requests and events,
as in the next three modules: `RegistriesAgree` and `NotificationsMakeSense`.
`RegistryInv` adds to the agreement of the maps that every id in them is below
the counter. An id may stay in the set of a connection after another connection
has unsubscribed it; that it is never handed out again keeps it harmless.
`WireInv` relates the maps to the frames of a connection: an id is routed to it
only after the answer that told it the id, and after the last answer that ended
it no longer, whoever asked; and nothing is written to a connection that has
never been opened (`Unserved`).

**`EventFanoutDelivery_proofs`**: `FanoutTypeCorrect`, `DoneIsDelivered` and
`SnapshotAndStreamCover`. `TurnInv` says that whoever waits for a write buffer
is in exactly one queue, and is where that queue will resume it. `DeliveryInv`
adds, for every publish task, that whoever of its audience has had its turn was
told or is gone (`TaskInv`); that a frame was written in the turn of its
subscription (`NotifyInv`); and that no two frames are equal notifications
(`NoRepeat`). `SnapshotInv` adds what a snapshot has to do with the frames
before it: an event that it lacks is older than a full page, still queued, or
the subscriptions told before it are in its audience (`CoverInv`). `GreatestElements`
is the lemma that a finite set of numbers has a part of the greatest ones of any
size up to its own, and `DetailIsNewest` that the page is that part of
the events, so that what it lacks is beyond it (`BeyondPage`). `StepIs` sorts the steps into those
of a publish task, new events, and the rest, so that the later arguments have
four cases instead of nineteen.

**`EventFanoutContract_proofs`**: `FanoutKeepsContract`. Every step opens a
subscription of the contract (`StepOpens`), closes a possibly empty set of them
(`StepCloses`), lets an event happen (`EmitHappens`) or offers one
(`TurnOffers`), given `DeliveryInv`; by `NoRepeat` what was sent was sent once.

**`EventFanoutOrder_proofs`**: `NobodyIsForgotten` and `OrderIsKept`.
`NobodyForgotten` is the part of `PublishingEnds` and `DepartedAreForgotten`
that is a safety property: a coroutine that is suspended is in a queue or waits
for the end of a connection that has begun to end, so what fairness has to
bring about is always there to be brought about. It is inductive together with
`DeliveryInv`, once it says as well which connections have a handler and that a
stopping server leaves none open. `OrderIsKept` proves `EventsInOrder`, with
`InOrder` as the invariant while nobody has left. Tasks begin in the order of
their events (`StartedInOrder`), and an older task of the same agent never has
left what a younger one has done (`OlderAhead`). That alone is not inductive,
because a task that waits for a buffer has written already and is resumed in
the order of the queue, not of the events. `QueuesInOrder` closes the gap: a
younger task waits behind the older one in that queue, or has still to write
to that connection before anything that the older one has left, and will then
line up behind it. The argument needs the order of a task's turns, by
subscription, and that several subscriptions of one connection share one buffer.
A subscription that ends in between breaks it, and TLC finds the overtaking
then; hence the condition `NobodyLeft`. The steps are four: no turn (`Calm`),
a new event, a task that begins, and a turn (`Tells`).

**`MetadataStore_proofs`**: `WritesAreAtomic`, the implementation of
`AtomicStore` for any number of processes and agents, with write errors, kills
and power failures; `RunnersHaveTheirFiles`, `RunnersAgree`,
`NoOrphanedAgentFile`, `SerialCreatesWriteOnce` and `StoreTypeCorrect`.
`StoreInv` says that a process that is about to replace holds a whole and synced
text of the file it replaces (`WriterInv`), and that everything under a name or
among its versions is absent, or whole and synced. `DiskInv` adds how far each
process has got in its plan, and that every file it has dealt with is on the disk in some
version; `SerialInv` what follows while no two start-ups overlap and the
power stays on: at most one process is writing, and everyone else agrees with
the disk.

**`RuntimeCommand_proofs`**, for any projects, environments and requests and any
number of commands: `SwarmsAreNotForeign`, `CallsFindTheirRuntimes`,
`ExitCodesAreTrue`, `SameStartsResume`, `CallExitsAreTrue`,
`CommandTypeCorrect`, `CommandsKeepLifecycle`, `OneCallShutsDown`,
`NobodyIsStranded` and `InternalErrorsAreInfinite`. `AcceptedInv` says that what
an accepted start holds is the configuration of its own options, that a daemon's
swarm was accepted against it or built from it, and that a serving process
listens at its address. `SwarmsAreNotForeign` has the mail project beside the id
because the id alone would not do: " s " on the disk is loaded as "s".
`CallsFindTheirRuntimes` and `SameStartsResume` say exactly where a conversion on
the way is not the identity: a call fails if the host of its runtime is an
IPv6 literal, a resume of what the same start has created fails if and only if
the id is blank or not its own `Strip`.
`ClientAgreesWithConfig` is the lemma about the two readers of one environment:
where `LoadRuntimeConfig` accepts the port, `ClientAddress` is its address.
`SwarmInv` adds whose swarm is on the disk and what its writer was given,
`CallInv` what a call has been answered by whom and what became of it since,
`TypeInv` the ranges. `CommandsKeepLifecycle` ties the two levels together: of a daemon
`RuntimeCommand` follows only the status, and it moves that as `RuntimeLifecycle`
allows, which `RuntimeDaemon` implements with everything it has; the counter of the
contract is the number of calls that the process has accepted. `NobodyStranded`
is the safety part of `CallsEnd` and `ShutdownFreesAddress`. That nobody waits
for a process that has ended normally rests on `StopEnds` waiting for the
handlers. `InternalErrorsAreInfinite` assumes that a request has
for a number one of the three that `AsInteger` tells apart; it shows that the
sixth disagreement below is the only way to an internal error.

**Model-checked only.** Liveness (`ShutdownCompletes`, `CallsAreAnswered`,
`LifecycleProgress`, `PublishingEnds`, `DepartedAreForgotten`, `CallsEnd`,
`ShutdownFreesAddress`) is out of the prover's reach. Every invariant and every
action property of the runs is the statement of a theorem, and of the liveness
properties of `RuntimeDaemon`, `EventFanout` and `RuntimeCommand` it is proved that
nobody is left waiting for what cannot come. `RuntimeCommand` is not shown to
follow from `RuntimeDaemon` and `MetadataStore` step by step: the lifecycle is the
contract between them. (A second interrupt during a stop, `ServeCancelledInStop`
of `RuntimeDaemon`, is a kill to `RuntimeCommand`: what other processes see of it is
a lost connection.)

## 6. Where code and documents disagree

1. **Event ids repeat** (`event_ids`, a bug). Ids are `len(stream) + 1`
   (`runtime/agents.py:93`); once 200 events are retained each new one is `:201`.
   `runtime/events.py:43` calls the id unique within the stream. Theorem
   `EventIdFormula` gives the exact ids for any capacity, and
   `UniqueIdsUntilFull` the scope in which they are distinct.
2. **Launch skips agents registered before it** (`launch`).
   `runtime/agents.py:259-261` promises to launch each agent that is Starting
   without a handle; the condition at line 285 excludes those with an entry.
   The daemon never registers before it launches, so `RunningMeansReady` holds.
3. **One closed connection costs others the event** (`fanout_lost`).
   `api/jsonrpc_ws.py:227` lets the exception of `send` end the loop, while the
   comment at 215-216 promises every connected subscriber its notification.
   `DoneMeansDelivered` is what is true: a task that ends normally has told all.
4. **Overlapping creates overwrite** (`metadata_overwrite`). The test at
   `runtime/daemon.py:176` and the replacement at 223 are not one step;
   lines 14-16 say that create must fail when metadata exists.
   `SerialCreateWritesOnce` shows that without overlap it does.
5. **A crash leaves a directory partly written** (`metadata_partial`).
   `runtime/daemon.py:223-230` writes `swarm.json` before the agent files and
   nothing repairs the directory;
   `src/specs/001-swarm-runtime-orchestrator/tasks.md:46` asks that it is never
   left so. Each single file is atomic (`WritesAreAtomic`).
6. **An infinite number is an internal error** (`infinite_timeout`). `int()`
   raises `OverflowError` for it, which `api/jsonrpc.py:145` and 162 do not expect,
   so the answer has code 1200, while
   `src/specs/001-swarm-runtime-orchestrator/contracts/runtime-api.md:312` gives
   invalid parameters 1000 to 1099. `api call` passes `Infinity` through. Theorem
   `InternalErrorsAreInfinite` shows that no other number has this effect.

Two more facts are no disagreement, since no document speaks of them, and are said by
properties that hold. A swarm id with blanks around it can be created and never
resumed (`runtime/metadata_store.py:169` strips it, `config/runtime_config.py` does
not): `SameStartResumes`. A runtime whose host is an IPv6 literal serves, and
`api call` in the same environment fails (`api/client.py:79`): `CallFindsItsRuntime`.

## 7. What is not modelled

- Formatting, timestamps, error messages and field-by-field
  (de)serialisation; a reader finds a file absent, torn or whole.
- `call_for_result` and `call` of `api/client.py`, and the parameters
  `host`, `port` and the like that no caller under `src/src` passes.
- Symbolic links and `~` in paths; `NATE_NTM_PROJECT_DIR`, because the command line
  requires `--project` (`ProjectPath` has it, no run reaches it).
- The fake ACP adapter and the identifiers of the fake mail adapter: they are
  functions of the configuration and the agent, so they keep no state. The
  comparison of mail projects on resume is in `RuntimeCommand`; those of mail
  identities and conversations depend on the agent only and cannot fail for what
  `create` has written. `AcpClient.start_turn` has no caller.
- Hosts that stand for several interfaces (`0.0.0.0`, `::`) and names that resolve to
  the address of another: different hosts are different addresses here.
- Handlers and publish tasks at the granularity of bytes; the keepalive of
  `websockets`.
- `src/.specify`, `src/.openhands`, `src/specs`, `src/tests`: tooling and text.
  `util.py` is a placeholder.

## 8. What could come next

1. `EventFanout` with the events of the supervisor's own actions instead of
   `Emit`.
2. The agent files of `MetadataStore` under `RuntimeCommand`.
