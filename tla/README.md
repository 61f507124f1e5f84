# minemanager: verification project

TLA+ models of minemanager, the hub and agents that run Minecraft servers on a
set of nodes, with TLC runs over small instances and TLAPS proofs for all
instances. The code is the reference: every definition is translated from the
source, and `PROJECT.json` ("map") says from which lines.

## The system

A **hub** (FastAPI, SQLite, one process) declares instances: which server, in
which directory, on which node, and whether it is meant to run with the node
(`start_with_node`). An **agent** (one asyncio process per node) runs them, each
in a tmux session. The agent dials the hub and keeps one WebSocket open; the hub
sends commands over it and the agent answers and reports events. Browsers talk
to the hub only; files too large for a command go through the hub over two HTTP
requests.

| Component | State it keeps | Operations | Hard behaviour | Module |
|---|---|---|---|---|
| supervisor (`agent/.../supervisor.py`) | per instance: last announced state, `should_be_up`, `ready`, counters, log follower; the sets `_updating`, `_provisioning` | start, stop, restart, kill, apply_update, monitor loop, shutdown_all | every await lets another command, the monitor or the follower run; handlers cancelled in the middle | `Supervisor` |
| tmux adapter (`tmux.py`) | the sessions, which outlive the agent | new_session (placeholder, then respawn), has_session, kill | a session between two tmux calls | `Supervisor` |
| connection (`connection.py`, `handlers.py`, `main.py`) | the socket, handlers in flight | dial, handshake, pump, redial, SIGTERM | events dropped while there is no socket; handlers cancelled with it | `HubLink`, `Supervisor` |
| registry, endpoint (`agents/registry.py`, `api/agent_ws.py`) | node to live connection; pending futures; the claimed agent session | register, unregister, disconnect, call, resolve, handshake, teardown | two live sockets for one node; callers of a dead one | `HubLink` |
| reconcile, power (`api/reconcile.py`, `api/control.py`, `api/proxy.py`) | `start_with_node`; one restore task per connection | restore, note_clean_exit, power | a list read once and worked through over many awaits | `HubLink` |
| log follower, event stream (`logtail.py`, `registry.stream`, `control.node_events`) | offset, file identity, half a line; a bounded queue per browser | follow, publish, forward | the file changes between look, open and read; slow browsers | `Console` |
| transfers (`hub/transfers.py`, `api/transfers.py`, `agent/transfer.py`) | a window of chunks per transfer | open, push, pull, cancel, sweep | flow control, cancellation from three sides | `Transfer`, `Pipe` |
| server creation (`api/servers.py`, `agent/provision.py`) | build tasks, half-built directories | create, cancel, delete | a build racing deletion, restarts and lost sockets | `Build` |
| Java runtimes (`agent/java.py`, `api/java.py`) | runtime directories, the set of installs | install, sweep, remove | concurrent installs on one directory, kills between two renames | `JavaRuntimes` |
| Java requirements (`shared/java.py`, `hub/api/java.py`) | none | requirement, recommend | a choice over ties and gaps | `JavaChoice` |
| archives, files, jar updater (`archive.py`, `files.py`, `updater.py`, `api/versions.py`) | the server's files; the recorded version | extract with undo, save, rename, delete, update | threads side by side on one directory | `ServerFiles` |
| jar detection (`hub/serverjar.py`, `api/servers.py`) | none | resolve a start command, write one | the command is edited by hand | `ServerJar` |
| providers, roots, web guard, tokens, settings, schemas, web UI | sessions, configuration | queries, filtering, presentation | none related to run state | not modelled |

What makes each correct:

- **supervisor**: a stop is final; updates exclude each other and the server; a
  failing server is relaunched a bounded number of times; a supervised server
  that is gone is answered; an exit status belongs to the run that just ended;
  the agent can be shut down.
- **registry, endpoint**: the newest connection keeps the node; nobody waits on
  a connection no one reads.
- **reconcile, power**: a stop the hub recorded is not undone by any restore; a
  restore ends.
- **follower, event stream**: lines come whole, once and in order; a slow
  browser loses the oldest events and still gets to the newest.
- **transfers**: no byte is lost, duplicated or reordered, memory is bounded, an
  announced upload is installed whole or not at all, and neither hop hangs.
- **creation**: one build at a time in a directory; a row recorded as built is
  complete; a failed one leaves nothing; every creation ends.
- **Java runtimes**: what stands in a release's place passed its probe; an
  installed release is not lost by a failed install.
- **files**: no member is seen in part; undoing an extraction spares what it
  found; the recorded version is that of the file it was installed in, and that
  is the jar the start command runs.

## Modules

| Module | Models | Checked by | Proved in |
|---|---|---|---|
| `Supervisor`, `SupervisorProperties` | one instance of the supervisor on its tmux session | `MCSupervisor` | `SupervisorProofs` |
| `Supervision` | what supervision of an instance promises: the abstract specification `Supervisor` implements | `MCSupervisor` | `SupervisorProofs` |
| `HubLink`, `HubLinkProperties` | registry, endpoint, restore, power route and the agent's side of the socket, for one node | `MCHubLink` | `HubLinkProofs` |
| `Console`, `ConsoleProperties` | a console from the log file to the browsers | `MCConsole` | `ConsoleProofs` |
| `Transfer`, `TransferProperties` | one transfer, both directions | `MCTransfer` | `TransferProofs` |
| `Pipe` | what the window of a transfer promises: the abstract specification `Transfer` implements | `MCTransfer` | `TransferProofs` |
| `Build`, `BuildProperties` | the creation of servers under one name | `MCBuild` | `BuildProofs` |
| `Creation` | what creating servers under one name promises: the abstract specification `Build` implements | `MCBuild` | `BuildProofs` |
| `JavaRuntimes`, `JavaRuntimesProperties` | install, sweep and removal in an agent's runtime directory | `MCJavaRuntimes` | `RuntimesProofs` |
| `JavaChoice` | requirements and recommendation, as operators | | `ChoiceProofs` |
| `ServerJar` | which jar a start command runs, as operators | `MCServerFiles` | `ChoiceProofs` |
| `ServerFiles`, `ServerFilesProperties` | extractions, saves, renames, deletions and jar updates on one server's files | `MCServerFiles` | `FilesProofs` |

### Supervisor

The agent is one asyncio loop, so the code between two awaits is atomic and
everything else may run between two such stretches. `pc` maps each coroutine (a
command handler of `Tasks`, or `Monitor`) to the await it is parked at, and an
action runs one stretch. Emitting an event is an await: a stretch that calls
`_set_state` ends there with the new state already stored.

| Action | Code |
|---|---|
| `ReceiveStart` ... `ReceiveUpdate` | `Connection._pump` makes a task; `_managed` refreshes the spec; stop, restart and kill clear `should_be_up` before their first await |
| `StartCheck`, `StartFindsSession`, `StartAdopts`, `StartFindsNone`, `StartSettles` | `Supervisor.start` |
| `LaunchClear`, `LaunchCreate`, `LaunchRespawn`, `LaunchRaises`, `LaunchFailed` | `_launch` and `tmux.new_session`, run by a start or by the monitor |
| `StopFindsNone` ... `StopDrained`, `KillSession`, `KillReports` | `stop`, the first half of `restart`, `kill` |
| `UpdateRefused`, `UpdateBegins`, `UpdateAnnounced`, `UpdateInstalls`, `UpdateFails`, `UpdateReleases` | `apply_update`; the jar swap itself is one step |
| `TailReads`, `TailPromotes`, `EnsureTail`, `CancelTail` | `_tail` and `_on_ready`, `_ensure_tail`, `_cancel_tail` |
| `MonitorTick` ... `MonitorDrains`, `RelaunchSettles` | `run_monitor` and `_check_one`, with `CountExit`, `Exhausted` and `Decide` as the restart policy |
| `ShutdownBegins` ... `KillServer`, `Exits`, `AgentStarts` | `shutdown_all`, `_amain`, systemd |
| `Disconnect` | the socket is lost: every handler is cancelled at its await; only `apply_update` has a `finally` |
| `AgentCrashes`, `ServerComesUp`, `ServerExits`, `SessionVanishes` | the environment |

Abstractions. The answer of `has_session` and the stretch that uses it are one
step. Whether the root or the JDK is usable, and how many earlier crashes are
still inside the window, is a free choice. The follower polls and waits for each
line to be sent, so it may lag behind the server and outlive the run whose lines
it reads: `unread` counts the readiness lines it has yet to read, whoever wrote
them, and it may read one at any await of any other coroutine, with or without a
session. A server may also word its line otherwise and so write none, and a new
log file may hide unread lines of the old one. `intent`, `quiet` and `relaunches` are history
variables: what the operator asked for last and whether something else was in
flight then, whether an update began with no launch on its way, and the
monitor's launches since the last grant (below). Provisioning is in `Build`,
the text of logs in `Console`. Left out: `send_command`, metrics.

`Supervision` is the promise in four variables: whether there is a session
(`up`), what was asked for last (`order`), whether an update holds the instance
(`held`), and how often the agent brought it back by itself since the last grant
(`relaunches`). Three things grant a new budget: a launch by the operator, a crash
that ages out of the window, and a failure that the follower makes the monitor
forget (`TailForgetsFailure`: the readiness line of a dead run is read after the
monitor has counted its end as a failure and before `_launch` lowers `ready`, so
that the count starts from nothing and the line is not missed either). A session comes into being by `Launch` or `Relaunch` only, which need an order that
is not a calm and no hold; a `Relaunch` needs budget, and no budget is granted
during a calm. `Promise` maps `up` to the tmux session, `order` to `intent`,
`held` to an update that began at rest (`quiet /\ updating`), and `Budget` to
`(CrashLimit + 1) * LaunchFailureLimit`: 40-odd coroutine steps become ten.

### HubLink

One node, one agent, its connections in the order they are dialled. `endpoint`
is where each connection's `agent_endpoint` is; `toHub` and `toAgent` are the
frames in flight, in order; what is written to a socket the other side has left
is lost. A call is a pending future (`call`, `callOn`, `callFor`): one per power
request and one per restore task. A database session holds no await, so each is
part of one step.

| Action | Code |
|---|---|
| `Authenticates`, `HandshakeFails`, `Registers`, `Pumps`, `HubNotices` | `agent_endpoint`, with `Reject` (`fail_all`), `Unregister`, `Resolve`, `Restarted` (`_claim_agent_session`) |
| `Closes`, `Revokes` | `AgentConnection.close`, `AgentRegistry.disconnect` |
| `RestoreBegins`, `RestoreStaggered`, `RestoreResumes`, `RestoreFails` | `reconcile.restore`, `_start` |
| `RequestSends`, `RequestRecords`, `RequestFails`, `CallTimesOut` | `power`, `proxy`, `AgentConnection.call` |
| `Dials`, `WelcomeArrives`, `LinkDrops`, `CommandArrives`, `HandlerAnswers`, `MonitorReports` | `Connection` of the agent |
| `HandlerWorks` | what a power command does, in one step; `Supervisor` has the detail |
| `HubRestarts`, `AgentStarts`, `AgentEnds`, `ConsoleStop` | the environment |

A restart ends like a start and a kill like a stop, so they are not told apart.
Credentials are not modelled: a handshake succeeds or fails. `autostart` is on.
Futures settled in one order may resume in any. Crashes and relaunches of servers
are left to `Supervisor`; the only event is the clean exit. Instances are
neither created nor deleted.

### Console

A log file is the text of one generation, written half a line at a time, so that
a poll can fall inside a line; the second half of a line carries the newline.
The follower's locals (`pos`, `ident`, `started`, `buf`) are variables, because
its look at the file, its open, its read and each of its emits are separate
awaits or thread calls between which the server writes, rotates or truncates.
Past the follower a line is an event like any other and is only counted.

| Action | Code |
|---|---|
| `ServerWrites`, `LogGoes`, `LogAppears`, `LogTruncated` | the server and its log rotation |
| `TailStarts`, `TailCancelled` | `Supervisor._tail` |
| `Stats`, `Reads`, `OpenFails`, `Emits` | `logtail.follow` |
| `LinkDrops`, `Redials`, `PumpEnds`, `Pumps`, `Undeclared` | `Connection.emit`, the hub's pump and its cache of owned instances |
| `Opens`, `Leaves`, `Takes`, `Sends` | `registry.stream` and `node_events` |

`seen`, `misread`, `last` and `taken` are history variables. A rotation is seen
by the inode, but an inode can be used again: `misread` names the files read
under the identity of another.

### Transfer and Pipe

One coroutine of the hub puts chunks into the window (the producer) and another
takes them out (the consumer); which of the two HTTP requests is which depends on
the direction. A chunk is the range of the body's bytes it holds, so that loss,
duplication and reordering show.

| Action | Code |
|---|---|
| `RouteBegins`, `DownloadStreams`, `DownloadGivesUp`, `UploadAnswered` | the browser's routes |
| `Reads`, `Wakes`, `ProducerEnds` | `put`, its park on a full window, and the end of either producer |
| `Takes`, `Sent`, `ConsumerLeft` | `get`, `_maybe_resume`, the generators that stream |
| `UserCancels`, `Swept`, `BrowserLeaves` | `cancel`, the registry's expiry, a closed tab |
| `AgentConnects`, `AgentFails`, `AgentPushed`, `AgentPulled`, `AgentCancelled` | `transfer.push` and `pull` on the agent, to the final replace |
| `Answered`, `LinkLost`, `CommandTimesOut` | the control command |

`Pipe` is the promise: bytes go in while the buffer is open and not full, come
out in order, and none is lost or made up. `Bridge` maps `in` to the bytes
offered, `out` to the bytes given, and `open` to a producer that has neither
ended nor been cancelled.

### Build

All rows carry one name and so one directory; a row may be declared once the one
before is gone. `call` is the future the hub's build task awaits, `handler` where
the agent's handler of `instance.create` is, `files` what is in the directory
and `owner` whose handler put it there.

| Action | Code |
|---|---|
| `Declares`, `Deletes`, `Records`, `Fails`, `CallTimesOut` | `create_server`, `delete_instance`, the build task, `_fail` |
| `Refuses` ... `Stopped` | `provision.create`: the check for an empty directory, the download, the configuration run under the supervisor, its stop, `run_after` |
| `Reported`, `Kills`, `CleansUp` | `_failed`, `_clean_up` |
| `LinkDrops`, `Redials`, `AgentDies`, `HubDies`, `HubStops` | faults: a lost socket cancels the handler, a killed hub its build tasks; a stopped hub cancels them and they undeclare |
| `Started`, `ServerWrites`, `ServerExits`, `MonitorRelaunches`, `MonitorGivesUp` | users, servers and the restart policy |

`CancelledError` is not an `Exception`, so a cancelled handler cleans nothing up
(`Cancelled`). What a power command does on the node is one step.

`Creation` is the promise: a directory nobody has is claimed by a creation, once;
it may become complete; its row is recorded as built only then; and it is emptied
only by the creation that has it, unless that is recorded. `Site` maps `row` and
`owner` to themselves, `complete` to a jar and a configuration in the directory,
and `tried` to the rows whose handler is past its checks or was cut short.

### JavaRuntimes

Install and remove run in threads, so an action goes from one change of the
directory, or use of the lock, to the next. A release has one place (`home`);
what is under way has a temporary name with the tag of its install (`temp`). A
directory is deleted by taking it apart first (`torn`), and what is renamed
meanwhile goes on being taken apart where it is.

| Action | Code |
|---|---|
| `Enters`, `Refused`, `Leaves` | `install`: the set `_installing` behind its lock |
| `Looks`, `Lists`, `SweepTears`, `SweepDrops`, `Swept` | `_sweep`: the look under the lock, then, without it, the list and the deletions |
| `Downloads`, `Unpacks`, `Probes`, `MovesAside`, `MovesIn`, `Raises`, `CleansUp` | the install, its two replaces, the put-back and the `finally` |
| `RemovalSent`, `RemovalBegins`, `RemovalEnds`, `AgentDies` | `remove_java` and `java.remove`; a killed agent |

`hit`, `had`, `cut` and `pulled` are history variables: installs that lost a name
to another's sweep, releases once installed, those whose swap a crash cut, and
those an operator removed.

### ServerFiles, ServerJar, JavaChoice

A file is known by who wrote what is in it, and whether it is whole. Requests run
in threads side by side, each in the steps the file system sees.

| Action | Code |
|---|---|
| `Looks`, `Refuses`, `WritesPart`, `Replaces`, `Raises`, `Undoes`, `Ends` | `archive.extract`: conflicts, a temporary file and a replace per member, the undo |
| `Truncates`, `Fills` | `files.write_text` |
| `RenameLooks`, `Renamed`, `Deletes` | `files.rename`, `files.delete` |
| `Asks`, `Swaps`, `UpdateFails`, `Records` | `update_instance` at the hub, the updater's swap, the recorded version |
| `EditsCommand` | PATCH of the instance: the start command, the jar path, or both |
| `AgentDies` | every thread ends where it is |

The start command (`start`) and the jar path (`jarPath`) are stored side by side:
a server the hub created has the path it was installed under, a declared one what
the operator gave, if anything, and neither edit looks at the other field.
`misled` keeps the updates that were asked for while the path named another file
than the command runs; `changed` keeps, for each update, what others changed since
it looked. Both are history variables.

`ServerJar` has `Parsed`, the jar a start command names, by `-jar` in either of
its forms or a class path, over tokens (splitting is left out), and `StartCommand`, what a new server is given. `JavaChoice` has the
table of requirements, `Requirement`, `Pick`, `Recommended` and `ListJava`. Both
are pure and are proved about rather than run.

## What is checked

Two invariants are proved and in no run of their own, because the refinements
imply them: `QuietUpdateKeepsDown` (a launch needs no hold, and none is taken of
a running server) and `BuiltIsComplete` (only its owner records a complete
directory, and takes nothing out of it after). TLC checks them within
`PromiseSpec` and `CreationSpec`.

Every passing run's properties are violated when one definition of the model is
replaced by its `...Mistake` form (see "mutants" in `PROJECT.json`).

| Run | Instance | Shows |
|---|---|---|
| `commands` | 2 handlers, on_crash, `CrashLimit` 1, `LaunchFailureLimit` 2, 2 commands, 1 disconnect or agent crash, 1 unread readiness line | `TypeOK`, `UpdateExclusion`, `RelaunchBudget`, `UncontendedStopIsFinal`, `PromiseSpec` (refinement of `Supervision`) |
| `policy` | 1 handler, every policy, limits 1 and 1, 2 commands, 1 disconnect or crash, 1 unread line | `StatusIsThisRuns`, `SupervisedIsAnswered` (liveness) |
| `shutdown` | 1 handler, on_crash, 2 commands, 1 SIGTERM, 1 unread line | `ShutdownFinishes` (liveness) |
| `link_restarts` | 1 instance, 2 dials, 2 agent processes, 1 hub restart, 1 power request, 1 revocation | `TypeOK`, `CallsAwaitTheLiveLink`, `NewestServes`, `RecordedStopIsFinal` |
| `link_restore` | 2 instances, 2 dials, 1 console stop | `RestoreFinishes` (liveness) |
| `transfer` | window 3, chunks of 1 or 2, bodies of 0 or 5 bytes, both directions, 1 cancellation | `TypeOK`, `InstalledIsWhole`, `BridgeSpec` (refinement of `Pipe`), `ProducerIsReleased`, `CancelEndsProducer`, `ConsumerEnds` (liveness) |
| `build` | 2 rows, 1 start by somebody else, 1 fault | `TypeOK`, `OneBuilder`, `FailureLeavesNothing`, `ConfigurationRunEnds`, `CreationSpec` (refinement of `Creation`), `BuildEnds` (liveness) |
| `java` | 3 installs, two of one release, 1 removal, 1 crash | `TypeOK`, `OneInstallPerRelease`, `HomeIsVerified`, `PreviousIsKept`, `SweepIsThorough` |
| `files` | 2 files, any 3 of 2 extractions, a save, a rename, a deletion, 2 updates and an edit; 2 start commands; a jar path kept or cleared; 1 crash | `TypeOK`, `MembersAreWhole`, `UndoSparesFound`, `RecordedIsInstalled` |
| `console` | 1 browser, a queue of 2, 2 files of 2 lines, 2 sockets, 1 follower, 1 visit | `TypeOK`, `LinesAreWhole`, `LinesFollowOn`, `BacklogIsLatest`, `NewestIsSent` (liveness) |
| `sweep_spares_installs` | as `java` | a violation: see below |
| `recorded_is_what_runs` | 2 files, 2 start commands, 1 update, 1 edit | a violation: see below |

Why the bounds are enough. `Supervisor`: two handlers and the monitor give every
pair of coroutines; with one command each, every pair of operations overlaps in
every order. Limits of 1 and 2 put each counter at, below and above its limit;
`CrashLimit = 1` with `LaunchFailureLimit = 2` lets launch failures precede a
crash and follow it, and one unread readiness line is one that resets the
counters at the wrong moment. `HubLink`: two dials give a live connection and a
displaced one in any state. `link_restarts` has one instance: that the list of a
restore goes stale between its elements is left to the proof, which holds for any
number of them; `link_restore` has two. `Transfer`: a window of 3 has a resume mark of 1, so with
chunks of 1 and 2 a put finds the window below, at and above its limit and a get
leaves it above, at and below the mark; a body of 5 overfills it once and more.
`Build`: two rows give a directory every kind of predecessor. `JavaRuntimes`:
two installs of one release and a third of another give exclusion, the race of a
sweep and a runtime to be swapped. `ServerFiles`: of one file every pair of
requests can race, and three requests leave room for a third to profit from it;
the two commands are the one of a new server and a `-jar` after a class path, and
a jar path that is kept while the command is edited is one gone stale.
`Console`: four published lines overflow a queue of two; two files of two lines
rotate once, in the middle of a line or not. One fault can strike at any await.

Deadlock is not checked, because the bounds stop the environment and the system
may then rest. Symmetry is used in `commands` and `files`, which
check no liveness: handlers, the two extractions and the two updates are
interchangeable and no definition picks one.

Fairness. In `Supervisor` each coroutine is weakly fair: the loop runs what is
ready, tmux answers, timers fire, and the updater's downloads time out. Nothing
is assumed of the server, the operator or the network. In `HubLink` the restore,
the pumps, `close()` tasks and the agent's dispatch and handlers are weakly fair,
and each side eventually learns that the other has left the socket; no call is
assumed to time out, nor the socket to last. In `Transfer` both hops are weakly
fair, as is the agent's handler; a route gives up only once its command has been
answered or lost, and nobody is assumed to cancel, to leave or to let the command
time out. In `Build` the agent's handler and the hub's build task are weakly fair
(downloads and the configuration run have limits of their own), the hub's time
limit is not needed, and no link is assumed to come back. In `Console` the
follower, the pumps and the forwarding are weakly fair; the server may be silent
for ever.

`StatusIsThisRuns` is stated for a launch that no other overlaps: a handler's
start beside the monitor's relaunch can create a session beside a status its
predecessor wrote.

### Disagreements between code and documentation

`sweep_spares_installs`: `_sweep` looks at the set of installs under the lock,
but lists the directory and deletes after it has released it
(java.py:422-434). An install of another release that enters in between loses its
download, its staging directory, or the runtime it has just moved aside. The
comment at java.py:420-421 says the sweep runs "only while this is the sole
install". `PreviousIsKept` and `HomeIsVerified` except such installs by name
(`hit`).

`recorded_is_what_runs`: `create_server` stores a jar path with every server it
creates (servers.py:100), PATCH edits the start command without it
(nodes.py:168-172), and `resolve` lets the path win without looking at the
command (serverjar.py:71-72). Once the command of such a server has been edited
to run another jar, an update swaps the jar nothing runs and records its version
(versions.py:115-120). serverjar.py:3-5 calls that answer "worse than no answer",
and serverjar.py:9-10 takes the path for one the operator set. TLC's trace is the
creation, the edit, the update and its recording. `RecordedIsInstalled`, which
does hold, excepts such updates by name (`misled`).

The models contain these too. Each was met while a property was being written,
and that property excepts it or is stated so as not to need it.

Supervisor:

- A readiness line read late counts for the run at hand. Read after a failure was
  counted (supervisor.py:606) and before `_launch` lowers `ready` (266), it sets
  `launch_failures` to 0 (409-413): a server that prints the line and dies before
  it is read, each time with the line read in that window, is relaunched without
  bound. Read after that, a server that is still booting is taken for running, and
  its next exit for a crash.
- The monitor reads `should_be_up`, then awaits; a stop handled in between finds
  no session and reports stopped, and the monitor creates one. protocol.py:81-82
  says the flag is cleared before the monitor sees the session vanish.
- `apply_update` marks the instance one await before the `try` whose `finally`
  drops the mark (supervisor.py:342). A handler cancelled there leaves it: start
  and update are refused, and the monitor skips the instance, until the agent
  restarts.
- A relaunched server that becomes ready within the settle window is stored as
  starting afterwards (supervisor.py:661), and nothing promotes it again.
- A start in its settle window raises `should_be_up` over a stop received
  meanwhile (supervisor.py:243); a launch past its check of `_updating` creates
  the session during the update (supervisor.py:335-340); a session created after
  `shutdown_all` listed the sessions dies with `kill_server` without a stop verb
  (supervisor.py:688); a stop cancelled after announcing stopping is reported as
  stopping from then on (supervisor.py:733); a start handled while the monitor
  drains a clean exit is reported stopped (supervisor.py:586).

Hub link:

- A restore gives up because a reconnect "runs its own restore"
  (reconcile.py:137); the reconnect of the same process runs none, and the rest
  of the list stays down.
- The clean-exit event of a console stop is dropped while the socket is down
  (connection.py:54), so the instance comes back with the next agent process.
- A Hello of a former agent process that registers late makes the live process
  be restored twice (agent_ws.py:143).

Console:

- A file that gets the inode of the one before, and is no shorter than what was
  read of that, is taken for it: its first lines are skipped or joined to the end
  of the other's. The unread rest of a rotated file is lost, by design.
- The first line after the follower began in mid-line is emitted in part.

Transfer:

- A body of unannounced length that its sender cuts ends like a whole one: the
  upload is installed, the download is shown as done.
- A push that connects to the hub after the browser's route gave up is drained by
  nobody and parks for ever (`Abandoned`).

Creation:

- A lost socket cancels the handler with `CancelledError`, which
  `except Exception` (provision.py:113) lets pass: the half-built directory, the
  session and its supervision stay, though provision.py:14 promises that a failed
  creation leaves nothing behind.

Java runtimes:

- A kill between the two replaces of a swap leaves the old runtime under its
  temporary name, and the next sweep deletes it.
- `remove_java` looks up who uses a runtime and then awaits the agent; an
  instance may be switched to it in between.

Files:

- A file saved over a member that a failing extraction had created goes with the
  undo. A save that has the file open while an extraction replaces it is lost.
  A kill between truncating and filling leaves part of a save.
- Nothing keeps two updates of one server apart between the answer of the agent
  and the recording (versions.py:113-120): the jar swapped last may be of one and
  the version recorded last of the other. A start command or jar path edited while
  the download runs can leave a version that is not of the jar the server runs.
  Both are excepted by name (`changed`).

## What is proved

For every value of the constants, from the assumptions the modules name only.

`SupervisorProofs`:

| Theorem | Argument |
|---|---|
| `TypeCorrect`: `Spec => []TypeOK` | `TypeOK` is inductive; one lemma per group of actions. `PcOK` says that a handler is parked at an await of a handler and the monitor at one of its own. |
| `UpdatesExclude`: `Spec => []UpdateExclusion` | Inductive with `TypeOK`. Only `UpdateBegins` and `UpdateReleases` change the mark; the first finds it clear, so nobody is under way; the second is the only one under way. |
| `UncontendedStopHolds`: `Spec => UncontendedStopIsFinal` | `CalmInv`: while `intent` is "calm", `should_be_up` is clear, no handler is in start or in the stop half of a restart, and the monitor is at an await from which it looks again. Only `LaunchCreate` makes a session, and nobody is at it. |
| `QuietUpdateHolds`: `Spec => []QuietUpdateKeepsDown` | `QuietInv`: during a quiet update there is no session, no handler is between its check of `_updating` and `new_session`, and the monitor is at rest. |
| `RelaunchesBounded`: `Spec => []RelaunchBudget` | `BudgetInv`: while the monitor may relaunch, `relaunches` is at most what the two counters have spent, `LaunchFailureLimit` per counted crash plus the launch failures since. A late readiness line sets the second counter to 0 whether or not there is a session. Read before the end of a run is counted, it makes that end a crash, which pays for the relaunch; read once `_launch` has lowered `ready`, it makes the next end one (`BudgetReady`); read between the two, the counted failure is lost, and `TailForgetsFailure` grants a new budget. Adopting a session does not clear the crash counter, so the bound is stated while supervision is on. |
| `StatusIsOfTheRun`: `Spec => StatusIsThisRuns` | `StatusInv`, inductive as long as no launch overlaps another run: the status file is clear while there is a session, and while a launch is past `_clear_exit_status` and about to make one. Only the end of a server writes it, and takes the session with it. |
| `ImplementsSupervision`: `Spec => PromiseSpec` | step simulation: `LaunchCreate` maps to `Launch` for a handler and to `Relaunch` for the monitor, what ends the session to `Ends`, what clears the counters, and the late readiness line that makes a counted failure be forgotten, to `Granted`, and the rest to a stutter. `CalmInv` and `QuietInv` supply `Launchable`, `RelaunchBudget` in the next state the budget, and `CalmInv` that nothing is granted during a calm. |

`HubLinkProofs`, from the assumptions of `HubLink`. The inductive invariant is
`TypeOK /\ Own /\ CallsAwaitTheLiveLink /\ Calm /\ Linked`. `Own`: the registry's
entry is the connection that registered last, and a restore calls on its own
connection. `Calm`: an instance whose stop was recorded is not armed, and no
start for it is in a pending call, on a socket or in a handler. `Linked`: an
agent that serves holds a socket.

| Theorem | Argument |
|---|---|
| `LinkTyped`: `Spec => []TypeOK` | inductive with `Linked`, which says that the frame the agent reads was on a real socket |
| `NoCallIsStranded`: `Spec => []CallsAwaitTheLiveLink` | a request waits on the registered connection by construction, a restore only after the check that its own is registered; whatever changes the registry rejects what waits on the entry it replaces |
| `NewestIsRegistered`: `Spec => []NewestServes` | from `Own`: a registration and a teardown change both or neither |
| `StopsAreFinal`: `Spec => RecordedStopIsFinal` | only the handler of a start brings a server up; `Calm` holds because a restore calls only for what is armed at that moment, and because an instance becomes calm only where no start is on its way |

`TransferProofs`, from `WindowAssumption` and `BoundAssumption`. The inductive
invariant is `Flags /\ Fields /\ QueueRuns /\ Accounts /\ Whole`: the queue is
the next bytes of the body in order with ends of stream behind them only; what
is said to be queued is what was offered and not given; a put that was woken may
still be admitted; a consumer is complete only with the whole of an announced
body.

| Theorem | Argument |
|---|---|
| `TransferTyped`, `WindowBounded`, `BytesInOrder`, `InstalledWhole` | each follows from the invariant: the window is overfilled by less than one chunk, chunks leave in order, and an announced upload is installed only whole |
| `ImplementsPipe`: `Spec => BridgeSpec` | step simulation: a put of data maps to `Accept`, a get of data to `Deliver`, a cancellation and the end of the producer to `Shut`, everything else to a stutter. The invariant supplies that an admitted put finds room and that a get hands out bytes that are there. |

`FilesProofs`, from the assumptions of `ServerFiles`. The inductive invariant is
`Typed /\ Accounts /\ Targets /\ MembersAreWhole`: every member of an extraction
was found, is still to be written, or was created by it, and these are disjoint.
For the recorded version, `RecordInv` adds: an update that has swapped its jar,
or was recorded, has it in the file it named, unless `changed` holds that file;
and that file is the one the start command runs, unless the update was misled or
the command or jar path was edited since.

| Theorem | Argument |
|---|---|
| `FilesTyped`, `MembersWhole` | a member reaches its place by a replace of a whole file only; the only writer of parts is a save |
| `UndoSpares`: `Spec => UndoSparesFound` | what the undo removes is in `created`, which `Accounts` keeps apart from `pre` |
| `RecordedInstalled`: `CommandsResolve` implies `Spec => []RecordedIsInstalled` | every step changes only the files it puts into `changed`; an update asked for with no jar path names the file read off the command, and with one that is not misleading the file the command runs |

`CommandsResolve` says that the jar `serverjar.resolve` reads off a command is
the one Java runs, or none. That is a statement about Java, which the model
does not contain; a command that broke it would break the run `files`, as
its mutant does.

`RuntimesProofs`, from the assumptions of `JavaRuntimes`. The inductive invariant
is `Typed /\ Locked /\ Placed /\ Apart /\ Torn /\ Missed`: the set behind the lock
is that of the running installs; a runtime is staged, in its place or under one
old name, never in two of these; what is being taken apart was removed or swept
under an install; and where an absent release has gone. `Apart` is what makes it
inductive: without it, tearing down one name might damage another's runtime.

| Theorem | Argument |
|---|---|
| `RuntimesTyped`, `InstallsExclude` | `Locked` |
| `HomesVerified` | only `MovesIn` and the put-back fill a place, the first with a probed runtime of that release, the second with one that had been in it |
| `PreviousKept` | only `MovesAside` and `RemovalEnds` empty a place; after the first the put-back fills it again, unless the old name was swept |
| `SweepsThoroughly`: `Spec => SweepIsThorough` | `SweepInv`: while an install sweeps, each name a killed install left is on the list it has yet to take. An install makes names of its own only, and what kills one kills the sweeper too |

`ConsoleProofs`, for any files, lengths of lines, browsers and bounds. The
invariant of the follower is `TailInv`: `OffsetInv`, the offset is in the file
settled on; `BufInv`, what is held back is the first half of the line the offset
is in, or was misread; `LastInv`, the line emitted last is the one before the
offset; and `LinesInv`, the lines split off and still to be emitted are whole
and numbered up to the offset.

| Theorem | Argument |
|---|---|
| `TypeCorrect`: `Spec => []TypeOK` | `TypeOK` is the conjunction of one part for the log, one for the follower and one for the way to the browsers; each is inductive |
| `LinesWhole`: `Spec => []LinesAreWhole` | `Split` picks the n-th newline of a text by its rank; the text of a read is consecutive halves of one file, so that the ranks are the numbers of its lines (`SplitIs`, `LineIs`), and each line split off has both halves, or the buffer's half and the first one read |
| `LinesFollow`: `Spec => LinesFollowOn` | from the same lemma and `LastInv`: the first line split off is the one after the last emitted |
| `BacklogLatest`: `Spec => []BacklogIsLatest` | dropping the head of the newest n events and appending the next gives the newest n again |

`BuildProofs`, from `BoundAssumption`. The inductive invariant is
`Typed /\ Marked /\ Owned /\ Recorded /\ Alone`: the marks are those of the
handlers inside the context manager; a handler at work, or done, owns the
directory, which has what its step has put there; a row follows its handler; and
a row nobody else started is not supervised, and has no session, where its
handler has not launched or has taken it down.

| Theorem | Argument |
|---|---|
| `BuildTyped`, `OneBuilds`, `BuiltComplete`: `Spec => []BuiltIsComplete` | the directory has one owner, only a handler that finds it empty takes it, and only its owner empties it |
| `FailureClean` | a refusal comes before the mark or after the kill and the clean-up |
| `ConfigurationEnds`: `Spec => ConfigurationRunEnds` | the marked ones the monitor passes by; past the mark, the stop has ended supervision |
| `ImplementsCreation`: `Spec => CreationSpec` | step simulation: `Begins` maps to `Claim`, `Records` to `Record`, `CleansUp` to `CleanUp`, what adds to the directory to `Complete`, deletions, failures and faults to `Withdraw`. `Owned` supplies that who records or empties has the directory, and `Vacant`, an empty directory has no owner, that who begins finds it free |

`ChoiceProofs`, about operators: a newer release never needs an older Java
(`NewerNeedsNoOlderJava`); every row of the table has a managed release that will
do (`ManagedCoverEveryRow`); a release that will do is picked whenever one is at
hand, the recommended or else the lowest (`PickIsBest`); what is recommended is
usable and satisfies the requirement (`RecommendedRuns`); and the start command
of a new server names the jar that was put there (`LaunchNamesItsJar`).

Every invariant and action property that a passing run checks is one of these
theorems, and so are the three refinements. Only model-checked is what is out of the
prover's reach: the liveness properties, under fairness (`SupervisedIsAnswered`,
`ShutdownFinishes`, `RestoreFinishes`, `ProducerIsReleased`, `CancelEndsProducer`,
`ConsumerEnds`, `BuildEnds`, `NewestIsSent`).

## Not modelled

- **Providers**: queries of remote catalogues; they keep nothing but a cache.
- **Roots and the path jail**: pure string normalisation; that a path stays
  inside its root is an induction over its components, beyond the prover.
- **Browser authentication, settings, schemas, Web UI**: filtering, parsing and
  presentation; no state that the modelled parts depend on.
- **The updater's backups**: written and pruned, read back by nothing here.
- **Compression, zipping of directories, listing, Java discovery, metrics, pane
  capture**: they read or convert; their outcomes are choices of the models.
- **Several instances in one supervisor**: they share only the monitor's loop,
  whose delay is a matter of time, not of order.

## Plan

Done: `Supervisor`, `HubLink`; then, in the order of what a failure would cost,
`Transfer` with `Pipe`, `Build`, `JavaRuntimes`, `ServerFiles`, `Console` and the
two modules of pure choices, with the proofs above. Left:

1. Composition of `HubLink` with `Supervision`, for the clean-exit event against
   the start it races.

## Running

    tlc -workers 2 -config MCSupervisorCommands.cfg MCSupervisor.tla
    tlc -workers 2 -config MCHubLinkRestarts.cfg MCHubLink.tla
    tlc -workers 2 -config MCTransfer.cfg MCTransfer.tla
    tlapm TransferProofs.tla

Each MC module has its `.cfg` files beside it; `java` takes about two minutes.
