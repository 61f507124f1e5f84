----------------------------- MODULE Supervisor -----------------------------
(***************************************************************************)
(* One managed instance of the agent's process supervisor                  *)
(* (agent/minemanager_agent/supervisor.py) on its tmux session.            *)
(*                                                                         *)
(* Everything in the agent is a coroutine of one asyncio loop, so a        *)
(* stretch of code between two awaits is one atomic step and anything may  *)
(* run between two stretches.  A process is a command handler (a member of *)
(* Tasks, one per command in flight) or the monitor; pc names the await it *)
(* is parked at, and each action runs one stretch, from that await to the  *)
(* next.  Emitting an event is an await, so a stretch that calls           *)
(* _set_state ends there, with the new state already stored.               *)
(*                                                                         *)
(* The answer of has_session and the stretch that uses it are one step.    *)
(***************************************************************************)
EXTENDS Naturals

CONSTANTS
  Tasks,                \* command handlers that may be in flight at once
  Monitor,              \* the background monitor coroutine
  Policies,             \* restart policies a command's spec may declare
  CrashLimit,           \* _CRASH_LIMIT
  LaunchFailureLimit,   \* _LAUNCH_FAILURE_LIMIT
  MaxCommands,          \* bound: power and update commands received
  MaxFaults,            \* bound: disconnects and agent crashes
  MaxShutdowns,         \* bound: SIGTERMs
  MaxUnread             \* bound: readiness lines waiting to be read

AllPolicies == {"never", "on_crash", "always"}

ASSUME ProcsAssumption  == Monitor \notin Tasks
ASSUME PolicyAssumption == Policies \subseteq AllPolicies /\ Policies # {}
ASSUME LimitAssumption  ==
  CrashLimit \in Nat /\ LaunchFailureLimit \in Nat \ {0}
ASSUME BoundAssumption  ==
  /\ MaxCommands \in Nat /\ MaxFaults \in Nat /\ MaxShutdowns \in Nat
  /\ MaxUnread \in Nat

Procs == Tasks \cup {Monitor}

VARIABLES
  session,         \* the tmux session, and what runs in it: the placeholder or
                   \* a server (booting, serving)
  exitStatus,      \* the status file the pane's shell writes when it ends
  state,           \* mi.state, the last run state the agent announced
  shouldBeUp,      \* mi.should_be_up
  ready,           \* mi.ready
  launchedAt,      \* mi.launched_at is set: this agent process launched it
  launchFailures,  \* mi.launch_failures
  crashTimes,      \* Len(mi.crash_times)
  tail,            \* mi.tail_task: off, following, or parked inside _on_ready
  unread,          \* readiness lines in the log it has still to read, of the
                   \* session's run or of earlier ones
  policy,          \* mi.spec.restart_policy
  updating,        \* the instance is in Supervisor._updating
  prevState,       \* apply_update's prev_state
  shut,            \* how far shutdown_all has got
  pc,              \* where each coroutine is parked
  restarting,      \* a handler whose stop is the first half of a restart: the
                   \* policy its start half will declare again
  commands, faults, shutdowns,            \* the bounds
  intent, quiet, relaunches               \* history, read by properties only

node    == <<session, exitStatus>>
counts  == <<launchFailures, crashTimes>>
flags   == <<shouldBeUp, ready, launchedAt>>
log     == <<tail, unread>>
update  == <<updating, prevState, quiet>>
bounds  == <<commands, faults, shutdowns>>
vars    == <<node, counts, flags, update, bounds, state, log, policy, shut,
             pc, restarting, intent, relaunches>>

RunStates == {"stopped", "starting", "running", "stopping", "crashed",
              "updating"}

\* The stretch of _launch, shared by start and the monitor.
LaunchPCs  == {"clear", "create", "respawn", "settle", "launch_failed"}
StartPCs   == {"start_check", "start_probe", "adopt"} \cup LaunchPCs
StopPCs    == {"stop_probe", "stop_keys", "stop_wait", "stop_drain"}
UpdatePCs  == {"upd_probe", "upd_announce", "upd_apply", "upd_done"}
TaskPCs    == {"idle", "kill", "killed"} \cup StartPCs \cup StopPCs
                 \cup UpdatePCs
MonitorPCs == {"idle", "m_probe", "m_promote", "m_read", "m_replay",
               "m_drain"} \cup LaunchPCs

PcOK ==
  /\ pc \in [Procs -> TaskPCs \cup MonitorPCs]
  /\ \A t \in Tasks : pc[t] \in TaskPCs
  /\ pc[Monitor] \in MonitorPCs

\* The type invariant: in particular no counter goes below zero, and every
\* coroutine is at an await of a handler it can be running.
TypeOK ==
  /\ session \in {"none", "placeholder", "booting", "serving"}
  /\ exitStatus \in {"none", "zero", "nonzero"}
  /\ state \in RunStates
  /\ shouldBeUp \in BOOLEAN
  /\ ready \in BOOLEAN
  /\ launchedAt \in BOOLEAN
  /\ launchFailures \in Nat
  /\ crashTimes \in Nat
  /\ tail \in {"off", "following", "promoting"}
  /\ unread \in Nat
  /\ policy \in AllPolicies
  /\ updating \in BOOLEAN
  /\ prevState \in RunStates
  /\ shut \in {"no", "list", "keys", "wait", "kill_server", "cancel",
               "exited"}
  /\ PcOK
  /\ restarting \in [Tasks -> AllPolicies \cup {"no"}]
  /\ commands \in Nat
  /\ faults \in Nat
  /\ shutdowns \in Nat
  /\ intent \in {"up", "down", "calm"}
  /\ quiet \in BOOLEAN
  /\ relaunches \in Nat

Parked == [p \in Procs |-> "idle"]
NoRestart == [t \in Tasks |-> "no"]

\* A fresh agent process: it knows the instance only from its spec.
Init ==
  /\ session = "none" /\ exitStatus = "none"
  /\ state = "stopped" /\ prevState = "stopped"
  /\ shouldBeUp = FALSE /\ ready = FALSE /\ launchedAt = FALSE
  /\ launchFailures = 0 /\ crashTimes = 0
  /\ tail = "off" /\ unread = 0
  /\ policy \in Policies
  /\ updating = FALSE /\ quiet = FALSE
  /\ shut = "no"
  /\ pc = Parked /\ restarting = NoRestart
  /\ commands = 0 /\ faults = 0 /\ shutdowns = 0
  /\ intent = "calm" /\ relaunches = 0

-----------------------------------------------------------------------------
(* Helpers shared by the actions. *)

Goto(p, where) == pc' = [pc EXCEPT ![p] = where]

\* What the stop verb and Enter make of the session: they end the placeholder,
\* whose "read _" they answer; a server acts on them when it comes to read them.
AfterVerb == IF session = "placeholder" THEN "none" ELSE session

\* _ensure_tail: start following unless a follower is alive.
\* A new follower begins at the end of the log.
EnsureTail ==
  /\ tail' = IF tail = "off" THEN "following" ELSE tail
  /\ UNCHANGED unread

CancelTail == tail' = "off" /\ unread' = 0

\* No other coroutine is at a point from which it may still create a session
\* or raise should_be_up without looking at it again.
Uncontended ==
  /\ \A t \in Tasks : pc[t] = "idle"
  /\ pc[Monitor] \in {"idle", "m_probe", "m_promote", "m_drain"}

\* What a stop, a kill or a shutdown arriving now makes of intent.
StandDown == IF Uncontended \/ intent = "calm" THEN "calm" ELSE "down"

\* The definitions named ...Mistake are the next one as a plausible bug would
\* have it; no action uses them.

DisarmMistake == UNCHANGED shouldBeUp

\* stop, restart and kill clear the supervision flag before their first await.
Disarm == shouldBeUp' = FALSE

ClearExitStatusMistake == UNCHANGED exitStatus

\* _clear_exit_status: a killed session writes none, so the old one must go.
ClearExitStatus == exitStatus' = "none"

UpdateBlockedMistake == session # "none"

\* apply_update refuses: the instance is running or already updating.
UpdateBlocked == session # "none" \/ updating

MonitorIgnoresUpdateMistake == shut = "no"
MonitorIgnoresCrashedMistake == shut = "no" /\ ~updating /\ state # "crashed"

\* _check_one looks at an instance at all.
MonitorMayLook == shut = "no" /\ ~updating

\* tmux.new_session raises TmuxError: where a launch can fail.
MayRaise(p) == pc[p] \in {"create", "respawn"}

-----------------------------------------------------------------------------
(* Commands arriving on the socket.  Connection._pump makes a task of each  *)
(* at once; the handler refreshes the spec, then runs to its first await.   *)

Accept(t) ==
  /\ pc[t] = "idle"
  /\ shut # "exited"
  /\ commands < MaxCommands
  /\ commands' = commands + 1
  /\ policy' \in Policies
  /\ UNCHANGED <<node, counts, update, faults, shutdowns, state, ready,
                 launchedAt, shut, relaunches>>

ReceiveStart(t) ==
  /\ Accept(t)
  /\ Goto(t, "start_check")
  /\ intent' = "up"
  /\ restarting' = [restarting EXCEPT ![t] = "no"]
  /\ UNCHANGED <<shouldBeUp, log>>

ReceiveRestart(t) ==
  /\ Accept(t)
  /\ Goto(t, "stop_probe")
  /\ Disarm
  /\ intent' = "up"
  /\ restarting' = [restarting EXCEPT ![t] = policy']
  /\ UNCHANGED log

ReceiveStop(t) ==
  /\ Accept(t)
  /\ Goto(t, "stop_probe")
  /\ Disarm
  /\ intent' = StandDown
  /\ restarting' = [restarting EXCEPT ![t] = "no"]
  /\ UNCHANGED log

ReceiveKill(t) ==
  /\ Accept(t)
  /\ Goto(t, "kill")
  /\ Disarm
  /\ CancelTail
  /\ intent' = StandDown
  /\ UNCHANGED restarting

ReceiveUpdate(t) ==
  /\ Accept(t)
  /\ Goto(t, "upd_probe")
  /\ UNCHANGED <<shouldBeUp, log, intent, restarting>>

-----------------------------------------------------------------------------
(* start *)

\* Refused while an update holds the instance, otherwise off to has_session.
\* The start half of a restart declares its own command's spec again.
StartCheck(t) ==
  /\ pc[t] = "start_check"
  /\ policy' = IF restarting[t] = "no" THEN policy ELSE restarting[t]
  /\ restarting' = [restarting EXCEPT ![t] = "no"]
  /\ Goto(t, IF updating THEN "idle" ELSE "start_probe")
  /\ UNCHANGED <<node, counts, flags, update, bounds, state, log, shut,
                 intent, relaunches>>

\* A live session is adopted.
StartFindsSession(t) ==
  /\ pc[t] = "start_probe"
  /\ session # "none"
  /\ shouldBeUp' = TRUE
  /\ ready' = TRUE
  /\ launchFailures' = 0
  /\ relaunches' = 0
  /\ Goto(t, "adopt")
  /\ UNCHANGED <<node, crashTimes, launchedAt, update, bounds, state, log,
                 policy, shut, restarting, intent>>

StartAdopts(t) ==
  /\ pc[t] = "adopt"
  /\ EnsureTail
  /\ state' = "running"
  /\ Goto(t, "idle")
  /\ UNCHANGED <<node, counts, flags, update, bounds, policy, shut,
                 restarting, intent, relaunches>>

\* No session: the root or the JDK may be unusable, else launch.
StartFindsNone(t) ==
  /\ pc[t] = "start_probe"
  /\ session = "none"
  /\ \/ state' = "stopped"  /\ Goto(t, "idle")
     \/ state' = "starting" /\ Goto(t, "clear")
  /\ UNCHANGED <<node, counts, flags, update, bounds, log, policy, shut,
                 restarting, intent, relaunches>>

-----------------------------------------------------------------------------
(* _launch, run by a start or by the monitor's relaunch *)

LaunchClear(p) ==
  /\ pc[p] = "clear"
  /\ ClearExitStatus
  /\ ready' = FALSE
  /\ launchedAt' = TRUE
  /\ relaunches' = IF p = Monitor THEN relaunches ELSE 0
  /\ Goto(p, "create")
  /\ UNCHANGED <<session, counts, shouldBeUp, update, bounds, state,
                 log, policy, shut, restarting, intent>>

\* new_session: the session is created around a placeholder ...
LaunchCreate(p) ==
  /\ pc[p] = "create"
  /\ session = "none"
  /\ session' = "placeholder"
  /\ relaunches' = IF p = Monitor THEN relaunches + 1 ELSE 0
  /\ Goto(p, "respawn")
  /\ UNCHANGED <<exitStatus, counts, flags, update, bounds, state, log,
                 policy, shut, restarting, intent>>

\* ... which respawn-pane replaces by the server.
LaunchRespawn(p) ==
  /\ pc[p] = "respawn"
  /\ session # "none"
  /\ session' = "booting"
  /\ EnsureTail
  /\ Goto(p, "settle")
  /\ UNCHANGED <<exitStatus, counts, flags, update, bounds, state,
                 policy, shut, restarting, intent, relaunches>>

\* TmuxError: a session is already there, or tmux refused; a failed respawn
\* takes the session with it.
LaunchRaises(p) ==
  /\ MayRaise(p)
  /\ session' = IF pc[p] = "respawn" THEN "none" ELSE session
  /\ state' = IF p = Monitor THEN "crashed" ELSE "stopped"
  /\ Goto(p, "idle")
  /\ UNCHANGED <<exitStatus, counts, flags, update, bounds, log,
                 policy, shut, restarting, intent, relaunches>>

\* The settle window is over: start arms supervision whatever it finds.
StartSettles(t) ==
  /\ pc[t] = "settle"
  /\ shouldBeUp' = TRUE
  /\ crashTimes' = 0
  /\ launchFailures' = 0
  /\ relaunches' = 0
  /\ Goto(t, IF session = "none" THEN "launch_failed" ELSE "idle")
  /\ UNCHANGED <<node, ready, launchedAt, update, bounds, state, log,
                 policy, shut, restarting, intent>>

RelaunchSettles ==
  /\ pc[Monitor] = "settle"
  /\ \/ /\ session = "none"
        /\ Goto(Monitor, "launch_failed")
        /\ UNCHANGED state
     \/ /\ session # "none"
        /\ Goto(Monitor, "idle")
        /\ state' = "starting"
  /\ UNCHANGED <<node, counts, flags, update, bounds, log, policy, shut,
                 restarting, intent, relaunches>>

LaunchFailed(p) ==
  /\ pc[p] = "launch_failed"
  /\ state' = "crashed"
  /\ Goto(p, "idle")
  /\ UNCHANGED <<node, counts, flags, update, bounds, log, policy, shut,
                 restarting, intent, relaunches>>

-----------------------------------------------------------------------------
(* stop, the first half of restart, and kill *)

StopReturns(t) ==
  Goto(t, IF restarting[t] = "no" THEN "idle" ELSE "start_check")

StopFindsNone(t) ==
  /\ pc[t] = "stop_probe"
  /\ session = "none"
  /\ CancelTail
  /\ state' = "stopped"
  /\ StopReturns(t)
  /\ UNCHANGED <<node, counts, flags, update, bounds, policy, shut,
                 restarting, intent, relaunches>>

StopFindsSession(t) ==
  /\ pc[t] = "stop_probe"
  /\ session # "none"
  /\ state' = "stopping"
  /\ Goto(t, "stop_keys")
  /\ UNCHANGED <<node, counts, flags, update, bounds, log, policy, shut,
                 restarting, intent, relaunches>>

StopTypes(t) ==
  /\ pc[t] = "stop_keys"
  /\ session' = AfterVerb
  /\ Goto(t, "stop_wait")
  /\ UNCHANGED <<exitStatus, counts, flags, update, bounds, state, log,
                 policy, shut, restarting, intent, relaunches>>

\* The session has ended, or the grace period has and the session is killed.
StopWaited(t) ==
  /\ pc[t] = "stop_wait"
  /\ session' = "none"
  /\ Goto(t, "stop_drain")
  /\ UNCHANGED <<exitStatus, counts, flags, update, bounds, state,
                 log, policy, shut, restarting, intent, relaunches>>

StopDrained(t) ==
  /\ pc[t] = "stop_drain"
  /\ CancelTail
  /\ state' = "stopped"
  /\ StopReturns(t)
  /\ UNCHANGED <<node, counts, flags, update, bounds, policy, shut,
                 restarting, intent, relaunches>>

KillSession(t) ==
  /\ pc[t] = "kill"
  /\ session' = "none"
  /\ Goto(t, "killed")
  /\ UNCHANGED <<exitStatus, counts, flags, update, bounds, state,
                 log, policy, shut, restarting, intent, relaunches>>

KillReports(t) ==
  /\ pc[t] = "killed"
  /\ state' = "stopped"
  /\ Goto(t, "idle")
  /\ UNCHANGED <<node, counts, flags, update, bounds, log, policy, shut,
                 restarting, intent, relaunches>>

-----------------------------------------------------------------------------
(* apply_update *)

UpdateRefused(t) ==
  /\ pc[t] = "upd_probe"
  /\ UpdateBlocked
  /\ Goto(t, "idle")
  /\ UNCHANGED <<node, counts, flags, update, bounds, state, log, policy,
                 shut, restarting, intent, relaunches>>

\* quiet records that nothing was on its way to a launch at this moment.
UpdateBegins(t) ==
  /\ pc[t] = "upd_probe"
  /\ ~UpdateBlocked
  /\ updating' = TRUE
  /\ prevState' = state
  /\ state' = "updating"
  /\ quiet' = /\ pc[Monitor] \in {"idle", "m_promote", "m_drain"}
              /\ \A u \in Tasks :
                   pc[u] \notin {"start_probe", "clear", "create", "respawn"}
  /\ Goto(t, "upd_announce")
  /\ UNCHANGED <<node, counts, flags, bounds, log, policy, shut, restarting,
                 intent, relaunches>>

\* The new state is announced, which is still outside the try.
UpdateAnnounced(t) ==
  /\ pc[t] = "upd_announce"
  /\ Goto(t, "upd_apply")
  /\ UNCHANGED <<node, counts, flags, update, bounds, state, log, policy,
                 shut, restarting, intent, relaunches>>

\* The updater has swapped the jar, or has failed without touching it.
UpdateInstalls(t) ==
  /\ pc[t] = "upd_apply"
  /\ state' = "stopped"
  /\ Goto(t, "upd_done")
  /\ UNCHANGED <<node, counts, flags, update, bounds, log, policy, shut,
                 restarting, intent, relaunches>>

UpdateFails(t) ==
  /\ pc[t] = "upd_apply"
  /\ state' = IF prevState = "updating" THEN "stopped" ELSE prevState
  /\ Goto(t, "upd_done")
  /\ UNCHANGED <<node, counts, flags, update, bounds, log, policy, shut,
                 restarting, intent, relaunches>>

UpdateReleases(t) ==
  /\ pc[t] = "upd_done"
  /\ updating' = FALSE
  /\ Goto(t, "idle")
  /\ UNCHANGED <<node, counts, flags, prevState, quiet, bounds, state, log,
                 policy, shut, restarting, intent, relaunches>>

\* Inside apply_update's try, whose finally drops the mark.
Holding(t) == pc[t] \in {"upd_apply", "upd_done"}

\* The handler that set the mark and has not dropped it.
Marking(t) == Holding(t) \/ pc[t] = "upd_announce"

\* The socket drops: every handler in flight is cancelled at its await.  Only
\* apply_update has a finally; the state a handler announced stays.
Disconnect ==
  /\ shut # "exited"
  /\ faults < MaxFaults
  /\ faults' = faults + 1
  /\ pc' = [p \in Procs |-> IF p = Monitor THEN pc[p] ELSE "idle"]
  /\ updating' = (updating /\ \A t \in Tasks : ~Holding(t))
  /\ restarting' = NoRestart
  /\ UNCHANGED <<node, counts, flags, prevState, quiet, commands, shutdowns,
                 state, log, policy, shut, intent, relaunches>>

-----------------------------------------------------------------------------
(* The log follower.  It polls, and waits for each line to be sent, so a    *)
(* readiness line may be read long after its run has ended, and is then     *)
(* taken for one of the run at hand.                                        *)

\* A failure forgotten after the monitor has counted it, on its way to the
\* relaunch it decided on, is forgotten for good: _launch lowers ready again.
\* History takes it for a grant.
TailForgetsFailure == pc[Monitor] = "clear" /\ ~ready

TailReads ==
  /\ tail = "following"
  /\ unread > 0
  /\ unread' = unread - 1
  /\ ready' = TRUE
  /\ launchFailures' = IF ready THEN launchFailures ELSE 0
  /\ tail' = IF ready THEN tail ELSE "promoting"
  /\ relaunches' = IF TailForgetsFailure THEN 0 ELSE relaunches
  /\ UNCHANGED <<node, crashTimes, shouldBeUp, launchedAt, update, bounds,
                 state, policy, shut, pc, restarting, intent>>

TailPromotes ==
  /\ tail = "promoting"
  /\ state' = "running"
  /\ tail' = "following"
  /\ UNCHANGED <<node, counts, flags, update, bounds, unread, policy, shut, pc,
                 restarting, intent, relaunches>>

-----------------------------------------------------------------------------
(* The monitor *)

MonitorTick ==
  /\ pc[Monitor] = "idle"
  /\ MonitorMayLook
  /\ Goto(Monitor, "m_probe")
  /\ UNCHANGED <<node, counts, flags, update, bounds, state, log, policy,
                 shut, restarting, intent, relaunches>>

\* Alive; past its grace period a launch of this agent counts as ready.
MonitorFindsSession ==
  /\ pc[Monitor] = "m_probe"
  /\ session # "none"
  /\ \/ Goto(Monitor, "idle") /\ UNCHANGED <<ready, launchFailures>>
     \/ /\ ~ready /\ launchedAt
        /\ ready' = TRUE
        /\ launchFailures' = 0
        /\ Goto(Monitor, "m_promote")
  /\ UNCHANGED <<node, crashTimes, shouldBeUp, launchedAt, update, bounds,
                 state, log, policy, shut, restarting, intent, relaunches>>

MonitorPromotes ==
  /\ pc[Monitor] = "m_promote"
  /\ state' = "running"
  /\ Goto(Monitor, "idle")
  /\ UNCHANGED <<node, counts, flags, update, bounds, log, policy, shut,
                 restarting, intent, relaunches>>

MonitorFindsNone ==
  /\ pc[Monitor] = "m_probe"
  /\ session = "none"
  /\ Goto(Monitor, IF ~shouldBeUp THEN "idle"
                   ELSE IF ready THEN "m_read" ELSE "m_replay")
  /\ UNCHANGED <<node, counts, flags, update, bounds, state, log, policy,
                 shut, restarting, intent, relaunches>>

ExhaustedMistake(launched) ==
  \/ policy = "never"
  \/ launched /\ crashTimes' > CrashLimit
  \/ ~launched /\ launchFailures' > LaunchFailureLimit

\* The policy gives up: it never relaunches, or a limit is reached.
Exhausted(launched) ==
  \/ policy = "never"
  \/ launched /\ crashTimes' > CrashLimit
  \/ ~launched /\ launchFailures' >= LaunchFailureLimit

CountExitMistake(launched) ==
  /\ launchFailures' = launchFailures - 1
  /\ UNCHANGED <<crashTimes, relaunches>>

\* Gone while it should be up.  A run that came up is a crash, of which kept
\* earlier ones are still inside the window; any other is a launch failure.
CountExit(launched) ==
  IF launched
    THEN \E kept \in 0..crashTimes :
           /\ crashTimes' = kept + 1
           /\ relaunches' = IF kept < crashTimes THEN 0 ELSE relaunches
           /\ UNCHANGED launchFailures
    ELSE /\ launchFailures' = launchFailures + 1
         /\ UNCHANGED <<crashTimes, relaunches>>

Decide(cleanExit) ==
  /\ CountExit(ready)
  /\ \/ /\ shouldBeUp' = FALSE      \* a limit, or an unusable root or JDK
        /\ state' = "crashed"
        /\ Goto(Monitor, "idle")
     \/ /\ ~Exhausted(ready)
        /\ state' = IF cleanExit THEN "starting" ELSE "crashed"
        /\ Goto(Monitor, "clear")
        /\ UNCHANGED shouldBeUp
  /\ UNCHANGED <<node, ready, launchedAt, update, bounds, log, policy, shut,
                 restarting, intent>>

MonitorReadsCrash ==
  /\ pc[Monitor] = "m_read"
  /\ exitStatus # "zero"
  /\ Goto(Monitor, "m_replay")
  /\ UNCHANGED <<node, counts, flags, update, bounds, state, log, policy,
                 shut, restarting, intent, relaunches>>

\* A console stop is honoured: disarm, and let the tail catch the last lines.
MonitorHonoursExit ==
  /\ pc[Monitor] = "m_read"
  /\ exitStatus = "zero"
  /\ policy # "always"
  /\ shouldBeUp' = FALSE
  /\ crashTimes' = 0
  /\ launchFailures' = 0
  /\ relaunches' = 0
  /\ Goto(Monitor, "m_drain")
  /\ UNCHANGED <<node, ready, launchedAt, update, bounds, state, log, policy,
                 shut, restarting, intent>>

MonitorOverrulesExit ==
  /\ pc[Monitor] = "m_read"
  /\ exitStatus = "zero"
  /\ policy = "always"
  /\ Decide(TRUE)

MonitorReplays ==
  /\ pc[Monitor] = "m_replay"
  /\ Decide(FALSE)

\* Announces state stopped with clean_exit set, on which the hub disarms.
MonitorDrains ==
  /\ pc[Monitor] = "m_drain"
  /\ CancelTail
  /\ state' = "stopped"
  /\ Goto(Monitor, "idle")
  /\ UNCHANGED <<node, counts, flags, update, bounds, policy, shut,
                 restarting, intent, relaunches>>

-----------------------------------------------------------------------------
(* shutdown_all on SIGTERM, while handlers and the monitor still run *)

ShutdownBegins ==
  /\ shut = "no"
  /\ shutdowns < MaxShutdowns
  /\ shutdowns' = shutdowns + 1
  /\ shut' = "list"
  /\ shouldBeUp' = FALSE
  /\ CancelTail
  /\ intent' = StandDown
  /\ UNCHANGED <<node, counts, ready, launchedAt, update, commands, faults,
                 state, policy, pc, restarting, relaunches>>

ShutdownLists ==
  /\ shut = "list"
  /\ shut' = IF session = "none" THEN "kill_server" ELSE "keys"
  /\ UNCHANGED <<node, counts, flags, update, bounds, state, log, policy, pc,
                 restarting, intent, relaunches>>

ShutdownTypes ==
  /\ shut = "keys"
  /\ session' = AfterVerb
  /\ shut' = "wait"
  /\ UNCHANGED <<exitStatus, counts, flags, update, bounds, state, log,
                 policy, pc, restarting, intent, relaunches>>

ShutdownWaitedMistake ==
  /\ shut = "wait"
  /\ session = "none"
  /\ shut' = "kill_server"
  /\ UNCHANGED <<node, counts, flags, update, bounds, state, log, policy, pc,
                 restarting, intent, relaunches>>

\* Gone by itself, or killed when the budget for the whole shutdown is spent.
ShutdownWaited ==
  /\ shut = "wait"
  /\ session' = "none"
  /\ shut' = "kill_server"
  /\ UNCHANGED <<exitStatus, counts, flags, update, bounds, state,
                 log, policy, pc, restarting, intent, relaunches>>

KillServer ==
  /\ shut = "kill_server"
  /\ session' = "none"
  /\ shut' = "cancel"
  /\ UNCHANGED <<exitStatus, counts, flags, update, bounds, state,
                 log, policy, pc, restarting, intent, relaunches>>

\* Everything an agent process holds in memory goes with it.
Forgotten ==
  /\ state' = "stopped" /\ prevState' = "stopped"
  /\ shouldBeUp' = FALSE /\ ready' = FALSE /\ launchedAt' = FALSE
  /\ launchFailures' = 0 /\ crashTimes' = 0 /\ relaunches' = 0
  /\ CancelTail
  /\ updating' = FALSE /\ quiet' = FALSE
  /\ pc' = Parked /\ restarting' = NoRestart
  /\ intent' = "calm"

Exits ==
  /\ shut = "cancel"
  /\ shut' = "exited"
  /\ Forgotten
  /\ UNCHANGED <<node, bounds, policy>>

\* systemd starts the agent again; a session outlives a killed agent.
AgentStarts ==
  /\ shut = "exited"
  /\ shut' = "no"
  /\ UNCHANGED <<node, counts, flags, update, bounds, state, log, policy, pc,
                 restarting, intent, relaunches>>

AgentCrashes ==
  /\ shut # "exited"
  /\ faults < MaxFaults
  /\ faults' = faults + 1
  /\ shut' = "exited"
  /\ Forgotten
  /\ UNCHANGED <<node, commands, shutdowns, policy>>

-----------------------------------------------------------------------------
(* The server process in the pane *)

\* The line it logs is one more for the follower, unless its software words it
\* otherwise; the new log file may hide unread lines of the old one.
ServerComesUp ==
  /\ session = "booting"
  /\ session' = "serving"
  /\ unread' \in IF tail = "off" THEN {0} ELSE 0..unread + 1
  /\ unread' <= MaxUnread
  /\ UNCHANGED <<exitStatus, counts, flags, update, bounds, state,
                 tail, policy, shut, pc, restarting, intent, relaunches>>

\* The server ends by itself (a console stop, a crash) and its shell writes
\* the status before the pane closes.
ServerExits ==
  /\ session \in {"booting", "serving"}
  /\ session' = "none"
  /\ exitStatus' \in {"zero", "nonzero"}
  /\ UNCHANGED <<counts, flags, update, bounds, state, log, policy,
                 shut, pc, restarting, intent, relaunches>>

\* The session is killed from outside, shell and all, or somebody presses
\* Enter on the placeholder: no status is written.
SessionVanishes ==
  /\ session # "none"
  /\ session' = "none"
  /\ UNCHANGED <<exitStatus, counts, flags, update, bounds, state,
                 log, policy, shut, pc, restarting, intent, relaunches>>

-----------------------------------------------------------------------------
LaunchStep(p) ==
  \/ LaunchClear(p) \/ LaunchCreate(p) \/ LaunchRespawn(p)
  \/ LaunchRaises(p) \/ LaunchFailed(p)

Receive(t) ==
  \/ ReceiveStart(t) \/ ReceiveRestart(t) \/ ReceiveStop(t)
  \/ ReceiveKill(t) \/ ReceiveUpdate(t)

TaskStep(t) ==
  \/ StartCheck(t) \/ StartFindsSession(t) \/ StartAdopts(t)
  \/ StartFindsNone(t) \/ StartSettles(t) \/ LaunchStep(t)
  \/ StopFindsNone(t) \/ StopFindsSession(t) \/ StopTypes(t)
  \/ StopWaited(t) \/ StopDrained(t)
  \/ KillSession(t) \/ KillReports(t)
  \/ UpdateRefused(t) \/ UpdateBegins(t) \/ UpdateAnnounced(t)
  \/ UpdateInstalls(t) \/ UpdateFails(t) \/ UpdateReleases(t)

MonitorStep ==
  \/ MonitorTick \/ MonitorFindsSession \/ MonitorPromotes
  \/ MonitorFindsNone \/ MonitorReadsCrash \/ MonitorHonoursExit
  \/ MonitorOverrulesExit \/ MonitorReplays \/ MonitorDrains
  \/ LaunchStep(Monitor) \/ RelaunchSettles

TailStep == TailReads \/ TailPromotes

ShutdownStep ==
  \/ ShutdownLists \/ ShutdownTypes \/ ShutdownWaited \/ KillServer \/ Exits

Environment ==
  \/ ServerComesUp \/ ServerExits \/ SessionVanishes
  \/ Disconnect \/ AgentCrashes \/ AgentStarts \/ ShutdownBegins

Next ==
  \/ \E t \in Tasks : Receive(t) \/ TaskStep(t)
  \/ MonitorStep \/ TailStep \/ ShutdownStep \/ Environment

Spec == Init /\ [][Next]_vars

\* The event loop runs every coroutine whose await is over, and each await a
\* coroutine is parked at ends: tmux answers, timers fire, downloads time out.
Fairness ==
  /\ \A t \in Tasks : WF_vars(TaskStep(t))
  /\ WF_vars(MonitorStep)
  /\ WF_vars(TailStep)
  /\ WF_vars(ShutdownStep)

FairSpec == Spec /\ Fairness
=============================================================================
