-------------------------- MODULE SupervisorProofs --------------------------
(***************************************************************************)
(* Theorems about the supervisor of one instance, for every set of command *)
(* handlers, every limit and every bound.                                  *)
(***************************************************************************)
EXTENDS SupervisorProperties, TLAPS

-----------------------------------------------------------------------------
(* Type correctness *)

\* A handler or the monitor that moves on stays at an await of its own.
LEMMA TaskGoto ==
  ASSUME PcOK, NEW t \in Tasks, NEW w \in TaskPCs, Goto(t, w)
  PROVE  PcOK'
<1>1. pc' \in [Procs -> TaskPCs \cup MonitorPCs]
  BY DEF PcOK, Goto, Procs
<1>2. \A u \in Tasks : pc'[u] \in TaskPCs
  BY DEF PcOK, Goto, Procs
<1>3. pc'[Monitor] \in MonitorPCs
  BY ProcsAssumption DEF PcOK, Goto, Procs
<1>4. QED BY <1>1, <1>2, <1>3 DEF PcOK

LEMMA MonitorGoto ==
  ASSUME PcOK, NEW w \in MonitorPCs, Goto(Monitor, w)
  PROVE  PcOK'
<1>1. pc' \in [Procs -> TaskPCs \cup MonitorPCs]
  BY DEF PcOK, Goto, Procs
<1>2. \A u \in Tasks : pc'[u] \in TaskPCs
  BY ProcsAssumption DEF PcOK, Goto, Procs
<1>3. pc'[Monitor] \in MonitorPCs
  BY DEF PcOK, Goto, Procs
<1>4. QED BY <1>1, <1>2, <1>3 DEF PcOK

\* The initial state and a fresh agent have every coroutine idle.
LEMMA ParkedOK == pc = Parked => PcOK
BY DEF PcOK, Parked, Procs, TaskPCs, MonitorPCs

LEMMA ParkedNext == pc' = Parked => PcOK'
BY DEF PcOK, Parked, Procs, TaskPCs, MonitorPCs

LEMMA PcUnchanged == PcOK /\ UNCHANGED pc => PcOK'
BY DEF PcOK

LEMMA InitType == Init => TypeOK
<1> SUFFICES ASSUME Init PROVE TypeOK
  OBVIOUS
<1>1. policy \in AllPolicies
  BY PolicyAssumption DEF Init
<1>2. QED BY <1>1, ParkedOK DEF Init, TypeOK, RunStates, NoRestart

\* A command received.
LEMMA ReceiveType ==
  ASSUME TypeOK, NEW t \in Tasks, Receive(t)
  PROVE  TypeOK'
<1> USE DEF TypeOK, RunStates, log, CancelTail
<1>1. CASE ReceiveStart(t)
  <2>1. PcOK'
    BY <1>1, TaskGoto DEF ReceiveStart, TaskPCs, StartPCs
  <2>2. shouldBeUp' \in BOOLEAN
    BY <1>1 DEF ReceiveStart
  <2>3. policy' \in AllPolicies /\ commands' \in Nat
    BY <1>1, PolicyAssumption DEF ReceiveStart, Accept
  <2>4. intent' \in {"up", "down", "calm"}
    BY <1>1 DEF ReceiveStart
  <2>5. QED BY <1>1, <2>1, <2>2, <2>3, <2>4
               DEF ReceiveStart, Accept, node, counts, update
<1>2. CASE ReceiveRestart(t)
  <2>1. PcOK'
    BY <1>2, TaskGoto DEF ReceiveRestart, TaskPCs, StopPCs
  <2>2. shouldBeUp' \in BOOLEAN
    BY <1>2 DEF ReceiveRestart, Disarm
  <2>3. policy' \in AllPolicies /\ commands' \in Nat
    BY <1>2, PolicyAssumption DEF ReceiveRestart, Accept
  <2>4. intent' \in {"up", "down", "calm"}
    BY <1>2 DEF ReceiveRestart
  <2>5. QED BY <1>2, <2>1, <2>2, <2>3, <2>4
               DEF ReceiveRestart, Accept, node, counts, update
<1>3. CASE ReceiveStop(t)
  <2>1. PcOK'
    BY <1>3, TaskGoto DEF ReceiveStop, TaskPCs, StopPCs
  <2>2. shouldBeUp' \in BOOLEAN
    BY <1>3 DEF ReceiveStop, Disarm
  <2>3. policy' \in AllPolicies /\ commands' \in Nat
    BY <1>3, PolicyAssumption DEF ReceiveStop, Accept
  <2>4. intent' \in {"up", "down", "calm"}
    BY <1>3 DEF ReceiveStop, StandDown
  <2>5. QED BY <1>3, <2>1, <2>2, <2>3, <2>4
               DEF ReceiveStop, Accept, node, counts, update
<1>4. CASE ReceiveKill(t)
  <2>1. PcOK'
    BY <1>4, TaskGoto DEF ReceiveKill, TaskPCs
  <2>2. shouldBeUp' \in BOOLEAN
    BY <1>4 DEF ReceiveKill, Disarm
  <2>3. policy' \in AllPolicies /\ commands' \in Nat
    BY <1>4, PolicyAssumption DEF ReceiveKill, Accept
  <2>4. intent' \in {"up", "down", "calm"}
    BY <1>4 DEF ReceiveKill, StandDown
  <2>5. QED BY <1>4, <2>1, <2>2, <2>3, <2>4
               DEF ReceiveKill, Accept, node, counts, update
<1>5. CASE ReceiveUpdate(t)
  <2>1. PcOK'
    BY <1>5, TaskGoto DEF ReceiveUpdate, TaskPCs, UpdatePCs
  <2>2. shouldBeUp' \in BOOLEAN
    BY <1>5 DEF ReceiveUpdate
  <2>3. policy' \in AllPolicies /\ commands' \in Nat
    BY <1>5, PolicyAssumption DEF ReceiveUpdate, Accept
  <2>4. intent' \in {"up", "down", "calm"}
    BY <1>5 DEF ReceiveUpdate
  <2>5. QED BY <1>5, <2>1, <2>2, <2>3, <2>4
               DEF ReceiveUpdate, Accept, node, counts, update
<1>6. QED
  BY <1>1, <1>2, <1>3, <1>4, <1>5 DEF Receive

\* A step of a command handler.
LEMMA TaskType ==
  ASSUME TypeOK, NEW t \in Tasks, TaskStep(t)
  PROVE  TypeOK'
<1> USE DEF TypeOK, RunStates, log, CancelTail
<1>1. CASE StartCheck(t)
  BY <1>1, TaskGoto DEF StartCheck, node, counts, flags, update, bounds,
     TaskPCs, StartPCs
<1>2. CASE StartFindsSession(t)
  BY <1>2, TaskGoto DEF StartFindsSession, node, update, bounds, TaskPCs,
     StartPCs
<1>3. CASE StartAdopts(t)
  BY <1>3, TaskGoto DEF StartAdopts, EnsureTail, node, counts, flags,
     update, bounds, TaskPCs
<1>4. CASE StartFindsNone(t)
  BY <1>4, TaskGoto DEF StartFindsNone, node, counts, flags, update, bounds,
     TaskPCs, StartPCs, LaunchPCs
<1>5. CASE StartSettles(t)
  BY <1>5, TaskGoto DEF StartSettles, node, update, bounds, TaskPCs,
     StartPCs, LaunchPCs
<1>6. CASE LaunchClear(t)
  <2>1. PcOK'
    BY <1>6, TaskGoto DEF TypeOK, LaunchClear, TaskPCs, StartPCs, LaunchPCs
  <2>2. ready' \in BOOLEAN /\ launchedAt' \in BOOLEAN
    BY <1>6 DEF LaunchClear
  <2>3. relaunches' \in Nat
    BY <1>6 DEF LaunchClear, TypeOK
  <2>4. QED BY <1>6, <2>1, <2>2, <2>3
               DEF LaunchClear, ClearExitStatus, counts, update, bounds
<1>7. CASE LaunchCreate(t)
  BY <1>7, TaskGoto DEF LaunchCreate, counts, flags, update, bounds,
     TaskPCs, StartPCs, LaunchPCs
<1>8. CASE LaunchRespawn(t)
  BY <1>8, TaskGoto DEF LaunchRespawn, EnsureTail, counts, flags, update,
     bounds, TaskPCs, StartPCs, LaunchPCs
<1>9. CASE LaunchRaises(t)
  BY <1>9, TaskGoto DEF LaunchRaises, MayRaise, counts, flags, update,
     bounds, TaskPCs
<1>10. CASE LaunchFailed(t)
  BY <1>10, TaskGoto DEF LaunchFailed, node, counts, flags, update, bounds,
     TaskPCs
<1>11. CASE StopFindsNone(t)
  BY <1>11, TaskGoto DEF StopFindsNone, StopReturns, node, counts, flags,
     update, bounds, TaskPCs, StartPCs
<1>12. CASE StopFindsSession(t)
  BY <1>12, TaskGoto DEF StopFindsSession, node, counts, flags, update,
     bounds, TaskPCs, StopPCs
<1>13. CASE StopTypes(t)
  BY <1>13, TaskGoto DEF StopTypes, AfterVerb, counts, flags, update,
     bounds, TaskPCs, StopPCs
<1>14. CASE StopWaited(t)
  BY <1>14, TaskGoto DEF StopWaited, counts, flags, update, bounds, TaskPCs,
     StopPCs
<1>15. CASE StopDrained(t)
  BY <1>15, TaskGoto DEF StopDrained, StopReturns, node, counts, flags,
     update, bounds, TaskPCs, StartPCs
<1>16. CASE KillSession(t)
  BY <1>16, TaskGoto DEF KillSession, counts, flags, update, bounds, TaskPCs
<1>17. CASE KillReports(t)
  BY <1>17, TaskGoto DEF KillReports, node, counts, flags, update, bounds,
     TaskPCs
<1>18. CASE UpdateRefused(t)
  BY <1>18, TaskGoto DEF UpdateRefused, UpdateBlocked, node, counts, flags,
     update, bounds, TaskPCs
<1>19. CASE UpdateBegins(t)
  BY <1>19, TaskGoto DEF UpdateBegins, UpdateBlocked, node, counts, flags,
     bounds, TaskPCs, UpdatePCs
<1>20. CASE UpdateInstalls(t)
  BY <1>20, TaskGoto DEF UpdateInstalls, node, counts, flags, update,
     bounds, TaskPCs, UpdatePCs
<1>21. CASE UpdateFails(t)
  BY <1>21, TaskGoto DEF UpdateFails, node, counts, flags, update, bounds,
     TaskPCs, UpdatePCs
<1>22. CASE UpdateReleases(t)
  <2>1. PcOK'
    BY <1>22, TaskGoto DEF TypeOK, UpdateReleases, TaskPCs
  <2>2. updating' \in BOOLEAN
    BY <1>22 DEF UpdateReleases
  <2>3. QED BY <1>22, <2>1, <2>2
               DEF UpdateReleases, node, counts, flags, bounds
<1>23. CASE UpdateAnnounced(t)
  BY <1>23, TaskGoto DEF UpdateAnnounced, node, counts, flags, update,
                          bounds, TaskPCs, UpdatePCs
<1>24. QED
  BY <1>1, <1>2, <1>3, <1>4, <1>5, <1>6, <1>7, <1>8, <1>9, <1>10, <1>11,
     <1>12, <1>13, <1>14, <1>15, <1>16, <1>17, <1>18, <1>19, <1>20, <1>21,
     <1>22, <1>23 DEF TaskStep, LaunchStep

\* The monitor's verdict on an exit.
LEMMA DecideType ==
  ASSUME TypeOK, NEW cleanExit \in BOOLEAN, Decide(cleanExit)
  PROVE  TypeOK'
<1> USE DEF TypeOK, RunStates, log, CancelTail
<1>1. PcOK'
  BY MonitorGoto DEF Decide, MonitorPCs, LaunchPCs
<1>2. /\ launchFailures' \in Nat
      /\ crashTimes' \in Nat
      /\ relaunches' \in Nat
  BY DEF Decide, CountExit
<1>3. shouldBeUp' \in BOOLEAN /\ state' \in RunStates
  BY DEF Decide
<1>4. QED BY <1>1, <1>2, <1>3 DEF Decide, node, update, bounds

\* A step of the monitor.
LEMMA MonitorType ==
  ASSUME TypeOK, MonitorStep
  PROVE  TypeOK'
<1> USE DEF TypeOK, RunStates, log, CancelTail
<1>1. CASE MonitorTick
  BY <1>1, MonitorGoto DEF MonitorTick, MonitorMayLook, node, counts, flags,
     update, bounds, MonitorPCs
<1>2. CASE MonitorFindsSession
  <2>1. PcOK'
    BY <1>2, MonitorGoto DEF MonitorFindsSession, MonitorPCs
  <2>2. ready' \in BOOLEAN
    BY <1>2 DEF MonitorFindsSession
  <2>3. launchFailures' \in Nat
    BY <1>2 DEF MonitorFindsSession
  <2>4. QED BY <1>2, <2>1, <2>2, <2>3
               DEF MonitorFindsSession, node, update, bounds
<1>3. CASE MonitorPromotes
  BY <1>3, MonitorGoto DEF MonitorPromotes, node, counts, flags, update,
     bounds, MonitorPCs
<1>4. CASE MonitorFindsNone
  BY <1>4, MonitorGoto DEF MonitorFindsNone, node, counts, flags, update,
     bounds, MonitorPCs
<1>5. CASE MonitorReadsCrash
  BY <1>5, MonitorGoto DEF MonitorReadsCrash, node, counts, flags, update,
     bounds, MonitorPCs
<1>6. CASE MonitorHonoursExit
  <2>1. PcOK'
    BY <1>6, MonitorGoto DEF MonitorHonoursExit, MonitorPCs
  <2>2. shouldBeUp' \in BOOLEAN
    BY <1>6 DEF MonitorHonoursExit
  <2>3. QED BY <1>6, <2>1, <2>2 DEF MonitorHonoursExit, node, update, bounds
<1>7. CASE MonitorOverrulesExit
  BY <1>7, DecideType DEF MonitorOverrulesExit
<1>8. CASE MonitorReplays
  BY <1>8, DecideType DEF MonitorReplays
<1>9. CASE MonitorDrains
  BY <1>9, MonitorGoto DEF MonitorDrains, node, counts, flags, update,
     bounds, MonitorPCs
<1>10. CASE RelaunchSettles
  BY <1>10, MonitorGoto DEF RelaunchSettles, node, counts, flags, update,
     bounds, MonitorPCs, LaunchPCs
<1>11. CASE LaunchClear(Monitor)
  <2>1. PcOK'
    BY <1>11, MonitorGoto DEF TypeOK, LaunchClear, MonitorPCs, LaunchPCs
  <2>2. ready' \in BOOLEAN /\ launchedAt' \in BOOLEAN
    BY <1>11 DEF LaunchClear
  <2>3. relaunches' \in Nat
    BY <1>11 DEF LaunchClear, TypeOK
  <2>4. QED BY <1>11, <2>1, <2>2, <2>3
               DEF LaunchClear, ClearExitStatus, counts, update, bounds
<1>12. CASE LaunchCreate(Monitor)
  BY <1>12, MonitorGoto DEF LaunchCreate, counts, flags, update, bounds,
     MonitorPCs, LaunchPCs
<1>13. CASE LaunchRespawn(Monitor)
  BY <1>13, MonitorGoto DEF LaunchRespawn, EnsureTail, counts, flags,
     update, bounds, MonitorPCs, LaunchPCs
<1>14. CASE LaunchRaises(Monitor)
  BY <1>14, MonitorGoto DEF LaunchRaises, MayRaise, counts, flags, update,
     bounds, MonitorPCs
<1>15. CASE LaunchFailed(Monitor)
  BY <1>15, MonitorGoto DEF LaunchFailed, node, counts, flags, update,
     bounds, MonitorPCs
<1>16. QED
  BY <1>1, <1>2, <1>3, <1>4, <1>5, <1>6, <1>7, <1>8, <1>9, <1>10, <1>11,
     <1>12, <1>13, <1>14, <1>15 DEF MonitorStep, LaunchStep

\* A step of the follower, the shutdown or the world outside.
LEMMA OtherType ==
  ASSUME TypeOK, TailStep \/ ShutdownStep \/ Environment
  PROVE  TypeOK'
<1> USE DEF TypeOK, RunStates, log, CancelTail
<1>1. CASE TailReads
  <2>1. PcOK'
    BY <1>1, PcUnchanged DEF TailReads
  <2>2. /\ ready' \in BOOLEAN
        /\ launchFailures' \in Nat /\ relaunches' \in Nat
    BY <1>1 DEF TailReads
  <2>3. unread' \in Nat /\ tail' \in {"following", "promoting"}
    BY <1>1 DEF TailReads
  <2>4. QED BY <1>1, <2>1, <2>2, <2>3 DEF TailReads, node, update, bounds
<1>2. CASE TailPromotes
  BY <1>2, PcUnchanged DEF TailPromotes, node, counts, flags, update, bounds
<1>3. CASE ShutdownLists
  BY <1>3, PcUnchanged DEF ShutdownLists, node, counts, flags, update, bounds
<1>4. CASE ShutdownTypes
  BY <1>4, PcUnchanged DEF ShutdownTypes, AfterVerb, counts, flags, update,
     bounds
<1>5. CASE ShutdownWaited
  BY <1>5, PcUnchanged DEF ShutdownWaited, counts, flags, update, bounds
<1>6. CASE KillServer
  BY <1>6, PcUnchanged DEF KillServer, counts, flags, update, bounds
<1>7. CASE Exits
  <2>1. PcOK'
    BY <1>7, ParkedNext DEF Exits, Forgotten
  <2>2. /\ shouldBeUp' \in BOOLEAN
        /\ ready' \in BOOLEAN
        /\ launchedAt' \in BOOLEAN
        /\ updating' \in BOOLEAN
        /\ quiet' \in BOOLEAN
    BY <1>7 DEF Exits, Forgotten
  <2>3. QED BY <1>7, <2>1, <2>2 DEF Exits, Forgotten, NoRestart, node, bounds
<1>8. CASE ServerComesUp
  BY <1>8, PcUnchanged DEF ServerComesUp, counts, flags, update, bounds
<1>9. CASE ServerExits
  BY <1>9, PcUnchanged DEF ServerExits, counts, flags, update, bounds
<1>10. CASE SessionVanishes
  BY <1>10, PcUnchanged DEF SessionVanishes, counts, flags, update, bounds
<1>11. CASE Disconnect
  <2>1. PcOK'
    BY <1>11 DEF Disconnect, PcOK, Procs, TaskPCs, MonitorPCs
  <2>2. updating' \in BOOLEAN
    BY <1>11 DEF Disconnect
  <2>3. QED BY <1>11, <2>1, <2>2 DEF Disconnect, node, counts, flags, NoRestart
<1>12. CASE AgentCrashes
  <2>1. PcOK'
    BY <1>12, ParkedNext DEF AgentCrashes, Forgotten
  <2>2. /\ shouldBeUp' \in BOOLEAN
        /\ ready' \in BOOLEAN
        /\ launchedAt' \in BOOLEAN
        /\ updating' \in BOOLEAN
        /\ quiet' \in BOOLEAN
    BY <1>12 DEF AgentCrashes, Forgotten
  <2>3. QED BY <1>12, <2>1, <2>2 DEF AgentCrashes, Forgotten, NoRestart, node
<1>13. CASE AgentStarts
  BY <1>13, PcUnchanged DEF AgentStarts, node, counts, flags, update, bounds
<1>14. CASE ShutdownBegins
  <2>1. PcOK'
    BY <1>14, PcUnchanged DEF ShutdownBegins
  <2>2. shouldBeUp' \in BOOLEAN
    BY <1>14 DEF ShutdownBegins
  <2>3. intent' \in {"up", "down", "calm"}
    BY <1>14 DEF ShutdownBegins, StandDown
  <2>4. QED BY <1>14, <2>1, <2>2, <2>3
               DEF ShutdownBegins, node, counts, update
<1>15. QED
  BY <1>1, <1>2, <1>3, <1>4, <1>5, <1>6, <1>7, <1>8, <1>9, <1>10, <1>11,
     <1>12, <1>13, <1>14 DEF TailStep, ShutdownStep, Environment

LEMMA TypeInductive == TypeOK /\ [Next]_vars => TypeOK'
<1> SUFFICES ASSUME TypeOK, [Next]_vars PROVE TypeOK'
  OBVIOUS
<1>1. CASE Next
  BY <1>1, ReceiveType, TaskType, MonitorType, OtherType DEF Next
<1>2. CASE UNCHANGED vars
  BY <1>2 DEF TypeOK, PcOK, vars, node, counts, flags, log, update, bounds
<1>3. QED BY <1>1, <1>2

\* Every variable of the supervisor keeps its type, whatever commands arrive
\* and however the coroutines interleave.
THEOREM TypeCorrect == Spec => []TypeOK
<1>1. Init => TypeOK
  BY InitType
<1>2. TypeOK /\ [Next]_vars => TypeOK'
  BY TypeInductive
<1>3. QED BY <1>1, <1>2, PTL DEF Spec

-----------------------------------------------------------------------------
(* Updates exclude each other *)

\* Where a handler is while it has an update under way.
Marked == {"upd_announce", "upd_apply", "upd_done"}

\* A step that leaves the mark and every handler's place in or out of the
\* protected section alone.
LEMMA ExclusionFrame ==
  ASSUME UpdateExclusion, UNCHANGED updating,
         \A t \in Tasks : Marking(t)' <=> Marking(t)
  PROVE  UpdateExclusion'
BY DEF UpdateExclusion

\* A coroutine moving between two awaits outside the section does just that,
\* and so does one moving between two awaits inside it.
LEMMA MarkingFrame ==
  ASSUME PcOK, NEW p \in Procs, NEW w, Goto(p, w),
         pc[p] \in Marked <=> w \in Marked
  PROVE  \A t \in Tasks : Marking(t)' <=> Marking(t)
BY DEF PcOK, Goto, Holding, Marking, Marked, Procs

LEMMA ExclusionInductive ==
  TypeOK /\ UpdateExclusion /\ [Next]_vars => UpdateExclusion'
<1> SUFFICES ASSUME TypeOK, UpdateExclusion, [Next]_vars
             PROVE  UpdateExclusion'
  OBVIOUS
<1> USE DEF TypeOK, update
<1>1. ASSUME NEW t \in Tasks, Receive(t) PROVE UpdateExclusion'
  <2>1. UNCHANGED updating
    BY <1>1 DEF Receive, ReceiveStart, ReceiveRestart, ReceiveStop,
                ReceiveKill, ReceiveUpdate, Accept
  <2>2. \E w \in {"start_check", "stop_probe", "kill", "upd_probe"} :
          Goto(t, w)
    BY <1>1 DEF Receive, ReceiveStart, ReceiveRestart, ReceiveStop,
                ReceiveKill, ReceiveUpdate
  <2>3. pc[t] = "idle"
    BY <1>1 DEF Receive, ReceiveStart, ReceiveRestart, ReceiveStop,
                ReceiveKill, ReceiveUpdate, Accept
  <2>4. QED BY <2>1, <2>2, <2>3, MarkingFrame, ExclusionFrame
            DEF Procs, Marked
<1>2. ASSUME NEW t \in Tasks, UpdateBegins(t) PROVE UpdateExclusion'
  <2>1. \A u \in Tasks : ~Marking(u)
    BY <1>2 DEF UpdateBegins, UpdateBlocked, UpdateExclusion
  <2>2. \A u \in Tasks : Marking(u)' <=> u = t
    BY <1>2, <2>1 DEF UpdateBegins, Marking, Holding, Goto, PcOK, Procs
  <2>3. updating'
    BY <1>2 DEF UpdateBegins
  <2>4. QED BY <2>2, <2>3 DEF UpdateExclusion
<1>3. ASSUME NEW t \in Tasks, UpdateReleases(t) PROVE UpdateExclusion'
  <2>1. \A u \in Tasks : Marking(u) => u = t
    BY <1>3 DEF UpdateReleases, UpdateExclusion, Marking, Holding
  <2>2. \A u \in Tasks : ~Marking(u)'
    BY <1>3, <2>1 DEF UpdateReleases, Marking, Holding, Goto, PcOK, Procs
  <2>3. QED BY <2>2 DEF UpdateExclusion
<1>4. ASSUME NEW p \in Procs, LaunchStep(p) PROVE UpdateExclusion'
  <2>1. UNCHANGED updating
    BY <1>4 DEF LaunchStep, LaunchClear, LaunchCreate, LaunchRespawn,
                LaunchRaises, LaunchFailed
  <2>2. pc[p] \in LaunchPCs /\ \E w \in LaunchPCs \cup {"idle"} : Goto(p, w)
    BY <1>4 DEF LaunchStep, LaunchClear, LaunchCreate, LaunchRespawn,
                LaunchRaises, LaunchFailed, MayRaise, LaunchPCs
  <2>3. QED BY <2>1, <2>2, MarkingFrame, ExclusionFrame
            DEF LaunchPCs, Marked
<1>5. ASSUME NEW t \in Tasks, TaskStep(t) PROVE UpdateExclusion'
  <2>1. CASE LaunchStep(t) \/ UpdateBegins(t) \/ UpdateReleases(t)
    BY <2>1, <1>2, <1>3, <1>4 DEF Procs
  <2>2. CASE \/ StartCheck(t) \/ StartFindsSession(t) \/ StartAdopts(t)
             \/ StartFindsNone(t) \/ StartSettles(t)
    <3>1. UNCHANGED updating
      BY <2>2 DEF StartCheck, StartFindsSession, StartAdopts, StartFindsNone,
                  StartSettles
    <3>2. pc[t] \in StartPCs /\ \E w \in StartPCs \cup {"idle"} : Goto(t, w)
      BY <2>2 DEF StartCheck, StartFindsSession, StartAdopts, StartFindsNone,
                  StartSettles, StartPCs, LaunchPCs
    <3>3. QED BY <3>1, <3>2, MarkingFrame, ExclusionFrame
              DEF StartPCs, LaunchPCs, Procs, Marked
  <2>3. CASE \/ StopFindsNone(t) \/ StopFindsSession(t) \/ StopTypes(t)
             \/ StopWaited(t) \/ StopDrained(t)
    <3>1. UNCHANGED updating
      BY <2>3 DEF StopFindsNone, StopFindsSession, StopTypes, StopWaited,
                  StopDrained
    <3>2. /\ pc[t] \in StopPCs
          /\ \E w \in StopPCs \cup {"idle", "start_check"} : Goto(t, w)
      BY <2>3 DEF StopFindsNone, StopFindsSession, StopTypes, StopWaited,
                  StopDrained, StopReturns, StopPCs
    <3>3. QED BY <3>1, <3>2, MarkingFrame, ExclusionFrame
              DEF StopPCs, Procs, Marked
  <2>4. CASE \/ KillSession(t) \/ KillReports(t) \/ UpdateRefused(t)
             \/ UpdateAnnounced(t) \/ UpdateInstalls(t) \/ UpdateFails(t)
    <3>1. UNCHANGED updating
      BY <2>4 DEF KillSession, KillReports, UpdateRefused,
                  UpdateAnnounced, UpdateInstalls, UpdateFails
    <3>2. \/ /\ pc[t] \in {"kill", "killed", "upd_probe"}
             /\ \E w \in {"killed", "idle"} : Goto(t, w)
          \/ pc[t] \in Marked /\ \E w \in Marked : Goto(t, w)
      BY <2>4 DEF KillSession, KillReports, UpdateRefused,
                  UpdateAnnounced, UpdateInstalls, UpdateFails, Marked
    <3>3. QED BY <3>1, <3>2, MarkingFrame, ExclusionFrame DEF Procs, Marked
  <2>5. QED BY <1>5, <2>1, <2>2, <2>3, <2>4 DEF TaskStep
<1>6. ASSUME MonitorStep PROVE UpdateExclusion'
  <2>1. CASE LaunchStep(Monitor)
    BY <2>1, <1>4 DEF Procs
  <2>2. CASE MonitorStep /\ ~LaunchStep(Monitor)
    <3>1. UNCHANGED updating
      BY <2>2 DEF MonitorStep, MonitorTick, MonitorFindsSession,
                  MonitorPromotes, MonitorFindsNone, MonitorReadsCrash,
                  MonitorHonoursExit, MonitorOverrulesExit, MonitorReplays,
                  MonitorDrains, RelaunchSettles, Decide
    <3>2. \E w \in MonitorPCs : Goto(Monitor, w)
      BY <2>2 DEF MonitorStep, MonitorTick, MonitorFindsSession,
                  MonitorPromotes, MonitorFindsNone, MonitorReadsCrash,
                  MonitorHonoursExit, MonitorOverrulesExit, MonitorReplays,
                  MonitorDrains, RelaunchSettles, Decide, MonitorPCs, LaunchPCs
    <3>3. pc[Monitor] \in MonitorPCs
      BY DEF PcOK
    <3>4. QED BY <3>1, <3>2, <3>3, MarkingFrame, ExclusionFrame
              DEF MonitorPCs, LaunchPCs, Procs, Marked
  <2>3. QED BY <1>6, <2>1, <2>2
<1>7. ASSUME UNCHANGED <<pc, updating>> PROVE UpdateExclusion'
  BY <1>7 DEF UpdateExclusion, Marking, Holding
<1>8. ASSUME TailStep PROVE UpdateExclusion'
  BY <1>7, <1>8 DEF TailStep, TailReads, TailPromotes
<1>9. ASSUME Forgotten PROVE UpdateExclusion'
  <2>1. \A t \in Tasks : ~Marking(t)'
    BY <1>9 DEF Forgotten, Parked, Marking, Holding, Procs
  <2>2. QED BY <2>1 DEF UpdateExclusion
<1>10. ASSUME ShutdownStep PROVE UpdateExclusion'
  BY <1>7, <1>9, <1>10 DEF ShutdownStep, ShutdownLists, ShutdownTypes,
     ShutdownWaited, KillServer, Exits
<1>11. ASSUME Disconnect PROVE UpdateExclusion'
  <2>1. \A t \in Tasks : ~Marking(t)'
    BY <1>11, ProcsAssumption DEF Disconnect, Marking, Holding, Procs
  <2>2. QED BY <2>1 DEF UpdateExclusion
<1>12. ASSUME Environment PROVE UpdateExclusion'
  BY <1>7, <1>9, <1>11, <1>12 DEF Environment, ServerComesUp, ServerExits,
     SessionVanishes, AgentCrashes, AgentStarts, ShutdownBegins
<1>13. QED BY <1>1, <1>5, <1>6, <1>7, <1>8, <1>10, <1>12 DEF Next, vars

\* No two update commands are ever under way for an instance, and the mark that
\* keeps start and the monitor out stays for as long as one is.
THEOREM UpdatesExclude == Spec => []UpdateExclusion
<1>1. Init => UpdateExclusion
  BY DEF Init, UpdateExclusion, Marking, Holding, Parked, Procs
<1>2. TypeOK /\ UpdateExclusion /\ [Next]_vars => UpdateExclusion'
  BY ExclusionInductive
<1>3. QED BY <1>1, <1>2, TypeCorrect, PTL DEF Spec

-----------------------------------------------------------------------------
(* An uncontended stop is final, a quiet update keeps the instance down *)

LEMMA GotoPc ==
  ASSUME PcOK, NEW p \in Procs, NEW w, Goto(p, w)
  PROVE  \A q \in Procs : pc'[q] = IF q = p THEN w ELSE pc[q]
BY DEF PcOK, Goto

\* Only new_session brings a session into being.
LEMMA OnlyCreateCreates ==
  ASSUME [Next]_vars, session = "none", \A p \in Procs : pc[p] # "create"
  PROVE  session' = "none"
<1> USE DEF node
<1>1. ASSUME NEW p \in Procs, LaunchStep(p) PROVE session' = "none"
  BY <1>1 DEF LaunchStep, LaunchClear, LaunchCreate, LaunchRespawn,
     LaunchRaises, LaunchFailed, MayRaise
<1>2. ASSUME NEW t \in Tasks, Receive(t) PROVE session' = "none"
  BY <1>2 DEF Receive, ReceiveStart, ReceiveRestart, ReceiveStop, ReceiveKill,
     ReceiveUpdate, Accept
<1>3. ASSUME NEW t \in Tasks, TaskStep(t) PROVE session' = "none"
  BY <1>1, <1>3 DEF TaskStep, StartCheck, StartFindsSession, StartAdopts,
     StartFindsNone, StartSettles, StopFindsNone, StopFindsSession, StopTypes,
     StopWaited, StopDrained, AfterVerb, KillSession, KillReports,
     UpdateRefused, UpdateBegins, UpdateAnnounced, UpdateInstalls,
     UpdateFails, UpdateReleases, Procs
<1>4. ASSUME MonitorStep PROVE session' = "none"
  BY <1>1, <1>4 DEF MonitorStep, MonitorTick, MonitorFindsSession,
     MonitorPromotes, MonitorFindsNone, MonitorReadsCrash, MonitorHonoursExit,
     MonitorOverrulesExit, MonitorReplays, MonitorDrains, RelaunchSettles,
     Decide, Procs
<1>5. ASSUME TailStep \/ ShutdownStep \/ Environment PROVE session' = "none"
  BY <1>5 DEF TailStep, TailReads, TailPromotes, ShutdownStep, ShutdownLists,
     ShutdownTypes, ShutdownWaited, KillServer, Exits, AfterVerb, Environment,
     ServerComesUp, ServerExits, SessionVanishes, Disconnect, AgentCrashes,
     AgentStarts, ShutdownBegins
<1>6. QED BY <1>2, <1>3, <1>4, <1>5 DEF Next, vars

\* While the last word was an uncontended stop, supervision is off, no handler
\* is starting anything or about to, and the monitor is nowhere past its look
\* at should_be_up.
Standing == {"idle", "m_probe", "m_promote", "m_drain"}

CalmInv ==
  intent = "calm" =>
    /\ ~shouldBeUp
    /\ \A t \in Tasks : /\ pc[t] \notin StartPCs
                        /\ pc[t] \in StopPCs => restarting[t] = "no"
    /\ pc[Monitor] \in Standing

LEMMA CalmInit == Init => CalmInv
BY ProcsAssumption DEF Init, CalmInv, Parked, Procs, StartPCs, LaunchPCs,
   StopPCs, Standing

LEMMA CalmInductive == TypeOK /\ CalmInv /\ [Next]_vars => CalmInv'
<1> SUFFICES ASSUME TypeOK, CalmInv, [Next]_vars, intent' = "calm"
             PROVE  CalmInv'
  BY DEF CalmInv
<1> USE DEF TypeOK, flags, Standing
<1>1. ASSUME NEW t \in Tasks, Receive(t) PROVE CalmInv'
  <2>1. CASE ReceiveStart(t) \/ ReceiveRestart(t)
    BY <2>1 DEF ReceiveStart, ReceiveRestart
  <2>2. CASE ReceiveStop(t) \/ ReceiveKill(t)
    <3>1. ~shouldBeUp' /\ (intent = "calm" \/ Uncontended)
      BY <2>2 DEF ReceiveStop, ReceiveKill, Disarm, StandDown
    <3>2. \E w \in {"stop_probe", "kill"} :
            /\ Goto(t, w)
            /\ w = "stop_probe" =>
                 restarting' = [restarting EXCEPT ![t] = "no"]
            /\ w = "kill" => restarting' = restarting
      BY <2>2 DEF ReceiveStop, ReceiveKill
    <3>3. \A u \in Tasks : /\ pc[u] \notin StartPCs
                           /\ pc[u] \in StopPCs => restarting[u] = "no"
      BY <3>1 DEF CalmInv, Uncontended, StartPCs, LaunchPCs, StopPCs
    <3>4. pc[Monitor] \in Standing
      BY <3>1 DEF CalmInv, Uncontended
    <3>5. QED BY <3>1, <3>2, <3>3, <3>4, GotoPc, ProcsAssumption
              DEF CalmInv, Procs, StartPCs, LaunchPCs, StopPCs
  <2>3. CASE ReceiveUpdate(t)
    BY <2>3, GotoPc, ProcsAssumption DEF ReceiveUpdate, CalmInv, Procs,
       StartPCs, LaunchPCs, StopPCs
  <2>4. QED BY <1>1, <2>1, <2>2, <2>3 DEF Receive
<1>2. ASSUME NEW t \in Tasks, TaskStep(t) PROVE CalmInv'
  <2>1. intent = "calm"
    BY <1>2 DEF TaskStep, LaunchStep, StartCheck, StartFindsSession,
       StartAdopts, StartFindsNone, StartSettles, LaunchClear, LaunchCreate,
       LaunchRespawn, LaunchRaises, LaunchFailed, StopFindsNone,
       StopFindsSession, StopTypes, StopWaited, StopDrained, KillSession,
       KillReports, UpdateRefused, UpdateBegins, UpdateAnnounced,
       UpdateInstalls, UpdateFails, UpdateReleases
  <2>2. pc[t] \notin StartPCs
    BY <2>1 DEF CalmInv
  <2>3. \/ StopFindsNone(t) \/ StopFindsSession(t) \/ StopTypes(t)
        \/ StopWaited(t) \/ StopDrained(t) \/ KillSession(t)
        \/ KillReports(t) \/ UpdateRefused(t) \/ UpdateBegins(t)
        \/ UpdateAnnounced(t) \/ UpdateInstalls(t) \/ UpdateFails(t)
        \/ UpdateReleases(t)
    BY <1>2, <2>2 DEF TaskStep, LaunchStep, StartCheck, StartFindsSession,
       StartAdopts, StartFindsNone, StartSettles, LaunchClear, LaunchCreate,
       LaunchRespawn, LaunchRaises, LaunchFailed, MayRaise, StartPCs,
       LaunchPCs
  <2>4. \E w \in {"stop_keys", "stop_wait", "stop_drain", "killed",
                  "upd_announce", "upd_apply", "upd_done", "idle"} :
          /\ Goto(t, w)
          /\ w \in StopPCs => pc[t] \in StopPCs
    BY <2>1, <2>3 DEF CalmInv, StopPCs, StopFindsNone, StopFindsSession,
       StopTypes, StopWaited, StopDrained, StopReturns, KillSession,
       KillReports, UpdateRefused, UpdateBegins, UpdateAnnounced,
       UpdateInstalls, UpdateFails, UpdateReleases
  <2>5. UNCHANGED <<shouldBeUp, restarting>>
    BY <2>3 DEF StopFindsNone, StopFindsSession, StopTypes, StopWaited,
       StopDrained, KillSession, KillReports, UpdateRefused, UpdateBegins,
       UpdateAnnounced, UpdateInstalls, UpdateFails, UpdateReleases
  <2>6. QED BY <2>1, <2>4, <2>5, GotoPc, ProcsAssumption
            DEF CalmInv, Procs, StartPCs, LaunchPCs, StopPCs
<1>3. ASSUME MonitorStep PROVE CalmInv'
  <2>1. intent = "calm" /\ UNCHANGED restarting
    BY <1>3 DEF MonitorStep, LaunchStep, MonitorTick, MonitorFindsSession,
       MonitorPromotes, MonitorFindsNone, MonitorReadsCrash,
       MonitorHonoursExit, MonitorOverrulesExit, MonitorReplays,
       MonitorDrains, RelaunchSettles, Decide, LaunchClear, LaunchCreate,
       LaunchRespawn, LaunchRaises, LaunchFailed
  <2>2. pc[Monitor] \in Standing /\ ~shouldBeUp
    BY <2>1 DEF CalmInv
  <2>3. \/ MonitorTick \/ MonitorFindsSession \/ MonitorPromotes
        \/ MonitorFindsNone \/ MonitorDrains
    BY <1>3, <2>2 DEF MonitorStep, LaunchStep, MonitorReadsCrash,
       MonitorHonoursExit, MonitorOverrulesExit, MonitorReplays,
       RelaunchSettles, LaunchClear, LaunchCreate, LaunchRespawn,
       LaunchRaises, LaunchFailed, MayRaise
  <2>4. \E w \in Standing : Goto(Monitor, w)
    BY <2>2, <2>3 DEF MonitorTick, MonitorFindsSession, MonitorPromotes,
       MonitorFindsNone, MonitorDrains
  <2>5. UNCHANGED shouldBeUp
    BY <2>3 DEF MonitorTick, MonitorFindsSession, MonitorPromotes,
       MonitorFindsNone, MonitorDrains
  <2>6. QED BY <2>1, <2>4, <2>5, GotoPc, ProcsAssumption DEF CalmInv, Procs
<1>4. ASSUME Forgotten PROVE CalmInv'
  BY <1>4, ProcsAssumption DEF Forgotten, CalmInv, Parked, NoRestart, Procs,
     StartPCs, LaunchPCs, StopPCs
<1>5. ASSUME UNCHANGED <<shouldBeUp, pc, restarting, intent>> PROVE CalmInv'
  BY <1>5 DEF CalmInv
<1>6. ASSUME TailStep \/ ShutdownStep PROVE CalmInv'
  BY <1>4, <1>5, <1>6 DEF TailStep, TailReads, TailPromotes, ShutdownStep,
     ShutdownLists, ShutdownTypes, ShutdownWaited, KillServer, Exits
<1>7. ASSUME ShutdownBegins PROVE CalmInv'
  <2>1. ~shouldBeUp' /\ (intent = "calm" \/ Uncontended)
    BY <1>7 DEF ShutdownBegins, StandDown
  <2>2. UNCHANGED <<pc, restarting>>
    BY <1>7 DEF ShutdownBegins
  <2>3. QED BY <2>1, <2>2 DEF CalmInv, Uncontended, StartPCs, LaunchPCs,
               StopPCs
<1>8. ASSUME Disconnect PROVE CalmInv'
  BY <1>8, ProcsAssumption DEF Disconnect, CalmInv, NoRestart, Procs, StartPCs,
     LaunchPCs, StopPCs
<1>9. ASSUME Environment PROVE CalmInv'
  BY <1>4, <1>5, <1>7, <1>8, <1>9 DEF Environment, ServerComesUp,
     ServerExits, SessionVanishes, AgentCrashes, AgentStarts
<1>10. QED BY <1>1, <1>2, <1>3, <1>5, <1>6, <1>9 DEF Next, vars

\* After a stop, a kill or a shutdown that found nothing else in flight, no
\* step of any coroutine creates a session until a start or restart arrives.
THEOREM UncontendedStopHolds == Spec => UncontendedStopIsFinal
<1>1. /\ TypeOK /\ CalmInv /\ [Next]_vars
      => [intent = "calm" /\ session = "none" => session' = "none"]_vars
  <2> SUFFICES ASSUME TypeOK, CalmInv, [Next]_vars, intent = "calm",
                      session = "none"
               PROVE  session' = "none"
    BY DEF vars
  <2>1. \A p \in Procs : pc[p] # "create"
    BY DEF CalmInv, Procs, StartPCs, LaunchPCs, Standing
  <2>2. QED BY <2>1, OnlyCreateCreates
<1>2. QED BY <1>1, CalmInit, CalmInductive, TypeCorrect, PTL
          DEF Spec, UncontendedStopIsFinal

\* While a quiet update lasts nobody is between a check of _updating already
\* passed and new_session.
AtRest      == {"idle", "m_promote", "m_drain"}
Approaching == {"start_probe", "clear", "create", "respawn"}

QuietInv ==
  quiet /\ updating =>
    /\ session = "none"
    /\ pc[Monitor] \in AtRest
    /\ \A t \in Tasks : pc[t] \notin Approaching

LEMMA QuietInductive == TypeOK /\ QuietInv /\ [Next]_vars => QuietInv'
<1> SUFFICES ASSUME TypeOK, QuietInv, [Next]_vars, quiet', updating'
             PROVE  QuietInv'
  BY DEF QuietInv
<1> USE DEF TypeOK, update, AtRest
<1>1. ASSUME quiet, updating PROVE session' = "none"
  BY <1>1, OnlyCreateCreates DEF QuietInv, Procs, Approaching
<1>2. ASSUME NEW t \in Tasks, Receive(t) PROVE QuietInv'
  <2>1. quiet /\ updating
    BY <1>2 DEF Receive, ReceiveStart, ReceiveRestart, ReceiveStop,
       ReceiveKill, ReceiveUpdate, Accept
  <2>2. \E w \in {"start_check", "stop_probe", "kill", "upd_probe"} :
          Goto(t, w)
    BY <1>2 DEF Receive, ReceiveStart, ReceiveRestart, ReceiveStop,
       ReceiveKill, ReceiveUpdate
  <2>3. QED BY <1>1, <2>1, <2>2, GotoPc, ProcsAssumption
            DEF QuietInv, Procs, Approaching
<1>3. ASSUME NEW t \in Tasks, UpdateBegins(t) PROVE QuietInv'
  <2>1. session' = "none" /\ Goto(t, "upd_announce")
    BY <1>3 DEF UpdateBegins, UpdateBlocked, node
  <2>2. /\ pc[Monitor] \in AtRest
        /\ \A u \in Tasks : pc[u] \notin Approaching
    BY <1>3 DEF UpdateBegins, Approaching
  <2>3. QED BY <2>1, <2>2, GotoPc, ProcsAssumption
            DEF QuietInv, Procs, Approaching
<1>4. ASSUME NEW t \in Tasks, TaskStep(t), ~UpdateBegins(t) PROVE QuietInv'
  <2>1. ~UpdateReleases(t)
    BY DEF UpdateReleases
  <2>2. quiet /\ updating
    BY <1>4, <2>1 DEF TaskStep, LaunchStep, StartCheck, StartFindsSession,
       StartAdopts, StartFindsNone, StartSettles, LaunchClear, LaunchCreate,
       LaunchRespawn, LaunchRaises, LaunchFailed, StopFindsNone,
       StopFindsSession, StopTypes, StopWaited, StopDrained, KillSession,
       KillReports, UpdateRefused, UpdateAnnounced, UpdateInstalls,
       UpdateFails
  <2>3. pc[t] \notin Approaching
    BY <2>2 DEF QuietInv
  <2>4. \E w : Goto(t, w) /\ w \notin Approaching
    BY <1>4, <2>1, <2>2, <2>3 DEF Approaching, TaskStep, LaunchStep,
       StartCheck, StartFindsSession, StartAdopts, StartFindsNone,
       StartSettles, LaunchClear, LaunchCreate, LaunchRespawn, LaunchRaises,
       MayRaise, LaunchFailed, StopFindsNone, StopFindsSession, StopTypes,
       StopWaited, StopDrained, StopReturns, KillSession, KillReports,
       UpdateRefused, UpdateAnnounced, UpdateInstalls, UpdateFails
  <2>5. QED BY <1>1, <2>2, <2>4, GotoPc, ProcsAssumption DEF QuietInv, Procs
<1>5. ASSUME MonitorStep PROVE QuietInv'
  <2>1. quiet /\ updating
    BY <1>5 DEF MonitorStep, LaunchStep, MonitorTick, MonitorFindsSession,
       MonitorPromotes, MonitorFindsNone, MonitorReadsCrash,
       MonitorHonoursExit, MonitorOverrulesExit, MonitorReplays,
       MonitorDrains, RelaunchSettles, Decide, LaunchClear, LaunchCreate,
       LaunchRespawn, LaunchRaises, LaunchFailed
  <2>2. MonitorPromotes \/ MonitorDrains
    BY <1>5, <2>1 DEF QuietInv, MonitorStep, LaunchStep, MonitorTick,
       MonitorMayLook, MonitorFindsSession, MonitorFindsNone,
       MonitorReadsCrash, MonitorHonoursExit, MonitorOverrulesExit,
       MonitorReplays, RelaunchSettles, LaunchClear, LaunchCreate,
       LaunchRespawn, LaunchRaises, LaunchFailed, MayRaise
  <2>3. Goto(Monitor, "idle")
    BY <2>2 DEF MonitorPromotes, MonitorDrains
  <2>4. QED BY <1>1, <2>1, <2>3, GotoPc, ProcsAssumption DEF QuietInv, Procs
<1>6. ASSUME UNCHANGED <<pc, quiet, updating>> PROVE QuietInv'
  BY <1>1, <1>6 DEF QuietInv
<1>7. ASSUME TailStep \/ ShutdownStep PROVE QuietInv'
  BY <1>6, <1>7 DEF TailStep, TailReads, TailPromotes, ShutdownStep,
     ShutdownLists, ShutdownTypes, ShutdownWaited, KillServer, Exits,
     Forgotten
<1>8. ASSUME Disconnect PROVE QuietInv'
  BY <1>1, <1>8, ProcsAssumption DEF Disconnect, QuietInv, Procs, Approaching
<1>9. ASSUME Environment PROVE QuietInv'
  BY <1>6, <1>8, <1>9 DEF Environment, ServerComesUp, ServerExits,
     SessionVanishes, AgentCrashes, AgentStarts, ShutdownBegins, Forgotten
<1>10. QED BY <1>2, <1>3, <1>4, <1>5, <1>6, <1>7, <1>9 DEF Next, vars

\* The jar of an instance whose update began with no launch on its way is
\* never swapped under a running server.
THEOREM QuietUpdateHolds == Spec => []QuietUpdateKeepsDown
<1>1. Init => QuietInv
  BY DEF Init, QuietInv
<1>2. TypeOK /\ QuietInv /\ [Next]_vars => QuietInv'
  BY QuietInductive
<1>3. QuietInv => QuietUpdateKeepsDown
  BY DEF QuietInv, QuietUpdateKeepsDown
<1>4. QED BY <1>1, <1>2, <1>3, TypeCorrect, PTL DEF Spec

-----------------------------------------------------------------------------
(* The restart policy is bounded *)

\* The share of the budget the counted crashes stand for.  A count beyond the
\* limit is left from a policy that gave up: a start that adopts a session
\* does not clear it, and the next counted crash restarts it or gives up.
Spent == (IF crashTimes <= CrashLimit THEN crashTimes ELSE 0)
           * LaunchFailureLimit

\* From the monitor's look at should_be_up to its new_session.
Judging == {"m_read", "m_replay", "clear", "create"}

\* The monitor may still relaunch without an operator's start.
Armed == shouldBeUp \/ pc[Monitor] \in Judging

\* Once the exit has been counted, the relaunch it leads to is paid for.  A
\* readiness line read after _launch lowered ready clears the count, but then
\* the new run counts as one that came up.
BudgetInv ==
  /\ RelaunchBudget
  /\ Armed => /\ launchFailures < LaunchFailureLimit
              /\ relaunches <= Spent + LaunchFailureLimit
              /\ ~ready => relaunches <= Spent + launchFailures + 1
  /\ pc[Monitor] \in Judging /\ session # "none" => relaunches = 0
  /\ pc[Monitor] = "clear" => relaunches <= Spent + launchFailures
  /\ pc[Monitor] = "create" =>
       /\ relaunches < Spent + LaunchFailureLimit
       /\ ~ready => relaunches <= Spent + launchFailures

LEMMA LimitTimes == \A c \in Nat : c * LaunchFailureLimit \in Nat
BY LimitAssumption

\* One more crash buys LaunchFailureLimit more relaunches.
LEMMA OneMoreCrash ==
  \A c \in Nat : (c + 1) * LaunchFailureLimit
                   = c * LaunchFailureLimit + LaunchFailureLimit
BY LimitAssumption

LEMMA LimitMonotonic ==
  \A c, d \in Nat :
    c <= d => c * LaunchFailureLimit <= d * LaunchFailureLimit
BY LimitAssumption

LEMMA SpentBounded ==
  ASSUME TypeOK
  PROVE  Spent \in Nat /\ Spent <= CrashLimit * LaunchFailureLimit
<1> DEFINE c == IF crashTimes <= CrashLimit THEN crashTimes ELSE 0
<1>1. c \in Nat /\ c <= CrashLimit
  BY LimitAssumption DEF TypeOK
<1> HIDE DEF c
<1>2. /\ c * LaunchFailureLimit \in Nat
      /\ c * LaunchFailureLimit <= CrashLimit * LaunchFailureLimit
  BY <1>1, LimitTimes, LimitMonotonic, LimitAssumption
<1>3. QED BY <1>2 DEF Spent, c

\* The arithmetic of the exits and of the relaunch, over numbers: r relaunches,
\* a share s of the budget and f futile launches.
LEMMA NothingSpent ==
  \A s, f \in Nat : /\ 0 <= s + LaunchFailureLimit /\ 0 <= s + f
                     /\ 0 < s + LaunchFailureLimit /\ 0 <= s + f + 1
BY LimitAssumption

LEMMA CrashCounted ==
  \A r, s, s1, f \in Nat :
    r <= s + LaunchFailureLimit /\ s1 = s + LaunchFailureLimit
      => /\ r <= s1 + f /\ r <= s1 + f + 1
         /\ r <= s1 + LaunchFailureLimit
BY LimitAssumption

LEMMA FutileCounted ==
  \A r, s, f, f1 \in Nat :
    r <= s + LaunchFailureLimit /\ r <= s + f + 1 /\ f1 = f + 1
      => /\ r <= s + f1 /\ r <= s + f1 + 1
         /\ r <= s + LaunchFailureLimit
BY LimitAssumption

LEMMA RoomForOne ==
  \A r, s, f \in Nat :
    r <= s + f /\ f < LaunchFailureLimit => r < s + LaunchFailureLimit
BY LimitAssumption

LEMMA OneMoreRelaunch ==
  \A r, s, c \in Nat :
    r < s + LaunchFailureLimit /\ s <= c
      => /\ r + 1 <= c + LaunchFailureLimit
         /\ r + 1 <= s + LaunchFailureLimit
BY LimitAssumption

LEMMA OneMoreFutile == \A r, s, f \in Nat : r <= s + f => r + 1 <= s + f + 1
OBVIOUS

\* A step that touches no counter, neither arms supervision nor creates a
\* session, and takes the monitor into its judgement only from a look that
\* found it armed and gone.
LEMMA BudgetFrame ==
  ASSUME BudgetInv,
         UNCHANGED <<crashTimes, launchFailures, relaunches, ready>>,
         shouldBeUp' => shouldBeUp,
         session' # "none" => session # "none",
         pc'[Monitor] \in Judging =>
           pc[Monitor] \in Judging \/ (shouldBeUp /\ session = "none"),
         pc'[Monitor] \in {"clear", "create"} => pc'[Monitor] = pc[Monitor]
  PROVE  BudgetInv'
BY DEF BudgetInv, RelaunchBudget, Spent, Armed, Judging

\* A step that starts the count anew.
LEMMA BudgetReset ==
  ASSUME TypeOK', relaunches' = 0,
         Armed' => launchFailures' < LaunchFailureLimit
  PROVE  BudgetInv'
<1>1. Spent' \in Nat /\ launchFailures' \in Nat
  <2>1. launchFailures' \in Nat /\ crashTimes' \in Nat
    BY DEF TypeOK
  <2>2. Spent' \in Nat
    BY <2>1, LimitTimes DEF Spent
  <2>3. QED BY <2>1, <2>2
<1>2. 0 <= (CrashLimit + 1) * LaunchFailureLimit
  BY LimitAssumption
<1>3. /\ relaunches' <= Spent' + LaunchFailureLimit
      /\ relaunches' <= Spent' + launchFailures' + 1
      /\ relaunches' <= Spent' + launchFailures'
      /\ relaunches' < Spent' + LaunchFailureLimit
  BY <1>1, NothingSpent
<1>4. RelaunchBudget'
  BY <1>2 DEF RelaunchBudget
<1>5. QED BY <1>3, <1>4 DEF BudgetInv

LEMMA BudgetInit == Init => BudgetInv
<1> SUFFICES ASSUME Init PROVE BudgetInv
  OBVIOUS
<1>1. 0 <= (CrashLimit + 1) * LaunchFailureLimit
  BY LimitAssumption
<1>2. ~Armed /\ pc[Monitor] = "idle" /\ relaunches = 0
  BY DEF Init, Parked, Procs, Armed, Judging
<1>3. QED BY <1>1, <1>2 DEF BudgetInv, RelaunchBudget, Judging

\* The log follower reads a readiness line, or the grace period is over: the
\* futile launches are forgiven, of a run that counts as up from here on.
LEMMA BudgetReady ==
  ASSUME TypeOK, BudgetInv, ready', launchFailures' = 0,
         UNCHANGED <<session, crashTimes, relaunches, shouldBeUp>>,
         pc'[Monitor] = pc[Monitor] \/ pc'[Monitor] \notin Judging,
         pc'[Monitor] # "clear"
  PROVE  BudgetInv'
<1>1. Spent' = Spent
  BY DEF Spent
<1>2. pc'[Monitor] \in Judging => pc'[Monitor] = pc[Monitor]
  OBVIOUS
<1>3. RelaunchBudget'
  BY DEF BudgetInv, RelaunchBudget
<1>4. Armed' => Armed
  BY <1>2 DEF Armed
<1>5. Armed' => relaunches' <= Spent' + LaunchFailureLimit
  BY <1>1, <1>4 DEF BudgetInv
<1>6. pc'[Monitor] = "create" => relaunches' < Spent' + LaunchFailureLimit
  BY <1>1, <1>2 DEF BudgetInv, Judging
<1>7. pc'[Monitor] \in Judging /\ session' # "none" => relaunches' = 0
  BY <1>2 DEF BudgetInv
<1>8. launchFailures' < LaunchFailureLimit
  BY LimitAssumption
<1>9. QED BY <1>3, <1>5, <1>6, <1>7, <1>8 DEF BudgetInv

\* The verdict: the exit is counted, so one more relaunch is within budget.
LEMMA BudgetDecide ==
  ASSUME TypeOK, TypeOK', BudgetInv, NEW cleanExit, Decide(cleanExit),
         pc[Monitor] \in {"m_read", "m_replay"}
  PROVE  BudgetInv'
<1> USE DEF TypeOK
<1>1. /\ launchFailures < LaunchFailureLimit
      /\ relaunches <= Spent + LaunchFailureLimit
      /\ ~ready => relaunches <= Spent + launchFailures + 1
      /\ session # "none" => relaunches = 0
  BY DEF BudgetInv, Judging, Armed
<1>2. Spent \in Nat /\ Spent' \in Nat
  BY SpentBounded, LimitTimes DEF Spent
<1>3. UNCHANGED <<session, ready>>
  BY DEF Decide, node
<1>4. relaunches' <= relaunches
  BY DEF Decide, CountExit
<1>5. RelaunchBudget'
  BY <1>4, LimitAssumption DEF BudgetInv, RelaunchBudget
<1>6. session' # "none" => relaunches' = 0
  BY <1>1, <1>3, <1>4
<1>7. CASE Goto(Monitor, "idle") /\ ~shouldBeUp'
  <2>1. pc'[Monitor] = "idle"
    BY <1>7, GotoPc DEF Procs
  <2>2. pc'[Monitor] \notin Judging
    BY <2>1 DEF Judging
  <2>3. ~Armed'
    BY <1>7, <2>2 DEF Armed
  <2>4. QED BY <1>5, <2>2, <2>3 DEF BudgetInv, Judging
<1>8. CASE ~Exhausted(ready)
  <2>1. launchFailures' < LaunchFailureLimit
    BY <1>1, <1>8, LimitAssumption DEF Decide, CountExit, Exhausted
  <2>2. /\ relaunches' <= Spent' + launchFailures'
        /\ relaunches' <= Spent' + launchFailures' + 1
        /\ relaunches' <= Spent' + LaunchFailureLimit
    <3>1. CASE relaunches' = 0
      BY <3>1, <1>2, NothingSpent
    <3>2. CASE ready /\ relaunches' # 0
      <4>1. relaunches' = relaunches /\ crashTimes' = crashTimes + 1
        BY <3>2 DEF Decide, CountExit
      <4>2. crashTimes + 1 <= CrashLimit
        BY <1>8, <3>2, <4>1, LimitAssumption DEF Exhausted
      <4>3. Spent' = Spent + LaunchFailureLimit
        BY <4>1, <4>2, OneMoreCrash, LimitAssumption DEF Spent
      <4>4. QED BY <1>1, <1>2, <4>1, <4>3, CrashCounted
    <3>3. CASE ~ready
      <4>1. /\ Spent' = Spent
            /\ relaunches' = relaunches
            /\ launchFailures' = launchFailures + 1
        BY <3>3 DEF Decide, CountExit, Spent
      <4>2. QED BY <1>1, <1>2, <3>3, <4>1, FutileCounted
    <3>4. QED BY <3>1, <3>2, <3>3
  <2>3. relaunches' < Spent' + LaunchFailureLimit
    BY <1>2, <2>1, <2>2, RoomForOne
  <2>4. QED BY <1>5, <1>6, <2>1, <2>2, <2>3 DEF BudgetInv
<1>9. QED BY <1>7, <1>8 DEF Decide

\* The monitor is about to relaunch, and does.
LEMMA BudgetRelaunch ==
  ASSUME TypeOK, TypeOK', BudgetInv,
         LaunchClear(Monitor) \/ LaunchCreate(Monitor)
  PROVE  BudgetInv'
<1> USE DEF TypeOK
<1>1. /\ launchFailures < LaunchFailureLimit
      /\ relaunches <= Spent + LaunchFailureLimit
      /\ session # "none" => relaunches = 0
      /\ RelaunchBudget
  BY DEF LaunchClear, LaunchCreate, BudgetInv, Judging, Armed
<1>2. Spent \in Nat /\ Spent <= CrashLimit * LaunchFailureLimit
  BY SpentBounded
<1>3. Spent' = Spent /\ UNCHANGED launchFailures
  BY DEF LaunchClear, LaunchCreate, Spent, counts
<1>4. CASE LaunchClear(Monitor)
  <2>1. UNCHANGED <<relaunches, session>>
    BY <1>4 DEF LaunchClear
  <2>2. relaunches <= Spent + launchFailures
    BY <1>4 DEF LaunchClear, BudgetInv
  <2>3. /\ relaunches <= Spent + launchFailures + 1
        /\ relaunches < Spent + LaunchFailureLimit
    BY <1>1, <1>2, <2>2, RoomForOne
  <2>4. QED BY <1>1, <1>3, <2>1, <2>2, <2>3 DEF BudgetInv, RelaunchBudget
<1>5. CASE LaunchCreate(Monitor)
  <2>1. relaunches' = relaunches + 1 /\ UNCHANGED ready
    BY <1>5 DEF LaunchCreate, flags
  <2>2. pc'[Monitor] \notin Judging
    BY <1>5, GotoPc DEF LaunchCreate, Judging, Procs
  <2>3. /\ relaunches < Spent + LaunchFailureLimit
        /\ ~ready => relaunches <= Spent + launchFailures
    BY <1>5 DEF LaunchCreate, BudgetInv
  <2>4. /\ relaunches + 1 <= CrashLimit * LaunchFailureLimit
                                + LaunchFailureLimit
        /\ relaunches + 1 <= Spent + LaunchFailureLimit
    BY <1>2, <2>3, OneMoreRelaunch, LimitTimes, LimitAssumption
  <2>5. ~ready => relaunches + 1 <= Spent + launchFailures + 1
    BY <1>2, <2>3, OneMoreFutile
  <2>6. RelaunchBudget'
    BY <2>1, <2>4, OneMoreCrash, LimitAssumption DEF RelaunchBudget
  <2>7. QED BY <1>1, <1>3, <2>1, <2>2, <2>4, <2>5, <2>6 DEF BudgetInv, Judging
<1>6. QED BY <1>4, <1>5

LEMMA BudgetInductive ==
  TypeOK /\ TypeOK' /\ BudgetInv /\ [Next]_vars => BudgetInv'
<1> SUFFICES ASSUME TypeOK, TypeOK', BudgetInv, [Next]_vars
             PROVE  BudgetInv'
  OBVIOUS
<1>p. PcOK
  BY DEF TypeOK
<1>0. ASSUME UNCHANGED <<counts, relaunches, ready>>,
             shouldBeUp' => shouldBeUp,
             session' # "none" => session # "none",
             pc'[Monitor] = pc[Monitor] \/ pc'[Monitor] \notin Judging
      PROVE  BudgetInv'
  BY <1>0, BudgetFrame DEF counts, Judging
<1>1. ASSUME NEW t \in Tasks, NEW w, Goto(t, w)
      PROVE  pc'[Monitor] = pc[Monitor]
  BY <1>1, <1>p, ProcsAssumption, GotoPc DEF Procs
<1>2. ASSUME NEW t \in Tasks, Receive(t) PROVE BudgetInv'
  <2>1. \E w : Goto(t, w)
    BY <1>2 DEF Receive, ReceiveStart, ReceiveRestart, ReceiveStop,
       ReceiveKill, ReceiveUpdate
  <2>2. /\ UNCHANGED <<counts, relaunches, ready, session>>
        /\ shouldBeUp' => shouldBeUp
    BY <1>2 DEF Receive, ReceiveStart, ReceiveRestart, ReceiveStop,
       ReceiveKill, ReceiveUpdate, Accept, Disarm, node
  <2>3. QED BY <1>0, <1>1, <2>1, <2>2
<1>3. ASSUME NEW t \in Tasks,
             \/ StartFindsSession(t) \/ StartSettles(t)
             \/ LaunchClear(t) \/ LaunchCreate(t)
      PROVE  BudgetInv'
  <2>1. relaunches' = 0
    BY <1>3, ProcsAssumption DEF StartFindsSession, StartSettles, LaunchClear,
       LaunchCreate
  <2>2. pc'[Monitor] = pc[Monitor]
    BY <1>3, <1>1 DEF StartFindsSession, StartSettles, LaunchClear,
       LaunchCreate
  <2>3. launchFailures' = 0 \/ UNCHANGED <<launchFailures, shouldBeUp>>
    BY <1>3 DEF StartFindsSession, StartSettles, LaunchClear, LaunchCreate,
       flags, counts
  <2>4. Armed' => launchFailures' < LaunchFailureLimit
    BY <2>2, <2>3, LimitAssumption DEF BudgetInv, Armed
  <2>5. QED BY <2>1, <2>4, BudgetReset
<1>4. ASSUME NEW p \in Procs,
             LaunchRespawn(p) \/ LaunchRaises(p) \/ LaunchFailed(p)
      PROVE  BudgetInv'
  <2>1. \E w : Goto(p, w) /\ w \notin Judging
    BY <1>4 DEF LaunchRespawn, LaunchRaises, LaunchFailed, Judging
  <2>2. pc'[Monitor] = pc[Monitor] \/ pc'[Monitor] \notin Judging
    BY <1>p, <2>1, GotoPc DEF Procs
  <2>3. /\ UNCHANGED <<counts, relaunches, ready, shouldBeUp>>
        /\ session' # "none" => session # "none"
    BY <1>4 DEF LaunchRespawn, LaunchRaises, LaunchFailed, flags, node
  <2>4. QED BY <1>0, <2>2, <2>3
<1>5. ASSUME NEW t \in Tasks, TaskStep(t) PROVE BudgetInv'
  <2>1. CASE \/ StartFindsSession(t) \/ StartSettles(t)
             \/ LaunchClear(t) \/ LaunchCreate(t)
    BY <2>1, <1>3
  <2>2. CASE LaunchRespawn(t) \/ LaunchRaises(t) \/ LaunchFailed(t)
    BY <2>2, <1>4 DEF Procs
  <2>3. CASE \/ StartCheck(t) \/ StartAdopts(t) \/ StartFindsNone(t)
             \/ StopFindsNone(t) \/ StopFindsSession(t) \/ StopTypes(t)
             \/ StopWaited(t) \/ StopDrained(t) \/ KillSession(t)
             \/ KillReports(t) \/ UpdateRefused(t) \/ UpdateBegins(t)
             \/ UpdateAnnounced(t) \/ UpdateInstalls(t) \/ UpdateFails(t)
             \/ UpdateReleases(t)
    <3>1. \E w : Goto(t, w)
      BY <2>3 DEF StartCheck, StartAdopts, StartFindsNone, StopFindsNone,
         StopFindsSession, StopTypes, StopWaited, StopDrained, StopReturns,
         KillSession, KillReports, UpdateRefused, UpdateBegins,
         UpdateAnnounced, UpdateInstalls, UpdateFails, UpdateReleases
    <3>2. /\ UNCHANGED <<counts, relaunches, ready, shouldBeUp>>
          /\ session' # "none" => session # "none"
      BY <2>3 DEF StartCheck, StartAdopts, StartFindsNone, StopFindsNone,
         StopFindsSession, StopTypes, StopWaited, StopDrained, AfterVerb,
         KillSession, KillReports, UpdateRefused, UpdateBegins,
         UpdateAnnounced, UpdateInstalls, UpdateFails, UpdateReleases, flags,
         node
    <3>3. QED BY <1>0, <1>1, <3>1, <3>2
  <2>4. QED BY <1>5, <2>1, <2>2, <2>3 DEF TaskStep, LaunchStep
<1>6. ASSUME MonitorFindsSession PROVE BudgetInv'
  <2>1. CASE Goto(Monitor, "idle") /\ UNCHANGED <<ready, launchFailures>>
    <3>1. pc'[Monitor] \notin Judging
      BY <2>1, <1>p, GotoPc DEF Procs, Judging
    <3>2. QED BY <1>6, <2>1, <3>1, <1>0
              DEF MonitorFindsSession, counts, node
  <2>2. CASE ready' /\ launchFailures' = 0 /\ Goto(Monitor, "m_promote")
    <3>1. pc'[Monitor] \notin Judging
      BY <2>2, <1>p, GotoPc DEF Procs, Judging
    <3>2. session # "none"
          /\ UNCHANGED <<session, crashTimes, relaunches, shouldBeUp>>
      BY <1>6 DEF MonitorFindsSession, node
    <3>3. QED BY <2>2, <3>1, <3>2, BudgetReady DEF Judging
  <2>3. QED BY <1>6, <2>1, <2>2 DEF MonitorFindsSession
<1>7. ASSUME MonitorFindsNone \/ MonitorReadsCrash PROVE BudgetInv'
  <2>1. UNCHANGED <<counts, relaunches, ready, shouldBeUp, session>>
    BY <1>7 DEF MonitorFindsNone, MonitorReadsCrash, flags, node
  <2>2. /\ pc'[Monitor] \in {"idle", "m_read", "m_replay"}
        /\ pc'[Monitor] \in Judging =>
             pc[Monitor] \in Judging \/ (shouldBeUp /\ session = "none")
    BY <1>7, <1>p, GotoPc DEF MonitorFindsNone, MonitorReadsCrash, Judging,
       Procs
  <2>3. QED BY <2>1, <2>2, BudgetFrame DEF counts
<1>8. ASSUME MonitorHonoursExit PROVE BudgetInv'
  <2>1. relaunches' = 0 /\ launchFailures' = 0
    BY <1>8 DEF MonitorHonoursExit
  <2>2. QED BY <2>1, LimitAssumption, BudgetReset
<1>9. ASSUME MonitorOverrulesExit \/ MonitorReplays PROVE BudgetInv'
  BY <1>9, BudgetDecide DEF MonitorOverrulesExit, MonitorReplays
<1>10. ASSUME MonitorTick \/ MonitorPromotes \/ MonitorDrains
              \/ RelaunchSettles
       PROVE  BudgetInv'
  <2>1. \E w : Goto(Monitor, w) /\ w \notin Judging
    BY <1>10 DEF MonitorTick, MonitorPromotes, MonitorDrains, RelaunchSettles,
       Judging
  <2>2. pc'[Monitor] \notin Judging
    BY <2>1, <1>p, GotoPc DEF Procs
  <2>3. UNCHANGED <<counts, relaunches, ready, shouldBeUp, session>>
    BY <1>10 DEF MonitorTick, MonitorPromotes, MonitorDrains, RelaunchSettles,
       flags, node
  <2>4. QED BY <1>0, <2>2, <2>3
<1>11. ASSUME MonitorStep PROVE BudgetInv'
  BY <1>4, <1>6, <1>7, <1>8, <1>9, <1>10, <1>11, BudgetRelaunch
     DEF MonitorStep, LaunchStep, Procs
<1>12. ASSUME TailReads PROVE BudgetInv'
  <2>1. UNCHANGED <<session, crashTimes, shouldBeUp, pc>>
    BY <1>12 DEF TailReads, node
  <2>2. CASE ready
    <3>1. UNCHANGED <<launchFailures, relaunches, ready>>
      BY <1>12, <2>2 DEF TailReads, TailForgetsFailure, TypeOK
    <3>2. QED BY <1>0, <2>1, <3>1 DEF counts
  <2>3. CASE TailForgetsFailure
    <3>1. relaunches' = 0 /\ launchFailures' = 0
      BY <1>12, <2>3 DEF TailReads, TailForgetsFailure
    <3>2. QED BY <3>1, LimitAssumption, BudgetReset
  <2>4. CASE ~ready /\ ~TailForgetsFailure
    <3>1. ready' /\ launchFailures' = 0 /\ UNCHANGED relaunches
      BY <1>12, <2>4 DEF TailReads
    <3>2. pc'[Monitor] # "clear"
      BY <2>1, <2>4 DEF TailForgetsFailure
    <3>3. QED BY <2>1, <3>1, <3>2, BudgetReady
  <2>5. QED BY <2>2, <2>3, <2>4
<1>13. ASSUME Exits \/ AgentCrashes PROVE BudgetInv'
  <2>1. relaunches' = 0 /\ launchFailures' = 0
    BY <1>13 DEF Exits, AgentCrashes, Forgotten
  <2>2. QED BY <2>1, LimitAssumption, BudgetReset
<1>14. ASSUME \/ TailPromotes \/ ShutdownLists \/ ShutdownTypes
              \/ ShutdownWaited \/ KillServer \/ ShutdownBegins
              \/ ServerComesUp \/ ServerExits \/ SessionVanishes
              \/ AgentStarts \/ Disconnect \/ UNCHANGED vars
       PROVE  BudgetInv'
  <2>1. /\ UNCHANGED <<counts, relaunches, ready>>
        /\ shouldBeUp' => shouldBeUp
        /\ session' # "none" => session # "none"
    BY <1>14 DEF TailPromotes, ShutdownLists, ShutdownTypes, AfterVerb,
       ShutdownWaited, KillServer, ShutdownBegins, ServerComesUp, ServerExits,
       SessionVanishes, AgentStarts, Disconnect, vars, flags, counts, node
  <2>2. pc'[Monitor] = pc[Monitor]
    BY <1>14 DEF TailPromotes, ShutdownLists, ShutdownTypes,
       ShutdownWaited, KillServer, ShutdownBegins, ServerComesUp, ServerExits,
       SessionVanishes, AgentStarts, Disconnect, vars, Procs
  <2>3. QED BY <1>0, <2>1, <2>2
<1>15. QED BY <1>2, <1>5, <1>11, <1>12, <1>13, <1>14
           DEF Next, TailStep, ShutdownStep, Environment

\* However its exits are classified, whatever start interleaves with it and
\* whenever the follower reads a dead run's readiness line, the monitor's
\* relaunches since the last grant stay within the product of the two limits.
THEOREM RelaunchesBounded == Spec => []RelaunchBudget
<1>1. BudgetInv => RelaunchBudget
  BY DEF BudgetInv
<1>2. QED BY <1>1, BudgetInit, BudgetInductive, TypeCorrect, PTL DEF Spec

-----------------------------------------------------------------------------
(* The exit status is that of the run *)

\* A session, and a launch about to make one, find no status of an earlier run.
StatusInv ==
  session # "none" \/ (\E p \in Procs : pc[p] = "create")
    => exitStatus = "none"

\* Coroutines stay where they are, or one of them moves on.
StatusKept ==
  /\ UNCHANGED exitStatus
  /\ \A p \in Procs : pc'[p] = "create" => pc[p] = "create"

\* A coroutine that moves on to any other await than new_session.
LEMMA StatusFrame ==
  ASSUME PcOK, UNCHANGED exitStatus, NEW p \in Procs, NEW w, Goto(p, w),
         w # "create"
  PROVE  StatusKept
BY GotoPc DEF StatusKept

\* Only a server that ends writes a status and only _clear_exit_status takes a
\* launch to new_session.
LEMMA StatusSteps ==
  ASSUME PcOK, [Next]_vars
  PROVE  ServerExits \/ exitStatus' = "none" \/ StatusKept
<1> USE DEF node
<1>1. ASSUME NEW p \in Procs, LaunchStep(p)
      PROVE  exitStatus' = "none" \/ StatusKept
  <2>1. CASE LaunchClear(p)
    BY <2>1 DEF LaunchClear, ClearExitStatus
  <2>2. CASE \/ LaunchCreate(p) \/ LaunchRespawn(p) \/ LaunchRaises(p)
             \/ LaunchFailed(p)
    <3>1. UNCHANGED exitStatus /\ \E w : Goto(p, w) /\ w # "create"
      BY <2>2 DEF LaunchCreate, LaunchRespawn, LaunchRaises, LaunchFailed
    <3>2. QED BY <3>1, StatusFrame
  <2>3. QED BY <1>1, <2>1, <2>2 DEF LaunchStep
<1>2. ASSUME NEW t \in Tasks, Receive(t) PROVE StatusKept
  <2>1. UNCHANGED exitStatus /\ \E w : Goto(t, w) /\ w # "create"
    BY <1>2 DEF Receive, ReceiveStart, ReceiveRestart, ReceiveStop,
       ReceiveKill, ReceiveUpdate, Accept
  <2>2. QED BY <2>1, StatusFrame DEF Procs
<1>3. ASSUME NEW t \in Tasks, TaskStep(t)
      PROVE  exitStatus' = "none" \/ StatusKept
  <2>1. CASE LaunchStep(t)
    BY <2>1, <1>1 DEF Procs
  <2>2. CASE ~LaunchStep(t)
    <3>1. \/ StartCheck(t) \/ StartFindsSession(t) \/ StartAdopts(t)
          \/ StartFindsNone(t) \/ StartSettles(t) \/ StopFindsNone(t)
          \/ StopFindsSession(t) \/ StopTypes(t) \/ StopWaited(t)
          \/ StopDrained(t) \/ KillSession(t) \/ KillReports(t)
          \/ UpdateRefused(t) \/ UpdateBegins(t) \/ UpdateAnnounced(t)
          \/ UpdateInstalls(t) \/ UpdateFails(t) \/ UpdateReleases(t)
      BY <1>3, <2>2 DEF TaskStep
    <3>2. UNCHANGED exitStatus
      BY <3>1 DEF StartCheck, StartFindsSession, StartAdopts,
         StartFindsNone, StartSettles, StopFindsNone, StopFindsSession,
         StopTypes, StopWaited, StopDrained, KillSession, KillReports,
         UpdateRefused, UpdateBegins, UpdateAnnounced, UpdateInstalls,
         UpdateFails, UpdateReleases
    <3>3. CASE \/ StartCheck(t) \/ StartFindsSession(t) \/ StartAdopts(t)
               \/ StartFindsNone(t) \/ StartSettles(t)
      <4>1. \E w : Goto(t, w) /\ w # "create"
        BY <3>3 DEF StartCheck, StartFindsSession, StartAdopts,
           StartFindsNone, StartSettles
      <4>2. QED BY <3>2, <4>1, StatusFrame DEF Procs
    <3>4. CASE \/ StopFindsNone(t) \/ StopFindsSession(t) \/ StopTypes(t)
               \/ StopWaited(t) \/ StopDrained(t)
      <4>1. \E w \in {"stop_keys", "stop_wait", "stop_drain", "idle",
                      "start_check"} : Goto(t, w)
        BY <3>4 DEF StopFindsNone, StopFindsSession, StopTypes, StopWaited,
           StopDrained, StopReturns
      <4>2. QED BY <3>2, <4>1, StatusFrame DEF Procs
    <3>5. CASE \/ KillSession(t) \/ KillReports(t) \/ UpdateRefused(t)
               \/ UpdateBegins(t) \/ UpdateAnnounced(t) \/ UpdateInstalls(t)
               \/ UpdateFails(t) \/ UpdateReleases(t)
      <4>1. \E w \in {"killed", "idle", "upd_announce", "upd_apply",
                      "upd_done"} : Goto(t, w)
        BY <3>5 DEF KillSession, KillReports, UpdateRefused, UpdateBegins,
           UpdateAnnounced, UpdateInstalls, UpdateFails, UpdateReleases
      <4>2. QED BY <3>2, <4>1, StatusFrame DEF Procs
    <3>6. QED BY <3>1, <3>3, <3>4, <3>5
  <2>3. QED BY <2>1, <2>2
<1>4. ASSUME MonitorStep PROVE exitStatus' = "none" \/ StatusKept
  <2>1. CASE LaunchStep(Monitor)
    BY <2>1, <1>1 DEF Procs
  <2>2. CASE ~LaunchStep(Monitor)
    <3>1. UNCHANGED exitStatus /\ \E w : Goto(Monitor, w) /\ w # "create"
      BY <1>4, <2>2 DEF MonitorStep, MonitorTick, MonitorFindsSession,
         MonitorPromotes, MonitorFindsNone, MonitorReadsCrash,
         MonitorHonoursExit, MonitorOverrulesExit, MonitorReplays,
         MonitorDrains, RelaunchSettles, Decide
    <3>2. QED BY <3>1, StatusFrame DEF Procs
  <2>3. QED BY <2>1, <2>2
<1>5. ASSUME UNCHANGED <<exitStatus, pc>> PROVE StatusKept
  BY <1>5 DEF StatusKept
<1>6. ASSUME UNCHANGED exitStatus, Forgotten PROVE StatusKept
  BY <1>6 DEF StatusKept, Forgotten, Parked, Procs
<1>7. ASSUME TailStep \/ ShutdownStep PROVE StatusKept
  BY <1>5, <1>6, <1>7 DEF TailStep, TailReads, TailPromotes, ShutdownStep,
     ShutdownLists, ShutdownTypes, ShutdownWaited, KillServer, Exits
<1>8. ASSUME Disconnect PROVE StatusKept
  BY <1>8 DEF Disconnect, StatusKept
<1>9. ASSUME Environment PROVE ServerExits \/ StatusKept
  BY <1>5, <1>6, <1>8, <1>9 DEF Environment, ServerComesUp, SessionVanishes,
     AgentCrashes, AgentStarts, ShutdownBegins
<1>10. QED BY <1>2, <1>3, <1>4, <1>5, <1>7, <1>9 DEF Next, vars

LEMMA StatusInductive ==
  TypeOK /\ StatusInv /\ ~LaunchesOverlap /\ [Next]_vars => StatusInv'
<1> SUFFICES ASSUME TypeOK, StatusInv, ~LaunchesOverlap, [Next]_vars
             PROVE  StatusInv'
  OBVIOUS
<1>0. PcOK
  BY DEF TypeOK
<1>1. CASE ServerExits
  <2>1. session # "none" /\ session' = "none" /\ UNCHANGED pc
    BY <1>1 DEF ServerExits
  <2>2. QED BY <2>1 DEF StatusInv, LaunchesOverlap
<1>2. CASE exitStatus' = "none"
  BY <1>2 DEF StatusInv
<1>3. CASE StatusKept
  <2>1. session' # "none" => \/ session # "none"
                             \/ \E p \in Procs : pc[p] = "create"
    BY OnlyCreateCreates
  <2>2. QED BY <1>3, <2>1 DEF StatusInv, StatusKept
<1>4. QED BY <1>0, <1>1, <1>2, <1>3, StatusSteps

\* As long as launches do not overlap runs, the status file a run leaves is
\* its own: none of an earlier run survives into it, however the launch or the
\* update that led to it was interrupted.
THEOREM StatusIsOfTheRun == Spec => StatusIsThisRuns
<1>1. Init => StatusInv
  BY DEF Init, StatusInv
<1>2. TypeOK /\ StatusInv /\ ~LaunchesOverlap /\ [Next]_vars => StatusInv'
  BY StatusInductive
<1>3. StatusInv => (session # "none" => exitStatus = "none")
  BY DEF StatusInv
<1>4. QED BY <1>1, <1>2, <1>3, TypeCorrect, PTL DEF Spec, StatusIsThisRuns
-----------------------------------------------------------------------------
(* The coroutines implement the abstract supervision *)

\* What each kind of step is there.
LEMMA PromiseFalls ==
  ASSUME UNCHANGED <<intent, quiet, updating, relaunches>>,
         session = "none" => session' = "none"
  PROVE  [Promise!Next]_Promise!vars
<1>1. CASE session' = "none"
  BY <1>1 DEF Promise!Next, Promise!Ends
<1>2. CASE session' # "none"
  BY <1>2 DEF Promise!vars
<1>3. QED BY <1>1, <1>2

LEMMA PromiseGrants ==
  ASSUME UNCHANGED <<session, intent, quiet, updating>>, relaunches' = 0,
         intent # "calm"
  PROVE  [Promise!Next]_Promise!vars
BY DEF Promise!Next, Promise!Granted

LEMMA PromiseOrders ==
  ASSUME UNCHANGED <<session, quiet, updating, relaunches>>,
         intent' \in {"up", "down", "calm"},
         intent = "calm" => intent' # "down"
  PROVE  [Promise!Next]_Promise!vars
BY DEF Promise!Next, Promise!Ordered

LEMMA PromiseForgets == Forgotten /\ UNCHANGED session => Promise!Next
BY DEF Forgotten, Promise!Next, Promise!Forgotten

\* new_session is reached only while the last order is not a calm and no quiet
\* update holds the instance; a relaunch is within the budget.
LEMMA PromiseCreates ==
  ASSUME TypeOK, CalmInv, QuietInv, RelaunchBudget', NEW p \in Procs,
         LaunchCreate(p)
  PROVE  Promise!Next
<1>1. /\ session = "none" /\ session' = "placeholder"
      /\ UNCHANGED <<intent, quiet, updating>>
      /\ relaunches' = IF p = Monitor THEN relaunches + 1 ELSE 0
      /\ pc[p] = "create"
  BY DEF LaunchCreate, update
<1>2. intent # "calm"
  BY <1>1 DEF CalmInv, Procs, StartPCs, LaunchPCs, Standing
<1>3. ~(quiet /\ updating)
  BY <1>1 DEF QuietInv, Procs, AtRest, Approaching
<1>4. Promise!Launchable
  BY <1>1, <1>2, <1>3 DEF Promise!Launchable
<1>5. CASE p = Monitor
  <2>1. relaunches \in Nat /\ relaunches' = relaunches + 1
    BY <1>1, <1>5 DEF TypeOK
  <2>2. PICK b : b = (CrashLimit + 1) * LaunchFailureLimit
    OBVIOUS
  <2>3. b \in Nat
    BY <2>2, LimitTimes, LimitAssumption
  <2>4. relaunches' <= b
    BY <2>2 DEF RelaunchBudget
  <2>5. relaunches < b
    BY <2>1, <2>3, <2>4
  <2>6. Promise!Relaunch
    BY <1>1, <1>4, <2>1, <2>2, <2>5 DEF Promise!Relaunch
  <2>7. QED BY <2>6 DEF Promise!Next
<1>6. CASE p # Monitor
  <2>1. Promise!Launch
    BY <1>1, <1>4, <1>6 DEF Promise!Launch
  <2>2. QED BY <2>1 DEF Promise!Next
<1>7. QED BY <1>5, <1>6

LEMMA PromiseLaunches ==
  ASSUME TypeOK, CalmInv, QuietInv, RelaunchBudget', NEW p \in Procs,
         LaunchStep(p)
  PROVE  [Promise!Next]_Promise!vars
<1> USE DEF node, update
<1>1. CASE LaunchCreate(p)
  BY <1>1, PromiseCreates
<1>2. CASE LaunchClear(p)
  <2>1. UNCHANGED <<session, intent, quiet, updating>>
    BY <1>2 DEF LaunchClear
  <2>2. intent # "calm"
    BY <1>2 DEF LaunchClear, CalmInv, Procs, StartPCs, LaunchPCs, Standing
  <2>3. relaunches' = relaunches \/ relaunches' = 0
    BY <1>2 DEF LaunchClear
  <2>4. QED BY <2>1, <2>2, <2>3, PromiseFalls, PromiseGrants
<1>3. CASE LaunchRespawn(p) \/ LaunchRaises(p) \/ LaunchFailed(p)
  BY <1>3, PromiseFalls DEF LaunchRespawn, LaunchRaises, LaunchFailed
<1>4. QED BY <1>1, <1>2, <1>3 DEF LaunchStep

LEMMA PromiseTask ==
  ASSUME TypeOK, CalmInv, QuietInv, RelaunchBudget', NEW t \in Tasks,
         TaskStep(t)
  PROVE  [Promise!Next]_Promise!vars
<1> USE DEF node, update
<1>1. CASE LaunchStep(t)
  BY <1>1, PromiseLaunches DEF Procs
<1>2. CASE StartFindsSession(t) \/ StartSettles(t)
  <2>1. intent # "calm"
    BY <1>2 DEF StartFindsSession, StartSettles, CalmInv, StartPCs, LaunchPCs
  <2>2. QED BY <1>2, <2>1, PromiseGrants DEF StartFindsSession, StartSettles
<1>3. CASE UpdateBegins(t)
  <2>1. /\ session = "none" /\ ~updating /\ updating'
        /\ UNCHANGED <<session, intent, relaunches>>
    BY <1>3 DEF UpdateBegins, UpdateBlocked
  <2>2. CASE quiet'
    BY <2>1, <2>2 DEF Promise!Next, Promise!Hold
  <2>3. CASE ~quiet'
    BY <2>1, <2>3 DEF Promise!Next, Promise!Release
  <2>4. QED BY <2>2, <2>3
<1>4. CASE UpdateReleases(t)
  BY <1>4 DEF UpdateReleases, Promise!Next, Promise!Release
<1>5. CASE \/ StartCheck(t) \/ StartAdopts(t) \/ StartFindsNone(t)
           \/ StopFindsNone(t) \/ StopFindsSession(t) \/ StopTypes(t)
           \/ StopWaited(t) \/ StopDrained(t) \/ KillSession(t)
           \/ KillReports(t) \/ UpdateRefused(t) \/ UpdateAnnounced(t)
           \/ UpdateInstalls(t) \/ UpdateFails(t)
  BY <1>5, PromiseFalls DEF StartCheck, StartAdopts, StartFindsNone,
     StopFindsNone, StopFindsSession, StopTypes, AfterVerb, StopWaited,
     StopDrained, KillSession, KillReports, UpdateRefused, UpdateAnnounced,
     UpdateInstalls, UpdateFails
<1>6. QED BY <1>1, <1>2, <1>3, <1>4, <1>5 DEF TaskStep

\* Out of a calm the monitor neither counts an exit nor honours one.
LEMMA PromiseMonitor ==
  ASSUME TypeOK, CalmInv, QuietInv, RelaunchBudget', MonitorStep
  PROVE  [Promise!Next]_Promise!vars
<1> USE DEF node, update
<1>1. CASE LaunchStep(Monitor)
  BY <1>1, PromiseLaunches DEF Procs
<1>2. CASE MonitorHonoursExit \/ MonitorOverrulesExit \/ MonitorReplays
  <2>1. intent # "calm"
    BY <1>2 DEF MonitorHonoursExit, MonitorOverrulesExit, MonitorReplays,
       CalmInv, Standing
  <2>2. UNCHANGED <<session, intent, quiet, updating>>
    BY <1>2 DEF MonitorHonoursExit, MonitorOverrulesExit, MonitorReplays,
       Decide
  <2>3. relaunches' = relaunches \/ relaunches' = 0
    BY <1>2 DEF MonitorHonoursExit, MonitorOverrulesExit, MonitorReplays,
       Decide, CountExit
  <2>4. QED BY <2>1, <2>2, <2>3, PromiseFalls, PromiseGrants
<1>3. CASE \/ MonitorTick \/ MonitorFindsSession \/ MonitorPromotes
           \/ MonitorFindsNone \/ MonitorReadsCrash \/ MonitorDrains
           \/ RelaunchSettles
  BY <1>3, PromiseFalls DEF MonitorTick, MonitorFindsSession,
     MonitorPromotes, MonitorFindsNone, MonitorReadsCrash, MonitorDrains,
     RelaunchSettles
<1>4. QED BY <1>1, <1>2, <1>3 DEF MonitorStep

LEMMA PromiseStep ==
  ASSUME TypeOK, CalmInv, QuietInv, RelaunchBudget', [Next]_vars
  PROVE  [Promise!Next]_Promise!vars
<1> USE DEF node, update
<1>1. ASSUME NEW t \in Tasks, Receive(t) PROVE [Promise!Next]_Promise!vars
  <2>1. UNCHANGED <<session, quiet, updating, relaunches>>
    BY <1>1 DEF Receive, ReceiveStart, ReceiveRestart, ReceiveStop,
       ReceiveKill, ReceiveUpdate, Accept
  <2>2. /\ intent' \in {"up", "down", "calm"}
        /\ intent = "calm" => intent' # "down"
    BY <1>1 DEF TypeOK, Receive, ReceiveStart, ReceiveRestart, ReceiveStop,
       ReceiveKill, ReceiveUpdate, StandDown
  <2>3. QED BY <2>1, <2>2, PromiseOrders
<1>2. CASE TailStep
  <2>1. UNCHANGED <<session, intent, quiet, updating>>
    BY <1>2 DEF TailStep, TailReads, TailPromotes
  <2>2. CASE TailForgetsFailure
    <3>1. intent # "calm"
      BY <2>2 DEF TailForgetsFailure, CalmInv, Standing
    <3>2. relaunches' = relaunches \/ relaunches' = 0
      BY <1>2 DEF TailStep, TailReads, TailPromotes
    <3>3. QED BY <2>1, <3>1, <3>2, PromiseFalls, PromiseGrants
  <2>3. CASE ~TailForgetsFailure
    <3>1. UNCHANGED relaunches
      BY <1>2, <2>3 DEF TailStep, TailReads, TailPromotes
    <3>2. QED BY <2>1, <3>1, PromiseFalls
  <2>4. QED BY <2>2, <2>3
<1>3. CASE ShutdownStep
  BY <1>3, PromiseFalls, PromiseForgets DEF ShutdownStep, ShutdownLists,
     ShutdownTypes, AfterVerb, ShutdownWaited, KillServer, Exits
<1>4. CASE ServerComesUp \/ ServerExits \/ SessionVanishes \/ AgentStarts
  BY <1>4, PromiseFalls DEF ServerComesUp, ServerExits, SessionVanishes,
     AgentStarts
<1>5. CASE ShutdownBegins
  <2>1. /\ UNCHANGED <<session, quiet, updating, relaunches>>
        /\ intent' = StandDown
    BY <1>5 DEF ShutdownBegins
  <2>2. QED BY <2>1, PromiseOrders DEF StandDown
<1>6. CASE AgentCrashes
  BY <1>6, PromiseForgets DEF AgentCrashes
<1>7. CASE Disconnect
  <2>1. /\ UNCHANGED <<session, intent, quiet, relaunches>>
        /\ updating' => updating
    BY <1>7 DEF Disconnect
  <2>2. updating' = updating \/ ~updating'
    BY <2>1, <1>7, Zenon DEF TypeOK, Disconnect
  <2>3. CASE ~updating'
    BY <2>1, <2>3 DEF Promise!Next, Promise!Release
  <2>4. QED BY <2>1, <2>2, <2>3, PromiseFalls
<1>8. CASE UNCHANGED vars
  BY <1>8, PromiseFalls DEF vars
<1>9. QED BY <1>1, <1>2, <1>3, <1>4, <1>5, <1>6, <1>7, <1>8, PromiseTask,
             PromiseMonitor DEF Next, Environment

\* Start, stop, restart, kill, apply_update, the monitor, the disconnects, the
\* crashes and the shutdown together implement the abstract supervision
\* (supervisor.py:208-694).
THEOREM ImplementsSupervision == Spec => PromiseSpec
<1>1. Init => Promise!Init
  BY DEF Init, Promise!Init
<1>2. Init => QuietInv
  BY DEF Init, QuietInv
<1>3. TypeOK /\ CalmInv /\ QuietInv /\ RelaunchBudget' /\ [Next]_vars
      => [Promise!Next]_Promise!vars
  BY PromiseStep
<1>4. QED BY <1>1, <1>2, <1>3, CalmInit, CalmInductive, QuietInductive,
             TypeCorrect, RelaunchesBounded, PTL
             DEF Spec, PromiseSpec, Promise!Spec
=============================================================================
