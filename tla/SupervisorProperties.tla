------------------------ MODULE SupervisorProperties ------------------------
(***************************************************************************)
(* What the supervisor owes the operator and the server files, stated over *)
(* the coroutines of Supervisor.                                           *)
(***************************************************************************)
EXTENDS Supervisor

-----------------------------------------------------------------------------
(* Safety *)

\* At most one handler has an update of the instance under way, and the
\* instance stays marked as updating for as long as it has: two update commands
\* whose has_session answers arrive together cannot both pass, and nothing
\* drops the mark under the one that did.
UpdateExclusion ==
  /\ (\E t \in Tasks : Marking(t)) => updating
  /\ \A t, u \in Tasks : Marking(t) /\ Marking(u) => t = u

\* An update that began while no launch was on its way keeps the instance down
\* until it is over: start, restart and the monitor all look at _updating
\* before they can reach new_session.
QuietUpdateKeepsDown == quiet /\ updating => session = "none"

\* A stop, a kill or a shutdown that arrives while nothing else is in flight
\* is final: until a start or restart is received, across updates, disconnects
\* and agent crashes, nothing creates a session for the instance.
UncontendedStopIsFinal ==
  [][intent = "calm" /\ session = "none" => session' = "none"]_vars

\* The two counters together bound the restart policy.  Each counted crash may
\* be preceded by LaunchFailureLimit - 1 futile launches, so between two
\* operator launches the monitor relaunches a bounded number of times whatever
\* start it interleaves with and whenever the follower reads a dead run's
\* readiness line.  Two things grant it more: a crash that ages out of the
\* window, and a failure the follower makes it forget between counting it and
\* lowering ready for the relaunch (TailForgetsFailure), where it is lost.
RelaunchBudget == relaunches <= (CrashLimit + 1) * LaunchFailureLimit

\* As long as no launch ever overlaps another run, no run goes on beside the
\* status file of an earlier one, which would read as its own clean shutdown if
\* it were killed: whatever cancels a launch or an update, _clear_exit_status
\* comes before the session does.
LaunchesOverlap == session # "none" /\ \E p \in Procs : pc[p] = "create"
StatusIsThisRuns ==
  []~LaunchesOverlap => [](session # "none" => exitStatus = "none")

\* All of it at once: the coroutines implement the abstract supervision, in
\* which no session appears out of a calm or under an update that found the
\* instance at rest, and every relaunch is paid for from one budget.
Promise == INSTANCE Supervision WITH
  up     <- session # "none",
  order  <- intent,
  held   <- quiet /\ updating,
  Budget <- (CrashLimit + 1) * LaunchFailureLimit
PromiseSpec == Promise!Spec

-----------------------------------------------------------------------------
(* Liveness, under FairSpec *)

\* An instance that is gone while supervised is brought back or given up on,
\* unless an update cancelled while it announces itself, before the try whose
\* finally drops the mark, keeps the monitor from ever looking at it.
SupervisedIsAnswered ==
  shouldBeUp /\ session = "none"
    ~> \/ session # "none" \/ ~shouldBeUp
       \/ updating /\ ~\E t \in Tasks : Marking(t)

\* An agent told to terminate does, whatever its handlers and monitor do.
ShutdownFinishes == shut = "list" ~> shut = "exited"

=============================================================================
