-------------------------------- MODULE Build --------------------------------
(***************************************************************************)
(* Creating a server: the hub declares a row and builds it in a task of    *)
(* its own (api/servers.py), the agent fills the server's directory        *)
(* (provision.py, updater.py), runs the jar once for its configuration     *)
(* under the supervisor, and cleans up after a failure.                    *)
(*                                                                         *)
(* All rows here carry one name and so one directory: the next is declared *)
(* only when the one before is gone.  Every row has its own id, and with   *)
(* it its own session.  An action runs one coroutine from an await to the  *)
(* next; what a power command does on the node is one step.                *)
(***************************************************************************)
EXTENDS Naturals

CONSTANTS
  MaxRows,     \* bound: rows ever declared under the name
  MaxStarts,   \* bound: starts sent by users and by restores
  MaxFaults    \* bound: sockets lost, processes lost or stopped

ASSUME BoundAssumption ==
  MaxRows \in Nat /\ MaxStarts \in Nat /\ MaxFaults \in Nat

Rows == 1..MaxRows    \* ids, in the order they are declared
None == 0

VARIABLES
  row,           \* the row in the database
  armed,         \* rows with start_with_node
  runAfter,      \* rows to be started once they are built
  call,          \* per row, the future its build task awaits
  handler,       \* per row, the agent's handler of instance.create
  root,          \* the directory exists
  files,         \* what is in it
  owner,         \* the row whose handler put it there
  existed,       \* rows whose handler found the directory there
  session,       \* rows with a session
  supervised,    \* rows with should_be_up, in the present agent process
  provisioning,  \* rows held out of the restart policy
  link,          \* hub and agent are connected
  starts, faults,          \* the bounds
  orphaned, meddled        \* history: rows whose build task died with the
                           \* hub, rows somebody else started

hub     == <<row, armed, call>>
disk    == <<root, files, owner, existed>>
node    == <<session, supervised, provisioning>>
history == <<orphaned, meddled>>
vars    == <<hub, disk, node, history, runAfter, handler, link, starts, faults>>

Live     == {"declared", "built"}

\* Between the mark of provisioning and its release.
Held     == {"download", "starting", "settling", "configuring", "stopping",
             "abandoning", "failed", "cleaning", "killed"}
Building == Held \cup {"launching", "relaunching"}
Answers  == {"running", "ok", "refused"}

\* The type invariant; the mark is held by exactly the handlers inside it.
TypeOK ==
  /\ row \in [Rows -> {"none", "deleted"} \cup Live]
  /\ armed \subseteq Rows /\ runAfter \subseteq Rows
  /\ call \in [Rows -> {"none", "waiting", "lost", "done", "gone"}]
  /\ handler \in [Rows -> {"none", "sent", "cancelled"} \cup Building
                          \cup Answers]
  /\ root \in BOOLEAN
  /\ files \subseteq {"scratch", "jar", "config"}
  /\ owner \in Rows \cup {None}
  /\ existed \subseteq Rows
  /\ session \subseteq Rows /\ supervised \subseteq Rows
  /\ provisioning = {r \in Rows : handler[r] \in Held}
  /\ link \in BOOLEAN
  /\ starts \in Nat /\ faults \in Nat
  /\ orphaned \subseteq Rows /\ meddled \subseteq Rows

\* Nothing is declared; the directory is missing or was made empty by hand.
Init ==
  /\ row = [r \in Rows |-> "none"] /\ armed = {}
  /\ runAfter \in SUBSET Rows
  /\ call = [r \in Rows |-> "none"]
  /\ handler = [r \in Rows |-> "none"]
  /\ root \in BOOLEAN /\ files = {} /\ owner = None /\ existed = {}
  /\ session = {} /\ supervised = {} /\ provisioning = {}
  /\ link = TRUE /\ starts = 0 /\ faults = 0
  /\ orphaned = {} /\ meddled = {}

-----------------------------------------------------------------------------
(* Helpers.  The definitions named ...Mistake are the next one as a plausible *)
(* bug would have it; no action uses them.                                    *)

BusyMistake == FALSE

\* The directory is there and not empty.
Busy == files # {}

\* _fail: the row goes, unless somebody deleted it before.
Undeclare(r) == [row EXCEPT ![r] = IF @ \in Live THEN "deleted" ELSE @]

LoseMistake == call

\* A lost socket rejects every call on it.
Lose == [r \in Rows |-> IF call[r] = "waiting" THEN "lost" ELSE call[r]]

RefusalMistake == "killed"

\* The checks come before the try: a refused create has nothing to clean up.
Refusal == "refused"

ReleasedMistake == provisioning

\* The context manager releases the mark of a cancelled handler.
Released == {}

LeftoverMistake(r) == IF r \in existed THEN files ELSE {}

\* What clean-up leaves: the contents go also where the directory stays.
Leftover(r) == {}

MonitorMayLookMistake(r) == TRUE

\* _check_one passes by an instance that is being created.
MonitorMayLook(r) == r \notin provisioning

\* CancelledError goes past `except Exception`: no handler cleans up.
Cancelled ==
  [r \in Rows |-> IF handler[r] \in Building \cup {"sent"} THEN "cancelled"
                  ELSE handler[r]]

-----------------------------------------------------------------------------
(* The hub *)

\* create_server.  The agent was connected when it was asked for; it may have
\* gone while the download was being resolved.
Declares(r) ==
  /\ row[r] = "none"
  /\ \A s \in Rows : row[s] \notin Live /\ (s < r => row[s] # "none")
  /\ row' = [row EXCEPT ![r] = "declared"]
  /\ armed' = IF r \in runAfter THEN armed \cup {r} ELSE armed
  /\ \/ /\ link
        /\ call' = [call EXCEPT ![r] = "waiting"]
        /\ handler' = [handler EXCEPT ![r] = "sent"]
     \/ /\ ~link
        /\ call' = [call EXCEPT ![r] = "lost"]
        /\ UNCHANGED handler
  /\ UNCHANGED <<disk, node, history, runAfter, link, starts, faults>>

\* delete_instance: the row, nothing on the node.
Deletes(r) ==
  /\ row[r] \in Live
  /\ row' = [row EXCEPT ![r] = "deleted"]
  /\ armed' = armed \ {r}
  /\ UNCHANGED <<call, disk, node, history, runAfter, handler, link, starts,
                 faults>>

\* The build task has its result: record it, if the row is still there.  A
\* server left stopped is disarmed.
Records(r) ==
  /\ call[r] = "waiting" /\ link
  /\ handler[r] \in {"running", "ok"}
  /\ call' = [call EXCEPT ![r] = "done"]
  /\ row' = [row EXCEPT ![r] = IF @ = "declared" THEN "built" ELSE @]
  /\ armed' = IF handler[r] = "running" THEN armed ELSE armed \ {r}
  /\ UNCHANGED <<disk, node, history, runAfter, handler, link, starts, faults>>

\* The agent refused, or the call was lost or timed out.
Fails(r) ==
  /\ \/ call[r] = "lost"
     \/ call[r] = "waiting" /\ link /\ handler[r] = "refused"
  /\ call' = [call EXCEPT ![r] = "done"]
  /\ row' = Undeclare(r)
  /\ armed' = armed \ {r}
  /\ UNCHANGED <<disk, node, history, runAfter, handler, link, starts, faults>>

\* CREATE_TIMEOUT_S.
CallTimesOut(r) ==
  /\ call[r] = "waiting"
  /\ call' = [call EXCEPT ![r] = "lost"]
  /\ UNCHANGED <<row, armed, disk, node, history, runAfter, handler, link,
                 starts, faults>>

-----------------------------------------------------------------------------
(* Faults *)

LinkDrops ==
  /\ link /\ faults < MaxFaults
  /\ link' = FALSE /\ faults' = faults + 1
  /\ call' = Lose
  /\ handler' = Cancelled
  /\ provisioning' = Released
  /\ UNCHANGED <<row, armed, disk, session, supervised, history, runAfter,
                 starts>>

Redials ==
  /\ ~link
  /\ link' = TRUE
  /\ UNCHANGED <<hub, disk, node, history, runAfter, handler, starts, faults>>

\* The agent process is killed: sessions outlive it, what it knows does not.
AgentDies ==
  /\ faults < MaxFaults
  /\ link' = FALSE /\ faults' = faults + 1
  /\ call' = Lose
  /\ handler' = Cancelled
  /\ provisioning' = {} /\ supervised' = {}
  /\ UNCHANGED <<row, armed, disk, session, history, runAfter, starts>>

\* The hub process is killed, its build tasks with it.
HubDies ==
  /\ faults < MaxFaults
  /\ link' = FALSE /\ faults' = faults + 1
  /\ orphaned' = orphaned \cup {r \in Rows : call[r] \in {"waiting", "lost"}}
  /\ call' = [r \in Rows |-> IF call[r] \in {"waiting", "lost"} THEN "gone"
                             ELSE call[r]]
  /\ handler' = Cancelled
  /\ provisioning' = Released
  /\ UNCHANGED <<row, armed, disk, session, supervised, meddled, runAfter,
                 starts>>

\* The hub is stopped: the loop cancels the build tasks, which undeclare.
HubStops ==
  /\ faults < MaxFaults
  /\ link' = FALSE /\ faults' = faults + 1
  /\ row' = [r \in Rows |-> IF call[r] \in {"waiting", "lost"}
                              THEN Undeclare(r)[r] ELSE row[r]]
  /\ armed' = {r \in armed : row'[r] \in Live}
  /\ call' = [r \in Rows |-> IF call[r] \in {"waiting", "lost"} THEN "done"
                             ELSE call[r]]
  /\ handler' = Cancelled
  /\ provisioning' = Released
  /\ UNCHANGED <<disk, session, supervised, history, runAfter, starts>>

-----------------------------------------------------------------------------
(* The agent's handler of instance.create *)

At(r, phase) == handler' = [handler EXCEPT ![r] = phase]

\* No root, no EULA, a type it does not know, or a directory in use.
Refuses(r) ==
  /\ handler[r] = "sent"
  /\ At(r, Refusal)
  /\ UNCHANGED <<hub, disk, node, history, runAfter, link, starts, faults>>

\* From the check to the start of the download there is no await: mkdir and
\* the scratch directory fill the root at once.
Begins(r) ==
  /\ handler[r] = "sent" /\ ~Busy
  /\ At(r, "download")
  /\ provisioning' = provisioning \cup {r}
  /\ existed' = IF root THEN existed \cup {r} ELSE existed
  /\ root' = TRUE /\ files' = {"scratch"} /\ owner' = r
  /\ UNCHANGED <<hub, session, supervised, history, runAfter, link, starts,
                 faults>>

\* Verified, and moved into place.
Downloaded(r) ==
  /\ handler[r] = "download"
  /\ At(r, "starting")
  /\ files' = files \cup {"jar"}
  /\ UNCHANGED <<hub, root, owner, existed, node, history, runAfter, link,
                 starts, faults>>

\* _clean_up begins with a kill, whose first act is to end supervision.
CleanUp(r) == At(r, "cleaning") /\ supervised' = supervised \ {r}

DownloadFails(r) ==
  /\ handler[r] = "download"
  /\ CleanUp(r)
  /\ UNCHANGED <<hub, disk, session, provisioning, history, runAfter, link,
                 starts, faults>>

\* sup.start, for the configuration run and for run_after: a session that is
\* there is adopted, else one is created.
Launches(r) ==
  /\ handler[r] \in {"starting", "launching"}
  /\ LET first == handler[r] = "starting"
     IN \/ /\ r \in session
           /\ supervised' = supervised \cup {r}
           /\ At(r, IF first THEN "configuring" ELSE "running")
           /\ UNCHANGED session
        \/ /\ r \notin session
           /\ session' = session \cup {r}
           /\ At(r, IF first THEN "settling" ELSE "relaunching")
           /\ UNCHANGED supervised
  /\ UNCHANGED <<hub, disk, provisioning, history, runAfter, link, starts,
                 faults>>

\* sup.start raised: fatal for the first run, only reported for the second.
StartFails(r) ==
  /\ \/ handler[r] = "starting" /\ CleanUp(r)
     \/ handler[r] = "launching" /\ At(r, "ok") /\ UNCHANGED supervised
  /\ UNCHANGED <<hub, disk, session, provisioning, history, runAfter, link,
                 starts, faults>>

\* The settle window is over.  A first run that is gone already, and left no
\* configuration, is a failure; a second one counts as started all the same.
Settles(r) ==
  /\ \/ /\ handler[r] = "settling"
        /\ At(r, IF r \in session \/ "config" \in files THEN "configuring"
                 ELSE "failed")
     \/ /\ handler[r] = "relaunching"
        /\ At(r, "running")
  /\ supervised' = supervised \cup {r}
  /\ UNCHANGED <<hub, disk, session, provisioning, history, runAfter, link,
                 starts, faults>>

\* The first run has stopped at its own gate, has written all it should, or
\* took too long; stop ends its supervision before anything else.
RunEnds(r) ==
  /\ handler[r] = "configuring"
  /\ \/ /\ r \notin session \/ "config" \in files
        /\ At(r, "stopping")
     \/ At(r, "abandoning")
  /\ supervised' = supervised \ {r}
  /\ UNCHANGED <<hub, disk, session, provisioning, history, runAfter, link,
                 starts, faults>>

\* The stop is done.  With the configuration there the EULA is recorded and
\* the server is built.
Stopped(r) ==
  /\ handler[r] \in {"stopping", "abandoning"}
  /\ session' = session \ {r}
  /\ \/ /\ handler[r] = "stopping" /\ "config" \in files
        /\ At(r, IF r \in runAfter THEN "launching" ELSE "ok")
        /\ provisioning' = provisioning \ {r}
     \/ /\ handler[r] = "abandoning" \/ "config" \notin files
        /\ At(r, "failed")
        /\ UNCHANGED provisioning
  /\ UNCHANGED <<hub, disk, supervised, history, runAfter, link, starts,
                 faults>>

\* _failed has read what the terminal last showed.
Reported(r) ==
  /\ handler[r] = "failed"
  /\ CleanUp(r)
  /\ UNCHANGED <<hub, disk, session, provisioning, history, runAfter, link,
                 starts, faults>>

\* The kill of _clean_up.
Kills(r) ==
  /\ handler[r] = "cleaning"
  /\ At(r, "killed")
  /\ session' = session \ {r}
  /\ UNCHANGED <<hub, disk, supervised, provisioning, history, runAfter, link,
                 starts, faults>>

\* forget, and everything in the directory goes; the directory too, if it was
\* made here.
CleansUp(r) ==
  /\ handler[r] = "killed"
  /\ At(r, "refused")
  /\ supervised' = supervised \ {r}
  /\ provisioning' = provisioning \ {r}
  /\ files' = Leftover(r)
  /\ owner' = IF Leftover(r) = {} THEN None ELSE owner
  /\ root' = (r \in existed)
  /\ UNCHANGED <<hub, existed, session, history, runAfter, link, starts,
                 faults>>

-----------------------------------------------------------------------------
(* Everybody else *)

\* A power start, or the restore of an armed row after the agent restarted.
Started(r) ==
  /\ row[r] \in Live /\ link
  /\ starts < MaxStarts
  /\ root \/ r \in session
  /\ starts' = starts + 1
  /\ session' = session \cup {r}
  /\ supervised' = supervised \cup {r}
  /\ armed' = armed \cup {r}
  /\ meddled' = meddled \cup {r}
  /\ UNCHANGED <<row, call, disk, provisioning, orphaned, runAfter, handler,
                 link, faults>>

ServerWrites(r) ==
  /\ r \in session /\ r = owner /\ "jar" \in files
  /\ files' = files \cup {"config"}
  /\ UNCHANGED <<hub, root, owner, existed, node, history, runAfter, handler,
                 link, starts, faults>>

ServerExits(r) ==
  /\ r \in session
  /\ session' = session \ {r}
  /\ UNCHANGED <<hub, disk, supervised, provisioning, history, runAfter,
                 handler, link, starts, faults>>

\* The monitor finds a supervised instance gone, and brings it back.
MonitorRelaunches(r) ==
  /\ r \in supervised \ session /\ MonitorMayLook(r)
  /\ root
  /\ session' = session \cup {r}
  /\ UNCHANGED <<hub, disk, supervised, provisioning, history, runAfter,
                 handler, link, starts, faults>>

\* Or it finds a clean exit, or its policy exhausted.
MonitorGivesUp(r) ==
  /\ r \in supervised \ session /\ MonitorMayLook(r)
  /\ supervised' = supervised \ {r}
  /\ UNCHANGED <<hub, disk, session, provisioning, history, runAfter, handler,
                 link, starts, faults>>

-----------------------------------------------------------------------------
HubStep(r)  == Declares(r) \/ Deletes(r) \/ Records(r) \/ Fails(r)
               \/ CallTimesOut(r)
Creates(r)  == Refuses(r) \/ Begins(r) \/ Downloaded(r) \/ DownloadFails(r)
               \/ Launches(r) \/ StartFails(r) \/ Settles(r) \/ RunEnds(r)
               \/ Stopped(r) \/ Reported(r) \/ Kills(r) \/ CleansUp(r)
Servers(r)  == Started(r) \/ ServerWrites(r) \/ ServerExits(r)
               \/ MonitorRelaunches(r) \/ MonitorGivesUp(r)
Faults      == LinkDrops \/ Redials \/ AgentDies \/ HubDies \/ HubStops

Next == Faults \/ \E r \in Rows : HubStep(r) \/ Creates(r) \/ Servers(r)

Spec == Init /\ [][Next]_vars

\* Both loops run what is ready, and every await of the handler ends: its
\* waits are bounded by timeouts.
Fairness ==
  \A r \in Rows :
    WF_vars(Creates(r)) /\ WF_vars(Records(r)) /\ WF_vars(Fails(r))

FairSpec == Spec /\ Fairness
=============================================================================
