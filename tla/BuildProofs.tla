---------------------------- MODULE BuildProofs ----------------------------
(***************************************************************************)
(* What the creation of servers keeps, for any number of rows, starts and  *)
(* faults.                                                                 *)
(***************************************************************************)
EXTENDS BuildProperties, TLAPS

\* From the jar's arrival to the end of the configuration run.
Jarred == {"starting", "settling", "configuring", "stopping", "abandoning"}

\* The configuration run is over and was a success.
Complete == {"launching", "relaunching", "running", "ok"}

Typed ==
  /\ row \in [Rows -> {"none", "deleted"} \cup Live]
  /\ armed \subseteq Rows /\ runAfter \subseteq Rows
  /\ call \in [Rows -> {"none", "waiting", "lost", "done", "gone"}]
  /\ handler \in [Rows -> {"none", "sent", "cancelled"} \cup Building
                          \cup Answers]
  /\ root \in BOOLEAN /\ link \in BOOLEAN
  /\ files \subseteq {"scratch", "jar", "config"}
  /\ owner \in Rows \cup {None}
  /\ existed \subseteq Rows
  /\ session \subseteq Rows /\ supervised \subseteq Rows
  /\ starts \in Nat /\ faults \in Nat
  /\ orphaned \subseteq Rows /\ meddled \subseteq Rows

Marked == provisioning = {r \in Rows : handler[r] \in Held}

\* The directory is that of the row that is built in it, or was.
Owned ==
  \A r \in Rows :
    /\ handler[r] \in Building \cup Complete => owner = r /\ files # {}
    /\ handler[r] \in Jarred => "jar" \in files
    /\ handler[r] \in Complete => {"jar", "config"} \subseteq files
    /\ handler[r] \in {"none", "sent", "refused"} => owner # r

\* The database follows the handlers.
Recorded ==
  \A r \in Rows :
    /\ row[r] = "none" => handler[r] = "none"
    /\ row[r] = "built" => handler[r] \in {"running", "ok"}

\* Which handlers have not put a server up yet, or have taken it down again.
Unsupervised == {"none", "sent", "stopping", "abandoning", "launching",
                 "relaunching", "cleaning", "killed", "refused"}
Down         == {"none", "sent", "killed", "refused"}

Alone ==
  \A r \in Rows \ meddled :
    /\ handler[r] \in Unsupervised => r \notin supervised
    /\ handler[r] \in Down => r \notin session

IInv == Typed /\ Marked /\ Owned /\ Recorded /\ Alone

-----------------------------------------------------------------------------
LEMMA RowsAreNumbers == Rows \subseteq Nat /\ None \notin Rows
  BY BoundAssumption DEF Rows, None

\* A step of one handler moves no other.
LEMMA HandlerAfter ==
  ASSUME Typed, NEW r \in Rows, NEW p, At(r, p)
  PROVE  /\ handler'[r] = p
         /\ \A s \in Rows : s # r => handler'[s] = handler[s]
  BY DEF Typed, At

LEMMA InitIInv == Init => IInv
<1> SUFFICES ASSUME Init PROVE IInv
  OBVIOUS
<1>1. Typed
  BY RowsAreNumbers DEF Init, Typed, Live
<1>2. Marked
  BY DEF Init, Marked, Held
<1>3. Owned
  BY RowsAreNumbers DEF Init, Owned, Building, Held, Jarred, Complete
<1>4. Recorded /\ Alone
  BY DEF Init, Recorded, Alone
<1>5. QED BY <1>1, <1>2, <1>3, <1>4 DEF IInv

-----------------------------------------------------------------------------
(* The agent's handler *)

\* A step of a handler at work that keeps what is in the directory.
LEMMA Advances ==
  ASSUME IInv, NEW r \in Rows, NEW p \in (Building \cup Complete) \ {"refused"},
         At(r, p), handler[r] \in Building,
         UNCHANGED <<row, meddled, owner>>, files \subseteq files',
         provisioning' = IF p \in Held THEN provisioning
                                       ELSE provisioning \ {r},
         handler[r] \in {"launching", "relaunching"} => p \notin Held,
         p \in Jarred => "jar" \in files',
         p \in Complete => {"jar", "config"} \subseteq files',
         \A s \in Rows \ {r} : /\ s \in supervised' => s \in supervised
                               /\ s \in session' => s \in session,
         r \notin meddled => /\ p \in Unsupervised => r \notin supervised'
                             /\ p \in Down => r \notin session'
  PROVE  (Marked /\ Owned /\ Recorded /\ Alone)'
<1> USE DEF IInv
<1>1. /\ handler'[r] = p
      /\ \A s \in Rows : s # r => handler'[s] = handler[s]
  BY HandlerAfter
<1>2. Marked'
  <2>1. p \in Held => handler[r] \in Held
    BY DEF Building
  <2>2. \A s \in Rows : s \in provisioning' <=> handler'[s] \in Held
    BY <1>1, <2>1 DEF Marked
  <2>3. provisioning' \subseteq Rows
    BY DEF Marked
  <2>4. QED BY <2>2, <2>3 DEF Marked
<1>3. Owned'
  BY <1>1 DEF Owned, Complete, Building, Held
<1>4. Recorded'
  BY <1>1 DEF Recorded, Building, Held
<1>5. Alone'
  BY <1>1 DEF Alone
<1>6. QED BY <1>2, <1>3, <1>4, <1>5

LEMMA WorksKeeps ==
  ASSUME IInv, NEW r \in Rows,
         \/ Downloaded(r) \/ DownloadFails(r) \/ Launches(r) \/ StartFails(r)
         \/ Settles(r) \/ RunEnds(r) \/ Stopped(r) \/ Reported(r) \/ Kills(r)
  PROVE  IInv'
<1> USE DEF IInv
<1>1. /\ handler[r] \in Building
      /\ UNCHANGED <<hub, root, owner, existed, history, runAfter, link,
                     starts, faults>>
      /\ files' = files \/ (Downloaded(r) /\ files' = files \cup {"jar"})
  BY DEF Downloaded, DownloadFails, Launches, StartFails, Settles, RunEnds,
         Stopped, Reported, Kills, CleanUp, disk, Building, Held
<1>2. PICK p \in (Building \cup Complete) \ {"refused"} :
        /\ At(r, p)
        /\ provisioning' = IF p \in Held THEN provisioning
                                         ELSE provisioning \ {r}
        /\ handler[r] \in {"launching", "relaunching"} => p \notin Held
        /\ p \in Jarred => "jar" \in files'
        /\ p \in Complete => {"jar", "config"} \subseteq files'
        /\ r \notin meddled => /\ p \in Unsupervised => r \notin supervised'
                               /\ p \in Down => r \notin session'
  <2>1. CASE Downloaded(r)
    BY <2>1 DEF Downloaded, Building, Held, Jarred, Complete, Unsupervised,
                Down, node
  <2>2. CASE DownloadFails(r) \/ Reported(r) \/ Kills(r) \/ RunEnds(r)
    BY <2>2 DEF DownloadFails, Reported, Kills, RunEnds, CleanUp, Building,
                Held, Jarred, Complete, Unsupervised, Down, disk, Alone, Owned
  <2>3. CASE Launches(r)
    BY <2>3 DEF Launches, Building, Held, Jarred, Complete, Unsupervised, Down,
                disk, Alone, Owned, Marked
  <2>4. CASE StartFails(r)
    BY <2>4 DEF StartFails, CleanUp, Building, Held, Jarred, Complete,
                Unsupervised, Down, disk, Alone, Owned, Marked
  <2>5. CASE Settles(r)
    BY <2>5 DEF Settles, Building, Held, Jarred, Complete, Unsupervised, Down,
                disk, Alone, Owned, Marked
  <2>6. CASE Stopped(r)
    BY <2>6 DEF Stopped, Building, Held, Jarred, Complete, Unsupervised, Down,
                disk, Alone, Owned, Marked
  <2>7. QED BY <2>1, <2>2, <2>3, <2>4, <2>5, <2>6
<1>3. /\ supervised' \subseteq supervised \cup {r}
      /\ session' \subseteq session \cup {r}
  BY DEF Downloaded, DownloadFails, Launches, StartFails, Settles, RunEnds,
         Stopped, Reported, Kills, CleanUp, node
<1>4. Typed'
  <2>1. files' \subseteq {"scratch", "jar", "config"}
    BY <1>1 DEF Typed
  <2>2. handler' \in [Rows -> {"none", "sent", "cancelled"} \cup Building
                              \cup Answers]
    BY <1>2 DEF Typed, At, Complete, Answers, Building
  <2>3. QED BY <1>1, <1>3, <2>1, <2>2 DEF Typed, hub, history
<1>5. (Marked /\ Owned /\ Recorded /\ Alone)'
  BY <1>1, <1>2, <1>3, Advances DEF hub, history
<1>6. QED BY <1>4, <1>5

\* A handler refuses, or begins where nobody is at work.
LEMMA RefusesKeeps ==
  ASSUME IInv, NEW r \in Rows, Refuses(r)
  PROVE  IInv'
<1> USE DEF IInv
<1>1. /\ At(r, "refused") /\ handler[r] = "sent"
      /\ UNCHANGED <<hub, disk, node, history, runAfter, link, starts, faults>>
  BY DEF Refuses, Refusal
<1>2. /\ handler'[r] = "refused"
      /\ \A s \in Rows : s # r => handler'[s] = handler[s]
  BY <1>1, HandlerAfter
<1>3. Typed'
  BY <1>1 DEF Typed, hub, disk, node, history, At, Answers
<1>4. Marked'
  BY <1>1, <1>2 DEF Marked, Held, node
<1>5. Owned'
  BY <1>1, <1>2 DEF Owned, disk, Building, Held, Jarred, Complete
<1>6. Recorded' /\ Alone'
  BY <1>1, <1>2 DEF Recorded, Alone, hub, node, history, Unsupervised, Down
<1>7. QED BY <1>3, <1>4, <1>5, <1>6

LEMMA BeginsKeeps ==
  ASSUME IInv, NEW r \in Rows, Begins(r)
  PROVE  IInv'
<1> USE DEF IInv
<1>1. /\ At(r, "download") /\ handler[r] = "sent" /\ files = {}
      /\ provisioning' = provisioning \cup {r}
      /\ files' = {"scratch"} /\ owner' = r
      /\ existed' \subseteq existed \cup {r} /\ root' = TRUE
      /\ UNCHANGED <<hub, session, supervised, history, runAfter, link, starts,
                     faults>>
  BY DEF Begins, Busy
<1>2. /\ handler'[r] = "download"
      /\ \A s \in Rows : s # r => handler'[s] = handler[s]
  BY <1>1, HandlerAfter
<1>3. \A s \in Rows : handler[s] \notin Building \cup Complete
  BY <1>1 DEF Owned
<1>4. Typed'
  BY <1>1 DEF Typed, hub, history, At, Building, Held
<1>5. Marked'
  BY <1>1, <1>2 DEF Marked, Held
<1>6. Owned'
  BY <1>1, <1>2, <1>3 DEF Owned, Building, Held, Jarred, Complete
<1>7. Recorded' /\ Alone'
  BY <1>1, <1>2 DEF Recorded, Alone, hub, history, Unsupervised, Down
<1>8. QED BY <1>4, <1>5, <1>6, <1>7

LEMMA CleansUpKeeps ==
  ASSUME IInv, NEW r \in Rows, CleansUp(r)
  PROVE  IInv'
<1> USE DEF IInv
<1>1. /\ At(r, "refused") /\ handler[r] = "killed"
      /\ supervised' = supervised \ {r} /\ provisioning' = provisioning \ {r}
      /\ files' = {} /\ owner' = None /\ root' \in BOOLEAN
      /\ UNCHANGED <<hub, existed, session, history, runAfter, link, starts,
                     faults>>
  BY DEF CleansUp, Leftover
<1>2. /\ handler'[r] = "refused"
      /\ \A s \in Rows : s # r => handler'[s] = handler[s]
  BY <1>1, HandlerAfter
<1>3. \A s \in Rows : s # r => handler[s] \notin Building \cup Complete
  BY <1>1 DEF Owned, Building, Held
<1>4. Typed'
  BY <1>1 DEF Typed, hub, history, At, Answers
<1>5. Marked'
  BY <1>1, <1>2 DEF Marked, Held
<1>6. Owned'
  BY <1>1, <1>2, <1>3, RowsAreNumbers
     DEF Owned, Building, Held, Jarred, Complete
<1>7. Recorded' /\ Alone'
  BY <1>1, <1>2 DEF Recorded, Alone, hub, history, Unsupervised, Down
<1>8. QED BY <1>4, <1>5, <1>6, <1>7

LEMMA CreatesKeeps ==
  ASSUME IInv, NEW r \in Rows, Creates(r)
  PROVE  IInv'
  BY RefusesKeeps, BeginsKeeps, WorksKeeps, CleansUpKeeps DEF Creates

-----------------------------------------------------------------------------
(* The hub *)

\* A row is recorded as built on the word of its handler alone.
LEMMA HubStepKeeps ==
  ASSUME IInv, NEW r \in Rows, HubStep(r)
  PROVE  IInv'
<1> USE DEF IInv
<1>1. /\ UNCHANGED <<disk, node, history, runAfter, link, starts, faults>>
      /\ armed' \subseteq armed \cup {r}
  BY DEF HubStep, Declares, Deletes, Records, Fails, CallTimesOut
<1>2. /\ row' \in [Rows -> {"none", "deleted"} \cup Live]
      /\ call' \in [Rows -> {"none", "waiting", "lost", "done", "gone"}]
      /\ \A s \in Rows : row'[s] = "built" =>
           \/ row[s] = "built"
           \/ s = r /\ Records(r) /\ handler[r] \in {"running", "ok"}
      /\ \A s \in Rows : row'[s] = "none" =>
           row[s] = "none"
  <2>1. CASE Declares(r)
    BY <2>1 DEF Declares, Typed, Live
  <2>2. CASE Deletes(r)
    BY <2>2 DEF Deletes, Typed, Live
  <2>3. CASE Records(r)
    BY <2>3 DEF Records, Typed, Live
  <2>4. CASE Fails(r)
    BY <2>4 DEF Fails, Undeclare, Typed, Live
  <2>5. CASE CallTimesOut(r)
    BY <2>5 DEF CallTimesOut, Typed, Live
  <2>6. QED BY <2>1, <2>2, <2>3, <2>4, <2>5 DEF HubStep
<1>3. \/ handler' = handler
      \/ At(r, "sent") /\ handler[r] = "none" /\ Declares(r)
  BY DEF Recorded, HubStep, Declares, Deletes, Records, Fails, CallTimesOut, At
<1>4. CASE handler' = handler
  <2>1. Typed'
    BY <1>1, <1>2, <1>4 DEF Typed, disk, node, history
  <2>2. Marked' /\ Owned' /\ Alone'
    BY <1>1, <1>4 DEF Marked, Owned, Alone, disk, node, history
  <2>3. Recorded'
    BY <1>2, <1>4 DEF Recorded
  <2>4. QED BY <2>1, <2>2, <2>3
<1>5. CASE At(r, "sent") /\ handler[r] = "none" /\ Declares(r)
  <2>1. /\ handler'[r] = "sent"
        /\ \A s \in Rows : s # r => handler'[s] = handler[s]
    BY <1>5, HandlerAfter
  <2>2. Typed'
    BY <1>1, <1>2, <1>5 DEF Typed, disk, node, history, At
  <2>3. Marked'
    BY <1>1, <1>5, <2>1 DEF Marked, node, Held
  <2>4. Owned'
    BY <1>1, <1>5, <2>1
       DEF Owned, disk, Building, Held, Jarred, Complete
  <2>5. Alone'
    BY <1>1, <1>5, <2>1 DEF Alone, node, history, Unsupervised, Down
  <2>6. Recorded'
    <3>1. row'[r] = "declared"
      BY <1>5 DEF Declares, Typed
    <3>2. QED BY <1>2, <2>1, <3>1 DEF Recorded
  <2>7. QED BY <2>2, <2>3, <2>4, <2>5, <2>6
<1>6. QED BY <1>3, <1>4, <1>5

-----------------------------------------------------------------------------
(* Faults *)

\* Every handler under way ends where it is, and marks nothing any more.
LEMMA CancelledKeeps ==
  ASSUME IInv, handler' = Cancelled, provisioning' = {},
         UNCHANGED <<disk, session, meddled, runAfter, starts>>,
         supervised' \subseteq supervised, orphaned' \subseteq Rows,
         link' = FALSE, faults' = faults + 1, armed' \subseteq armed,
         row' \in [Rows -> {"none", "deleted"} \cup Live],
         call' \in [Rows -> {"none", "waiting", "lost", "done", "gone"}],
         \A r \in Rows : row'[r] = "built" => row[r] = "built",
         \A r \in Rows : row'[r] = "none" => row[r] = "none"
  PROVE  IInv'
<1> USE DEF IInv
<1>1. \A r \in Rows :
        handler'[r] = IF handler[r] \in Building \cup {"sent"} THEN "cancelled"
                      ELSE handler[r]
  BY DEF Cancelled
<1>2. Typed'
  <2>1. handler' \in [Rows -> {"none", "sent", "cancelled"} \cup Building
                              \cup Answers]
    BY DEF Cancelled, Typed
  <2>2. link' \in BOOLEAN /\ root' \in BOOLEAN
    BY DEF Typed, disk
  <2>3. supervised' \subseteq Rows /\ armed' \subseteq Rows /\ faults' \in Nat
    BY DEF Typed
  <2>4. QED BY <2>1, <2>2, <2>3 DEF Typed, disk
<1>3. Marked'
  BY <1>1 DEF Marked, Building, Held
<1>4. Owned'
  BY <1>1 DEF Owned, disk, Building, Held, Jarred, Complete
<1>5. Recorded'
  BY <1>1 DEF Recorded, Building, Held
<1>6. Alone'
  BY <1>1 DEF Alone, Building, Held, Unsupervised, Down
<1>7. QED BY <1>2, <1>3, <1>4, <1>5, <1>6

LEMMA FaultsKeeps ==
  ASSUME IInv, Faults
  PROVE  IInv'
<1> USE DEF IInv
<1>1. CASE LinkDrops \/ AgentDies
  <2>1. Lose \in [Rows -> {"none", "waiting", "lost", "done", "gone"}]
    BY DEF Lose, Typed
  <2>2. /\ handler' = Cancelled /\ provisioning' = {}
        /\ UNCHANGED <<row, armed, disk, session, history, runAfter, starts>>
        /\ supervised' \subseteq supervised
        /\ link' = FALSE /\ faults' = faults + 1 /\ call' = Lose
    BY <1>1 DEF LinkDrops, AgentDies, Released
  <2>3. /\ row' \in [Rows -> {"none", "deleted"} \cup Live]
        /\ orphaned' \subseteq Rows
    BY <2>2 DEF Typed, history
  <2>4. QED BY <2>1, <2>2, <2>3, CancelledKeeps DEF history
<1>2. CASE Redials
  <2>1. link' \in BOOLEAN
    BY <1>2 DEF Redials
  <2>2. UNCHANGED <<hub, disk, node, history, runAfter, handler, starts,
                    faults>>
    BY <1>2 DEF Redials
  <2>3. Typed'
    BY <2>1, <2>2 DEF hub, disk, node, history, Typed
  <2>4. QED BY <2>2, <2>3 DEF hub, disk, node, history, Marked, Owned,
                              Recorded, Alone
<1>3. CASE HubDies
  <2>1. call' \in [Rows -> {"none", "waiting", "lost", "done", "gone"}]
    BY <1>3 DEF HubDies, Typed
  <2>2. /\ handler' = Cancelled /\ provisioning' = {}
        /\ UNCHANGED <<row, armed, disk, session, supervised, meddled,
                       runAfter, starts>>
        /\ link' = FALSE /\ faults' = faults + 1
        /\ orphaned' = orphaned
             \cup {r \in Rows : call[r] \in {"waiting", "lost"}}
    BY <1>3 DEF HubDies, Released
  <2>3. /\ row' \in [Rows -> {"none", "deleted"} \cup Live]
        /\ orphaned' \subseteq Rows
    BY <2>2 DEF Typed
  <2>4. QED BY <2>1, <2>2, <2>3, CancelledKeeps
<1>4. CASE HubStops
  <2>1. call' \in [Rows -> {"none", "waiting", "lost", "done", "gone"}]
    BY <1>4 DEF HubStops, Typed
  <2>2. \A r \in Rows :
          Undeclare(r)[r] = IF row[r] \in Live THEN "deleted" ELSE row[r]
    BY DEF Undeclare, Typed
  <2>3. row' = [r \in Rows |-> IF call[r] \in {"waiting", "lost"}
                                 THEN Undeclare(r)[r] ELSE row[r]]
    BY <1>4 DEF HubStops
  <2>4. \A r \in Rows : \/ row'[r] = row[r]
                        \/ row'[r] = "deleted" /\ row[r] \in Live
    BY <2>2, <2>3
  <2>5. row' \in [Rows -> {"none", "deleted"} \cup Live]
    BY <2>3, <2>4 DEF Typed
  <2>6. /\ handler' = Cancelled /\ provisioning' = {}
        /\ UNCHANGED <<disk, session, supervised, history, runAfter, starts>>
        /\ link' = FALSE /\ faults' = faults + 1
        /\ armed' \subseteq armed
    BY <1>4 DEF HubStops, Released
  <2>7. orphaned' \subseteq Rows /\ UNCHANGED meddled
    BY <2>6 DEF Typed, history
  <2>8. \A r \in Rows : /\ row'[r] = "built" => row[r] = "built"
                        /\ row'[r] = "none" => row[r] = "none"
    BY <2>4
  <2>9. QED BY <2>1, <2>5, <2>6, <2>7, <2>8, CancelledKeeps
<1>5. QED BY <1>1, <1>2, <1>3, <1>4 DEF Faults

-----------------------------------------------------------------------------
(* Servers, and the restart policy *)

\* The monitor brings back only what somebody supervises: no row that is being
\* created, unless somebody else started it.
LEMMA MonitorSpares ==
  ASSUME IInv, NEW r \in Rows, MonitorRelaunches(r), r \notin meddled
  PROVE  handler[r] \notin Building \cup Down
  BY DEF IInv, MonitorRelaunches, MonitorMayLook, Marked, Alone, Unsupervised,
         Down, Building

LEMMA ServersKeeps ==
  ASSUME IInv, NEW r \in Rows, Servers(r)
  PROVE  IInv'
<1> USE DEF IInv
<1>1. /\ UNCHANGED <<row, call, root, owner, existed, provisioning, orphaned,
                     runAfter, handler, link, faults>>
      /\ files \subseteq files' /\ files' \subseteq files \cup {"config"}
      /\ armed' \subseteq armed \cup {r} /\ starts' \in Nat
      /\ meddled \subseteq meddled' /\ meddled' \subseteq meddled \cup {r}
      /\ supervised' \subseteq supervised \cup {r}
      /\ session' \subseteq session \cup {r}
  BY DEF Servers, Started, ServerWrites, ServerExits, MonitorRelaunches,
         MonitorGivesUp, hub, disk, node, history, Typed
<1>2. Typed'
  BY <1>1 DEF Typed
<1>3. Marked' /\ Owned' /\ Recorded'
  BY <1>1 DEF Marked, Owned, Recorded
<1>4. Alone'
  <2>1. \/ r \in meddled'
        \/ supervised' \subseteq supervised /\ session' \subseteq session
        \/ /\ supervised' = supervised /\ session' = session \cup {r}
           /\ handler[r] \notin Down
    <3>1. CASE Started(r)
      BY <3>1 DEF Started
    <3>2. CASE ServerWrites(r) \/ ServerExits(r) \/ MonitorGivesUp(r)
      BY <3>2 DEF ServerWrites, ServerExits, MonitorGivesUp, node
    <3>3. CASE MonitorRelaunches(r)
      <4>1. /\ supervised' = supervised /\ session' = session \cup {r}
            /\ meddled' = meddled
        BY <3>3 DEF MonitorRelaunches, history
      <4>2. QED BY <3>3, <4>1, MonitorSpares
    <3>4. QED BY <3>1, <3>2, <3>3 DEF Servers
  <2>2. QED BY <1>1, <2>1 DEF Alone
<1>5. QED BY <1>2, <1>3, <1>4

-----------------------------------------------------------------------------
LEMMA NextKeeps == IInv /\ [Next]_vars => IInv'
<1> SUFFICES ASSUME IInv, [Next]_vars PROVE IInv'
  OBVIOUS
<1>1. CASE Next
  BY <1>1, FaultsKeeps, HubStepKeeps, CreatesKeeps, ServersKeeps DEF Next
<1>2. CASE UNCHANGED vars
  BY <1>2 DEF vars, hub, disk, node, history, IInv, Typed, Marked, Owned,
              Recorded, Alone
<1>3. QED BY <1>1, <1>2

LEMMA Invariance == Spec => []IInv
  BY InitIInv, NextKeeps, PTL DEF Spec

\* Every variable keeps to its domain, and the handlers inside the context
\* manager of provisioning are exactly those it marks.
THEOREM BuildTyped == Spec => []TypeOK
<1>1. IInv => TypeOK
  BY DEF IInv, Typed, Marked, TypeOK
<1>2. QED BY <1>1, Invariance, PTL

\* However creations, deletions and failures overlap, one handler at most works
\* in the directory.
THEOREM OneBuilds == Spec => []OneBuilder
<1>1. IInv => OneBuilder
  BY DEF IInv, Owned, OneBuilder
<1>2. QED BY <1>1, Invariance, PTL

\* A row recorded as built keeps the jar and the configuration of its own
\* creation.
THEOREM BuiltComplete == Spec => []BuiltIsComplete
<1>1. IInv => BuiltIsComplete
  BY DEF IInv, Owned, Recorded, Complete, BuiltIsComplete
<1>2. QED BY <1>1, Invariance, PTL

\* A creation that the agent reports as failed leaves no file, no session and
\* no supervision behind.
THEOREM FailureClean == Spec => []FailureLeavesNothing
<1>1. IInv => FailureLeavesNothing
  BY DEF IInv, Typed, Owned, Alone, Unsupervised, Down, FailureLeavesNothing
<1>2. QED BY <1>1, Invariance, PTL

\* The configuration run is never relaunched.
THEOREM ConfigurationEnds == Spec => ConfigurationRunEnds
<1>1. IInv => \A r \in Rows : handler[r] \in Building /\ r \notin meddled
                                => ~MonitorRelaunches(r)
  BY MonitorSpares
<1>2. QED BY <1>1, Invariance, PTL DEF Spec, ConfigurationRunEnds
-----------------------------------------------------------------------------
(* Hub and agent together implement the abstract creation *)

\* Whose the directory is while nothing is in it: nobody's.
Vacant == files = {} => owner = None

LEMMA VacantKept ==
  ASSUME Vacant, [Next]_vars
  PROVE  Vacant'
<1> USE DEF Vacant
<1>1. ASSUME UNCHANGED owner, files \subseteq files' PROVE Vacant'
  BY <1>1
<1>2. ASSUME Faults PROVE Vacant'
  BY <1>1, <1>2 DEF Faults, LinkDrops, Redials, AgentDies, HubDies, HubStops,
     disk
<1>3. ASSUME NEW r \in Rows, HubStep(r) PROVE Vacant'
  BY <1>1, <1>3 DEF HubStep, Declares, Deletes, Records, Fails, CallTimesOut,
     disk
<1>4. ASSUME NEW r \in Rows, Creates(r) PROVE Vacant'
  <2>1. CASE Begins(r)
    BY <2>1 DEF Begins
  <2>2. CASE CleansUp(r)
    BY <2>2 DEF CleansUp, Leftover
  <2>3. CASE ~Begins(r) /\ ~CleansUp(r)
    BY <1>1, <1>4, <2>3 DEF Creates, Refuses, Downloaded, DownloadFails,
       Launches, StartFails, Settles, RunEnds, Stopped, Reported, Kills, disk
  <2>4. QED BY <2>1, <2>2, <2>3
<1>5. ASSUME NEW r \in Rows, Servers(r) PROVE Vacant'
  BY <1>1, <1>5 DEF Servers, Started, ServerWrites, ServerExits,
     MonitorRelaunches, MonitorGivesUp, disk
<1>6. QED BY <1>1, <1>2, <1>3, <1>4, <1>5 DEF Next, vars, disk

\* What a step is there, by what it does to the rows, the directory and the
\* creations that have had their try.
LEMMA SiteFills ==
  ASSUME UNCHANGED <<row, owner, Tried>>, Ready => Ready',
         Ready \/ ~Ready' \/ owner # None
  PROVE  [Site!Next]_Site!vars
<1>1. CASE Ready' = Ready
  BY <1>1 DEF Site!vars
<1>2. CASE ~Ready /\ Ready'
  BY <1>2 DEF Site!Next, Site!Complete
<1>3. QED BY <1>1, <1>2 DEF Ready

LEMMA SiteWithdraws ==
  ASSUME Typed, Typed', UNCHANGED <<owner, files>>, Tried \subseteq Tried',
         \A r \in Rows : row'[r] = row[r]
                         \/ (row[r] \in Live /\ row'[r] = "deleted")
  PROVE  Site!Next
<1> DEFINE S == {r \in Rows : row'[r] # row[r]}
<1>1. row' = [r \in Rows |-> row'[r]]
  BY DEF Typed
<1>2. \A r \in Rows :
        row'[r] = IF r \in S /\ Site!Declared(r) THEN "deleted" ELSE row[r]
  BY DEF Site!Declared, Live
<1>3. row' = [r \in Rows |-> IF r \in S /\ Site!Declared(r) THEN "deleted"
                             ELSE row[r]]
  BY <1>1, <1>2
<1>4. S \in SUBSET Rows
  OBVIOUS
<1>5. Tried' \in SUBSET Rows /\ Tried' = Tried \cup Tried'
  BY DEF Tried
<1>6. UNCHANGED Ready
  BY DEF Ready
<1>7. Site!Withdraw
  BY <1>3, <1>4, <1>5, <1>6 DEF Site!Withdraw
<1>8. QED BY <1>7 DEF Site!Next

\* A handler that moves on between two awaits past its first changes nothing
\* of who has had a try.
LEMMA TriedKept ==
  ASSUME Typed, NEW r \in Rows, NEW p, At(r, p),
         handler[r] \notin {"none", "sent"}, p \notin {"none", "sent"}
  PROVE  Tried' = Tried
<1>1. /\ handler'[r] = p
      /\ \A s \in Rows : s # r => handler'[s] = handler[s]
  BY HandlerAfter
<1>2. \A s \in Rows :
        handler'[s] \notin {"none", "sent"} <=> handler[s] \notin {"none", "sent"}
  BY <1>1
<1>3. QED BY <1>2 DEF Tried

LEMMA SiteHub ==
  ASSUME IInv, Typed', NEW r \in Rows, HubStep(r)
  PROVE  [Site!Next]_Site!vars
<1> USE DEF IInv
<1>1. UNCHANGED <<owner, files>>
  BY DEF HubStep, Declares, Deletes, Records, Fails, CallTimesOut, disk
<1>2. UNCHANGED Ready
  BY <1>1 DEF Ready
<1>3. CASE Declares(r)
  <2>1. /\ row[r] = "none" /\ \A s \in Rows : row[s] \notin Live
        /\ row' = [row EXCEPT ![r] = "declared"]
    BY <1>3 DEF Declares
  <2>2. handler[r] = "none"
    BY <2>1 DEF Recorded
  <2>3. handler' = handler \/ At(r, "sent")
    BY <1>3 DEF Declares, At
  <2>4. \A s \in Rows :
          handler'[s] \notin {"none", "sent"}
            <=> handler[s] \notin {"none", "sent"}
    BY <2>2, <2>3, HandlerAfter
  <2>5. UNCHANGED Tried
    BY <2>4 DEF Tried
  <2>6. Site!Declare(r)
    BY <1>1, <1>2, <2>1, <2>5 DEF Site!Declare, Site!Declared, Live
  <2>7. QED BY <2>6 DEF Site!Next
<1>4. CASE Records(r) /\ row[r] = "declared"
  <2>1. /\ handler[r] \in {"running", "ok"} /\ UNCHANGED handler
        /\ row' = [row EXCEPT ![r] = "built"]
    BY <1>4 DEF Records
  <2>2. owner = r /\ Ready
    BY <2>1 DEF Owned, Complete, Ready
  <2>3. UNCHANGED Tried
    BY <2>1 DEF Tried
  <2>4. Site!Record(r)
    BY <1>1, <1>2, <1>4, <2>1, <2>2, <2>3 DEF Site!Record
  <2>5. QED BY <2>4 DEF Site!Next
<1>5. CASE \/ Deletes(r) \/ Fails(r) \/ CallTimesOut(r)
           \/ Records(r) /\ row[r] # "declared"
  <2>1. UNCHANGED handler
    BY <1>5 DEF Deletes, Fails, CallTimesOut, Records
  <2>2. Tried \subseteq Tried'
    BY <2>1 DEF Tried
  <2>3. \A s \in Rows : row'[s] = row[s]
                        \/ (row[s] \in Live /\ row'[s] = "deleted")
    BY <1>5 DEF Deletes, Fails, Undeclare, CallTimesOut, Records, Typed
  <2>4. QED BY <1>1, <2>2, <2>3, SiteWithdraws
<1>6. QED BY <1>3, <1>4, <1>5 DEF HubStep

LEMMA SiteFaults ==
  ASSUME IInv, Typed', Faults
  PROVE  [Site!Next]_Site!vars
<1> USE DEF IInv
<1>1. UNCHANGED <<owner, files>> /\ (handler' = Cancelled \/ UNCHANGED handler)
  BY DEF Faults, LinkDrops, Redials, AgentDies, HubDies, HubStops, disk
<1>2. Tried \subseteq Tried'
  BY <1>1 DEF Tried, Cancelled, Typed, Building, Held
<1>3. \A s \in Rows : row'[s] = row[s]
                      \/ (row[s] \in Live /\ row'[s] = "deleted")
  <2>1. CASE HubStops
    <3>1. \A s \in Rows :
            row'[s] = IF call[s] \in {"waiting", "lost"} THEN Undeclare(s)[s]
                      ELSE row[s]
      BY <2>1 DEF HubStops
    <3>2. \A s \in Rows :
            Undeclare(s)[s] = IF row[s] \in Live THEN "deleted" ELSE row[s]
      BY DEF Undeclare, Typed
    <3>3. QED BY <3>1, <3>2
  <2>2. CASE ~HubStops
    BY <2>2 DEF Faults, LinkDrops, Redials, AgentDies, HubDies, hub
  <2>3. QED BY <2>1, <2>2
<1>4. QED BY <1>1, <1>2, <1>3, SiteWithdraws

\* A handler takes the directory only where it finds it empty, and empties only
\* its own; what it adds on the way may complete it.
LEMMA SiteHandler ==
  ASSUME IInv, Typed', Vacant, NEW r \in Rows, Creates(r)
  PROVE  [Site!Next]_Site!vars
<1> USE DEF IInv
<1>1. CASE Begins(r)
  <2>1. /\ handler[r] = "sent" /\ files = {} /\ At(r, "download")
        /\ files' = {"scratch"} /\ owner' = r /\ UNCHANGED row
    BY <1>1 DEF Begins, Busy, hub
  <2>2. row[r] \in {"declared", "deleted"}
    BY <2>1 DEF Typed, Recorded, Live
  <2>3. owner = None /\ ~Ready'
    BY <2>1 DEF Vacant, Ready
  <2>4. r \notin Tried /\ Tried' = Tried \cup {r}
    <3>1. /\ handler'[r] = "download"
          /\ \A s \in Rows : s # r => handler'[s] = handler[s]
      BY <2>1, HandlerAfter
    <3>2. QED BY <2>1, <3>1 DEF Tried
  <2>5. Site!Claim(r)
    BY <2>1, <2>2, <2>3, <2>4 DEF Site!Claim
  <2>6. QED BY <2>5 DEF Site!Next
<1>2. CASE Refuses(r)
  <2>1. /\ UNCHANGED <<row, owner, files>> /\ At(r, "refused")
    BY <1>2 DEF Refuses, Refusal, hub, disk
  <2>2. /\ handler'[r] = "refused"
        /\ \A s \in Rows : s # r => handler'[s] = handler[s]
    BY <2>1, HandlerAfter
  <2>3. Tried \subseteq Tried'
    BY <2>2 DEF Tried
  <2>4. QED BY <2>1, <2>3, SiteWithdraws
<1>3. CASE CleansUp(r)
  <2>1. /\ handler[r] = "killed" /\ At(r, "refused")
        /\ files' = {} /\ owner' = None /\ UNCHANGED row
    BY <1>3 DEF CleansUp, Leftover, hub
  <2>2. owner = r /\ row[r] # "built"
    BY <2>1 DEF Owned, Recorded, Building, Held
  <2>3. ~Ready'
    BY <2>1 DEF Ready
  <2>4. Tried' = Tried
    BY <2>1, TriedKept
  <2>5. Site!CleanUp(r)
    BY <2>1, <2>2, <2>3, <2>4 DEF Site!CleanUp
  <2>6. QED BY <2>5 DEF Site!Next
<1>4. CASE \/ Downloaded(r) \/ DownloadFails(r) \/ Launches(r) \/ StartFails(r)
           \/ Settles(r) \/ RunEnds(r) \/ Stopped(r) \/ Reported(r) \/ Kills(r)
  <2>1. /\ handler[r] \in Building /\ UNCHANGED <<row, owner>>
        /\ files \subseteq files'
    BY <1>4 DEF Downloaded, DownloadFails, Launches, StartFails, Settles,
       RunEnds, Stopped, Reported, Kills, hub, disk, Building, Held
  <2>2. \E p : At(r, p) /\ p \notin {"none", "sent"}
    BY <1>4 DEF Downloaded, DownloadFails, Launches, StartFails, Settles,
       RunEnds, Stopped, Reported, Kills, CleanUp
  <2>3. Tried' = Tried
    BY <2>1, <2>2, TriedKept DEF Building, Held
  <2>4. owner # None
    BY <2>1, RowsAreNumbers DEF Owned
  <2>5. Ready => Ready'
    BY <2>1 DEF Ready
  <2>6. QED BY <2>1, <2>3, <2>4, <2>5, SiteFills
<1>5. QED BY <1>1, <1>2, <1>3, <1>4 DEF Creates

LEMMA SiteServers ==
  ASSUME NEW r \in Rows, Servers(r)
  PROVE  [Site!Next]_Site!vars
<1>1. UNCHANGED <<row, owner, handler>> /\ files \subseteq files'
  BY DEF Servers, Started, ServerWrites, ServerExits, MonitorRelaunches,
     MonitorGivesUp, hub, disk
<1>2. UNCHANGED files \/ owner # None
  BY RowsAreNumbers DEF Servers, Started, ServerWrites, ServerExits,
     MonitorRelaunches, MonitorGivesUp, disk
<1>3. UNCHANGED Tried
  BY <1>1 DEF Tried
<1>4. (Ready => Ready') /\ (Ready \/ ~Ready' \/ owner # None)
  BY <1>1, <1>2 DEF Ready
<1>5. QED BY <1>1, <1>3, <1>4, SiteFills

LEMMA SiteStep ==
  ASSUME IInv, Typed', Vacant, [Next]_vars
  PROVE  [Site!Next]_Site!vars
<1>1. CASE Next
  BY <1>1, SiteHub, SiteFaults, SiteHandler, SiteServers DEF Next
<1>2. CASE UNCHANGED vars
  BY <1>2 DEF vars, hub, disk, Ready, Tried, Site!vars
<1>3. QED BY <1>1, <1>2

\* The hub's build tasks and the agent's handlers, with every fault between
\* them, implement the abstract creation (servers.py:59-200,
\* provision.py:74-207).
THEOREM ImplementsCreation == Spec => CreationSpec
<1>1. Init => Site!Init /\ Vacant
  BY DEF Init, Site!Init, Ready, Tried, Vacant
<1>2. IInv => Typed
  BY DEF IInv
<1>3. Vacant /\ [Next]_vars => Vacant'
  BY VacantKept
<1>4. IInv /\ Typed' /\ Vacant /\ [Next]_vars => [Site!Next]_Site!vars
  BY SiteStep
<1>5. QED BY <1>1, <1>2, <1>3, <1>4, Invariance, PTL
          DEF Spec, CreationSpec, Site!Spec
=============================================================================
