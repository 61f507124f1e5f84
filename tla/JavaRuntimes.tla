---------------------------- MODULE JavaRuntimes ----------------------------
(***************************************************************************)
(* The Java runtimes an agent manages (java.py): install and remove, each  *)
(* in a thread of its own, on one directory.  A release has one home       *)
(* there; everything under way has a temporary name with the tag of its    *)
(* install.  An action runs one thread from one change of the directory,   *)
(* or use of the lock, to the next.                                        *)
(*                                                                         *)
(* A cancelled command leaves its thread running, and a request the hub    *)
(* gave up on still finishes: neither is an action.                        *)
(***************************************************************************)
EXTENDS Naturals

CONSTANTS
  Features,      \* the Java releases that can be installed
  Requests,      \* which release each install may be of
  MaxInstalls,   \* bound: installs ever asked for
  MaxRemovals,   \* bound: removals ever asked for
  MaxCrashes     \* bound: agent processes killed

ASSUME BoundAssumption ==
  MaxInstalls \in Nat /\ MaxRemovals \in Nat /\ MaxCrashes \in Nat

ASSUME RequestAssumption == Requests \subseteq [1..MaxInstalls -> Features]

Installs == 1..MaxInstalls
None     == MaxInstalls + 1          \* no runtime
Found    == 0                        \* the runtime that was there at first
Runtimes == Installs \cup {Found}    \* every install unpacks a runtime
Kinds    == {"download", "staging", "old"}
Names    == Kinds \X Installs        \* the temporary names

VARIABLES
  phase,        \* per install, where its thread is
  feature,      \* the release it installs
  sound,        \* installs whose archive holds a working runtime of it
  installing,   \* the set of that name, behind the lock
  temp,         \* temporary names in the directory
  leftovers,    \* per install, the list its sweep took
  home,         \* per release, the runtime in its place
  aside,        \* per install, the runtime it moved aside
  staged,       \* installs whose staging directory holds their runtime
  torn,         \* runtimes a deletion has begun to take apart
  removal,      \* per release, how far a removal of it is
  removals, crashes,       \* the bounds
  hit,          \* history: installs that lost a name to another's sweep
  had, cut, pulled   \* history: releases once installed, whose swap a crash
                     \* cut, that a removal took apart

dir     == <<temp, home, aside, staged, torn>>
asked   == <<feature, sound>>
removing == <<removal, removals>>
history == <<hit, had, cut, pulled>>
vars    == <<phase, asked, installing, leftovers, dir, removing, crashes,
             history>>

\* Inside the try of install, before its finally.
Working == {"entered", "alone", "sweeping", "download", "unpack", "probe",
            "swap", "swapped"}
Live    == Working \cup {"ending", "leaving"}
Running == {i \in Installs : phase[i] \in Live}

\* The type invariant; an install is in the set while its thread is inside.
TypeOK ==
  /\ phase \in [Installs -> {"idle", "ended", "killed"} \cup Live]
  /\ feature \in [Installs -> Features]
  /\ sound \subseteq Installs
  /\ installing = {feature[i] : i \in Running}
  /\ temp \subseteq Names
  /\ leftovers \in [Installs -> SUBSET Names]
  /\ home \in [Features -> Runtimes \cup {None}]
  /\ aside \in [Installs -> Runtimes \cup {None}]
  /\ staged \subseteq Installs /\ torn \subseteq Runtimes
  /\ removal \in [Features -> {"none", "sent", "deleting"}]
  /\ removals \in Nat /\ crashes \in Nat
  /\ hit \subseteq Installs
  /\ had \subseteq Features /\ cut \subseteq Features
  /\ pulled \subseteq Features

\* Some release may be installed already; which release an install is of, and
\* whether its archive is good, is settled in advance.
Init ==
  /\ phase = [i \in Installs |-> "idle"]
  /\ feature \in Requests
  /\ sound \in SUBSET Installs
  /\ installing = {} /\ temp = {}
  /\ leftovers = [i \in Installs |-> {}]
  /\ \E f \in Features \cup {None} :
       home = [g \in Features |-> IF g = f THEN Found ELSE None]
  /\ aside = [i \in Installs |-> None]
  /\ staged = {} /\ torn = {}
  /\ removal = [f \in Features |-> "none"]
  /\ removals = 0 /\ crashes = 0
  /\ hit = {} /\ cut = {} /\ pulled = {}
  /\ had = {f \in Features : home[f] # None}

-----------------------------------------------------------------------------
(* Helpers.  The definitions named ...Mistake are the next one as a plausible *)
(* bug would have it; no action uses them.                                    *)

BarredMistake(f) == FALSE

\* "Java n is already being installed".
Barred(f) == f \in installing

AcceptsMistake(i) == i \notin torn

\* The probe: it starts, and it is the release asked for.  One that is being
\* taken apart may still answer, so long as bin/java is there.
Accepts(i) == i \in sound

SweptKindsMistake == {"download", "staging"}

\* The prefixes _sweep looks for.
SweptKinds == {"download", "staging", "old"}

PutBackMistake(i) == home

\* The second replace failed: the runtime moved aside returns to its place.
PutBack(i) ==
  LET f == feature[i]
  IN IF <<"old", i>> \in temp /\ home[f] = None
       THEN [home EXCEPT ![f] = aside[i]] ELSE home

\* What the finally drops.
OwnNames(i) == Kinds \X {i}

DiscardMistake(i) ==
  IF home[feature[i]] = i THEN installing \ {feature[i]} ELSE installing

\* And the release leaves the set, however the install ended.
Discard(i) == installing \ {feature[i]}

-----------------------------------------------------------------------------
(* An install *)

At(i, p) == phase' = [phase EXCEPT ![i] = p]

\* install_java has resolved the download; the thread enters the set, or is
\* refused and has changed nothing.
Enters(i) ==
  /\ phase[i] = "idle"
  /\ ~Barred(feature[i])
  /\ installing' = installing \cup {feature[i]}
  /\ At(i, "entered")
  /\ UNCHANGED <<asked, leftovers, dir, removing, crashes, history>>

Refused(i) ==
  /\ phase[i] = "idle"
  /\ Barred(feature[i])
  /\ At(i, "ended")
  /\ UNCHANGED <<asked, installing, leftovers, dir, removing, crashes,
                 history>>

\* _sweep, under the lock: is this the only install?
Looks(i) ==
  /\ phase[i] = "entered"
  /\ At(i, IF installing = {feature[i]} THEN "alone" ELSE "download")
  /\ UNCHANGED <<asked, installing, leftovers, dir, removing, crashes,
                 history>>

\* The lock is free again when the directory is read.
Lists(i) ==
  /\ phase[i] = "alone"
  /\ leftovers' = [leftovers EXCEPT ![i] = {n \in temp : n[1] \in SweptKinds}]
  /\ At(i, "sweeping")
  /\ UNCHANGED <<asked, installing, dir, removing, crashes, history>>

\* The runtime under a name.
Under(n) == CASE n[1] = "old"                       -> {aside[n[2]]}
              [] n[1] = "staging" /\ n[2] \in staged -> {n[2]}
              [] OTHER                              -> {}

\* rmtree takes a directory apart first: what is renamed meanwhile goes on
\* being taken apart where it is.
SweepTears(i) ==
  /\ phase[i] = "sweeping"
  /\ \E n \in leftovers[i] \cap temp :
       /\ Under(n) \ torn # {}
       /\ torn' = torn \cup Under(n)
       /\ hit' = IF n[2] \in Running THEN hit \cup {n[2]} ELSE hit
  /\ UNCHANGED <<phase, asked, installing, leftovers, temp, home, aside,
                 staged, removing, crashes, had, cut, pulled>>

SweepDrops(i) ==
  /\ phase[i] = "sweeping"
  /\ \E n \in leftovers[i] :
       /\ leftovers' = [leftovers EXCEPT ![i] = @ \ {n}]
       /\ n \in temp => Under(n) \subseteq torn
       /\ temp' = temp \ {n}
       /\ hit' = IF n \in temp /\ n[2] \in Running THEN hit \cup {n[2]} ELSE hit
  /\ UNCHANGED <<phase, asked, installing, home, aside, torn, staged,
                 removing, crashes, had, cut, pulled>>

Swept(i) ==
  /\ phase[i] = "sweeping" /\ leftovers[i] = {}
  /\ At(i, "download")
  /\ UNCHANGED <<asked, installing, leftovers, dir, removing, crashes,
                 history>>

\* download_verified has opened its file.
Downloads(i) ==
  /\ phase[i] = "download"
  /\ temp' = temp \cup {<<"download", i>>}
  /\ At(i, "unpack")
  /\ UNCHANGED <<asked, installing, leftovers, home, aside, torn, staged,
                 removing, crashes, history>>

\* _unpack, if the archive is still there under its name.
Unpacks(i) ==
  /\ phase[i] = "unpack" /\ <<"download", i>> \in temp
  /\ temp' = temp \cup {<<"staging", i>>}
  /\ staged' = staged \cup {i}
  /\ At(i, "probe")
  /\ UNCHANGED <<asked, installing, leftovers, home, aside, torn, removing,
                 crashes, history>>

Probes(i) ==
  /\ phase[i] = "probe" /\ <<"staging", i>> \in temp
  /\ Accepts(i)
  /\ At(i, "swap")
  /\ UNCHANGED <<asked, installing, leftovers, dir, removing, crashes,
                 history>>

\* The runtime in place is moved aside.
MovesAside(i) ==
  /\ phase[i] = "swap"
  /\ LET f == feature[i]
     IN IF home[f] = None
          THEN UNCHANGED <<temp, home, aside>>
          ELSE /\ aside' = [aside EXCEPT ![i] = home[f]]
               /\ home' = [home EXCEPT ![f] = None]
               /\ temp' = temp \cup {<<"old", i>>}
  /\ At(i, "swapped")
  /\ UNCHANGED <<asked, installing, leftovers, torn, staged, removing, crashes,
                 history>>

\* The new one takes its place; the staging directory is left, empty.
MovesIn(i) ==
  /\ phase[i] = "swapped" /\ <<"staging", i>> \in temp
  /\ home' = [home EXCEPT ![feature[i]] = i]
  /\ staged' = staged \ {i}
  /\ had' = had \cup {feature[i]}
  /\ At(i, "ending")
  /\ UNCHANGED <<asked, installing, leftovers, temp, aside, torn, removing,
                 crashes, hit, cut, pulled>>

\* Any step may raise: no network, a bad checksum, a runtime that does not
\* start, a name that is gone.
Raises(i) ==
  /\ phase[i] \in Working \ {"alone", "sweeping"}
  /\ home' = IF phase[i] = "swapped" THEN PutBack(i) ELSE home
  /\ temp' = IF phase[i] = "swapped" /\ home' # home
               THEN temp \ {<<"old", i>>} ELSE temp
  /\ At(i, "ending")
  /\ UNCHANGED <<asked, installing, leftovers, aside, torn, staged,
                 removing, crashes, history>>

\* The finally: the names first, then, under the lock, the release.
CleansUp(i) ==
  /\ phase[i] = "ending"
  /\ temp' = temp \ OwnNames(i)
  /\ staged' = staged \ {i}
  /\ At(i, "leaving")
  /\ UNCHANGED <<asked, installing, leftovers, home, aside, torn, removing,
                 crashes, history>>

Leaves(i) ==
  /\ phase[i] = "leaving"
  /\ installing' = Discard(i)
  /\ At(i, "ended")
  /\ UNCHANGED <<asked, leftovers, dir, removing, crashes, history>>

-----------------------------------------------------------------------------
(* A removal, instances, and the agent process *)

\* remove_java, when no instance was set to the runtime as it asked.
RemovalSent(f) ==
  /\ removal[f] = "none" /\ removals < MaxRemovals
  /\ removals' = removals + 1
  /\ removal' = [removal EXCEPT ![f] = "sent"]
  /\ UNCHANGED <<phase, asked, installing, leftovers, dir, crashes, history>>

\* The agent finds nothing there, or begins to take it apart.
RemovalBegins(f) ==
  /\ removal[f] = "sent"
  /\ IF home[f] = None
       THEN /\ removal' = [removal EXCEPT ![f] = "none"]
            /\ UNCHANGED <<torn, pulled>>
       ELSE /\ removal' = [removal EXCEPT ![f] = "deleting"]
            /\ torn' = torn \cup {home[f]}
            /\ pulled' = pulled \cup {f}
  /\ UNCHANGED <<phase, asked, installing, leftovers, temp, home, aside,
                 staged, removals, crashes, hit, had, cut>>

\* The last rmdir goes by name: it fails if a new runtime has taken the place.
RemovalEnds(f) ==
  /\ removal[f] = "deleting"
  /\ removal' = [removal EXCEPT ![f] = "none"]
  /\ home' = IF home[f] \in torn THEN [home EXCEPT ![f] = None] ELSE home
  /\ UNCHANGED <<phase, asked, installing, leftovers, temp, aside, torn,
                 staged, removals, crashes, history>>

\* Every thread dies where it is.
AgentDies ==
  /\ crashes < MaxCrashes
  /\ crashes' = crashes + 1
  /\ phase' = [i \in Installs |-> IF i \in Running THEN "killed" ELSE phase[i]]
  /\ installing' = {}
  /\ leftovers' = [i \in Installs |-> {}]
  /\ removal' = [f \in Features |-> "none"]
  /\ cut' = cut \cup {feature[i] : i \in {j \in Running : phase[j] = "swapped"}}
  /\ UNCHANGED <<asked, dir, hit, had, pulled, removals>>

-----------------------------------------------------------------------------
Install(i) == Enters(i) \/ Refused(i) \/ Looks(i) \/ Lists(i) \/ SweepTears(i)
              \/ SweepDrops(i) \/ Swept(i) \/ Downloads(i) \/ Unpacks(i)
              \/ Probes(i) \/ MovesAside(i) \/ MovesIn(i) \/ Raises(i)
              \/ CleansUp(i) \/ Leaves(i)
Removal(f) == RemovalSent(f) \/ RemovalBegins(f) \/ RemovalEnds(f)

Next ==
  \/ \E i \in Installs : Install(i)
  \/ \E f \in Features : Removal(f)
  \/ AgentDies

Spec == Init /\ [][Next]_vars
=============================================================================
