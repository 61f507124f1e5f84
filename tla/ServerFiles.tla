----------------------------- MODULE ServerFiles -----------------------------
(***************************************************************************)
(* The files of one server: archives extracted over them (archive.py),     *)
(* saves, renames and deletions from the file explorer (files.py), each in *)
(* a thread of its own, and the update of the server's jar, from the hub's *)
(* choice of the file (api/versions.py) to its swap (updater.py).          *)
(*                                                                         *)
(* Nothing keeps these from running side by side.  A file is known by who  *)
(* wrote what is in it.                                                    *)
(***************************************************************************)
EXTENDS ServerJar

CONSTANTS
  Files,         \* paths in the server's directory
  Extractions, Saves, Renames, Deletions, Edits, Updates,
                 \* requests, each made at most once
  MaxRequests,   \* bound: how many of them are made
  Commands,      \* start commands an operator may set: the tokens of each,
                 \* and the file that it runs
  JarPaths,      \* jar paths an operator may set; Unknown clears it
  Found,         \* who wrote the files that were there at first
  Nobody,        \* writer of a file that is not there
  MaxCrashes     \* bound: agent processes killed

ASSUME RequestAssumption ==
  /\ MaxRequests \in Nat /\ MaxCrashes \in Nat
  /\ Unknown \notin Files /\ JarPaths \subseteq Files \cup {Unknown}
  /\ Nobody \notin Extractions \cup Saves \cup Updates \cup {Found}

\* A request is of one kind.
ASSUME KindAssumption ==
  /\ Saves \cap Renames = {}
  /\ Updates \cap (Saves \cup Renames \cup Deletions \cup Edits) = {}
  /\ Extractions \cap (Saves \cup Renames \cup Deletions \cup Edits
                         \cup Updates) = {}

\* Paths lead into the server's directory (resolve_within).
ASSUME CommandAssumption ==
  \A c \in Commands : /\ c.tokens \in Seq([is : STRING, names : Seq(Files)])
                       /\ c.runs \in Files

Requests == Extractions \cup Saves \cup Renames \cup Deletions \cup Edits
            \cup Updates
Writers  == Extractions \cup Saves \cup Updates \cup {Found}

VARIABLES
  tree,        \* per path, what is in it
  phase,       \* per request, how far it is
  members,     \* per extraction, the files in its archive
  overwrite,   \* extractions that may replace files
  todo,        \* per extraction, the members still to be written
  pre,         \* per extraction, the members it found when it looked
  created,     \* per extraction, the members it has made
  part,        \* per extraction and update, the temporary file it writes
  target,      \* per rename and update, the files it is about
  start,       \* the start command in the hub's database
  jarPath,     \* the jar path beside it, a field of its own
  recorded,    \* the update whose version the hub has recorded
  crashes,     \* the bound
  misled,      \* history: updates asked for while the jar path named another
               \* file than the start command runs
  changed      \* history: per update, the files changed since it replaced its
               \* own, and Unknown if the command or the jar path has been
               \* edited since it was asked for

work    == <<phase, todo, pre, created, part, target>>
archive == <<members, overwrite>>
hub     == <<start, jarPath, recorded, misled>>
vars    == <<tree, work, archive, hub, crashes, changed>>

NoFile      == [by |-> Nobody, whole |-> TRUE]
Whole(by)   == [by |-> by, whole |-> TRUE]
Partial(by) == [by |-> by, whole |-> FALSE]
Exists(f)   == tree[f] # NoFile
Contents    == [by : Writers, whole : BOOLEAN] \cup {NoFile}

\* The type invariant; every extraction is accounted for, member by member.
TypeOK ==
  /\ tree \in [Files -> Contents]
  /\ phase \in [Requests -> {"idle", "working", "part", "undoing", "installed",
                             "ended", "refused", "failed", "killed"}]
  /\ members \in [Extractions -> SUBSET Files]
  /\ overwrite \subseteq Extractions
  /\ \A e \in Extractions :
       /\ todo[e] \subseteq members[e] /\ pre[e] \subseteq members[e]
       /\ created[e] \subseteq members[e] \ pre[e]
       /\ phase[e] = "working" =>
            created[e] = members[e] \ (pre[e] \cup todo[e])
  /\ part \in [Extractions \cup Updates -> Files \cup {Unknown}]
  /\ target \in [Renames \cup Updates -> {<<>>} \cup Files \X Files]
  /\ start \in Commands
  /\ jarPath \in Files \cup {Unknown}
  /\ misled \subseteq Updates
  /\ recorded \in Updates \cup {Nobody}
  /\ crashes \in Nat
  /\ changed \in [Updates -> SUBSET (Files \cup {Unknown})]

\* A server the hub created has the jar path it was installed under, one that
\* was declared has what the operator gave.
Init ==
  /\ tree \in [Files -> {Whole(Found), NoFile}]
  /\ phase = [r \in Requests |-> "idle"]
  /\ members = [e \in Extractions |-> {}] /\ overwrite = {}
  /\ todo = members /\ pre = members /\ created = members
  /\ part = [r \in Extractions \cup Updates |-> Unknown]
  /\ target = [r \in Renames \cup Updates |-> <<>>]
  /\ start \in Commands /\ jarPath \in {start.runs} \cup JarPaths
  /\ recorded = Nobody /\ misled = {}
  /\ crashes = 0 /\ changed = [u \in Updates |-> {}]

-----------------------------------------------------------------------------
(* Helpers.  The definitions named ...Mistake are the next one as a plausible *)
(* bug would have it; no action uses them.                                    *)

DuringMistake(e, f) == [tree EXCEPT ![f] = Partial(e)]

\* While a member is written its target is left alone.
During(e, f) == tree

CreatedForgetful(e, f) ==
  IF e \in overwrite THEN created[e] ELSE created[e] \cup {f}

CreatedMistake(e, f) == created[e] \cup {f}

\* What a failure takes away again: members that were not there before.
Created(e, f) == IF f \in pre[e] THEN created[e] ELSE created[e] \cup {f}

\* Checked against the files found at the start, for the whole archive.
Conflicts(e) == pre[e] # {}

\* The finally unlinks the temporary file.
PartLeft(e) == [part EXCEPT ![e] = Unknown]

Change(files) == changed' = [u \in Updates |-> changed[u] \cup files]

\* What an extraction knows ends with it.
Forget(extractions) ==
  LET Dropped(known) ==
        [e \in Extractions |-> IF e \in extractions THEN {} ELSE known[e]]
  IN /\ members' = Dropped(members) /\ todo' = Dropped(todo)
     /\ pre' = Dropped(pre)         /\ created' = Dropped(created)
     /\ overwrite' = overwrite \ extractions

\* What an archive of any format can hold once links and devices are passed
\* over: regular files, of which a gzip has one.  A member outside the server's
\* directory, or too many bytes, is refused before anything is written.
Archives == SUBSET Files

Begins(r) ==
  /\ phase[r] = "idle"
  /\ Cardinality({q \in Requests : phase[q] # "idle"}) < MaxRequests

At(r, p) == phase' = [phase EXCEPT ![r] = p]

-----------------------------------------------------------------------------
(* Extraction *)

\* The plan is made, the budget checked, and the targets looked at.
Looks(e) ==
  /\ Begins(e)
  /\ \E files \in Archives :
       /\ members' = [members EXCEPT ![e] = files]
       /\ todo' = [todo EXCEPT ![e] = files]
       /\ pre' = [pre EXCEPT ![e] = {f \in files : Exists(f)}]
  /\ overwrite' \in {overwrite, overwrite \cup {e}}
  /\ At(e, "working")
  /\ UNCHANGED <<tree, hub, created, part, target, crashes, changed>>

\* Conflicts are returned, and nothing is written.
Refuses(e) ==
  /\ phase[e] = "working" /\ todo[e] = members[e]
  /\ Conflicts(e) /\ e \notin overwrite
  /\ At(e, "refused") /\ Forget({e})
  /\ UNCHANGED <<tree, hub, part, target, crashes, changed>>

Proceeds(e) == e \in overwrite \/ ~Conflicts(e)

WritesPart(e) ==
  /\ phase[e] = "working" /\ Proceeds(e)
  /\ \E f \in todo[e] :
       /\ part' = [part EXCEPT ![e] = f]
       /\ tree' = During(e, f)
  /\ At(e, "part")
  /\ UNCHANGED <<archive, hub, todo, pre, created, target, crashes, changed>>

\* The member is complete and takes the target's place.
Replaces(e) ==
  /\ phase[e] = "part"
  /\ LET f == part[e]
     IN /\ tree' = [tree EXCEPT ![f] = Whole(e)]
        /\ created' = [created EXCEPT ![e] = Created(e, f)]
        /\ todo' = [todo EXCEPT ![e] = @ \ {f}]
        /\ Change({f})
  /\ part' = [part EXCEPT ![e] = Unknown]
  /\ At(e, "working")
  /\ UNCHANGED <<archive, hub, pre, target, crashes>>

\* A corrupt member, a full disk, a directory in a file's place.
Raises(e) ==
  /\ phase[e] \in {"working", "part"} /\ Proceeds(e)
  /\ part' = PartLeft(e)
  /\ todo' = [todo EXCEPT ![e] = {}]
  /\ At(e, "undoing")
  /\ UNCHANGED <<tree, archive, hub, pre, created, target, crashes,
                 changed>>

\* One file after another, by name: whoever wrote it last.
Undoes(e) ==
  /\ phase[e] = "undoing"
  /\ \E f \in created[e] :
       /\ tree' = [tree EXCEPT ![f] = NoFile]
       /\ created' = [created EXCEPT ![e] = @ \ {f}]
       /\ Change({f})
  /\ UNCHANGED <<phase, archive, hub, todo, pre, part, target, crashes>>

Ends(e) ==
  /\ \/ phase[e] = "working" /\ Proceeds(e) /\ todo[e] = {} /\ At(e, "ended")
     \/ phase[e] = "undoing" /\ created[e] = {} /\ At(e, "failed")
  /\ Forget({e})
  /\ UNCHANGED <<tree, hub, part, target, crashes, changed>>

-----------------------------------------------------------------------------
(* The file explorer *)

\* write_text and write_bytes truncate the file and fill it.
Truncates(s) ==
  /\ Begins(s)
  /\ \E f \in Files : tree' = [tree EXCEPT ![f] = Partial(s)] /\ Change({f})
  /\ At(s, "working")
  /\ UNCHANGED <<archive, hub, todo, pre, created, part, target, crashes>>

\* The text goes to the file that was opened, wherever it is by now.
Fills(s) ==
  /\ phase[s] = "working"
  /\ tree' = [f \in Files |-> IF tree[f] = Partial(s) THEN Whole(s)
                              ELSE tree[f]]
  /\ At(s, "ended")
  /\ UNCHANGED <<archive, hub, todo, pre, created, part, target, crashes,
                 changed>>

\* rename: the new name is free when it is looked at, and taken later.
RenameLooks(r) ==
  /\ Begins(r)
  /\ \E from, to \in Files :
       /\ Exists(from) /\ ~Exists(to)
       /\ target' = [target EXCEPT ![r] = <<from, to>>]
  /\ At(r, "working")
  /\ UNCHANGED <<tree, archive, hub, todo, pre, created, part, crashes,
                 changed>>

Renamed(r) ==
  /\ phase[r] = "working"
  /\ LET from == target[r][1]
         to   == target[r][2]
     IN IF Exists(from)
          THEN /\ tree' = [tree EXCEPT ![to] = tree[from], ![from] = NoFile]
               /\ Change({from, to})
          ELSE UNCHANGED <<tree, changed>>
  /\ At(r, "ended")
  /\ UNCHANGED <<archive, hub, todo, pre, created, part, target, crashes>>

Deletes(d) ==
  /\ Begins(d)
  /\ \E f \in Files : /\ Exists(f)
                      /\ tree' = [tree EXCEPT ![f] = NoFile]
                      /\ Change({f})
  /\ At(d, "ended")
  /\ UNCHANGED <<archive, hub, todo, pre, created, part, target, crashes>>

-----------------------------------------------------------------------------
(* The update of the jar *)

\* PATCH of the instance: the operator edits the start command, the jar path or
\* both, and neither edit looks at the other field.
EditsCommand(x) ==
  /\ Begins(x)
  /\ start' \in Commands
  /\ jarPath' \in {jarPath} \cup JarPaths
  /\ Change({Unknown})
  /\ At(x, "ended")
  /\ UNCHANGED <<tree, archive, recorded, misled, todo, pre, created, part,
                 target, crashes>>

\* update_instance: the file is the stored jar path's or else read off the start
\* command; without either the update is refused.
Asks(u) ==
  /\ Begins(u)
  /\ LET f == Resolve(start.tokens, jarPath)
     IN /\ f # Unknown
        /\ Exists(f) \/ AllowCreate(jarPath)
        /\ target' = [target EXCEPT ![u] = <<f, f>>]
        /\ part' = [part EXCEPT ![u] = f]
  /\ misled' = IF jarPath \in {Unknown, start.runs} THEN misled
               ELSE misled \cup {u}
  /\ changed' = [changed EXCEPT ![u] = {}]
  /\ At(u, "part")
  /\ UNCHANGED <<tree, archive, start, jarPath, recorded, todo, pre, created,
                 crashes>>

\* Verified: what is there by now is replaced, after a copy is kept.
Swaps(u) ==
  /\ phase[u] = "part"
  /\ LET f == part[u]
     IN /\ tree' = [tree EXCEPT ![f] = Whole(u)]
        /\ changed' = [v \in Updates |-> IF v = u THEN changed[v] \ {f}
                                         ELSE changed[v] \cup {f}]
  /\ part' = PartLeft(u)
  /\ At(u, "installed")
  /\ UNCHANGED <<archive, hub, todo, pre, created, target, crashes>>

UpdateFails(u) ==
  /\ phase[u] = "part"
  /\ part' = PartLeft(u)
  /\ At(u, "failed")
  /\ UNCHANGED <<tree, archive, hub, todo, pre, created, target, crashes,
                 changed>>

\* The hub has the answer, or has stopped waiting for it.
Records(u) ==
  /\ phase[u] = "installed"
  /\ recorded' \in {u, recorded}
  /\ At(u, "ended")
  /\ UNCHANGED <<tree, archive, start, jarPath, misled, todo, pre, created,
                 part, target, crashes, changed>>

-----------------------------------------------------------------------------
\* Every request stops where it is.
AgentDies ==
  /\ crashes < MaxCrashes
  /\ crashes' = crashes + 1
  /\ phase' = [r \in Requests |->
                 IF phase[r] \in {"working", "part", "undoing", "installed"}
                   THEN "killed" ELSE phase[r]]
  /\ Forget(Extractions)
  /\ UNCHANGED <<tree, hub, part, target, changed>>

Extracts(e) == Looks(e) \/ Refuses(e) \/ WritesPart(e) \/ Replaces(e)
               \/ Raises(e) \/ Undoes(e) \/ Ends(e)
Update(u)   == Asks(u) \/ Swaps(u) \/ UpdateFails(u) \/ Records(u)

Next ==
  \/ \E e \in Extractions : Extracts(e)
  \/ \E s \in Saves : Truncates(s) \/ Fills(s)
  \/ \E r \in Renames : RenameLooks(r) \/ Renamed(r)
  \/ \E d \in Deletions : Deletes(d)
  \/ \E x \in Edits : EditsCommand(x)
  \/ \E u \in Updates : Update(u)
  \/ AgentDies

Spec == Init /\ [][Next]_vars
=============================================================================
