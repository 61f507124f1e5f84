------------------------ MODULE ServerFilesProperties ------------------------
(* What a server's files are promised.  See ServerFiles for the model. *)
EXTENDS ServerFiles

\* A member an extraction writes is never seen in part: whatever fails, is
\* killed or runs beside it, a torn file is some save's (archive.py:136-142).
MembersAreWhole ==
  \A f \in Files : ~tree[f].whole => tree[f].by \in Saves

\* Cleaning up after a failure never costs a file that was there before the
\* extraction began (archive.py:122, 143).
UndoSparesFound ==
  [][\A e \in Extractions, f \in Files :
       phase[e] = "undoing" /\ created'[e] # created[e] /\ tree'[f] # tree[f]
         => f \notin pre[e]
     ]_vars

\* The version the hub has recorded is that of the file the update was for, as
\* long as nobody has changed the file since, which another update may; and that
\* is the file the start command runs, unless it or the jar path has been edited
\* since the update was asked for, or the stored jar path named another file
\* even then (versions.py:71-128).
RecordedIsInstalled ==
  recorded # Nobody =>
    LET f == target[recorded][1]
    IN /\ f \in changed[recorded] \/ tree[f] = Whole(recorded)
       /\ \/ recorded \in misled \/ Unknown \in changed[recorded]
          \/ f = start.runs

\* What serverjar.py:3-5 calls worse than no answer does not happen: where the
\* hub has recorded a version, the file the start command runs holds it, unless
\* that file has been changed or the command edited since.
RecordedIsWhatRuns ==
  recorded # Nobody =>
    \/ {Unknown, start.runs} \cap changed[recorded] # {}
    \/ tree[start.runs] = Whole(recorded)
=============================================================================
