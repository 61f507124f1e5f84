------------------------------ MODULE Creation ------------------------------
(***************************************************************************)
(* What creating servers under one name promises: the directory belongs to *)
(* one creation at a time, a row is recorded as built only once its own    *)
(* creation has completed the directory, and no creation takes anything    *)
(* out of it again but its own, and that only while it is not recorded.    *)
(***************************************************************************)

CONSTANTS
  Rows,   \* the rows ever declared under the name
  None    \* no row

VARIABLES
  row,       \* the row in the database
  owner,     \* the row whose creation the directory belongs to
  complete,  \* the jar and the configuration are in it
  tried      \* rows whose creation has had its one try

vars == <<row, owner, complete, tried>>

Declared(r) == row[r] \in {"declared", "built"}

Init ==
  /\ row = [r \in Rows |-> "none"]
  /\ owner = None /\ complete = FALSE /\ tried = {}

Declare(r) ==
  /\ row[r] = "none"
  /\ \A s \in Rows : ~Declared(s)
  /\ row' = [row EXCEPT ![r] = "declared"]
  /\ UNCHANGED <<owner, complete, tried>>

\* A creation takes a directory nobody has, its row deleted by then or not.
Claim(r) ==
  /\ r \notin tried /\ row[r] \in {"declared", "deleted"}
  /\ owner = None
  /\ owner' = r /\ complete' = FALSE
  /\ tried' = tried \cup {r}
  /\ UNCHANGED row

Complete ==
  /\ owner # None
  /\ complete' = TRUE
  /\ UNCHANGED <<row, owner, tried>>

Record(r) ==
  /\ row[r] = "declared"
  /\ owner = r /\ complete
  /\ row' = [row EXCEPT ![r] = "built"]
  /\ UNCHANGED <<owner, complete, tried>>

CleanUp(r) ==
  /\ owner = r /\ row[r] # "built"
  /\ owner' = None /\ complete' = FALSE
  /\ UNCHANGED <<row, tried>>

\* Rows are deleted, creations refused or cut short: the directory stays.
Withdraw ==
  /\ \E S \in SUBSET Rows :
       row' = [r \in Rows |-> IF r \in S /\ Declared(r) THEN "deleted"
                             ELSE row[r]]
  /\ \E S \in SUBSET Rows : tried' = tried \cup S
  /\ UNCHANGED <<owner, complete>>

Next ==
  \/ Complete \/ Withdraw
  \/ \E r \in Rows : Declare(r) \/ Claim(r) \/ Record(r) \/ CleanUp(r)

Spec == Init /\ [][Next]_vars
=============================================================================
