--------------------------- MODULE BuildProperties ---------------------------
(* What the code that creates servers is to guarantee. *)
EXTENDS Build

\* At most one handler works in the directory, however creations, deletions
\* and failures of the same name overlap (provision.py:96-98).
OneBuilder ==
  \A r, s \in Rows :
    handler[r] \in Building /\ handler[s] \in Building => r = s

\* A row recorded as built has its jar and its configuration, put there by its
\* own creation: no late clean-up of another one takes them away
\* (servers.py:171-178, provision.py:188-207).
BuiltIsComplete ==
  \A r \in Rows : row[r] = "built" =>
    owner = r /\ {"jar", "config"} \subseteq files

\* A creation reported as failed leaves no file, no session and no supervision
\* behind, unless somebody started the half-built server (provision.py:56).
FailureLeavesNothing ==
  \A r \in Rows : handler[r] = "refused" /\ r \notin meddled =>
    owner # r /\ r \notin session /\ r \notin supervised

\* The monitor relaunches nothing that is being created: the configuration run
\* ends by itself (supervisor.py:374-380).  A server somebody else started
\* while it is built is not the configuration run.
ConfigurationRunEnds ==
  [][\A r \in Rows :
       handler[r] \in Building /\ r \notin meddled
         => ~MonitorRelaunches(r)]_vars

\* The hub's rows and build tasks, the agent's handlers and the directory they
\* meet in implement the abstract creation (servers.py:59-200, provision.py:74-207).
Ready == {"jar", "config"} \subseteq files
Tried == {r \in Rows : handler[r] \notin {"none", "sent"}}
Site  == INSTANCE Creation WITH complete <- Ready, tried <- Tried
CreationSpec == Site!Spec

\* Every creation comes to an end the user sees, without its time limit
\* (servers.py:143-187).
BuildEnds ==
  \A r \in Rows :
    row[r] = "declared" ~> row[r] # "declared" \/ r \in orphaned
=============================================================================
