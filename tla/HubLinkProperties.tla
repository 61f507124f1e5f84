------------------------- MODULE HubLinkProperties -------------------------
(***************************************************************************)
(* What the hub owes the operator and the agents, over HubLink.            *)
(***************************************************************************)
EXTENDS HubLink

\* Every future still pending waits on the connection in the registry: a
\* displaced, revoked or ended connection leaves no caller to run into its
\* timeout on a socket nobody reads.
CallsAwaitTheLiveLink ==
  \A x \in Callers : call[x] = "waiting" => callOn[x] = registered

\* The connection that registered last serves the node until its own endpoint
\* ends: the teardown of an older one, noticed late, does not take it down.
NewestServes ==
  newest # 0 /\ endpoint[newest] = "pump" => registered = newest

\* A stop or kill the hub has recorded, with no start for the instance on its
\* way, is final until somebody asks for a start: no restore, of whatever
\* connection, agent process or hub process, brings the server back.
RecordedStopIsFinal ==
  [][\A i \in calm : server[i] # "up" => server'[i] # "up"]_vars

\* A restore task ends without the help of any timeout: its calls are answered
\* through the pump of the very endpoint that created it.
RestoreFinishes ==
  \A c \in Conns : restore[c] \in Active ~> restore[c] \notin Active
=============================================================================
