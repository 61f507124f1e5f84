---------------------------- MODULE Supervision ----------------------------
(***************************************************************************)
(* What supervision of one instance promises whoever gives it orders: a    *)
(* session comes into being only while the last order leaves room for one  *)
(* and no update holds the instance, and the agent brings it back by       *)
(* itself at most Budget times before something new grants it more.        *)
(***************************************************************************)
EXTENDS Naturals

CONSTANT Budget

VARIABLES
  up,         \* the instance has a session
  order,      \* the last order, while the agent remembers it: "up", or "down",
              \* or "calm" when that found nothing else in flight
  held,       \* an update holds the instance
  relaunches  \* sessions the agent created by itself since it was last granted
              \* relaunches

vars == <<up, order, held, relaunches>>

Init == up = FALSE /\ order = "calm" /\ held = FALSE /\ relaunches = 0

\* Nothing but an order to be up, or a restart of the agent, ends a calm.
Ordered ==
  /\ order' \in {"up", "down", "calm"}
  /\ order = "calm" => order' # "down"
  /\ UNCHANGED <<up, held, relaunches>>

Launchable == ~up /\ ~held /\ order # "calm"

Launch ==
  /\ Launchable
  /\ up' = TRUE
  /\ relaunches' = 0
  /\ UNCHANGED <<order, held>>

Relaunch ==
  /\ Launchable
  /\ relaunches < Budget
  /\ up' = TRUE
  /\ relaunches' = relaunches + 1
  /\ UNCHANGED <<order, held>>

\* A start succeeds, a clean exit is honoured, an old crash leaves the window,
\* or a counted failure is forgotten: what was spent is granted again, but never
\* out of a calm.
Granted ==
  /\ order # "calm"
  /\ relaunches' = 0
  /\ UNCHANGED <<up, order, held>>

Ends ==
  /\ up' = FALSE
  /\ UNCHANGED <<order, held, relaunches>>

Hold ==
  /\ ~up
  /\ held' = TRUE
  /\ UNCHANGED <<up, order, relaunches>>

Release ==
  /\ held' = FALSE
  /\ UNCHANGED <<up, order, relaunches>>

\* The agent process ends; a session may outlive it.
Forgotten ==
  /\ order' = "calm" /\ held' = FALSE /\ relaunches' = 0
  /\ UNCHANGED up

Next ==
  \/ Ordered \/ Launch \/ Relaunch \/ Granted \/ Ends
  \/ Hold \/ Release \/ Forgotten

Spec == Init /\ [][Next]_vars
=============================================================================
