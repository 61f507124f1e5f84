------------------------------ MODULE HubLink ------------------------------
(***************************************************************************)
(* The hub's link to the agent of one node: the registry of live           *)
(* connections (agents/registry.py), the endpoint agents dial into         *)
(* (api/agent_ws.py), the restore of declared run state                    *)
(* (api/reconcile.py), the power route (api/control.py) and the agent's    *)
(* side of the socket (connection.py).                                     *)
(*                                                                         *)
(* Hub and agent are one asyncio loop each: an action runs one coroutine   *)
(* from one await to the next.  Between them runs one socket per dial,     *)
(* ordered while it lives; either side may lose it first.  What a power    *)
(* command does on the node is one step here, and is Supervisor's subject. *)
(***************************************************************************)
EXTENDS Naturals, Sequences

CONSTANTS
  Instances,        \* instances declared on the node, in restore order
  Requests,         \* power requests of UI users, one use each
  MaxConns,         \* bound: times an agent dials
  MaxProcs,         \* bound: agent processes started
  MaxHubRestarts,   \* bound: hub processes lost
  MaxConsoleStops,  \* bound: servers stopped from their console
  MaxRevocations    \* bound: credentials revoked

Conns   == 1..MaxConns
Procs   == 1..MaxProcs
Callers == Requests \cup Conns    \* a connection's restore calls as that one
Ops     == {"start", "stop"}      \* restart ends as start does, kill as stop

ASSUME InstanceAssumption == Instances \subseteq Nat /\ Instances # {}
ASSUME CallerAssumption   == Requests \cap Conns = {}
ASSUME BoundAssumption    ==
  /\ MaxConns \in Nat /\ MaxProcs \in Nat /\ MaxHubRestarts \in Nat
  /\ MaxConsoleStops \in Nat /\ MaxRevocations \in Nat

VARIABLES
  armed,        \* instances with start_with_node set (database)
  claimed,      \* the node's agent_session_id (database), 0 for none
  registered,   \* the connection in the registry, 0 for none
  endpoint,     \* per connection, where its agent_endpoint is
  closing,      \* connections whose close() task is scheduled
  closed,       \* connections close() has run on
  restore,      \* per connection, where its restore task is
  remaining,    \* instances that restore still has to look at
  call,         \* per caller, its pending future
  callOn,       \* the connection that future waits on
  callFor,      \* the instance it is about
  asks,         \* per request, the operation
  toHub,        \* frames in flight to the hub, per connection
  toAgent,      \* frames in flight to the agent, per connection
  helloFrom,    \* the agent process that dialled a connection
  proc,         \* the latest agent process
  phase,        \* what that process's connection loop is doing
  sock,         \* the connection it holds, 0 for none
  handlers,     \* its command handlers in flight
  server,       \* per instance, its server
  supervised,   \* instances with should_be_up set
  hubRestarts, consoleStops, revocations,        \* the bounds
  newest, consoleDown, calm                      \* history, properties only

db      == <<armed, claimed>>
hub     == <<registered, endpoint, closing, closed, restore, remaining, call,
             callOn, callFor>>
wires   == <<toHub, toAgent>>
agent   == <<proc, phase, sock, handlers>>
nodes   == <<server, supervised>>
bounds  == <<hubRestarts, consoleStops, revocations>>
history == <<newest, consoleDown, calm>>
vars    == <<db, hub, wires, agent, nodes, bounds, history, asks, helloFrom>>

Frames   == [kind: {"ok", "refused", "clean_exit"}, by: Callers \cup {0},
             inst: Instances]
Commands == [by: Callers, inst: Instances, op: Ops]
Handlers == [by: Callers, inst: Instances, op: Ops,
             at: {"todo", "ok", "refused"}]

\* A restore task that has not ended.
Active == {"ready", "stagger", "call"}

\* The type invariant: in particular what reaches the hub on a socket is an
\* outcome or an event, never a handler still at work.
TypeOK ==
  /\ armed \subseteq Instances
  /\ claimed \in Procs \cup {0}
  /\ registered \in Conns \cup {0}
  /\ endpoint \in [Conns -> {"none", "hello", "welcome", "pump", "ended"}]
  /\ closing \subseteq Conns
  /\ closed \subseteq Conns
  /\ restore \in [Conns -> {"off", "skipped", "abandoned", "cancelled",
                            "done"} \cup Active]
  /\ remaining \in [Conns -> SUBSET Instances]
  /\ call \in [Callers -> {"none", "waiting", "ok", "refused", "lost",
                           "done"}]
  /\ callOn \in [Callers -> Conns \cup {0}]
  /\ callFor \in [Callers -> Instances]
  /\ asks \in [Requests -> Ops]
  /\ toHub \in [Conns -> Seq(Frames)]
  /\ toAgent \in [Conns -> Seq(Commands)]
  /\ helloFrom \in [Conns -> Procs \cup {0}]
  /\ proc \in Procs \cup {0}
  /\ phase \in {"down", "away", "hello", "serving"}
  /\ sock \in Conns \cup {0}
  /\ handlers \subseteq Handlers
  /\ server \in [Instances -> {"down", "up", "exited"}]
  /\ supervised \subseteq Instances
  /\ hubRestarts \in Nat /\ consoleStops \in Nat /\ revocations \in Nat
  /\ newest \in Conns \cup {0}
  /\ consoleDown \subseteq Instances
  /\ calm \subseteq Instances

\* pending_for orders by name.
First(set) == CHOOSE i \in set : \A j \in set : i <= j

\* A node that is off; the database declares any of its instances to run.
Init ==
  /\ armed \in SUBSET Instances /\ claimed = 0
  /\ registered = 0
  /\ endpoint = [c \in Conns |-> "none"]
  /\ closing = {} /\ closed = {}
  /\ restore = [c \in Conns |-> "off"]
  /\ remaining = [c \in Conns |-> {}]
  /\ call = [x \in Callers |-> "none"]
  /\ callOn = [x \in Callers |-> IF x \in Conns THEN x ELSE 0]
  /\ callFor = [x \in Callers |-> First(Instances)]
  /\ asks \in [Requests -> Ops]
  /\ toHub = [c \in Conns |-> <<>>] /\ toAgent = [c \in Conns |-> <<>>]
  /\ helloFrom = [c \in Conns |-> 0]
  /\ proc = 0 /\ phase = "down" /\ sock = 0 /\ handlers = {}
  /\ server = [i \in Instances |-> "down"] /\ supervised = {}
  /\ hubRestarts = 0 /\ consoleStops = 0 /\ revocations = 0
  /\ newest = 0 /\ consoleDown = {} /\ calm = {}

-----------------------------------------------------------------------------
(* Helpers.  The definitions named ...Mistake are the next one as a plausible *)
(* bug would have it; no action uses them.                                    *)

OpOf(x) == IF x \in Requests THEN asks[x] ELSE "start"

\* Something that may still start i, or arm it, is on its way.
StartInFlight(i) ==
  \/ \E x \in Callers :
       call[x] \in {"waiting", "ok"} /\ OpOf(x) = "start" /\ callFor[x] = i
  \/ \E c \in Conns : \E k \in DOMAIN toAgent[c] :
       toAgent[c][k].op = "start" /\ toAgent[c][k].inst = i
  \/ \E h \in handlers : h.op = "start" /\ h.inst = i /\ h.at = "todo"

\* What is written to a socket the other side has left is read by nobody.
ToAgent(c, cmd) ==
  toAgent' = IF sock = c THEN [toAgent EXCEPT ![c] = Append(@, cmd)]
             ELSE toAgent

ToHub(c, frame) ==
  toHub' = IF endpoint[c] \in {"welcome", "pump"}
             THEN [toHub EXCEPT ![c] = Append(@, frame)] ELSE toHub

RejectMistake(calls, c) == calls

\* fail_all: every future waiting on c is rejected.
Reject(calls, c) ==
  [x \in Callers |-> IF calls[x] = "waiting" /\ callOn[x] = c THEN "lost"
                     ELSE calls[x]]

UnregisterMistake(c) == 0

\* The endpoint takes the registry entry down only if it is still its own.
Unregister(c) == IF registered = c THEN 0 ELSE registered

\* _start reads the row again before it sends.
StillArmed(i) == i \in armed

\* _claim_agent_session: the connecting process is not the one recorded.
Restarted(c) == claimed # helloFrom[c]

DeclareMistake(op, i) == IF op = "start" THEN armed \cup {i} ELSE armed

\* start_with_node follows the operation the agent accepted.
Declare(op, i) == IF op = "start" THEN armed \cup {i} ELSE armed \ {i}

WorkDoneMistake(h) == TRUE

\* The handler is awaited before its outcome is sent.
WorkDone(h) == h.at # "todo"

MayPumpMistake(c) == endpoint[c] = "pump" /\ restore[c] \notin Active

\* The frame pump runs alongside the restore, never after it.
MayPump(c) == endpoint[c] = "pump"

-----------------------------------------------------------------------------
(* The endpoint *)

\* The Hello is read and accepted; Welcome is being sent.
Authenticates(c) ==
  /\ endpoint[c] = "hello"
  /\ endpoint' = [endpoint EXCEPT ![c] = "welcome"]
  /\ UNCHANGED <<db, registered, closing, closed, restore, remaining, call,
                 callOn, callFor, wires, agent, nodes, bounds, history, asks,
                 helloFrom>>

\* No Hello in time, a refused one, or the socket is gone before the Welcome.
HandshakeFails(c) ==
  /\ endpoint[c] \in {"hello", "welcome"}
  /\ endpoint' = [endpoint EXCEPT ![c] = "ended"]
  /\ toHub' = [toHub EXCEPT ![c] = <<>>]
  /\ UNCHANGED <<db, registered, closing, closed, restore, remaining, call,
                 callOn, callFor, toAgent, agent, nodes, bounds, history,
                 asks, helloFrom>>

\* Welcome is sent: claim the session, displace the connection registered so
\* far, create the restore task.
Registers(c) ==
  /\ endpoint[c] = "welcome"
  /\ endpoint' = [endpoint EXCEPT ![c] = "pump"]
  /\ claimed' = helloFrom[c]
  /\ registered' = c
  /\ call' = Reject(call, registered)
  /\ closing' = IF registered = 0 THEN closing ELSE closing \cup {registered}
  /\ restore' = [restore EXCEPT ![c] = IF Restarted(c) THEN "ready"
                                       ELSE "skipped"]
  /\ newest' = c
  /\ UNCHANGED <<armed, closed, remaining, callOn, callFor, wires, agent,
                 nodes, bounds, consoleDown, calm, asks, helloFrom>>

\* The endpoint's finally: its restore is cancelled wherever it is.  A close()
\* still scheduled finds nothing left to do.
EndEndpoint(c, calls) ==
  /\ endpoint' = [endpoint EXCEPT ![c] = "ended"]
  /\ restore' = [restore EXCEPT ![c] = IF @ \in Active THEN "cancelled" ELSE @]
  /\ remaining' = [remaining EXCEPT ![c] = {}]
  /\ call' = [Reject(calls, c) EXCEPT ![c] = "none"]
  /\ registered' = Unregister(c)
  /\ newest' = IF newest = c THEN 0 ELSE newest
  /\ closing' = closing \ {c} /\ closed' = closed \ {c}
  /\ toHub' = [toHub EXCEPT ![c] = <<>>]

\* A response settles the future it is correlated with, if that still waits.
Resolve(f) ==
  IF f.by \in Callers /\ call[f.by] = "waiting" /\ callFor[f.by] = f.inst
    THEN [call EXCEPT ![f.by] = f.kind] ELSE call

\* A frame read; a connection the hub has closed reads no further one.
Pumps(c) ==
  /\ MayPump(c)
  /\ toHub[c] # <<>>
  /\ LET f     == Head(toHub[c])
         calls == IF f.kind = "clean_exit" THEN call ELSE Resolve(f)
     IN /\ armed' = IF f.kind = "clean_exit" THEN armed \ {f.inst} ELSE armed
        /\ \/ c \in closed /\ EndEndpoint(c, calls)
           \/ /\ c \notin closed
              /\ call' = calls
              /\ toHub' = [toHub EXCEPT ![c] = Tail(@)]
              /\ UNCHANGED <<endpoint, restore, remaining, registered,
                             closing, closed, newest>>
  /\ UNCHANGED <<claimed, callOn, callFor, toAgent, agent, nodes, bounds,
                 consoleDown, calm, asks, helloFrom>>

\* The socket is gone, for the agent or for the network; frames not read yet
\* may be lost with it.
HubNotices(c) ==
  /\ endpoint[c] = "pump"
  /\ EndEndpoint(c, call)
  /\ UNCHANGED <<db, callOn, callFor, toAgent, agent, nodes, bounds,
                 consoleDown, calm, asks, helloFrom>>

\* The close() task of a displaced connection.
Closes(c) ==
  /\ c \in closing
  /\ closing' = closing \ {c}
  /\ closed' = closed \cup {c}
  /\ call' = Reject(call, c)
  /\ UNCHANGED <<db, registered, endpoint, restore, remaining, callOn,
                 callFor, wires, agent, nodes, bounds, history, asks,
                 helloFrom>>

\* registry.disconnect: the node is enrolled anew.
Revokes ==
  /\ revocations < MaxRevocations
  /\ registered # 0
  /\ revocations' = revocations + 1
  /\ registered' = 0
  /\ closed' = closed \cup {registered}
  /\ call' = Reject(call, registered)
  /\ newest' = 0
  /\ UNCHANGED <<db, endpoint, closing, restore, remaining, callOn, callFor,
                 wires, agent, nodes, hubRestarts, consoleStops, consoleDown,
                 calm, asks, helloFrom>>

HubRestarts ==
  /\ hubRestarts < MaxHubRestarts
  /\ hubRestarts' = hubRestarts + 1
  /\ endpoint' = [c \in Conns |-> IF endpoint[c] = "none" THEN "none"
                                  ELSE "ended"]
  /\ registered' = 0 /\ newest' = 0 /\ closing' = {} /\ closed' = {}
  /\ restore' = [c \in Conns |-> IF restore[c] \in Active THEN "cancelled"
                                 ELSE restore[c]]
  /\ call' = [x \in Callers |-> IF x \in Conns \/ call[x] = "none" THEN "none"
                                ELSE "done"]
  /\ toHub' = [c \in Conns |-> <<>>]
  /\ remaining' = [c \in Conns |-> {}]
  /\ UNCHANGED <<db, callOn, callFor, toAgent, agent, nodes,
                 consoleStops, revocations, consoleDown, calm, asks,
                 helloFrom>>

-----------------------------------------------------------------------------
(* The restore task of a connection *)

\* One pass of the loop with todo left: give up if a newer connection owns the
\* node, else send the next start, unless that instance was disarmed meanwhile.
Proceed(c, todo) ==
  LET i == First(todo)
  IN \/ /\ registered # c
        /\ restore' = [restore EXCEPT ![c] = "abandoned"]
        /\ remaining' = [remaining EXCEPT ![c] = {}]
        /\ UNCHANGED <<call, callFor, toAgent>>
     \/ /\ registered = c
        /\ StillArmed(i)
        /\ restore' = [restore EXCEPT ![c] = "call"]
        /\ remaining' = [remaining EXCEPT ![c] = todo \ {i}]
        /\ call' = [call EXCEPT ![c] = "waiting"]
        /\ callFor' = [callFor EXCEPT ![c] = i]
        /\ ToAgent(c, [by |-> c, inst |-> i, op |-> "start"])
     \/ /\ registered = c
        /\ ~StillArmed(i)
        /\ restore' = [restore EXCEPT ![c] = IF todo = {i} THEN "done"
                                             ELSE "stagger"]
        /\ remaining' = [remaining EXCEPT ![c] = todo \ {i}]
        /\ UNCHANGED <<call, callFor, toAgent>>

RestoreBegins(c) ==
  /\ restore[c] = "ready"
  /\ \/ armed # {} /\ Proceed(c, armed)
     \/ /\ armed = {}
        /\ restore' = [restore EXCEPT ![c] = "done"]
        /\ UNCHANGED <<remaining, call, callFor, toAgent>>
  /\ UNCHANGED <<db, registered, endpoint, closing, closed, callOn, toHub,
                 agent, nodes, bounds, history, asks, helloFrom>>

RestoreStaggered(c) ==
  /\ restore[c] = "stagger"
  /\ Proceed(c, remaining[c])
  /\ UNCHANGED <<db, registered, endpoint, closing, closed, callOn, toHub,
                 agent, nodes, bounds, history, asks, helloFrom>>

\* Answered, refused, rejected or timed out: on to the next, after a pause.
RestoreResumes(c) ==
  /\ restore[c] = "call"
  /\ call[c] \in {"ok", "refused", "lost"}
  /\ call' = [call EXCEPT ![c] = "none"]
  /\ restore' = [restore EXCEPT ![c] = IF remaining[c] = {} THEN "done"
                                       ELSE "stagger"]
  /\ UNCHANGED <<db, registered, endpoint, closing, closed, remaining, callOn,
                 callFor, wires, agent, nodes, bounds, history, asks,
                 helloFrom>>

\* The write raised something no call expects: the rest of the list is lost.
RestoreFails(c) ==
  /\ restore[c] = "call"
  /\ call[c] = "waiting"
  /\ sock # c
  /\ restore' = [restore EXCEPT ![c] = "done"]
  /\ remaining' = [remaining EXCEPT ![c] = {}]
  /\ call' = [call EXCEPT ![c] = "none"]
  /\ UNCHANGED <<db, registered, endpoint, closing, closed, callOn, callFor,
                 wires, agent, nodes, bounds, history, asks, helloFrom>>

-----------------------------------------------------------------------------
(* Power requests *)

RequestSends(r, i) ==
  /\ call[r] = "none"
  /\ registered # 0
  /\ call' = [call EXCEPT ![r] = "waiting"]
  /\ callOn' = [callOn EXCEPT ![r] = registered]
  /\ callFor' = [callFor EXCEPT ![r] = i]
  /\ ToAgent(registered, [by |-> r, inst |-> i, op |-> asks[r]])
  /\ calm' = IF asks[r] = "start" THEN calm \ {i} ELSE calm
  /\ UNCHANGED <<db, registered, endpoint, closing, closed, restore,
                 remaining, toHub, agent, nodes, bounds, newest, consoleDown,
                 asks, helloFrom>>

\* Any call may time out.
CallTimesOut(x) ==
  /\ call[x] = "waiting"
  /\ call' = [call EXCEPT ![x] = "lost"]
  /\ UNCHANGED <<db, registered, endpoint, closing, closed, restore,
                 remaining, callOn, callFor, wires, agent, nodes, bounds,
                 history, asks, helloFrom>>

\* The agent accepted: the route records what was asked for.
RequestRecords(r) ==
  /\ call[r] = "ok"
  /\ call' = [call EXCEPT ![r] = "done"]
  /\ callOn' = [callOn EXCEPT ![r] = 0]
  /\ armed' = Declare(asks[r], callFor[r])
  /\ calm' = IF asks[r] = "start" \/ StartInFlight(callFor[r]) THEN calm
             ELSE calm \cup {callFor[r]}
  /\ UNCHANGED <<claimed, registered, endpoint, closing, closed, restore,
                 remaining, callFor, wires, agent, nodes, bounds,
                 newest, consoleDown, asks, helloFrom>>

RequestFails(r) ==
  /\ call[r] \in {"refused", "lost"}
  /\ call' = [call EXCEPT ![r] = "done"]
  /\ callOn' = [callOn EXCEPT ![r] = 0]
  /\ UNCHANGED <<db, registered, endpoint, closing, closed, restore,
                 remaining, callFor, wires, agent, nodes, bounds,
                 history, asks, helloFrom>>

-----------------------------------------------------------------------------
(* The agent's connection loop *)

AgentStarts ==
  /\ phase = "down"
  /\ proc < MaxProcs
  /\ proc' = proc + 1
  /\ phase' = "away"
  /\ UNCHANGED <<db, hub, wires, sock, handlers, nodes, bounds, history, asks,
                 helloFrom>>

\* Connections are used in order, one per dial.
Dials(c) ==
  /\ phase = "away"
  /\ endpoint[c] = "none"
  /\ \A d \in Conns : d < c => endpoint[d] # "none"
  /\ phase' = "hello"
  /\ sock' = c
  /\ helloFrom' = [helloFrom EXCEPT ![c] = proc]
  /\ endpoint' = [endpoint EXCEPT ![c] = "hello"]
  /\ UNCHANGED <<db, registered, closing, closed, restore, remaining, call,
                 callOn, callFor, wires, proc, handlers, nodes, bounds,
                 history, asks>>

WelcomeArrives ==
  /\ phase = "hello"
  /\ endpoint[sock] \in {"welcome", "pump"}
  /\ phase' = "serving"
  /\ UNCHANGED <<db, hub, wires, proc, sock, handlers, nodes, bounds, history,
                 asks, helloFrom>>

\* The agent loses its socket: handlers in flight are cancelled.
Hangup ==
  /\ sock' = 0
  /\ handlers' = {}
  /\ toAgent' = [c \in Conns |-> <<>>]

LinkDrops ==
  /\ phase \in {"hello", "serving"}
  /\ phase' = "away"
  /\ Hangup
  /\ UNCHANGED <<db, hub, toHub, proc, nodes, bounds, history, asks,
                 helloFrom>>

CommandArrives ==
  /\ phase = "serving"
  /\ toAgent[sock] # <<>>
  /\ LET cmd == Head(toAgent[sock])
     IN handlers' = handlers \cup
          {[by |-> cmd.by, inst |-> cmd.inst, op |-> cmd.op, at |-> "todo"]}
  /\ toAgent' = [toAgent EXCEPT ![sock] = Tail(@)]
  /\ UNCHANGED <<db, hub, toHub, proc, phase, sock, nodes, bounds, history,
                 asks, helloFrom>>

\* The handler has done its work: a start launched, adopted or was refused; a
\* stop ends the server and its supervision.
HandlerWorks(h) ==
  /\ h.at = "todo"
  /\ \/ /\ h.op = "start"
        /\ server' = [server EXCEPT ![h.inst] = "up"]
        /\ supervised' = supervised \cup {h.inst}
        /\ consoleDown' = consoleDown \ {h.inst}
        /\ handlers' = (handlers \ {h}) \cup {[h EXCEPT !.at = "ok"]}
     \/ /\ h.op = "start"
        /\ handlers' = (handlers \ {h}) \cup {[h EXCEPT !.at = "refused"]}
        /\ UNCHANGED <<nodes, consoleDown>>
     \/ /\ h.op = "stop"
        /\ server' = [server EXCEPT ![h.inst] = "down"]
        /\ supervised' = supervised \ {h.inst}
        /\ consoleDown' = consoleDown \ {h.inst}
        /\ handlers' = (handlers \ {h}) \cup {[h EXCEPT !.at = "ok"]}
  /\ UNCHANGED <<db, hub, wires, proc, phase, sock, bounds, newest,
                 calm, asks, helloFrom>>

HandlerAnswers(h) ==
  /\ WorkDone(h)
  /\ handlers' = handlers \ {h}
  /\ ToHub(sock, [kind |-> h.at, by |-> h.by, inst |-> h.inst])
  /\ UNCHANGED <<db, hub, toAgent, proc, phase, sock, nodes, bounds, history,
                 asks, helloFrom>>

\* Somebody types stop at a server's console.  One this process neither
\* started nor adopted is not watched.
ConsoleStop(i) ==
  /\ server[i] = "up"
  /\ phase # "down"
  /\ consoleStops < MaxConsoleStops
  /\ consoleStops' = consoleStops + 1
  /\ server' = [server EXCEPT ![i] = IF i \in supervised THEN "exited"
                                     ELSE "down"]
  /\ consoleDown' = consoleDown \cup {i}
  /\ UNCHANGED <<db, hub, wires, agent, supervised, hubRestarts, revocations,
                 newest, calm, asks, helloFrom>>

\* The monitor finds a clean exit, which its policy honours.  The event is
\* dropped unless the socket is being served.
MonitorReports(i) ==
  /\ server[i] = "exited"
  /\ server' = [server EXCEPT ![i] = "down"]
  /\ supervised' = supervised \ {i}
  /\ IF phase = "serving"
       THEN ToHub(sock, [kind |-> "clean_exit", by |-> 0, inst |-> i])
       ELSE UNCHANGED toHub
  /\ UNCHANGED <<db, hub, toAgent, agent, bounds, history, asks, helloFrom>>

\* The agent stops or is killed, or the whole node is; some servers may live
\* on in tmux.
AgentEnds ==
  /\ phase # "down"
  /\ phase' = "down"
  /\ Hangup
  /\ \E left \in SUBSET {i \in Instances : server[i] = "up"} :
       server' = [i \in Instances |-> IF i \in left THEN "up" ELSE "down"]
  /\ supervised' = {}
  /\ UNCHANGED <<db, hub, toHub, proc, bounds, history, asks, helloFrom>>

-----------------------------------------------------------------------------
HubStep(c) ==
  \/ Authenticates(c) \/ HandshakeFails(c) \/ Registers(c) \/ Pumps(c)
  \/ HubNotices(c) \/ Closes(c)

RestoreStep(c) ==
  RestoreBegins(c) \/ RestoreStaggered(c) \/ RestoreResumes(c)

RequestStep(r) ==
  \/ \E i \in Instances : RequestSends(r, i)
  \/ RequestRecords(r) \/ RequestFails(r)

AgentStep ==
  \/ AgentStarts \/ WelcomeArrives \/ LinkDrops \/ CommandArrives \/ AgentEnds
  \/ \E c \in Conns : Dials(c)
  \/ \E h \in handlers : HandlerWorks(h) \/ HandlerAnswers(h)
  \/ \E i \in Instances : ConsoleStop(i) \/ MonitorReports(i)

Next ==
  \/ \E c \in Conns : HubStep(c) \/ RestoreStep(c) \/ RestoreFails(c)
  \/ \E r \in Requests : RequestStep(r)
  \/ \E x \in Callers : CallTimesOut(x)
  \/ Revokes \/ HubRestarts
  \/ AgentStep

Spec == Init /\ [][Next]_vars

\* Both loops run what is ready, and each side learns in the end that the
\* other has left the socket.  No call is assumed to time out.
Fairness ==
  /\ \A c \in Conns :
       /\ WF_vars(RestoreStep(c)) /\ WF_vars(Pumps(c)) /\ WF_vars(Closes(c))
       /\ WF_vars(sock # c /\ HubNotices(c))
       /\ WF_vars(sock = c /\ endpoint[c] = "ended" /\ LinkDrops)
  /\ WF_vars(WelcomeArrives)
  /\ WF_vars(CommandArrives)
  /\ WF_vars(\E h \in handlers : HandlerWorks(h))
  /\ WF_vars(\E h \in handlers : HandlerAnswers(h))

FairSpec == Spec /\ Fairness
=============================================================================
