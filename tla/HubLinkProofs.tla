---------------------------- MODULE HubLinkProofs ----------------------------
(***************************************************************************)
(* What the hub's link to a node keeps, for any number of instances,       *)
(* requests, dials, agent processes, restarts and revocations.             *)
(***************************************************************************)
EXTENDS HubLinkProperties, WellFoundedInduction, SequenceTheorems, TLAPS

\* The states of a future, and those in which it can still have an effect.
CallStates == {"none", "waiting", "ok", "refused", "lost", "done"}
Pending    == {"waiting", "ok"}

\* The registry's entry is the connection that registered last, until its own
\* endpoint ends, and a restore calls on its own connection.
Own ==
  /\ registered = newest
  /\ \A c \in Conns : callOn[c] = c

\* The three places of a start for i that is on its way.
Called(i) ==
  \E x \in Callers :
    call[x] \in Pending /\ OpOf(x) = "start" /\ callFor[x] = i
Sent(i) ==
  \E c \in Conns : \E k \in DOMAIN toAgent[c] :
    toAgent[c][k].op = "start" /\ toAgent[c][k].inst = i
Begun(i) == \E h \in handlers : h.op = "start" /\ h.inst = i /\ h.at = "todo"

\* After a recorded stop nothing is left that could arm or start it again.
Calm == \A i \in calm : i \notin armed /\ ~Called(i) /\ ~Sent(i) /\ ~Begun(i)

\* What the hub's side rests on.
HubInv == TypeOK /\ Own /\ CallsAwaitTheLiveLink /\ Calm

\* An agent that waits for the Welcome or serves holds a socket.
Linked == phase \in {"hello", "serving"} => sock \in Conns

\* The inductive invariant.
IInv == HubInv /\ Linked

-----------------------------------------------------------------------------
\* What StartInFlight says, in its three parts.
LEMMA InFlight ==
  ASSUME NEW i
  PROVE  StartInFlight(i) <=> Called(i) \/ Sent(i) \/ Begun(i)
  BY DEF StartInFlight, Called, Sent, Begun, Pending

\* Connections are numbered from 1 and call, as no request does, as themselves.
LEMMA Numbers ==
  /\ Conns \subseteq Nat /\ 0 \notin Conns
  /\ Conns \subseteq Callers /\ Requests \subseteq Callers
  /\ \A c \in Conns : c \notin Requests
<1>1. Conns \subseteq Nat /\ 0 \notin Conns
  BY BoundAssumption DEF Conns
<1>2. Conns \subseteq Callers /\ Requests \subseteq Callers
  BY DEF Callers
<1>3. \A c \in Conns : c \notin Requests
  BY CallerAssumption
<1>4. QED BY <1>1, <1>2, <1>3

\* Some instance is the first.
LEMMA FirstIsThere == First(Instances) \in Instances
<1>1. PICK x \in Instances :
        \A y \in Instances : <<y, x>> \notin OpToRel(<, Nat)
  BY InstanceAssumption, NatLessThanWellFounded, WFMin
<1>2. \A y \in Instances : x <= y
  <2> SUFFICES ASSUME NEW y \in Instances PROVE x <= y
    OBVIOUS
  <2>1. x \in Nat /\ y \in Nat
    BY InstanceAssumption
  <2>2. <<y, x>> \in Nat \X Nat /\ <<y, x>>[1] = y /\ <<y, x>>[2] = x
    BY <2>1
  <2>3. ~(y < x)
    BY <1>1, <2>2, Zenon DEF OpToRel
  <2>4. QED BY <2>1, <2>3
<1>3. QED BY <1>2 DEF First

\* It holds at the start.
LEMMA InitIInv == Init => IInv
<1> SUFFICES ASSUME Init PROVE IInv
  OBVIOUS
<1>1. /\ toHub \in [Conns -> Seq(Frames)]
      /\ toAgent \in [Conns -> Seq(Commands)]
      /\ \A c \in Conns : DOMAIN toAgent[c] = {}
  BY DEF Init
<1>2. callOn \in [Callers -> Conns \cup {0}]
      /\ callFor \in [Callers -> Instances]
  BY FirstIsThere DEF Init
<1>3. TypeOK
  BY <1>1, <1>2 DEF Init, TypeOK, Active
<1>4. Own /\ CallsAwaitTheLiveLink
  BY Numbers DEF Init, Own, CallsAwaitTheLiveLink
<1>5. Calm
  BY DEF Init, Calm
<1>6. Linked
  BY DEF Init, Linked
<1>7. QED BY <1>3, <1>4, <1>5, <1>6 DEF HubInv, IInv

-----------------------------------------------------------------------------
(* Queues, calls, and what keeps a calm instance calm *)

\* Appending adds the one element, at the one queue.
LEMMA Appended ==
  ASSUME NEW S, NEW q \in [Conns -> Seq(S)], NEW e \in S, NEW c
  PROVE  /\ [q EXCEPT ![c] = Append(@, e)] \in [Conns -> Seq(S)]
         /\ \A d \in Conns :
              \A k \in DOMAIN [q EXCEPT ![c] = Append(@, e)][d] :
                \/ d = c /\ [q EXCEPT ![c] = Append(@, e)][d][k] = e
                \/ /\ k \in DOMAIN q[d]
                   /\ [q EXCEPT ![c] = Append(@, e)][d][k] = q[d][k]
<1> DEFINE r == [q EXCEPT ![c] = Append(@, e)]
<1>1. \A d \in Conns : r[d] = IF d = c THEN Append(q[d], e) ELSE q[d]
  OBVIOUS
<1>2. ASSUME NEW d \in Conns
      PROVE  /\ Append(q[d], e) \in Seq(S)
             /\ \A k \in DOMAIN Append(q[d], e) :
                  \/ Append(q[d], e)[k] = e
                  \/ k \in DOMAIN q[d] /\ Append(q[d], e)[k] = q[d][k]
  <2> DEFINE t == q[d]
  <2>1. t \in Seq(S)
    OBVIOUS
  <2> HIDE DEF t
  <2>2. /\ Append(t, e) \in Seq(S) /\ Len(Append(t, e)) = Len(t) + 1
        /\ \A k \in 1..Len(t) : Append(t, e)[k] = t[k]
        /\ Append(t, e)[Len(t) + 1] = e
    BY <2>1, AppendProperties
  <2>3. /\ Len(t) \in Nat /\ DOMAIN t = 1..Len(t)
        /\ DOMAIN Append(t, e) = 1..(Len(t) + 1)
    BY <2>1, <2>2, LenProperties
  <2>4. \A k \in DOMAIN Append(t, e) : k \in DOMAIN t \/ k = Len(t) + 1
    BY <2>3
  <2>5. /\ Append(t, e) \in Seq(S)
        /\ \A k \in DOMAIN Append(t, e) :
             \/ Append(t, e)[k] = e
             \/ k \in DOMAIN t /\ Append(t, e)[k] = t[k]
    BY <2>2, <2>3, <2>4
  <2>6. QED BY <2>5, Zenon DEF t
<1>3. \A d \in Conns : r[d] \in Seq(S)
  BY <1>1, <1>2
<1>4. r \in [Conns -> Seq(S)]
  <2>1. r = [d \in Conns |-> r[d]]
    OBVIOUS
  <2> HIDE DEF r
  <2>2. QED BY <1>3, <2>1
<1>5. ASSUME NEW d \in Conns, NEW k \in DOMAIN r[d]
      PROVE  \/ d = c /\ r[d][k] = e
             \/ k \in DOMAIN q[d] /\ r[d][k] = q[d][k]
  <2>1. CASE d = c
    <3>1. r[d] = Append(q[d], e)
      BY <1>1, <2>1
    <3> HIDE DEF r
    <3>2. QED BY <3>1, <2>1, <1>2, <1>5
  <2>2. CASE d # c
    <3>1. r[d] = q[d]
      BY <1>1, <2>2
    <3> HIDE DEF r
    <3>2. QED BY <3>1, <1>5
  <2>3. QED BY <2>1, <2>2
<1>6. QED BY <1>4, <1>5

\* Taking the head leaves elements that were there.
LEMMA Tailed ==
  ASSUME NEW S, NEW q \in [Conns -> Seq(S)], NEW c \in Conns, q[c] # <<>>
  PROVE  /\ [q EXCEPT ![c] = Tail(@)] \in [Conns -> Seq(S)]
         /\ \A d \in Conns : \A k \in DOMAIN [q EXCEPT ![c] = Tail(@)][d] :
              \E j \in DOMAIN q[d] : [q EXCEPT ![c] = Tail(@)][d][k] = q[d][j]
         /\ Head(q[c]) \in S /\ 1 \in DOMAIN q[c] /\ Head(q[c]) = q[c][1]
<1> DEFINE r == [q EXCEPT ![c] = Tail(@)]
           t == q[c]
<1>1. \A d \in Conns : r[d] = IF d = c THEN Tail(q[d]) ELSE q[d]
  OBVIOUS
<1>2. t \in Seq(S) /\ t # <<>>
  OBVIOUS
<1>3. /\ Tail(t) \in Seq(S) /\ Len(Tail(t)) = Len(t) - 1
      /\ \A k \in 1..Len(Tail(t)) : Tail(t)[k] = t[k + 1]
      /\ Head(t) \in S /\ Head(t) = t[1] /\ Len(t) \in Nat \ {0}
  <2> HIDE DEF t
  <2>1. QED BY <1>2, HeadTailProperties, EmptySeq
<1>4. DOMAIN t = 1..Len(t) /\ DOMAIN Tail(t) = 1..Len(Tail(t))
  BY <1>2, <1>3
<1>5. \A k \in DOMAIN Tail(t) : k + 1 \in DOMAIN t /\ Tail(t)[k] = t[k + 1]
  BY <1>3, <1>4
<1>6. 1 \in DOMAIN t
  BY <1>3, <1>4
<1>7. QED BY <1>1, <1>3, <1>5, <1>6

\* A rejection leaves no call waiting on the connection.
LEMMA Rejected ==
  ASSUME NEW calls \in [Callers -> CallStates], NEW c
  PROVE  /\ Reject(calls, c) \in [Callers -> CallStates]
         /\ \A x \in Callers : Reject(calls, c)[x] \in Pending =>
              calls[x] = Reject(calls, c)[x]
         /\ \A x \in Callers : Reject(calls, c)[x] = "waiting" => callOn[x] # c
  BY DEF Reject, CallStates, Pending

\* With no call taken up, no call for a start appears.
LEMMA CalledStays ==
  ASSUME UNCHANGED <<callFor, asks>>,
         \A x \in Callers : call'[x] \in Pending => call[x] \in Pending
  PROVE  \A i : Called(i)' => Called(i)
  BY DEF Called, OpOf

\* Nothing new on its way for a calm instance keeps it calm.
LEMMA CalmStays ==
  ASSUME Calm, calm' \subseteq calm, armed' \subseteq armed,
         \A i \in calm : Called(i)' => Called(i),
         \A i \in calm : Sent(i)' => Sent(i),
         \A i \in calm : Begun(i)' => Begun(i) \/ Sent(i)
  PROVE  Calm'
  BY DEF Calm

\* A step that takes up no call, arms nothing and sends no start.
LEMMA Keeps ==
  ASSUME HubInv, TypeOK',
         UNCHANGED <<callOn, registered, newest, callFor, asks>>,
         calm' = calm, armed' \subseteq armed,
         \A x \in Callers : call'[x] = "waiting" => call[x] = "waiting",
         \A x \in Callers : call'[x] \in Pending => call[x] \in Pending,
         \A i \in calm : Sent(i)' => Sent(i),
         \A i \in calm : Begun(i)' => Begun(i) \/ Sent(i)
  PROVE  HubInv'
<1>1. Own' /\ CallsAwaitTheLiveLink'
  BY DEF HubInv, Own, CallsAwaitTheLiveLink
<1>2. \A i : Called(i)' => Called(i)
  BY CalledStays
<1>3. Calm'
  BY <1>2, CalmStays DEF HubInv
<1>4. QED BY <1>1, <1>3 DEF HubInv

\* Queues and handlers left alone hold no new start.
LEMMA SentStays ==
  ASSUME UNCHANGED toAgent
  PROVE  \A i : Sent(i)' => Sent(i)
  BY DEF Sent

LEMMA BegunStays ==
  ASSUME UNCHANGED handlers
  PROVE  \A i : Begun(i)' => Begun(i)
  BY DEF Begun

\* A frame written to the hub leaves its queue well typed.
LEMMA Framed ==
  ASSUME TypeOK, NEW c, NEW f \in Frames, ToHub(c, f)
  PROVE  toHub' \in [Conns -> Seq(Frames)]
  BY Appended DEF ToHub, TypeOK

\* A command written to the agent is the only one its queue gains.
LEMMA Commanded ==
  ASSUME TypeOK, NEW c, NEW m \in Commands, ToAgent(c, m)
  PROVE  /\ toAgent' \in [Conns -> Seq(Commands)]
         /\ \A i : Sent(i)' =>
              Sent(i) \/ (m.op = "start" /\ m.inst = i)
<1>1. CASE sock # c
  <2>1. toAgent' = toAgent
    BY <1>1 DEF ToAgent
  <2>2. QED BY <2>1, SentStays DEF TypeOK
<1>2. CASE sock = c
  <2>1. toAgent' = [toAgent EXCEPT ![c] = Append(@, m)]
    BY <1>2 DEF ToAgent
  <2>2. /\ toAgent' \in [Conns -> Seq(Commands)]
        /\ \A d \in Conns : \A k \in DOMAIN toAgent'[d] :
             \/ d = c /\ toAgent'[d][k] = m
             \/ k \in DOMAIN toAgent[d] /\ toAgent'[d][k] = toAgent[d][k]
    <3>1. toAgent \in [Conns -> Seq(Commands)]
      BY DEF TypeOK
    <3>2. QED BY <2>1, <3>1, Appended
  <2>3. QED BY <2>2 DEF Sent
<1>3. QED BY <1>1, <1>2

-----------------------------------------------------------------------------
(* The endpoint *)

\* Before it registers an endpoint touches neither calls nor the registry.
LEMMA EndpointWaits ==
  ASSUME HubInv, NEW c \in Conns, Authenticates(c) \/ HandshakeFails(c)
  PROVE  HubInv'
<1>1. TypeOK'
  <2>1. CASE Authenticates(c)
    BY <2>1, SMT DEF HubInv, TypeOK, Authenticates, db, wires, agent, nodes,
                     bounds, history
  <2>2. CASE HandshakeFails(c)
    BY <2>2, EmptySeq, SMT DEF HubInv, TypeOK, HandshakeFails, db, agent, nodes,
                     bounds, history
  <2>3. QED BY <2>1, <2>2
<1>2. /\ UNCHANGED <<callOn, registered, newest, callFor, asks, calm, armed,
                     call, toAgent, handlers>>
  BY DEF Authenticates, HandshakeFails, db, wires, agent, history
<1>3. QED BY <1>1, <1>2, Keeps, SentStays, BegunStays

\* A registration rejects every pending call: all were on the one displaced.
LEMMA RegistersKeeps ==
  ASSUME HubInv, NEW c \in Conns, Registers(c)
  PROVE  HubInv'
<1> USE DEF HubInv
<1>1. call \in [Callers -> CallStates]
  BY DEF TypeOK, CallStates
<1>2. call' = Reject(call, registered)
  BY DEF Registers
<1>3. /\ call' \in [Callers -> CallStates]
      /\ \A x \in Callers : call'[x] \in Pending => call'[x] = call[x]
      /\ \A x \in Callers : call'[x] = "waiting" => callOn[x] # registered
  BY <1>1, <1>2, Rejected
<1>4. TypeOK'
  BY <1>3, SMT DEF TypeOK, Registers, Active, CallStates, wires, agent, nodes,
                   bounds
<1>5. UNCHANGED <<callOn, callFor, asks, calm, armed, toAgent, handlers>>
  BY DEF Registers, wires, agent
<1>6. Own'
  BY <1>5 DEF Own, Registers
<1>7. \A x \in Callers : call'[x] # "waiting"
  BY <1>3 DEF CallsAwaitTheLiveLink, Pending
<1>8. CallsAwaitTheLiveLink'
  BY <1>7 DEF CallsAwaitTheLiveLink
<1>9. Calm'
  BY <1>3, <1>5, CalledStays, SentStays, BegunStays, CalmStays
<1>10. QED BY <1>4, <1>6, <1>8, <1>9

\* The end of an endpoint, after what its last frame did to the calls.
LEMMA EndpointEnds ==
  ASSUME HubInv, NEW c \in Conns, NEW calls \in [Callers -> CallStates],
         \A x \in Callers : calls[x] = "waiting" => call[x] = "waiting",
         EndEndpoint(c, calls)
  PROVE  /\ endpoint' \in [Conns -> {"none", "hello", "welcome", "pump",
                                     "ended"}]
         /\ restore' \in [Conns -> {"off", "skipped", "abandoned",
                                    "cancelled", "done"} \cup Active]
         /\ remaining' \in [Conns -> SUBSET Instances]
         /\ call' \in [Callers -> CallStates]
         /\ registered' \in Conns \cup {0} /\ newest' = registered'
         /\ closing' \subseteq Conns /\ closed' \subseteq Conns
         /\ toHub' \in [Conns -> Seq(Frames)]
         /\ \A x \in Callers : call'[x] \in Pending => calls[x] \in Pending
         /\ \A x \in Callers : call'[x] = "waiting" => callOn[x] = registered'
<1> DEFINE after == Reject(calls, c)
<1>1. /\ after \in [Callers -> CallStates]
      /\ \A x \in Callers : after[x] \in Pending => calls[x] = after[x]
      /\ \A x \in Callers : after[x] = "waiting" => callOn[x] # c
  BY Rejected
<1> HIDE DEF after
<1>2. call' = [after EXCEPT ![c] = "none"] /\ c \in Callers
  BY Numbers DEF EndEndpoint, after
<1>3. /\ call' \in [Callers -> CallStates]
      /\ \A x \in Callers : call'[x] \in Pending => call'[x] = after[x]
  BY <1>1, <1>2 DEF CallStates, Pending
<1>4. \A x \in Callers : call'[x] = "waiting" =>
        callOn[x] # c /\ callOn[x] = registered
  BY <1>1, <1>3 DEF Pending, HubInv, CallsAwaitTheLiveLink
<1>5. registered' \in Conns \cup {0} /\ newest' = registered'
  BY DEF EndEndpoint, Unregister, HubInv, Own, TypeOK
<1>6. \A x \in Callers : call'[x] = "waiting" => callOn[x] = registered'
  BY <1>4 DEF EndEndpoint, Unregister
<1>7. toHub' \in [Conns -> Seq(Frames)]
  BY EmptySeq DEF EndEndpoint, HubInv, TypeOK
<1>8. /\ endpoint' \in [Conns -> {"none", "hello", "welcome", "pump", "ended"}]
      /\ restore' \in [Conns -> {"off", "skipped", "abandoned", "cancelled",
                                 "done"} \cup Active]
      /\ remaining' \in [Conns -> SUBSET Instances]
      /\ closing' \subseteq Conns /\ closed' \subseteq Conns
  BY DEF EndEndpoint, HubInv, TypeOK
<1>9. QED BY <1>1, <1>3, <1>5, <1>6, <1>7, <1>8

\* A lost socket ends the endpoint with no frame read.
LEMMA HubNoticesKeeps ==
  ASSUME HubInv, NEW c \in Conns, HubNotices(c)
  PROVE  HubInv'
<1> USE DEF HubInv
<1>1. call \in [Callers -> CallStates] /\ EndEndpoint(c, call)
  BY DEF TypeOK, CallStates, HubNotices
<1>2. /\ endpoint' \in [Conns -> {"none", "hello", "welcome", "pump", "ended"}]
      /\ restore' \in [Conns -> {"off", "skipped", "abandoned", "cancelled",
                                 "done"} \cup Active]
      /\ remaining' \in [Conns -> SUBSET Instances]
      /\ call' \in [Callers -> CallStates]
      /\ registered' \in Conns \cup {0} /\ newest' = registered'
      /\ closing' \subseteq Conns /\ closed' \subseteq Conns
      /\ toHub' \in [Conns -> Seq(Frames)]
      /\ \A x \in Callers : call'[x] \in Pending => call[x] \in Pending
      /\ \A x \in Callers : call'[x] = "waiting" => callOn[x] = registered'
  BY <1>1, EndpointEnds
<1>3. /\ UNCHANGED <<callOn, callFor, asks, calm, armed, toAgent, handlers>>
      /\ UNCHANGED <<claimed, proc, phase, sock, server, supervised,
                     hubRestarts, consoleStops, revocations, consoleDown,
                     helloFrom>>
  BY DEF HubNotices, db, agent, nodes, bounds
<1>4. TypeOK'
  BY <1>2, <1>3, SMTT(30) DEF TypeOK, CallStates
<1>5. Own' /\ CallsAwaitTheLiveLink'
  BY <1>2, <1>3 DEF Own, CallsAwaitTheLiveLink
<1>6. Calm'
  BY <1>2, <1>3, CalledStays, SentStays, BegunStays, CalmStays
<1>7. QED BY <1>4, <1>5, <1>6

\* A frame settles a call, disarms an instance, or both and ends the endpoint.
LEMMA PumpsKeeps ==
  ASSUME HubInv, NEW c \in Conns, Pumps(c)
  PROVE  HubInv'
<1> DEFINE f == Head(toHub[c])
           calls == IF f.kind = "clean_exit" THEN call ELSE Resolve(f)
<1>1. /\ f \in Frames
      /\ [toHub EXCEPT ![c] = Tail(@)] \in [Conns -> Seq(Frames)]
  BY Tailed DEF HubInv, TypeOK, Pumps
<1>2. /\ calls \in [Callers -> CallStates]
      /\ \A x \in Callers : calls[x] = "waiting" => call[x] = "waiting"
      /\ \A x \in Callers : calls[x] \in Pending => call[x] \in Pending
  BY <1>1 DEF HubInv, TypeOK, Frames, Resolve, CallStates, Pending
<1>3. /\ armed' \subseteq armed
      /\ UNCHANGED <<claimed, callOn, callFor, toAgent, agent, nodes, bounds,
                     consoleDown, calm, asks, helloFrom>>
      /\ \/ c \in closed /\ EndEndpoint(c, calls)
         \/ /\ c \notin closed
            /\ call' = calls
            /\ toHub' = [toHub EXCEPT ![c] = Tail(@)]
            /\ UNCHANGED <<endpoint, restore, remaining, registered,
                           closing, closed, newest>>
  BY DEF Pumps
<1> HIDE DEF f, calls
<1>4. CASE EndEndpoint(c, calls)
  <2>1. /\ endpoint' \in [Conns -> {"none", "hello", "welcome", "pump",
                                    "ended"}]
        /\ restore' \in [Conns -> {"off", "skipped", "abandoned",
                                   "cancelled", "done"} \cup Active]
        /\ remaining' \in [Conns -> SUBSET Instances]
        /\ call' \in [Callers -> CallStates]
        /\ registered' \in Conns \cup {0} /\ newest' = registered'
        /\ closing' \subseteq Conns /\ closed' \subseteq Conns
        /\ toHub' \in [Conns -> Seq(Frames)]
        /\ \A x \in Callers : call'[x] \in Pending => calls[x] \in Pending
        /\ \A x \in Callers : call'[x] = "waiting" => callOn[x] = registered'
    BY <1>2, <1>4, EndpointEnds
  <2>2. TypeOK'
    <3>1. UNCHANGED <<claimed, callOn, callFor, toAgent, proc, phase, sock,
                      handlers, server, supervised, hubRestarts,
                      consoleStops, revocations, consoleDown, calm, asks,
                      helloFrom>>
      BY <1>3 DEF agent, nodes, bounds
    <3>2. armed' \subseteq Instances
      BY <1>3 DEF HubInv, TypeOK
    <3>3. QED BY <2>1, <3>1, <3>2, SMTT(30) DEF HubInv, TypeOK, CallStates
  <2>3. Own' /\ CallsAwaitTheLiveLink'
    BY <1>3, <2>1 DEF HubInv, Own, CallsAwaitTheLiveLink
  <2>4. UNCHANGED handlers
    BY <1>3 DEF agent
  <2>5. Calm'
    BY <1>2, <1>3, <2>1, <2>4, CalledStays, SentStays, BegunStays, CalmStays
    DEF HubInv
  <2>6. QED BY <2>2, <2>3, <2>5 DEF HubInv
<1>5. CASE /\ call' = calls
           /\ toHub' = [toHub EXCEPT ![c] = Tail(@)]
           /\ UNCHANGED <<endpoint, restore, remaining, registered,
                          closing, closed, newest>>
  <2>1. TypeOK'
    BY <1>1, <1>2, <1>3, <1>5, SMT
    DEF HubInv, TypeOK, CallStates, agent, nodes, bounds
  <2>2. UNCHANGED handlers
    BY <1>3 DEF agent
  <2>3. QED BY <1>2, <1>3, <1>5, <2>1, <2>2, Keeps, SentStays, BegunStays
<1>6. QED BY <1>3, <1>4, <1>5

\* A close() only rejects.
LEMMA ClosesKeeps ==
  ASSUME HubInv, NEW c \in Conns, Closes(c)
  PROVE  HubInv'
<1>1. call \in [Callers -> CallStates] /\ call' = Reject(call, c)
  BY DEF HubInv, TypeOK, CallStates, Closes
<1>2. /\ call' \in [Callers -> CallStates]
      /\ \A x \in Callers : call'[x] \in Pending => call'[x] = call[x]
  BY <1>1, Rejected
<1>3. TypeOK'
  BY <1>2, SMT DEF HubInv, TypeOK, Closes, CallStates, db, wires, agent, nodes,
                   bounds, history
<1>4. UNCHANGED <<callOn, registered, newest, callFor, asks, calm, armed,
                  toAgent, handlers>>
  BY DEF Closes, db, wires, agent, history
<1>5. QED BY <1>2, <1>3, <1>4, Keeps, SentStays, BegunStays DEF Pending

\* A revocation rejects the calls of the connection it takes down.
LEMMA RevokesKeeps ==
  ASSUME HubInv, Revokes
  PROVE  HubInv'
<1> USE DEF HubInv
<1>1. call \in [Callers -> CallStates] /\ call' = Reject(call, registered)
  BY DEF TypeOK, CallStates, Revokes
<1>2. /\ call' \in [Callers -> CallStates]
      /\ \A x \in Callers : call'[x] \in Pending => call'[x] = call[x]
      /\ \A x \in Callers : call'[x] = "waiting" => callOn[x] # registered
  BY <1>1, Rejected
<1>3. revocations' \in Nat
  BY DEF TypeOK, Revokes
<1>4. TypeOK'
  BY <1>2, <1>3, SMT DEF TypeOK, Revokes, CallStates, db, wires, agent, nodes
<1>5. UNCHANGED <<callOn, callFor, asks, calm, armed, toAgent, handlers>>
  BY DEF Revokes, db, wires, agent
<1>6. Own'
  BY <1>5 DEF Own, Revokes
<1>7. \A x \in Callers : call'[x] # "waiting"
  BY <1>2 DEF CallsAwaitTheLiveLink, Pending
<1>8. CallsAwaitTheLiveLink'
  BY <1>7 DEF CallsAwaitTheLiveLink
<1>9. Calm'
  BY <1>2, <1>5, CalledStays, SentStays, BegunStays, CalmStays
<1>10. QED BY <1>4, <1>6, <1>8, <1>9

\* A hub process lost leaves no call pending.
LEMMA HubRestartsKeeps ==
  ASSUME HubInv, HubRestarts
  PROVE  HubInv'
<1> USE DEF HubInv
<1>1. /\ call' \in [Callers -> {"none", "done"}]
      /\ \A x \in Callers : call'[x] \notin Pending
  BY DEF HubRestarts, Pending
<1>2. toHub' \in [Conns -> Seq(Frames)] /\ hubRestarts' \in Nat
  BY EmptySeq DEF HubRestarts, TypeOK
<1>3. /\ endpoint' \in [Conns -> {"none", "hello", "welcome", "pump", "ended"}]
      /\ restore' \in [Conns -> {"off", "skipped", "abandoned", "cancelled",
                                 "done"} \cup Active]
      /\ remaining' \in [Conns -> SUBSET Instances]
  BY DEF HubRestarts, TypeOK
<1>4. TypeOK'
  BY <1>1, <1>2, <1>3, SMT DEF TypeOK, HubRestarts, db, agent, nodes
<1>5. UNCHANGED <<callOn, callFor, asks, calm, armed, toAgent, handlers>>
  BY DEF HubRestarts, db, agent
<1>6. Own' /\ CallsAwaitTheLiveLink'
  BY <1>1, <1>5 DEF Own, HubRestarts, CallsAwaitTheLiveLink, Pending
<1>7. Calm'
  BY <1>1, <1>5, CalledStays, SentStays, BegunStays, CalmStays
<1>8. QED BY <1>4, <1>6, <1>7

-----------------------------------------------------------------------------
(* The restore *)

\* A start the restore sends is for an armed instance, which is not calm.
LEMMA ProceedKeeps ==
  ASSUME HubInv, NEW c \in Conns, NEW todo \in SUBSET Instances,
         Proceed(c, todo),
         UNCHANGED <<db, registered, endpoint, closing, closed, callOn, toHub,
                     agent, nodes, bounds, history, asks, helloFrom>>
  PROVE  HubInv'
<1> USE DEF HubInv
<1> DEFINE i == First(todo)
           m == [by |-> c, inst |-> i, op |-> "start"]
<1>1. c \in Callers /\ c \notin Requests
  BY Numbers
<1>2. UNCHANGED <<armed, claimed, registered, callOn, asks, calm, newest,
                  consoleDown, proc, phase, sock, handlers, server,
                  supervised, hubRestarts, consoleStops, revocations>>
  BY DEF db, agent, nodes, bounds, history
<1>3. CASE /\ registered = c
           /\ StillArmed(i)
           /\ restore' = [restore EXCEPT ![c] = "call"]
           /\ remaining' = [remaining EXCEPT ![c] = todo \ {i}]
           /\ call' = [call EXCEPT ![c] = "waiting"]
           /\ callFor' = [callFor EXCEPT ![c] = i]
           /\ ToAgent(c, m)
  <2>1. i \in armed /\ i \in Instances /\ i \notin calm
    BY <1>3 DEF StillArmed, TypeOK, Calm
  <2> HIDE DEF i
  <2>2. m \in Commands /\ m.inst = i
    BY <1>1, <2>1 DEF Commands, Ops
  <2> HIDE DEF m
  <2>3. /\ toAgent' \in [Conns -> Seq(Commands)]
        /\ \A j : Sent(j)' =>
              Sent(j) \/ (m.op = "start" /\ m.inst = j)
    BY <1>3, <2>2, Commanded
  <2>4. TypeOK'
    <3>1. /\ restore' \in [Conns -> {"off", "skipped", "abandoned",
                                     "cancelled", "done"} \cup Active]
          /\ remaining' \in [Conns -> SUBSET Instances]
      BY <1>3 DEF TypeOK, Active
    <3>2. /\ call' \in [Callers -> {"none", "waiting", "ok", "refused",
                                     "lost", "done"}]
          /\ callFor' \in [Callers -> Instances]
      BY <1>3, <2>1 DEF TypeOK
    <3>3. UNCHANGED <<endpoint, closing, closed, toHub, helloFrom>>
      OBVIOUS
    <3>4. QED BY <1>2, <2>3, <3>1, <3>2, <3>3, SMT DEF TypeOK
  <2>5. Own' /\ CallsAwaitTheLiveLink'
    BY <1>1, <1>2, <1>3 DEF TypeOK, Own, CallsAwaitTheLiveLink
  <2>6. ASSUME NEW j \in calm PROVE ~Called(j)'
    BY <1>1, <1>2, <1>3, <2>1, <2>6 DEF TypeOK, Calm, Called, OpOf
  <2>7. \A j \in calm : Sent(j)' => Sent(j)
    BY <2>1, <2>2, <2>3
  <2>8. Calm'
    BY <1>2, <2>6, <2>7, BegunStays, CalmStays
  <2>9. QED BY <2>4, <2>5, <2>8
<1>4. CASE /\ restore' \in [Conns -> {"off", "skipped", "abandoned",
                                     "cancelled", "done"} \cup Active]
           /\ remaining' \in [Conns -> SUBSET Instances]
           /\ UNCHANGED <<call, callFor, toAgent>>
  <2>1. TypeOK'
    BY <1>2, <1>4, SMT DEF TypeOK
  <2>2. QED BY <1>2, <1>4, <2>1, Keeps, SentStays, BegunStays
<1>5. CASE /\ restore' = [restore EXCEPT ![c] = "abandoned"]
           /\ remaining' = [remaining EXCEPT ![c] = {}]
           /\ UNCHANGED <<call, callFor, toAgent>>
  BY <1>4, <1>5 DEF TypeOK
<1>6. CASE /\ restore' = [restore EXCEPT ![c] = IF todo = {i} THEN "done"
                                                ELSE "stagger"]
           /\ remaining' = [remaining EXCEPT ![c] = todo \ {i}]
           /\ UNCHANGED <<call, callFor, toAgent>>
  <2>1. /\ restore' \in [Conns -> {"off", "skipped", "abandoned", "cancelled",
                                   "done"} \cup Active]
        /\ remaining' \in [Conns -> SUBSET Instances]
    <3> HIDE DEF i
    <3>1. QED BY <1>6 DEF TypeOK, Active
  <2>2. QED BY <1>4, <1>6, <2>1
<1>7. QED BY <1>3, <1>5, <1>6 DEF Proceed

\* Every step of a restore task.
LEMMA RestoreKeeps ==
  ASSUME HubInv, NEW c \in Conns, RestoreStep(c) \/ RestoreFails(c)
  PROVE  HubInv'
<1>1. CASE RestoreBegins(c)
  <2>1. UNCHANGED <<db, registered, endpoint, closing, closed, callOn, toHub,
                    agent, nodes, bounds, history, asks, helloFrom>>
    BY <1>1 DEF RestoreBegins
  <2>2. CASE Proceed(c, armed)
    BY <2>1, <2>2, ProceedKeeps DEF HubInv, TypeOK
  <2>3. CASE /\ restore' = [restore EXCEPT ![c] = "done"]
             /\ UNCHANGED <<remaining, call, callFor, toAgent>>
    <3>1. TypeOK'
      BY <2>1, <2>3, SMT DEF HubInv, TypeOK, db, agent, nodes, bounds, history
    <3>2. UNCHANGED <<callOn, registered, newest, callFor, asks, calm, armed,
                      call, toAgent, handlers>>
      BY <2>1, <2>3 DEF db, agent, history
    <3>3. QED BY <3>1, <3>2, Keeps, SentStays, BegunStays
  <2>4. QED BY <1>1, <2>2, <2>3 DEF RestoreBegins
<1>2. CASE RestoreStaggered(c)
  <2>1. remaining[c] \in SUBSET Instances
    BY DEF HubInv, TypeOK
  <2>2. QED BY <1>2, <2>1, ProceedKeeps DEF RestoreStaggered
<1>3. CASE RestoreResumes(c)
  <2>1. /\ UNCHANGED <<callOn, registered, newest, callFor, asks, calm, armed,
                       toAgent, handlers>>
        /\ call' = [call EXCEPT ![c] = "none"]
    BY <1>3 DEF RestoreResumes, db, wires, agent, history
  <2>2. TypeOK'
    <3>1. /\ restore' \in [Conns -> {"off", "skipped", "abandoned",
                                     "cancelled", "done"} \cup Active]
          /\ remaining' \in [Conns -> SUBSET Instances]
          /\ call' \in [Callers -> {"none", "waiting", "ok", "refused",
                                     "lost", "done"}]
      BY <1>3 DEF HubInv, TypeOK, RestoreResumes, Active
    <3>2. UNCHANGED <<claimed, endpoint, closing, closed, toHub, helloFrom,
                      proc, phase, sock, server, supervised, hubRestarts,
                      consoleStops, revocations, consoleDown>>
      BY <1>3 DEF RestoreResumes, db, wires, agent, nodes, bounds, history
    <3>3. QED BY <2>1, <3>1, <3>2, SMT DEF HubInv, TypeOK
  <2>3. QED BY <2>1, <2>2, Keeps, SentStays, BegunStays
            DEF HubInv, TypeOK, Pending
<1>4. CASE RestoreFails(c)
  <2>1. /\ UNCHANGED <<callOn, registered, newest, callFor, asks, calm, armed,
                       toAgent, handlers>>
        /\ call' = [call EXCEPT ![c] = "none"]
    BY <1>4 DEF RestoreFails, db, wires, agent, history
  <2>2. TypeOK'
    <3>1. /\ restore' \in [Conns -> {"off", "skipped", "abandoned",
                                     "cancelled", "done"} \cup Active]
          /\ remaining' \in [Conns -> SUBSET Instances]
          /\ call' \in [Callers -> {"none", "waiting", "ok", "refused",
                                     "lost", "done"}]
      BY <1>4 DEF HubInv, TypeOK, RestoreFails, Active
    <3>2. UNCHANGED <<claimed, endpoint, closing, closed, toHub, helloFrom,
                      proc, phase, sock, server, supervised, hubRestarts,
                      consoleStops, revocations, consoleDown>>
      BY <1>4 DEF RestoreFails, db, wires, agent, nodes, bounds, history
    <3>3. QED BY <2>1, <3>1, <3>2, SMT DEF HubInv, TypeOK
  <2>3. QED BY <2>1, <2>2, Keeps, SentStays, BegunStays
            DEF HubInv, TypeOK, Pending
<1>5. QED BY <1>1, <1>2, <1>3, <1>4 DEF RestoreStep

-----------------------------------------------------------------------------
(* Requests *)

\* A request waits on the connection in the registry; a start ends the calm.
LEMMA RequestSendsKeeps ==
  ASSUME HubInv, NEW r \in Requests, NEW i \in Instances, RequestSends(r, i)
  PROVE  HubInv'
<1> USE DEF HubInv
<1> DEFINE m == [by |-> r, inst |-> i, op |-> asks[r]]
<1>1. r \in Callers /\ r \notin Conns /\ m \in Commands
  BY Numbers DEF TypeOK, Commands
<1>2. ToAgent(registered, m)
  BY DEF RequestSends
<1>3. m.op = asks[r] /\ m.inst = i
  OBVIOUS
<1> HIDE DEF m
<1>4. /\ toAgent' \in [Conns -> Seq(Commands)]
      /\ \A j : Sent(j)' =>
              Sent(j) \/ (m.op = "start" /\ m.inst = j)
  BY <1>1, <1>2, Commanded
<1>5. /\ call' = [call EXCEPT ![r] = "waiting"]
      /\ callOn' = [callOn EXCEPT ![r] = registered]
      /\ callFor' = [callFor EXCEPT ![r] = i]
      /\ calm' = IF asks[r] = "start" THEN calm \ {i} ELSE calm
      /\ UNCHANGED <<armed, claimed, registered, endpoint, closing, closed,
                     restore, remaining, toHub, proc, phase, sock, handlers,
                     server, supervised, hubRestarts, consoleStops,
                     revocations, newest, consoleDown, asks, helloFrom>>
  BY DEF RequestSends, db, agent, nodes, bounds
<1>6. TypeOK'
  BY <1>1, <1>4, <1>5, SMT DEF TypeOK
<1>7. Own' /\ CallsAwaitTheLiveLink'
  BY <1>1, <1>5, Numbers DEF TypeOK, Own, CallsAwaitTheLiveLink
<1>8. ASSUME NEW j \in calm', Called(j)' PROVE Called(j)
  BY <1>1, <1>5, <1>8 DEF TypeOK, Called, OpOf
<1>9. ASSUME NEW j \in calm', Sent(j)' PROVE Sent(j)
  BY <1>3, <1>4, <1>5, <1>9
<1>10. \A j \in calm' : j \in calm
  BY <1>5
<1>11. Calm'
  BY <1>5, <1>8, <1>9, <1>10, BegunStays DEF Calm
<1>12. QED BY <1>6, <1>7, <1>11

\* A stop is recorded as final only with no start on its way.
LEMMA RequestRecordsKeeps ==
  ASSUME HubInv, NEW r \in Requests, RequestRecords(r)
  PROVE  HubInv'
<1> USE DEF HubInv
<1> DEFINE i == callFor[r]
<1>1. r \in Callers /\ r \notin Conns /\ i \in Instances /\ asks[r] \in Ops
  BY Numbers DEF TypeOK
<1>2. /\ call[r] = "ok"
      /\ call' = [call EXCEPT ![r] = "done"]
      /\ callOn' = [callOn EXCEPT ![r] = 0]
      /\ armed' = IF asks[r] = "start" THEN armed \cup {i} ELSE armed \ {i}
      /\ calm' = IF asks[r] = "start" \/ StartInFlight(i) THEN calm
                 ELSE calm \cup {i}
      /\ UNCHANGED <<claimed, registered, endpoint, closing, closed, restore,
                     remaining, callFor, toHub, toAgent, proc, phase, sock,
                     handlers, server, supervised, hubRestarts, consoleStops,
                     revocations, newest, consoleDown, asks, helloFrom>>
  BY DEF RequestRecords, Declare, wires, agent, nodes, bounds
<1>3. asks[r] = "start" => Called(i)
  BY <1>1, <1>2 DEF Called, OpOf, Pending
<1> HIDE DEF i
<1>4. TypeOK'
  BY <1>1, <1>2, SMT DEF TypeOK
<1>5. Own' /\ CallsAwaitTheLiveLink'
  BY <1>1, <1>2 DEF TypeOK, Own, CallsAwaitTheLiveLink
<1>6. \A j : Called(j)' => Called(j)
  BY <1>2, CalledStays DEF TypeOK, Pending
<1>7. ASSUME NEW j \in calm'
      PROVE  j \notin armed' /\ ~Called(j) /\ ~Sent(j) /\ ~Begun(j)
  <2>1. CASE j \in calm
    BY <1>2, <1>3, <2>1 DEF Calm
  <2>2. CASE j \notin calm
    <3>1. j = i /\ asks[r] # "start" /\ ~StartInFlight(i)
      BY <1>2, <1>7, <2>2
    <3>2. QED BY <1>2, <3>1, InFlight
  <2>3. QED BY <2>1, <2>2
<1>8. Calm'
  BY <1>2, <1>6, <1>7, SentStays, BegunStays DEF Calm
<1>9. QED BY <1>4, <1>5, <1>8

\* A request refused or lost records nothing.
LEMMA RequestFailsKeeps ==
  ASSUME HubInv, NEW r \in Requests, RequestFails(r)
  PROVE  HubInv'
<1> USE DEF HubInv
<1>1. r \in Callers /\ r \notin Conns
  BY Numbers
<1>2. /\ call' = [call EXCEPT ![r] = "done"]
      /\ callOn' = [callOn EXCEPT ![r] = 0]
      /\ UNCHANGED <<db, registered, newest, callFor, toAgent, handlers, calm,
                     asks>>
  BY DEF RequestFails, wires, agent, history
<1>3. TypeOK'
  BY <1>1, SMT DEF TypeOK, RequestFails, db, wires, agent, nodes, bounds,
                   history
<1>4. Own' /\ CallsAwaitTheLiveLink'
  BY <1>1, <1>2 DEF TypeOK, Own, CallsAwaitTheLiveLink
<1>5. UNCHANGED armed
  BY <1>2 DEF db
<1>6. \A j : Called(j)' => Called(j)
  BY <1>2, CalledStays DEF TypeOK, Pending
<1>7. Calm'
  BY <1>2, <1>5, <1>6, SentStays, BegunStays, CalmStays
<1>8. QED BY <1>3, <1>4, <1>7

\* A timeout gives up one call.
LEMMA CallTimesOutKeeps ==
  ASSUME HubInv, NEW x \in Callers, CallTimesOut(x)
  PROVE  HubInv'
<1>1. TypeOK'
  BY SMT DEF HubInv, TypeOK, CallTimesOut, db, wires, agent, nodes, bounds,
             history
<1>2. /\ call' = [call EXCEPT ![x] = "lost"]
      /\ UNCHANGED <<callOn, registered, newest, callFor, asks, calm, armed,
                     toAgent, handlers>>
  BY DEF CallTimesOut, db, wires, agent, history
<1>3. QED BY <1>1, <1>2, Keeps, SentStays, BegunStays
          DEF HubInv, TypeOK, Pending

-----------------------------------------------------------------------------
(* The agent *)

\* A step of the agent that sends and begins no start leaves the hub as it is.
LEMMA AgentKeeps ==
  ASSUME HubInv, TypeOK', UNCHANGED <<db, hub, newest, calm, asks>>,
         \A i \in calm : Sent(i)' => Sent(i),
         \A i \in calm : Begun(i)' => Begun(i) \/ Sent(i)
  PROVE  HubInv'
<1>1. UNCHANGED <<callOn, registered, callFor, armed, call>>
  BY DEF db, hub
<1>2. QED BY <1>1, Keeps

\* The agent process comes up, dials and is welcomed.
LEMMA LoopKeeps ==
  ASSUME HubInv,
         AgentStarts \/ WelcomeArrives \/ \E c \in Conns : Dials(c)
  PROVE  HubInv'
<1>1. CASE AgentStarts
  <2>1. proc' \in Procs \cup {0}
    BY <1>1, BoundAssumption DEF HubInv, TypeOK, AgentStarts, Procs
  <2>2. TypeOK'
    BY <1>1, <2>1, SMT DEF HubInv, TypeOK, AgentStarts, db, hub, wires, nodes,
                           bounds, history
  <2>3. UNCHANGED <<db, hub, newest, calm, asks, toAgent, handlers>>
    BY <1>1 DEF AgentStarts, wires, history
  <2>4. QED BY <2>2, <2>3, AgentKeeps, SentStays, BegunStays
<1>2. CASE WelcomeArrives
  <2>1. TypeOK'
    BY <1>2, SMT DEF HubInv, TypeOK, WelcomeArrives, db, hub, wires, nodes,
                     bounds, history
  <2>2. UNCHANGED <<db, hub, newest, calm, asks, toAgent, handlers>>
    BY <1>2 DEF WelcomeArrives, wires, history
  <2>3. QED BY <2>1, <2>2, AgentKeeps, SentStays, BegunStays
<1>3. ASSUME NEW c \in Conns, Dials(c) PROVE HubInv'
  <2>1. TypeOK'
    BY <1>3, SMT DEF HubInv, TypeOK, Dials, db, wires, nodes, bounds, history
  <2>2. UNCHANGED <<callOn, registered, newest, callFor, asks, calm, armed,
                    call, toAgent, handlers>>
    BY <1>3 DEF Dials, db, wires, history
  <2>3. QED BY <2>1, <2>2, Keeps, SentStays, BegunStays
<1>4. QED BY <1>1, <1>2, <1>3

\* A lost socket takes the commands on it and the handlers with it.
LEMMA HungUp ==
  ASSUME Hangup
  PROVE  /\ toAgent' \in [Conns -> Seq(Commands)] /\ handlers' = {}
         /\ \A i : ~Sent(i)' /\ ~Begun(i)'
<1>1. toAgent' = [c \in Conns |-> <<>>] /\ handlers' = {}
  BY DEF Hangup
<1>2. \A c \in Conns : toAgent'[c] = <<>> /\ DOMAIN toAgent'[c] = {}
  BY <1>1
<1>3. QED BY <1>1, <1>2, EmptySeq DEF Sent, Begun

\* The agent loses its socket, or ends.
LEMMA LossKeeps ==
  ASSUME HubInv, LinkDrops \/ AgentEnds
  PROVE  HubInv'
<1>1. /\ Hangup /\ sock' = 0 /\ phase' \in {"away", "down"}
      /\ UNCHANGED <<db, hub, newest, calm, consoleDown, asks, toHub, proc,
                     bounds, helloFrom>>
  BY DEF LinkDrops, AgentEnds, Hangup, history
<1>2. /\ toAgent' \in [Conns -> Seq(Commands)] /\ handlers' = {}
      /\ \A i : ~Sent(i)' /\ ~Begun(i)'
  BY <1>1, HungUp
<1>3. server' \in [Instances -> {"down", "up", "exited"}]
      /\ supervised' \subseteq Instances
  <2>1. CASE LinkDrops
    BY <2>1 DEF HubInv, TypeOK, LinkDrops, nodes
  <2>2. CASE AgentEnds
    BY <2>2 DEF HubInv, TypeOK, AgentEnds
  <2>3. QED BY <2>1, <2>2
<1>4. TypeOK'
  BY <1>1, <1>2, <1>3, SMT DEF HubInv, TypeOK, db, hub, bounds
<1>5. QED BY <1>1, <1>2, <1>4, AgentKeeps

\* A command read was sent: its handler starts nothing that was not on its way.
LEMMA CommandArrivesKeeps ==
  ASSUME HubInv, Linked, CommandArrives
  PROVE  HubInv'
<1> DEFINE cmd == Head(toAgent[sock])
           new == [by |-> cmd.by, inst |-> cmd.inst, op |-> cmd.op,
                   at |-> "todo"]
<1>1. /\ toAgent[sock] # <<>> /\ handlers' = handlers \cup {new}
      /\ toAgent' = [toAgent EXCEPT ![sock] = Tail(@)]
      /\ UNCHANGED <<db, hub, newest, calm, consoleDown, asks, toHub, proc,
                     phase, sock, nodes, bounds, helloFrom>>
  BY DEF CommandArrives, history
<1>2. sock \in Conns /\ toAgent \in [Conns -> Seq(Commands)]
  BY DEF Linked, CommandArrives, HubInv, TypeOK
<1>3. /\ toAgent' \in [Conns -> Seq(Commands)]
      /\ \A d \in Conns : \A k \in DOMAIN toAgent'[d] :
           \E j \in DOMAIN toAgent[d] : toAgent'[d][k] = toAgent[d][j]
      /\ cmd \in Commands /\ 1 \in DOMAIN toAgent[sock]
      /\ cmd = toAgent[sock][1]
  BY <1>1, <1>2, Tailed
<1> HIDE DEF cmd
<1>4. \A i : Sent(i)' => Sent(i)
  BY <1>3 DEF Sent
<1>5. new.op = cmd.op /\ new.inst = cmd.inst /\ new \in Handlers
  BY <1>3 DEF Handlers, Commands
<1>6. ASSUME NEW i, cmd.op = "start", cmd.inst = i PROVE Sent(i)
  BY <1>2, <1>3, <1>6 DEF Sent
<1> HIDE DEF new
<1>7. \A i : Begun(i)' => Begun(i) \/ Sent(i)
  BY <1>1, <1>5, <1>6 DEF Begun
<1>8. TypeOK'
  <2>1. handlers' \subseteq Handlers
    BY <1>1, <1>5 DEF HubInv, TypeOK
  <2>2. QED BY <1>1, <1>3, <2>1, SMT DEF HubInv, TypeOK, db, hub, nodes, bounds
<1>9. QED BY <1>1, <1>4, <1>7, <1>8, AgentKeeps

\* A handler that has worked starts nothing more.
LEMMA HandlerWorksKeeps ==
  ASSUME HubInv, NEW h \in handlers, HandlerWorks(h)
  PROVE  HubInv'
<1>1. h \in Handlers /\ h.inst \in Instances /\ h.at = "todo"
  BY DEF HubInv, TypeOK, Handlers, HandlerWorks
<1>2. PICK o \in {"ok", "refused"} :
        handlers' = (handlers \ {h}) \cup {[h EXCEPT !.at = o]}
  BY DEF HandlerWorks
<1>3. [h EXCEPT !.at = o] \in Handlers /\ [h EXCEPT !.at = o].at # "todo"
  BY <1>1 DEF Handlers
<1>4. /\ server' \in [Instances -> {"down", "up", "exited"}]
      /\ supervised' \subseteq Instances /\ consoleDown' \subseteq Instances
  BY <1>1 DEF HubInv, TypeOK, HandlerWorks, nodes
<1>5. UNCHANGED <<db, hub, newest, calm, asks, toHub, toAgent, proc, phase,
                  sock, bounds, helloFrom>>
  BY DEF HandlerWorks, wires
<1>6. TypeOK'
  <2>1. handlers' \subseteq Handlers
    BY <1>2, <1>3 DEF HubInv, TypeOK
  <2>2. QED BY <1>4, <1>5, <2>1, SMT DEF HubInv, TypeOK, db, hub, bounds
<1>7. \A i : Begun(i)' => Begun(i)
  BY <1>2, <1>3 DEF Begun
<1>8. QED BY <1>5, <1>6, <1>7, AgentKeeps, SentStays

\* A handler answers with its outcome and is gone.
LEMMA HandlerAnswersKeeps ==
  ASSUME HubInv, NEW h \in handlers, HandlerAnswers(h)
  PROVE  HubInv'
<1> DEFINE f == [kind |-> h.at, by |-> h.by, inst |-> h.inst]
<1>1. f \in Frames
  BY DEF HubInv, TypeOK, Handlers, Frames, HandlerAnswers, WorkDone
<1>2. /\ ToHub(sock, f) /\ handlers' = handlers \ {h}
      /\ UNCHANGED <<db, hub, newest, calm, consoleDown, asks, toAgent, proc,
                     phase, sock, nodes, bounds, helloFrom>>
  BY DEF HandlerAnswers, history
<1> HIDE DEF f
<1>3. toHub' \in [Conns -> Seq(Frames)]
  BY <1>1, <1>2, Framed DEF HubInv
<1>4. TypeOK'
  BY <1>2, <1>3, SMT DEF HubInv, TypeOK, db, hub, nodes, bounds
<1>5. \A i : Begun(i)' => Begun(i)
  BY <1>2 DEF Begun
<1>6. QED BY <1>2, <1>4, <1>5, AgentKeeps, SentStays

\* A server ends on its own, and the monitor reports it.
LEMMA ServerEndsKeeps ==
  ASSUME HubInv, NEW i \in Instances, ConsoleStop(i) \/ MonitorReports(i)
  PROVE  HubInv'
<1>1. CASE ConsoleStop(i)
  <2>1. /\ UNCHANGED <<db, hub, newest, calm, asks, toHub, toAgent, proc,
                       phase, sock, handlers, supervised, hubRestarts,
                       revocations, helloFrom>>
        /\ consoleStops' \in Nat /\ consoleDown' \subseteq Instances
        /\ server' \in [Instances -> {"down", "up", "exited"}]
    BY <1>1 DEF HubInv, TypeOK, ConsoleStop, wires, agent
  <2>2. TypeOK'
    BY <2>1, SMT DEF HubInv, TypeOK, db, hub
  <2>3. QED BY <2>1, <2>2, AgentKeeps, SentStays, BegunStays
<1>2. CASE MonitorReports(i)
  <2> DEFINE f == [kind |-> "clean_exit", by |-> 0, inst |-> i]
  <2>1. f \in Frames
    BY DEF Frames
  <2>2. /\ ToHub(sock, f) \/ UNCHANGED toHub
        /\ UNCHANGED <<db, hub, newest, calm, consoleDown, asks, toAgent,
                       proc, phase, sock, handlers, bounds, helloFrom>>
        /\ server' \in [Instances -> {"down", "up", "exited"}]
        /\ supervised' \subseteq Instances
    BY <1>2 DEF HubInv, TypeOK, MonitorReports, agent, history
  <2> HIDE DEF f
  <2>3. toHub' \in [Conns -> Seq(Frames)]
    BY <2>1, <2>2, Framed DEF HubInv, TypeOK
  <2>4. TypeOK'
    BY <2>2, <2>3, SMT DEF HubInv, TypeOK, db, hub, bounds
  <2>5. QED BY <2>2, <2>4, AgentKeeps, SentStays, BegunStays
<1>3. QED BY <1>1, <1>2

-----------------------------------------------------------------------------
(* Every step *)

\* A stuttering step.
LEMMA IdleKeeps ==
  ASSUME HubInv, UNCHANGED vars
  PROVE  HubInv'
<1>1. UNCHANGED <<armed, claimed, registered, endpoint, closing, closed,
                  restore, remaining, call, callOn, callFor, asks, toHub,
                  toAgent, helloFrom, proc, phase, sock, handlers, server,
                  supervised, hubRestarts, consoleStops, revocations, newest,
                  consoleDown, calm>>
  BY DEF vars, db, hub, wires, agent, nodes, bounds, history
<1>2. TypeOK'
  BY <1>1, SMT DEF HubInv, TypeOK
<1>3. QED BY <1>1, <1>2, Keeps, SentStays, BegunStays

\* The socket is dropped only by a step that leaves the phase as well.
LEMMA LinkedStays ==
  ASSUME Linked, [Next]_vars
  PROVE  Linked'
<1>1. ASSUME UNCHANGED <<phase, sock>> PROVE Linked'
  BY <1>1 DEF Linked
<1>2. CASE UNCHANGED vars
  BY <1>1, <1>2 DEF vars, agent
<1>3. ASSUME NEW c \in Conns,
             HubStep(c) \/ RestoreStep(c) \/ RestoreFails(c)
      PROVE  Linked'
  BY <1>1, <1>3
  DEF HubStep, Authenticates, HandshakeFails, Registers, Pumps, HubNotices,
      Closes, RestoreStep, RestoreBegins, RestoreStaggered, RestoreResumes,
      RestoreFails, agent
<1>4. ASSUME NEW r \in Requests, RequestStep(r) PROVE Linked'
  BY <1>1, <1>4
  DEF RequestStep, RequestSends, RequestRecords, RequestFails, agent
<1>5. ASSUME NEW x \in Callers, CallTimesOut(x) PROVE Linked'
  BY <1>1, <1>5 DEF CallTimesOut, agent
<1>6. CASE Revokes \/ HubRestarts
  BY <1>1, <1>6 DEF Revokes, HubRestarts, agent
<1>7. CASE AgentStep
  <2>1. CASE AgentStarts \/ LinkDrops \/ AgentEnds
    BY <2>1 DEF Linked, AgentStarts, LinkDrops, AgentEnds
  <2>2. CASE WelcomeArrives
    BY <2>2 DEF Linked, WelcomeArrives
  <2>3. CASE CommandArrives
    BY <1>1, <2>3 DEF CommandArrives
  <2>4. ASSUME NEW c \in Conns, Dials(c) PROVE Linked'
    BY <2>4 DEF Linked, Dials
  <2>5. ASSUME NEW h \in handlers, HandlerWorks(h) \/ HandlerAnswers(h)
        PROVE  Linked'
    BY <1>1, <2>5 DEF HandlerWorks, HandlerAnswers
  <2>6. ASSUME NEW i \in Instances, ConsoleStop(i) \/ MonitorReports(i)
        PROVE  Linked'
    BY <1>1, <2>6 DEF ConsoleStop, MonitorReports, agent
  <2>7. QED BY <1>7, <2>1, <2>2, <2>3, <2>4, <2>5, <2>6 DEF AgentStep
<1>8. QED BY <1>2, <1>3, <1>4, <1>5, <1>6, <1>7 DEF Next

\* Every step keeps the inductive invariant, one case per action.
LEMMA NextKeeps ==
  ASSUME IInv, [Next]_vars
  PROVE  IInv'
<1> USE DEF IInv
<1>1. CASE UNCHANGED vars
  BY <1>1, IdleKeeps, LinkedStays
<1>2. ASSUME NEW c \in Conns, HubStep(c) PROVE HubInv'
  BY <1>2, EndpointWaits, RegistersKeeps, PumpsKeeps, HubNoticesKeeps,
     ClosesKeeps DEF HubStep
<1>3. ASSUME NEW c \in Conns, RestoreStep(c) \/ RestoreFails(c)
      PROVE  HubInv'
  BY <1>3, RestoreKeeps
<1>4. ASSUME NEW r \in Requests, RequestStep(r) PROVE HubInv'
  BY <1>4, RequestSendsKeeps, RequestRecordsKeeps, RequestFailsKeeps
  DEF RequestStep
<1>5. ASSUME NEW x \in Callers, CallTimesOut(x) PROVE HubInv'
  BY <1>5, CallTimesOutKeeps
<1>6. CASE Revokes \/ HubRestarts
  BY <1>6, RevokesKeeps, HubRestartsKeeps, LinkedStays
<1>7. CASE AgentStep
  BY <1>7, LoopKeeps, LossKeeps, CommandArrivesKeeps, HandlerWorksKeeps,
     HandlerAnswersKeeps, ServerEndsKeeps, LinkedStays DEF AgentStep
<1>8. QED
  BY <1>1, <1>2, <1>3, <1>4, <1>5, <1>6, <1>7, LinkedStays DEF Next

\* So it holds throughout.
LEMMA Invariance == Spec => []IInv
  BY InitIInv, NextKeeps, PTL DEF Spec

-----------------------------------------------------------------------------
\* Every variable keeps its type: what is on a socket, in the registry and in
\* the tables of the hub is what the other side of it expects.
THEOREM LinkTyped == Spec => []TypeOK
<1>1. IInv => TypeOK
  BY DEF IInv, HubInv
<1>2. QED BY <1>1, Invariance, PTL

\* However dials, displacements, revocations, restarts and timeouts interleave,
\* no caller waits on a connection that has lost the registry.
THEOREM NoCallIsStranded == Spec => []CallsAwaitTheLiveLink
<1>1. IInv => CallsAwaitTheLiveLink
  BY DEF IInv, HubInv
<1>2. QED BY <1>1, Invariance, PTL

\* The teardown of an older connection never takes the newest one down.
THEOREM NewestIsRegistered == Spec => []NewestServes
<1>1. IInv => NewestServes
  BY DEF IInv, HubInv, Own, NewestServes
<1>2. QED BY <1>1, Invariance, PTL

\* Only a handler of a start brings a server up, and a calm instance has none.
LEMMA OnlyStartsStart ==
  ASSUME IInv, [Next]_vars, NEW i \in calm, server[i] # "up"
  PROVE  server'[i] # "up"
<1>1. ASSUME UNCHANGED server PROVE server'[i] # "up"
  BY <1>1
<1>2. i \in Instances /\ server \in [Instances -> {"down", "up", "exited"}]
  BY DEF IInv, HubInv, TypeOK
<1>3. ASSUME NEW c \in Conns,
             HubStep(c) \/ RestoreStep(c) \/ RestoreFails(c)
      PROVE  server'[i] # "up"
  BY <1>1, <1>3
  DEF HubStep, Authenticates, HandshakeFails, Registers, Pumps, HubNotices,
      Closes, RestoreStep, RestoreBegins, RestoreStaggered, RestoreResumes,
      RestoreFails, nodes
<1>4. ASSUME NEW r \in Requests, RequestStep(r) PROVE server'[i] # "up"
  BY <1>1, <1>4
  DEF RequestStep, RequestSends, RequestRecords, RequestFails, nodes
<1>5. ASSUME NEW x \in Callers, CallTimesOut(x) PROVE server'[i] # "up"
  BY <1>1, <1>5 DEF CallTimesOut, nodes
<1>6. CASE Revokes \/ HubRestarts \/ UNCHANGED vars
  BY <1>1, <1>6 DEF Revokes, HubRestarts, vars, nodes
<1>7. CASE AgentStep
  <2>1. CASE AgentStarts \/ LinkDrops \/ WelcomeArrives \/ CommandArrives
    BY <1>1, <2>1
    DEF AgentStarts, LinkDrops, WelcomeArrives, CommandArrives, nodes
  <2>2. CASE AgentEnds
    BY <1>2, <2>2 DEF AgentEnds
  <2>3. ASSUME NEW c \in Conns, Dials(c) PROVE server'[i] # "up"
    BY <1>1, <2>3 DEF Dials, nodes
  <2>4. ASSUME NEW h \in handlers, HandlerWorks(h) PROVE server'[i] # "up"
    <3>1. h.op = "start" => h.inst # i
      BY <2>4 DEF HandlerWorks, IInv, HubInv, Calm, Begun
    <3>2. QED BY <1>2, <2>4, <3>1 DEF HandlerWorks, nodes
  <2>5. ASSUME NEW h \in handlers, HandlerAnswers(h) PROVE server'[i] # "up"
    BY <1>1, <2>5 DEF HandlerAnswers, nodes
  <2>6. ASSUME NEW j \in Instances, ConsoleStop(j) \/ MonitorReports(j)
        PROVE  server'[i] # "up"
    BY <1>2, <2>6 DEF ConsoleStop, MonitorReports
  <2>7. QED BY <1>7, <2>1, <2>2, <2>3, <2>4, <2>5, <2>6 DEF AgentStep
<1>8. QED BY <1>3, <1>4, <1>5, <1>6, <1>7 DEF Next

\* A recorded stop with no start on its way is final, whatever connections,
\* agent processes and hub processes come and go, until a start is asked for.
THEOREM StopsAreFinal == Spec => RecordedStopIsFinal
<1>1. IInv /\ [Next]_vars =>
        [\A i \in calm : server[i] # "up" => server'[i] # "up"]_vars
  BY OnlyStartsStart
<1>2. QED BY <1>1, Invariance, PTL DEF Spec, RecordedStopIsFinal
=============================================================================
