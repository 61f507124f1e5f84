------------------------------ MODULE Console ------------------------------
(***************************************************************************)
(* A server's console, from its log file to the browsers: the follower     *)
(* that polls the file (logtail.py), the agent's sockets, the hub's pumps  *)
(* and its admission of events (agent_ws.py), the bounded queue of every   *)
(* subscriber (registry.py) and the forwarding to its browser (control.py).*)
(*                                                                         *)
(* A file is the text of one generation, written half a line at a time:    *)
(* the second half of a line, an even one, ends in the newline.  Past the  *)
(* follower a line is an event like any other and is only counted; the hub *)
(* numbers events as it publishes them.                                    *)
(***************************************************************************)
EXTENDS Naturals, Sequences, FiniteSets

CONSTANTS
  Browsers,      \* sockets of the events route, one subscription each
  QueueMax,      \* _EVENT_QUEUE_MAX
  MaxFiles,      \* bound: generations of the log
  MaxHalves,     \* bound: half lines of each
  MaxSockets,    \* bound: sockets the agent dials
  MaxTails,      \* bound: followers started
  MaxVisits      \* bound: times a browser opens its socket

ASSUME QueueAssumption == QueueMax \in Nat \ {0}

ASSUME BoundAssumption ==
  /\ MaxFiles \in Nat \ {0} /\ MaxHalves \in Nat
  /\ MaxSockets \in Nat \ {0} /\ MaxTails \in Nat /\ MaxVisits \in Nat

Sockets == 1..MaxSockets
NoIdent == 0

VARIABLES
  log,         \* the file at the path, and the last one if none is there
  at,          \* where the follower is
  pos, ident, started, buf,   \* its locals
  lines,       \* lines it has split off and not yet emitted
  tails,       \* bound: followers so far
  seen,        \* history: the file that pos is an offset of
  misread,     \* history: files read from as though they were another
  last,        \* history: the line emitted last, or where the follower began
  socket, up,  \* the agent's newest socket, and whether the agent has one
  wire,        \* per socket, the events on their way
  pumping,     \* sockets the hub reads
  declared,    \* the instance is in the database
  owned,       \* sockets whose cache of owned_instances has it
  published,   \* events published so far
  visits,      \* bound: per browser
  watching,    \* browsers with a subscription
  queue,       \* per browser
  inflight,    \* per browser, the event being sent to it, if any
  taken        \* history: per browser, the last event taken off its queue

file     == <<log>>
follower == <<at, pos, ident, started, buf, lines, tails, seen, misread, last>>
link     == <<socket, up, wire, pumping>>
hub      == <<declared, owned, published>>
browser  == <<visits, watching, queue, inflight, taken>>
vars     == <<file, follower, link, hub, browser>>

Half(g, k) == [gen |-> g, k |-> k]
Halves     == [gen : 1..MaxFiles, k : 1..MaxHalves]
EndsLine(h) == h.k % 2 = 0

LogOK ==
  log \in [there : BOOLEAN, gen : 0..MaxFiles, ident : Nat,
           size : 0..MaxHalves]

\* The follower holds back half a line at most, the one its offset stands
\* behind; it pauses to emit only if it has lines.
FollowerOK ==
  /\ at \in {"off", "stat", "read", "emit"} /\ (at = "emit" <=> lines # <<>>)
  /\ pos \in 0..MaxHalves /\ ident \in Nat /\ started \in BOOLEAN
  /\ buf \in {<<>>} \cup {<<h>> : h \in Halves}
  /\ buf # <<>> => buf[1].k = pos /\ ~EndsLine(buf[1])
  /\ lines \in Seq(Seq(Halves)) /\ tails \in 0..MaxTails
  /\ seen \in 0..MaxFiles /\ misread \subseteq 1..MaxFiles
  /\ last \in [gen : 0..MaxFiles, n : 0..MaxHalves, first : BOOLEAN]

WayOK ==
  /\ socket \in Sockets /\ up \in BOOLEAN
  /\ wire \in [Sockets -> Nat]
  /\ pumping \subseteq Sockets /\ owned \subseteq Sockets
  /\ declared \in BOOLEAN /\ published \in Nat
  /\ visits \in [Browsers -> 0..MaxVisits] /\ watching \subseteq Browsers
  /\ queue \in [Browsers -> Seq(1..published)]
  /\ inflight \in [Browsers -> 0..published]
  /\ taken \in [Browsers -> 0..published]

\* The type invariant.
TypeOK == LogOK /\ FollowerOK /\ WayOK

\* A log may have been there before the follower.
Init ==
  /\ \/ log = [there |-> FALSE, gen |-> 0, ident |-> NoIdent, size |-> 0]
     \/ \E n \in 0..MaxHalves :
          log = [there |-> TRUE, gen |-> 1, ident |-> 1, size |-> n]
  /\ at = "off" /\ pos = 0 /\ ident = NoIdent /\ started = FALSE
  /\ buf = <<>> /\ lines = <<>> /\ tails = 0
  /\ seen = 0 /\ misread = {} /\ last = [gen |-> 0, n |-> 0, first |-> TRUE]
  /\ socket = 1 /\ up = TRUE /\ wire = [c \in Sockets |-> 0]
  /\ pumping = {1}
  /\ declared = TRUE /\ owned = {} /\ published = 0
  /\ visits = [b \in Browsers |-> 0] /\ watching = {}
  /\ queue = [b \in Browsers |-> <<>>]
  /\ inflight = [b \in Browsers |-> 0] /\ taken = inflight

-----------------------------------------------------------------------------
(* Helpers.  The definitions named ...Mistake are the next one as a plausible *)
(* bug would have it; no action uses them.                                    *)

\* split: a line ends where the text has a newline, and the rest is kept.
Ends(text) == {i \in DOMAIN text : EndsLine(text[i])}

NthEnd(text, n) ==
  IF n = 0 THEN 0
  ELSE CHOOSE i \in Ends(text) : Cardinality({j \in Ends(text) : j <= i}) = n

Split(text) ==
  [n \in 1..Cardinality(Ends(text)) |->
     SubSeq(text, NthEnd(text, n - 1) + 1, NthEnd(text, n))]

RestMistake(text) == <<>>

Rest(text) ==
  SubSeq(text, NthEnd(text, Cardinality(Ends(text))) + 1, Len(text))

\* From the offset to the end of the file, wherever that is by now.
Chunk == [i \in 1..(IF log.size > pos THEN log.size - pos ELSE 0) |->
            Half(log.gen, pos + i)]

Replaced == ident # NoIdent /\ log.ident # ident

ShrunkMistake(offset) == log.size <= offset

Shrunk(offset) == log.size < offset

Keeps == started /\ ~Replaced /\ ~Shrunk(pos)

HeldMistake == buf

\* What is held back of a line: nothing, when the file is another one.
Held == IF Keeps THEN buf ELSE <<>>

PushMistake(q) == Append(q, published + 1)

\* stream's sink: the oldest event makes room.
Push(q) ==
  Append(IF Len(q) = QueueMax THEN Tail(q) ELSE q, published + 1)

-----------------------------------------------------------------------------
(* The log, written by the server *)

ServerWrites ==
  /\ log.there /\ log.size < MaxHalves
  /\ log' = [log EXCEPT !.size = @ + 1]
  /\ UNCHANGED <<follower, link, hub, browser>>

\* Moved aside or deleted.
LogGoes ==
  /\ log.there
  /\ log' = [log EXCEPT !.there = FALSE]
  /\ UNCHANGED <<follower, link, hub, browser>>

\* The number of a file that is gone may be given out again.
LogAppears ==
  /\ ~log.there /\ log.gen < MaxFiles
  /\ \E id \in {log.gen + 1, log.ident} \ {NoIdent} :
       log' = [there |-> TRUE, gen |-> log.gen + 1, ident |-> id, size |-> 0]
  /\ UNCHANGED <<follower, link, hub, browser>>

LogTruncated ==
  /\ log.there /\ log.gen < MaxFiles
  /\ log' = [log EXCEPT !.gen = @ + 1, !.size = 0]
  /\ UNCHANGED <<follower, link, hub, browser>>

-----------------------------------------------------------------------------
(* The follower *)

\* _ensure_tail
TailStarts ==
  /\ at = "off" /\ tails < MaxTails
  /\ tails' = tails + 1
  /\ at' = "stat" /\ pos' = 0 /\ ident' = NoIdent /\ started' = FALSE
  /\ buf' = <<>>
  /\ UNCHANGED <<lines, seen, misread, last, file, link, hub, browser>>

\* _cancel_tail: the follower is asleep, or waits for the socket to take a line.
TailCancelled ==
  /\ at \in {"stat", "emit"}
  /\ at' = "off" /\ lines' = <<>>
  /\ UNCHANGED <<pos, ident, started, buf, tails, seen, misread, last, file,
                 link, hub, browser>>

\* The file's size and number; the first look settles where to begin.
Stats ==
  /\ at = "stat" /\ log.there
  /\ LET offset == IF ~started THEN log.size ELSE IF Keeps THEN pos ELSE 0
     IN /\ pos' = offset
        /\ at' = IF log.size > offset THEN "read" ELSE "stat"
  /\ buf' = Held
  /\ ident' = log.ident /\ started' = TRUE
  /\ seen' = IF Keeps THEN seen ELSE log.gen
  /\ last' = IF started THEN last
             ELSE [gen |-> log.gen, n |-> log.size \div 2, first |-> TRUE]
  /\ UNCHANGED <<lines, tails, misread, file, link, hub, browser>>

\* The file is opened by name again, and read to its end.
Reads ==
  /\ at = "read" /\ log.there
  /\ LET text == buf \o Chunk
     IN /\ lines' = Split(text)
        /\ buf' = Rest(text)
        /\ at' = IF Ends(text) = {} THEN "stat" ELSE "emit"
  /\ pos' = pos + Len(Chunk)
  /\ misread' = IF log.gen = seen THEN misread ELSE misread \cup {log.gen}
  /\ UNCHANGED <<ident, started, tails, seen, last, file, link, hub, browser>>

OpenFails ==
  /\ at = "read" /\ ~log.there
  /\ at' = "stat"
  /\ UNCHANGED <<pos, ident, started, buf, lines, tails, seen, misread, last,
                 file, link, hub, browser>>

\* _emit_event: without a socket the event is gone.
Emits ==
  /\ at = "emit"
  /\ LET h == Head(lines)[Len(Head(lines))]
     IN last' = [gen |-> h.gen, n |-> h.k \div 2, first |-> FALSE]
  /\ lines' = Tail(lines)
  /\ at' = IF Tail(lines) = <<>> THEN "stat" ELSE "emit"
  /\ wire' = IF up THEN [wire EXCEPT ![socket] = @ + 1] ELSE wire
  /\ UNCHANGED <<pos, ident, started, buf, tails, seen, misread, socket, up,
                 pumping, file, hub, browser>>

-----------------------------------------------------------------------------
(* The sockets between agent and hub *)

\* What is on its way is lost, or the tail of it.
LinkDrops ==
  /\ up /\ up' = FALSE
  /\ \E n \in 0..wire[socket] : wire' = [wire EXCEPT ![socket] = n]
  /\ UNCHANGED <<socket, pumping, file, follower, hub, browser>>

Redials ==
  /\ ~up /\ socket < MaxSockets
  /\ socket' = socket + 1 /\ up' = TRUE
  /\ pumping' = pumping \cup {socket + 1}
  /\ UNCHANGED <<wire, file, follower, hub, browser>>

\* The former socket: found dead, or closed because a newer one registered.
PumpEnds ==
  /\ \E c \in pumping :
       /\ c # socket \/ ~up
       /\ pumping' = pumping \ {c}
       /\ wire' = [wire EXCEPT ![c] = 0]
  /\ UNCHANGED <<socket, up, file, follower, hub, browser>>

\* _admit_event and publish, in one stretch of the hub's loop.
Pumps(c) ==
  /\ c \in pumping /\ wire[c] > 0
  /\ wire' = [wire EXCEPT ![c] = @ - 1]
  /\ IF c \in owned \/ declared
       THEN /\ owned' = owned \cup {c}
            /\ published' = published + 1
            /\ queue' = [b \in Browsers |->
                           IF b \in watching THEN Push(queue[b]) ELSE queue[b]]
       ELSE UNCHANGED <<owned, published, queue>>
  /\ UNCHANGED <<declared, socket, up, pumping, visits, watching, inflight,
                 taken, file, follower>>

\* The row goes; the caches keep the instance.
Undeclared ==
  /\ declared /\ declared' = FALSE
  /\ UNCHANGED <<owned, published, file, follower, link, browser>>

-----------------------------------------------------------------------------
(* The subscriptions *)

\* A browser subscribes, at first and after its back-off.
Opens(b) ==
  /\ b \notin watching /\ visits[b] < MaxVisits
  /\ visits' = [visits EXCEPT ![b] = @ + 1]
  /\ watching' = watching \cup {b}
  /\ taken' = [taken EXCEPT ![b] = published]
  /\ UNCHANGED <<queue, inflight, file, follower, link, hub>>

\* _watch_disconnect: the forwarding is cancelled, the subscription dropped.
Leaves(b) ==
  /\ b \in watching
  /\ watching' = watching \ {b}
  /\ queue' = [queue EXCEPT ![b] = <<>>]
  /\ inflight' = [inflight EXCEPT ![b] = 0]
  /\ UNCHANGED <<visits, taken, file, follower, link, hub>>

Takes(b) ==
  /\ b \in watching /\ inflight[b] = 0 /\ queue[b] # <<>>
  /\ inflight' = [inflight EXCEPT ![b] = Head(queue[b])]
  /\ taken' = [taken EXCEPT ![b] = Head(queue[b])]
  /\ queue' = [queue EXCEPT ![b] = Tail(@)]
  /\ UNCHANGED <<visits, watching, file, follower, link, hub>>

MaySendMistake(b) == queue[b] = <<>>

\* send_json is awaited for every event, however many wait behind it.
MaySend(b) == TRUE

Sends(b) ==
  /\ b \in watching /\ inflight[b] # 0 /\ MaySend(b)
  /\ inflight' = [inflight EXCEPT ![b] = 0]
  /\ UNCHANGED <<visits, watching, queue, taken, file, follower, link, hub>>

-----------------------------------------------------------------------------
Server  == ServerWrites \/ LogGoes \/ LogAppears \/ LogTruncated
Tailing == TailStarts \/ TailCancelled \/ Stats \/ Reads \/ OpenFails \/ Emits
Link    == LinkDrops \/ Redials \/ PumpEnds \/ \E c \in Sockets : Pumps(c)
Viewing == \E b \in Browsers : Opens(b) \/ Leaves(b) \/ Takes(b) \/ Sends(b)

Next == Server \/ Tailing \/ Link \/ Undeclared \/ Viewing

Spec == Init /\ [][Next]_vars

\* A browser that is connected reads, the event loops run, and the follower
\* polls.
FairSpec ==
  /\ Spec
  /\ WF_vars(Stats) /\ WF_vars(Reads) /\ WF_vars(OpenFails) /\ WF_vars(Emits)
  /\ \A c \in Sockets : WF_vars(Pumps(c))
  /\ \A b \in Browsers : WF_vars(Takes(b)) /\ WF_vars(Sends(b))
=============================================================================
