------------------------------ MODULE Transfer ------------------------------
(***************************************************************************)
(* One large-file transfer through the hub: the window between the two     *)
(* hops (transfers.py), the browser's and the agent's routes               *)
(* (api/transfers.py) and the agent's side (transfer.py).                  *)
(*                                                                         *)
(* A download goes from the agent's POST to the browser's GET, an upload   *)
(* from the browser's POST to the agent's GET.  Either way one coroutine   *)
(* of the hub puts chunks into the window (the producer) and another takes *)
(* them out (the consumer); the control command sent to the agent ends     *)
(* with the transfer.  An action runs one coroutine from an await to the   *)
(* next.  A chunk is the range of the body's bytes it holds.               *)
(***************************************************************************)
EXTENDS Integers, Sequences

CONSTANTS
  Window,      \* _WINDOW_BYTES
  MaxChunk,    \* the most a read of the producing socket returns
  Sizes,       \* bound: the lengths a body may have
  MaxCancels   \* bound: times the user asks to cancel

Resume == Window \div 2     \* _RESUME_BYTES

ASSUME WindowAssumption == Window \in Nat \ {0} /\ MaxChunk \in Nat \ {0}
ASSUME BoundAssumption  == Sizes \subseteq Nat /\ MaxCancels \in Nat

VARIABLES
  direction, size,  \* the transfer: which way, how long its body is
  declared,         \* the consuming hop is told the length (ctx.total # 0)
  known,            \* the registry holds the context
  ready,            \* header_ready
  cancel,           \* the cancel event
  state,            \* the state the progress poll shows
  queue, queued,    \* the queue, and the bytes it is said to hold
  producer,         \* the coroutine that puts
  held,             \* bytes of the chunk a parked put holds
  consumer,         \* the generator that takes
  source, sink,     \* the two sockets to the outside, while the peer is there
  route,            \* the browser's request at the hub
  fut,              \* the control command as the hub sees it
  agent,            \* the agent's handler of that command
  installed,        \* the upload has been moved into place
  cancels,          \* the bound
  offered, given    \* bytes that went into, and came out of, the queue

ctx     == <<known, ready, cancel, state>>
window  == <<queue, queued, offered, given>>
shape   == <<direction, size, declared>>
sockets == <<source, sink>>
vars    == <<ctx, window, shape, sockets, producer, held, consumer, route,
             fut, agent, installed, cancels>>

Chunks == [lo : Nat, hi : Nat]

EOF == [lo |-> 0, hi |-> 0]

Length(chunk) == chunk.hi - chunk.lo

\* The type invariant.
TypeOK ==
  /\ direction \in {"download", "upload"}
  /\ size \in Sizes
  /\ declared \in BOOLEAN /\ known \in BOOLEAN /\ ready \in BOOLEAN
  /\ cancel \in BOOLEAN /\ installed \in BOOLEAN
  /\ state \in {"pending", "active", "done", "error", "cancelled"}
  /\ queue \in Seq(Chunks)
  /\ queued \in Nat
  /\ offered \in Nat /\ given \in Nat
  /\ producer \in {"none", "reading", "parked", "released", "unwinding",
                   "ended"}
  /\ held \in 0..MaxChunk
  /\ consumer \in {"none", "taking", "sending", "complete", "broken"}
  /\ source \in {"open", "cut"} /\ sink \in {"open", "cut"}
  /\ route \in {"none", "header", "streaming", "waiting", "ok", "failed"}
  /\ fut \in {"none", "waiting", "ok", "refused", "lost", "timeout"}
  /\ agent \in {"none", "asked", "working", "ok", "refused", "cancelled"}
  /\ cancels \in Nat

\* A download always knows its length, an upload only if the browser said so;
\* an empty body counts as unknown.
Init ==
  /\ direction \in {"download", "upload"} /\ size \in Sizes
  /\ declared \in BOOLEAN
  /\ (size = 0 => ~declared)
  /\ (direction = "download" /\ size > 0 => declared)
  /\ known = FALSE /\ ready = FALSE /\ cancel = FALSE /\ state = "pending"
  /\ queue = <<>> /\ queued = 0 /\ offered = 0 /\ given = 0
  /\ producer = "none" /\ held = 0 /\ consumer = "none"
  /\ source = "open" /\ sink = "open"
  /\ route = "none" /\ fut = "none" /\ agent = "none"
  /\ installed = FALSE /\ cancels = 0

-----------------------------------------------------------------------------
(* The window.  The definitions named ...Mistake are the next one as a        *)
(* plausible bug would have it; no action uses them.                          *)

\* A put of data parks.
Full == queued >= Window

DrainedMistake(left) == TRUE

\* A get leaves so little behind, or the transfer is cancelled: wake.
Drained(left) == left <= Resume \/ cancel

ReleaseMistake(left) ==
  IF producer = "parked" /\ left = Resume THEN "released" ELSE producer

\* _maybe_resume, with what is left after the get.
Release(left) ==
  IF producer = "parked" /\ Drained(left) THEN "released" ELSE producer

EnqueueMistake(n) ==
  /\ queue' = Append(queue, [lo |-> offered, hi |-> offered + n])
  /\ UNCHANGED queued
  /\ offered' = offered + n

\* The next n bytes of the body enter the queue.
Enqueue(n) ==
  /\ queue' = Append(queue, [lo |-> offered, hi |-> offered + n])
  /\ queued' = queued + n
  /\ offered' = offered + n

\* put looks at the event when it is called and again when it wakes.
Refused == cancel

EndOfStreamMistake == UNCHANGED queue

\* put(None): never held back, but refused once cancelled.
EndOfStream ==
  queue' = IF Refused THEN queue ELSE Append(queue, EOF)

\* A body shorter than the declared length breaks the connection.
Short == declared /\ given # size

-----------------------------------------------------------------------------
(* The browser's request *)

\* agent_and_spec, create, and the command to the agent; an upload's body
\* is pumped alongside.
RouteBegins ==
  /\ route = "none"
  /\ known' = TRUE
  /\ fut' = "waiting"
  /\ agent' = "asked"
  /\ \/ /\ direction = "download"
        /\ route' = "header"
        /\ UNCHANGED <<producer, state>>
     \/ /\ direction = "upload"
        /\ route' = "waiting"
        /\ producer' = "reading"
        /\ state' = "active"
  /\ UNCHANGED <<ready, cancel, window, shape, sockets, held, consumer,
                 installed, cancels>>

\* The headers are there: the response starts, and with it the generator.
DownloadStreams ==
  /\ route = "header"
  /\ ready
  /\ route' = "streaming"
  /\ consumer' = "taking"
  /\ state' = "active"
  /\ UNCHANGED <<known, ready, cancel, window, shape, sockets, producer, held,
                 fut, agent, installed, cancels>>

\* The command ended first, or nothing came within _HEADER_TIMEOUT; a push
\* may have got hold of the context in that instant.
DownloadGivesUp ==
  /\ route = "header"
  /\ route' = "failed"
  /\ known' = FALSE
  /\ UNCHANGED <<ready, cancel, state, window, shape, sockets, producer, held,
                 consumer, fut, agent, installed, cancels>>

\* pump.cancel(): wherever the pump waits, it unwinds.
CancelPump ==
  producer' = IF producer \in {"reading", "parked", "released"}
                THEN "unwinding" ELSE producer

\* The command of an upload has ended one way or another.
UploadAnswered ==
  /\ route = "waiting"
  /\ \/ /\ fut = "ok"
        /\ route' = "ok" /\ state' = "done"
        /\ UNCHANGED cancel
     \/ /\ fut = "refused"
        /\ route' = "failed" /\ state' = "error"
        /\ UNCHANGED cancel
     \/ /\ fut \in {"lost", "timeout"}
        /\ route' = "failed" /\ state' = "error"
        /\ cancel' = TRUE
  /\ CancelPump
  /\ UNCHANGED <<known, ready, window, shape, sockets, held, consumer, fut,
                 agent, installed, cancels>>

\* transfer_cancel.
UserCancels ==
  /\ known
  /\ cancels < MaxCancels
  /\ cancels' = cancels + 1
  /\ cancel' = TRUE
  /\ state' = "cancelled"
  /\ queue' = Append(queue, EOF)
  /\ UNCHANGED <<known, ready, queued, offered, given, shape, sockets,
                 producer, held, consumer, route, fut, agent, installed>>

\* _sweep, on any later look at the registry: too old, or finished a while.
Swept ==
  /\ known
  /\ known' = FALSE
  /\ UNCHANGED <<ready, cancel, state, window, shape, sockets, producer, held,
                 consumer, route, fut, agent, installed, cancels>>

-----------------------------------------------------------------------------
(* The producer: pump_body of an upload, internal_push of a download *)

Reads(n) ==
  /\ producer = "reading" /\ source = "open"
  /\ offered + n <= size
  /\ \/ /\ Refused
        /\ producer' = "ended"
        /\ UNCHANGED <<window, held>>
     \/ /\ ~Refused /\ Full
        /\ producer' = "parked"
        /\ held' = n
        /\ UNCHANGED window
     \/ /\ ~Refused /\ ~Full
        /\ Enqueue(n)
        /\ UNCHANGED <<producer, held, given>>
  /\ UNCHANGED <<ctx, shape, sockets, consumer, route, fut, agent, installed,
                 cancels>>

MayWakeMistake == producer = "released"

\* A parked put waits for the window or the cancellation.
MayWake == producer = "released" \/ (producer = "parked" /\ cancel)

Wakes ==
  /\ MayWake
  /\ held' = 0
  /\ \/ /\ Refused
        /\ producer' = "ended"
        /\ UNCHANGED window
     \/ /\ ~Refused
        /\ Enqueue(held)
        /\ producer' = "reading"
        /\ UNCHANGED given
  /\ UNCHANGED <<ctx, shape, sockets, consumer, route, fut, agent, installed,
                 cancels>>

\* The body is read, its sender is gone, or the pump is cancelled: finally.
ProducerEnds ==
  /\ \/ producer = "reading" /\ (offered = size \/ source = "cut")
     \/ producer = "unwinding"
  /\ producer' = "ended"
  /\ held' = 0
  /\ EndOfStream
  /\ UNCHANGED <<ctx, queued, offered, given, shape, sockets, consumer, route,
                 fut, agent, installed, cancels>>

-----------------------------------------------------------------------------
(* The consumer: the generators of the two responses *)

\* The response ends here.
Finish == consumer' = IF Short THEN "broken" ELSE "complete"

Takes ==
  /\ consumer = "taking" /\ queue # <<>>
  /\ LET chunk == Head(queue)
         left  == queued - Length(chunk)
     IN /\ queue' = Tail(queue)
        /\ queued' = left
        /\ producer' = Release(left)
        /\ \/ /\ chunk = EOF
              /\ Finish
              /\ state' = IF direction = "upload" THEN state
                          ELSE IF cancel THEN "cancelled" ELSE "done"
              /\ UNCHANGED given
           \/ /\ chunk # EOF /\ direction = "upload" /\ cancel
              /\ Finish
              /\ given' = chunk.hi
              /\ UNCHANGED state
           \/ /\ chunk # EOF /\ (direction = "download" \/ ~cancel)
              /\ consumer' = "sending"
              /\ given' = chunk.hi
              /\ UNCHANGED state
  /\ UNCHANGED <<known, ready, cancel, offered, shape, sockets, held, route,
                 fut, agent, installed, cancels>>

\* The socket took the chunk, or swallows it as its peer is gone.
Sent ==
  /\ consumer = "sending"
  /\ consumer' = "taking"
  /\ UNCHANGED <<ctx, window, shape, sockets, producer, held, route, fut,
                 agent, installed, cancels>>

\* A response whose peer is gone is cancelled where it waits; only the
\* download's generator tells the other hop.
ConsumerLeft ==
  /\ consumer = "taking" /\ queue = <<>> /\ sink = "cut"
  /\ consumer' = "broken"
  /\ \/ /\ direction = "download"
        /\ cancel' = TRUE /\ state' = "cancelled"
     \/ /\ direction = "upload"
        /\ UNCHANGED <<cancel, state>>
  /\ UNCHANGED <<known, ready, window, shape, sockets, producer, held, route,
                 fut, agent, installed, cancels>>

\* The browser is closed, or the network between it and the hub fails.
BrowserLeaves ==
  /\ route \notin {"none", "ok", "failed"}
  /\ \/ /\ direction = "download" /\ sink = "open"
        /\ sink' = "cut" /\ UNCHANGED source
     \/ /\ direction = "upload" /\ source = "open"
        /\ source' = "cut" /\ UNCHANGED sink
  /\ UNCHANGED <<ctx, window, shape, producer, held, consumer, route, fut,
                 agent, installed, cancels>>

-----------------------------------------------------------------------------
(* The agent's handler, and the command it answers *)

\* It reaches the hub with its data connection.  A download's request body is
\* the producer's source, an upload's response the consumer's sink.
AgentConnects ==
  /\ agent = "asked"
  /\ \/ /\ ~known
        /\ agent' = "refused"
        /\ UNCHANGED <<ready, producer, consumer>>
     \/ /\ known
        /\ agent' = "working"
        /\ ready' = TRUE
        /\ \/ /\ direction = "download"
              /\ producer' = "reading"
              /\ UNCHANGED consumer
           \/ /\ direction = "upload"
              /\ consumer' = "taking"
              /\ UNCHANGED producer
  /\ UNCHANGED <<known, cancel, state, window, shape, sockets, held, route,
                 fut, installed, cancels>>

\* Its side of the data connection closes with it.
CloseData ==
  \/ direction = "download" /\ source' = "cut" /\ UNCHANGED sink
  \/ direction = "upload" /\ sink' = "cut" /\ UNCHANGED source

\* No such file, no space, a read or a write that fails.
AgentFails ==
  /\ agent \in {"asked", "working"}
  /\ agent' = "refused"
  /\ CloseData
  /\ UNCHANGED <<ctx, window, shape, producer, held, consumer, route, fut,
                 installed, cancels>>

\* The hub has read the whole body, or stopped early and answered all the same.
AgentPushed ==
  /\ direction = "download" /\ agent = "working"
  /\ producer = "ended" /\ source = "open"
  /\ agent' = "ok"
  /\ UNCHANGED <<ctx, window, shape, sockets, producer, held, consumer, route,
                 fut, installed, cancels>>

InstallsMistake == consumer \in {"complete", "broken"}

\* The body ended as HTTP says a body ends: os.replace moves it into place.
Installs == consumer = "complete"

AgentPulled ==
  /\ direction = "upload" /\ agent = "working"
  /\ consumer \in {"complete", "broken"} /\ sink = "open"
  /\ \/ Installs /\ agent' = "ok" /\ installed' = TRUE
     \/ ~Installs /\ agent' = "refused" /\ UNCHANGED installed
  /\ UNCHANGED <<ctx, window, shape, sockets, producer, held, consumer, route,
                 fut, cancels>>

\* The control socket is lost for the agent: it cancels its handlers.
AgentCancelled ==
  /\ agent \in {"asked", "working"}
  /\ agent' = "cancelled"
  /\ CloseData
  /\ UNCHANGED <<ctx, window, shape, producer, held, consumer, route, fut,
                 installed, cancels>>

Answered ==
  /\ fut = "waiting"
  /\ agent \in {"ok", "refused"}
  /\ fut' = agent
  /\ UNCHANGED <<ctx, window, shape, sockets, producer, held, consumer, route,
                 agent, installed, cancels>>

\* The control socket is lost for the hub: fail_all.
LinkLost ==
  /\ fut = "waiting"
  /\ fut' = "lost"
  /\ UNCHANGED <<ctx, window, shape, sockets, producer, held, consumer, route,
                 agent, installed, cancels>>

\* _CMD_TIMEOUT.
CommandTimesOut ==
  /\ fut = "waiting"
  /\ fut' = "timeout"
  /\ UNCHANGED <<ctx, window, shape, sockets, producer, held, consumer, route,
                 agent, installed, cancels>>

-----------------------------------------------------------------------------
Route    == RouteBegins \/ DownloadStreams \/ DownloadGivesUp \/ UploadAnswered
User     == UserCancels \/ Swept \/ BrowserLeaves
Producer == (\E n \in 1..MaxChunk : Reads(n)) \/ Wakes \/ ProducerEnds
Consumer == Takes \/ Sent \/ ConsumerLeft
Agent    == AgentConnects \/ AgentFails \/ AgentPushed \/ AgentPulled
            \/ AgentCancelled
Command  == Answered \/ LinkLost \/ CommandTimesOut

Next == Route \/ User \/ Producer \/ Consumer \/ Agent \/ Command

Spec == Init /\ [][Next]_vars

\* Both loops run what is ready; the peers go on sending and taking while they
\* are there; a control socket one side has lost is lost for the other.
Fairness ==
  /\ WF_vars(DownloadStreams) /\ WF_vars(UploadAnswered)
  /\ WF_vars(route = "header" /\ fut \in {"refused", "lost", "timeout"}
             /\ DownloadGivesUp)
  /\ WF_vars(\E n \in 1..MaxChunk : Reads(n))
  /\ WF_vars(Wakes) /\ WF_vars(ProducerEnds)
  /\ WF_vars(Takes) /\ WF_vars(Sent) /\ WF_vars(ConsumerLeft)
  /\ WF_vars(AgentConnects) /\ WF_vars(AgentPushed) /\ WF_vars(AgentPulled)
  /\ WF_vars(Answered)
  /\ WF_vars(fut = "lost" /\ AgentCancelled)
  /\ WF_vars(agent = "cancelled" /\ LinkLost)

FairSpec == Spec /\ Fairness
=============================================================================
