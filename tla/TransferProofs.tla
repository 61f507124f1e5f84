--------------------------- MODULE TransferProofs ---------------------------
(***************************************************************************)
(* Proofs that the window of a transfer loses, reorders and invents        *)
(* nothing, stays bounded, and implements the abstract buffer Pipe, for    *)
(* every window, chunk size, body length and number of cancellations.      *)
(***************************************************************************)
EXTENDS TransferProperties, TLAPS

\* The first m chunks of q are the bytes from g to o in order; behind them are
\* ends of stream only.
Runs(q, g, o, m) ==
  /\ m \in 0..Len(q)
  /\ \A k \in 1..m :
       /\ q[k].lo = IF k = 1 THEN g ELSE q[k - 1].hi
       /\ q[k].lo < q[k].hi
       /\ q[k].hi <= o
  /\ \A k \in 1..Len(q) : k > m => q[k] = EOF
  /\ o = IF m = 0 THEN g ELSE q[m].hi

\* Data is appended only while no end of stream is queued.
QueueRuns ==
  \E m \in 0..Len(queue) :
    /\ Runs(queue, given, offered, m)
    /\ m < Len(queue) => cancel \/ producer = "ended"

\* The type invariant in two parts, the truth values and the rest.
Flags ==
  /\ declared \in BOOLEAN /\ known \in BOOLEAN /\ ready \in BOOLEAN
  /\ cancel \in BOOLEAN /\ installed \in BOOLEAN

Fields ==
  /\ direction \in {"download", "upload"}
  /\ size \in Sizes
  /\ state \in {"pending", "active", "done", "error", "cancelled"}
  /\ queue \in Seq(Chunks)
  /\ queued \in Nat
  /\ offered \in Nat /\ given \in Nat
  /\ producer \in {"none", "reading", "parked", "released", "unwinding",
                   "ended"}
  /\ held \in 0..MaxChunk
  /\ consumer \in {"none", "taking", "sending", "complete", "broken"}
  /\ source \in {"open", "cut"} /\ sink \in {"open", "cut"}
  /\ route \in {"none", "header", "streaming", "waiting", "ok", "failed"}
  /\ fut \in {"none", "waiting", "ok", "refused", "lost", "timeout"}
  /\ agent \in {"none", "asked", "working", "ok", "refused", "cancelled"}
  /\ cancels \in Nat

\* The accounting, and what a waiting put may rely on.
Accounts ==
  /\ queued = offered - given
  /\ queued < Window + MaxChunk
  /\ offered <= size
  /\ producer = "released" /\ ~cancel => queued <= Resume
  /\ producer \in {"parked", "released"} =>
       held \in 1..MaxChunk /\ offered + held <= size

\* A response is complete, and a file installed, only with the whole body if
\* its length was announced.
Whole ==
  /\ route = "header" => direction = "download"
  /\ route = "none" => agent = "none" /\ producer = "none"
  /\ agent \in {"none", "asked"} /\ direction = "download" =>
       producer = "none"
  /\ consumer = "complete" /\ declared => given = size
  /\ installed => /\ direction = "upload" /\ agent = "ok"
                  /\ consumer = "complete"

\* The inductive invariant.
IInv == Flags /\ Fields /\ QueueRuns /\ Accounts /\ Whole

LEMMA TypeParts == Flags /\ Fields <=> TypeOK
BY DEF Flags, Fields, TypeOK

-----------------------------------------------------------------------------
(* The queue *)

\* The next bytes of the body extend the run.
LEMMA AppendData ==
  ASSUME NEW q \in Seq(Chunks), NEW g \in Nat, NEW o \in Nat, NEW n \in Nat,
         n > 0, Runs(q, g, o, Len(q))
  PROVE  Runs(Append(q, [lo |-> o, hi |-> o + n]), g, o + n, Len(q) + 1)
<1> DEFINE c == [lo |-> o, hi |-> o + n]
           r == Append(q, c)
<1>1. Len(r) = Len(q) + 1 /\ r[Len(q) + 1] = c /\ Len(q) \in Nat
  OBVIOUS
<1>2. \A k \in 1..Len(q) : r[k] = q[k] /\ q[k] \in Chunks
  OBVIOUS
<1>3. c.lo = o /\ c.hi = o + n
  OBVIOUS
<1>4. \A k \in 1..(Len(q) + 1) :
         /\ r[k].lo = IF k = 1 THEN g ELSE r[k - 1].hi
         /\ r[k].lo < r[k].hi
         /\ r[k].hi <= o + n
  <2> SUFFICES ASSUME NEW k \in 1..(Len(q) + 1)
               PROVE  /\ r[k].lo = IF k = 1 THEN g ELSE r[k - 1].hi
                      /\ r[k].lo < r[k].hi
                      /\ r[k].hi <= o + n
    OBVIOUS
  <2> HIDE DEF r, c
  <2>1. CASE k = Len(q) + 1
    BY <1>1, <1>2, <1>3, <2>1 DEF Runs
  <2>2. CASE k # Len(q) + 1
    <3>1. k \in 1..Len(q) /\ (k # 1 => k - 1 \in 1..Len(q))
      BY <1>1, <2>2
    <3>2. q[k].hi \in Nat /\ q[k].lo \in Nat
      BY <1>2, <3>1 DEF Chunks
    <3>3. r[k] = q[k] /\ (k # 1 => r[k - 1] = q[k - 1])
      BY <1>2, <3>1
    <3>4. /\ q[k].lo = IF k = 1 THEN g ELSE q[k - 1].hi
          /\ q[k].lo < q[k].hi
          /\ q[k].hi <= o
      BY <3>1 DEF Runs
    <3> QED
      BY <3>2, <3>3, <3>4
  <2> QED
    BY <2>1, <2>2
<1> HIDE DEF r, c
<1> QED
  BY <1>1, <1>3, <1>4 DEF Runs, c, r

\* An end of stream leaves the run as it is.
LEMMA AppendEnd ==
  ASSUME NEW q \in Seq(Chunks), NEW g \in Nat, NEW o \in Nat, NEW m \in Nat,
         Runs(q, g, o, m)
  PROVE  /\ Append(q, EOF) \in Seq(Chunks)
         /\ Runs(Append(q, EOF), g, o, m)
<1> DEFINE r == Append(q, EOF)
<1>0. EOF \in Chunks
  BY DEF EOF, Chunks
<1>1. r \in Seq(Chunks) /\ Len(r) = Len(q) + 1 /\ r[Len(q) + 1] = EOF
      /\ Len(q) \in Nat
  BY <1>0
<1>2. \A k \in 1..Len(q) : r[k] = q[k]
  OBVIOUS
<1> HIDE DEF r
<1> QED
  BY <1>1, <1>2 DEF Runs, r

\* Taking the head of a run leaves the rest of it.
LEMMA TakeData ==
  ASSUME NEW q \in Seq(Chunks), NEW g \in Nat, NEW o \in Nat, NEW m \in Nat,
         Runs(q, g, o, m), q # <<>>, Head(q) # EOF
  PROVE  /\ m > 0
         /\ Head(q).lo = g /\ g < Head(q).hi /\ Head(q).hi <= o
         /\ Runs(Tail(q), Head(q).hi, o, m - 1)
<1> DEFINE r == Tail(q)
<1>1. Head(q) = q[1] /\ Len(q) \in Nat /\ Len(q) > 0 /\ Len(r) = Len(q) - 1
  OBVIOUS
<1>2. \A k \in 1..Len(r) : r[k] = q[k + 1]
  OBVIOUS
<1>3. m > 0
  BY <1>1 DEF Runs
<1>4. \A k \in 1..Len(q) : q[k].lo \in Nat /\ q[k].hi \in Nat
  <2>1. \A k \in 1..Len(q) : q[k] \in Chunks
    OBVIOUS
  <2> QED
    BY <2>1 DEF Chunks
<1>5. q[1].lo = g /\ g < q[1].hi /\ q[1].hi <= o
  BY <1>1, <1>3 DEF Runs
<1> HIDE DEF r
<1>6. \A k \in 1..(m - 1) :
         /\ r[k].lo = IF k = 1 THEN q[1].hi ELSE r[k - 1].hi
         /\ r[k].lo < r[k].hi
         /\ r[k].hi <= o
  <2> SUFFICES ASSUME NEW k \in 1..(m - 1)
               PROVE  /\ r[k].lo = IF k = 1 THEN q[1].hi ELSE r[k - 1].hi
                      /\ r[k].lo < r[k].hi
                      /\ r[k].hi <= o
    OBVIOUS
  <2>1. m <= Len(q) /\ k + 1 \in 1..m /\ k \in 1..Len(r)
    BY <1>1 DEF Runs
  <2>2. r[k] = q[k + 1] /\ (k # 1 => r[k - 1] = q[k])
    BY <1>2, <2>1
  <2>3. /\ q[k + 1].lo = q[(k + 1) - 1].hi
        /\ q[k + 1].lo < q[k + 1].hi
        /\ q[k + 1].hi <= o
    BY <2>1 DEF Runs
  <2> QED
    BY <2>2, <2>3
<1>7. \A k \in 1..Len(r) : k > m - 1 => r[k] = EOF
  BY <1>1, <1>2 DEF Runs
<1>8. o = IF m - 1 = 0 THEN q[1].hi ELSE r[m - 1].hi
  <2>1. o = q[m].hi /\ m <= Len(q)
    BY <1>3 DEF Runs
  <2>2. m # 1 => m - 1 \in 1..Len(r)
    BY <1>1, <1>3, <2>1
  <2>3. m # 1 => r[m - 1] = q[m]
    BY <1>2, <2>2
  <2> QED
    BY <1>3, <2>1, <2>3
<1>9. m - 1 \in 0..Len(r)
  BY <1>1, <1>3 DEF Runs
<1> QED
  BY <1>1, <1>3, <1>5, <1>6, <1>7, <1>8, <1>9 DEF Runs, r

\* Behind an end of stream there is nothing but ends of stream.
LEMMA TakeEnd ==
  ASSUME NEW q \in Seq(Chunks), NEW g \in Nat, NEW o \in Nat, NEW m \in Nat,
         Runs(q, g, o, m), q # <<>>, Head(q) = EOF
  PROVE  m = 0 /\ Runs(Tail(q), g, o, 0)
<1>1. Head(q) = q[1] /\ Len(q) \in Nat /\ Len(q) > 0
      /\ Len(Tail(q)) = Len(q) - 1
  OBVIOUS
<1>2. \A k \in 1..Len(Tail(q)) : Tail(q)[k] = q[k + 1]
  OBVIOUS
<1>3. m = 0
  BY <1>1 DEF Runs, EOF
<1> QED
  BY <1>1, <1>2, <1>3 DEF Runs

\* The window untouched, the queue's invariant survives whatever ends.
LEMMA WindowUntouched ==
  ASSUME QueueRuns, UNCHANGED window, cancel => cancel',
         producer = "ended" => producer' = "ended"
  PROVE  QueueRuns'
BY DEF QueueRuns, Runs, EOF, window

-----------------------------------------------------------------------------
(* The inductive invariant *)

LEMMA InitHolds == Init => IInv
<1> SUFFICES ASSUME Init PROVE IInv
  OBVIOUS
<1>1. queue \in Seq(Chunks) /\ Len(queue) = 0
  BY DEF Init
<1>2. Runs(queue, given, offered, 0) /\ ~(0 < Len(queue))
  BY <1>1 DEF Init, Runs
<1>3. QueueRuns
  BY <1>1, <1>2 DEF QueueRuns
<1>4. Flags
  BY Zenon DEF Init, Flags
<1>7. Fields
  BY <1>1, WindowAssumption DEF Init, Fields
<1>5. Accounts
  BY WindowAssumption, BoundAssumption DEF Init, Accounts
<1>6. Whole
  BY DEF Init, Whole
<1> QED
  BY <1>3, <1>4, <1>5, <1>6, <1>7 DEF IInv

\* The browser's request begins.
LEMMA RouteBeginsStep ==
  ASSUME IInv, RouteBegins PROVE IInv'
<1> USE DEF RouteBegins
<1>1. QueueRuns'
  BY WindowUntouched DEF IInv, Whole, ctx
<1>2. Flags'
  BY Zenon DEF IInv, Flags, ctx, window, shape, sockets
<1>3. Fields'
  BY DEF IInv, Fields, ctx, window, shape, sockets
<1>4. Accounts'
  BY DEF IInv, Accounts, ctx, window, shape
<1>5. Whole'
  BY DEF IInv, Fields, Whole, ctx, window, shape
<1> QED
  BY <1>1, <1>2, <1>3, <1>4, <1>5 DEF IInv

\* The response of a download starts.
LEMMA DownloadStreamsStep ==
  ASSUME IInv, DownloadStreams PROVE IInv'
<1> USE DEF DownloadStreams
<1>1. QueueRuns'
  BY WindowUntouched DEF IInv, Whole, ctx
<1>2. Flags'
  BY Zenon DEF IInv, Flags, ctx, window, shape, sockets
<1>3. Fields'
  BY DEF IInv, Fields, ctx, window, shape, sockets
<1>4. Accounts'
  BY DEF IInv, Accounts, ctx, window, shape
<1>5. Whole'
  BY DEF IInv, Fields, Whole, ctx, window, shape
<1> QED
  BY <1>1, <1>2, <1>3, <1>4, <1>5 DEF IInv

\* The request of a download is given up on.
LEMMA DownloadGivesUpStep ==
  ASSUME IInv, DownloadGivesUp PROVE IInv'
<1> USE DEF DownloadGivesUp
<1>1. QueueRuns'
  BY WindowUntouched DEF IInv, Whole, ctx
<1>2. Flags'
  BY Zenon DEF IInv, Flags, ctx, window, shape, sockets
<1>3. Fields'
  BY DEF IInv, Fields, ctx, window, shape, sockets
<1>4. Accounts'
  BY DEF IInv, Accounts, ctx, window, shape
<1>5. Whole'
  BY DEF IInv, Fields, Whole, ctx, window, shape
<1> QED
  BY <1>1, <1>2, <1>3, <1>4, <1>5 DEF IInv

\* The command of an upload has ended.
LEMMA UploadAnsweredStep ==
  ASSUME IInv, UploadAnswered PROVE IInv'
<1> USE DEF UploadAnswered, CancelPump
<1>1. QueueRuns'
  BY WindowUntouched DEF IInv, Whole, ctx
<1>2. Flags'
  BY Zenon DEF IInv, Flags, ctx, window, shape, sockets
<1>3. Fields'
  BY DEF IInv, Fields, ctx, window, shape, sockets
<1>4. Accounts'
  BY DEF IInv, Accounts, ctx, window, shape
<1>5. Whole'
  BY DEF IInv, Fields, Whole, ctx, window, shape
<1> QED
  BY <1>1, <1>2, <1>3, <1>4, <1>5 DEF IInv

\* The registry forgets the transfer.
LEMMA SweptStep ==
  ASSUME IInv, Swept PROVE IInv'
<1> USE DEF Swept
<1>1. QueueRuns'
  BY WindowUntouched DEF IInv, Whole, ctx
<1>2. Flags'
  BY Zenon DEF IInv, Flags, ctx, window, shape, sockets
<1>3. Fields'
  BY DEF IInv, Fields, ctx, window, shape, sockets
<1>4. Accounts'
  BY DEF IInv, Accounts, ctx, window, shape
<1>5. Whole'
  BY DEF IInv, Fields, Whole, ctx, window, shape
<1> QED
  BY <1>1, <1>2, <1>3, <1>4, <1>5 DEF IInv

\* The browser leaves.
LEMMA BrowserLeavesStep ==
  ASSUME IInv, BrowserLeaves PROVE IInv'
<1> USE DEF BrowserLeaves
<1>1. QueueRuns'
  BY WindowUntouched DEF IInv, Whole, ctx
<1>2. Flags'
  BY Zenon DEF IInv, Flags, ctx, window, shape, sockets
<1>3. Fields'
  BY DEF IInv, Fields, ctx, window, shape, sockets
<1>4. Accounts'
  BY DEF IInv, Accounts, ctx, window, shape
<1>5. Whole'
  BY DEF IInv, Fields, Whole, ctx, window, shape
<1> QED
  BY <1>1, <1>2, <1>3, <1>4, <1>5 DEF IInv

\* A chunk is on its way.
LEMMA SentStep ==
  ASSUME IInv, Sent PROVE IInv'
<1> USE DEF Sent
<1>1. QueueRuns'
  BY WindowUntouched DEF IInv, Whole, ctx
<1>2. Flags'
  BY Zenon DEF IInv, Flags, ctx, window, shape, sockets
<1>3. Fields'
  BY DEF IInv, Fields, ctx, window, shape, sockets
<1>4. Accounts'
  BY DEF IInv, Accounts, ctx, window, shape
<1>5. Whole'
  BY DEF IInv, Fields, Whole, ctx, window, shape
<1> QED
  BY <1>1, <1>2, <1>3, <1>4, <1>5 DEF IInv

\* A consumer whose peer is gone ends.
LEMMA ConsumerLeftStep ==
  ASSUME IInv, ConsumerLeft PROVE IInv'
<1> USE DEF ConsumerLeft
<1>1. QueueRuns'
  BY WindowUntouched DEF IInv, Whole, ctx
<1>2. Flags'
  BY Zenon DEF IInv, Flags, ctx, window, shape, sockets
<1>3. Fields'
  BY DEF IInv, Fields, ctx, window, shape, sockets
<1>4. Accounts'
  BY DEF IInv, Accounts, ctx, window, shape
<1>5. Whole'
  BY DEF IInv, Fields, Whole, ctx, window, shape
<1> QED
  BY <1>1, <1>2, <1>3, <1>4, <1>5 DEF IInv

\* The data connection arrives.
LEMMA AgentConnectsStep ==
  ASSUME IInv, AgentConnects PROVE IInv'
<1> USE DEF AgentConnects
<1>1. QueueRuns'
  BY WindowUntouched DEF IInv, Whole, ctx
<1>2. Flags'
  BY Zenon DEF IInv, Flags, ctx, window, shape, sockets
<1>3. Fields'
  BY DEF IInv, Fields, ctx, window, shape, sockets
<1>4. Accounts'
  BY DEF IInv, Accounts, ctx, window, shape
<1>5. Whole'
  BY DEF IInv, Fields, Whole, ctx, window, shape
<1> QED
  BY <1>1, <1>2, <1>3, <1>4, <1>5 DEF IInv

\* The agent's handler fails.
LEMMA AgentFailsStep ==
  ASSUME IInv, AgentFails PROVE IInv'
<1> USE DEF AgentFails, CloseData
<1>1. QueueRuns'
  BY WindowUntouched DEF IInv, Whole, ctx
<1>2. Flags'
  BY Zenon DEF IInv, Flags, ctx, window, shape, sockets
<1>3. Fields'
  BY DEF IInv, Fields, ctx, window, shape, sockets
<1>4. Accounts'
  BY DEF IInv, Accounts, ctx, window, shape
<1>5. Whole'
  BY DEF IInv, Fields, Whole, ctx, window, shape
<1> QED
  BY <1>1, <1>2, <1>3, <1>4, <1>5 DEF IInv

\* The agent's push is answered.
LEMMA AgentPushedStep ==
  ASSUME IInv, AgentPushed PROVE IInv'
<1> USE DEF AgentPushed
<1>1. QueueRuns'
  BY WindowUntouched DEF IInv, Whole, ctx
<1>2. Flags'
  BY Zenon DEF IInv, Flags, ctx, window, shape, sockets
<1>3. Fields'
  BY DEF IInv, Fields, ctx, window, shape, sockets
<1>4. Accounts'
  BY DEF IInv, Accounts, ctx, window, shape
<1>5. Whole'
  BY DEF IInv, Fields, Whole, ctx, window, shape
<1> QED
  BY <1>1, <1>2, <1>3, <1>4, <1>5 DEF IInv

\* The agent has its body, or an error.
LEMMA AgentPulledStep ==
  ASSUME IInv, AgentPulled PROVE IInv'
<1> USE DEF AgentPulled, Installs
<1>1. QueueRuns'
  BY WindowUntouched DEF IInv, Whole, ctx
<1>2. Flags'
  BY Zenon DEF IInv, Flags, ctx, window, shape, sockets
<1>3. Fields'
  BY DEF IInv, Fields, ctx, window, shape, sockets
<1>4. Accounts'
  BY DEF IInv, Accounts, ctx, window, shape
<1>5. Whole'
  BY DEF IInv, Fields, Whole, ctx, window, shape
<1> QED
  BY <1>1, <1>2, <1>3, <1>4, <1>5 DEF IInv

\* The agent's handler is cancelled.
LEMMA AgentCancelledStep ==
  ASSUME IInv, AgentCancelled PROVE IInv'
<1> USE DEF AgentCancelled, CloseData
<1>1. QueueRuns'
  BY WindowUntouched DEF IInv, Whole, ctx
<1>2. Flags'
  BY Zenon DEF IInv, Flags, ctx, window, shape, sockets
<1>3. Fields'
  BY DEF IInv, Fields, ctx, window, shape, sockets
<1>4. Accounts'
  BY DEF IInv, Accounts, ctx, window, shape
<1>5. Whole'
  BY DEF IInv, Fields, Whole, ctx, window, shape
<1> QED
  BY <1>1, <1>2, <1>3, <1>4, <1>5 DEF IInv

\* The agent answers.
LEMMA AnsweredStep ==
  ASSUME IInv, Answered PROVE IInv'
<1> USE DEF Answered
<1>1. QueueRuns'
  BY WindowUntouched DEF IInv, Whole, ctx
<1>2. Flags'
  BY Zenon DEF IInv, Flags, ctx, window, shape, sockets
<1>3. Fields'
  BY DEF IInv, Fields, ctx, window, shape, sockets
<1>4. Accounts'
  BY DEF IInv, Accounts, ctx, window, shape
<1>5. Whole'
  BY DEF IInv, Fields, Whole, ctx, window, shape
<1> QED
  BY <1>1, <1>2, <1>3, <1>4, <1>5 DEF IInv

\* The control socket is lost.
LEMMA LinkLostStep ==
  ASSUME IInv, LinkLost PROVE IInv'
<1> USE DEF LinkLost
<1>1. QueueRuns'
  BY WindowUntouched DEF IInv, Whole, ctx
<1>2. Flags'
  BY Zenon DEF IInv, Flags, ctx, window, shape, sockets
<1>3. Fields'
  BY DEF IInv, Fields, ctx, window, shape, sockets
<1>4. Accounts'
  BY DEF IInv, Accounts, ctx, window, shape
<1>5. Whole'
  BY DEF IInv, Fields, Whole, ctx, window, shape
<1> QED
  BY <1>1, <1>2, <1>3, <1>4, <1>5 DEF IInv

\* The command times out.
LEMMA CommandTimesOutStep ==
  ASSUME IInv, CommandTimesOut PROVE IInv'
<1> USE DEF CommandTimesOut
<1>1. QueueRuns'
  BY WindowUntouched DEF IInv, Whole, ctx
<1>2. Flags'
  BY Zenon DEF IInv, Flags, ctx, window, shape, sockets
<1>3. Fields'
  BY DEF IInv, Fields, ctx, window, shape, sockets
<1>4. Accounts'
  BY DEF IInv, Accounts, ctx, window, shape
<1>5. Whole'
  BY DEF IInv, Fields, Whole, ctx, window, shape
<1> QED
  BY <1>1, <1>2, <1>3, <1>4, <1>5 DEF IInv

-----------------------------------------------------------------------------
(* The actions that touch the window *)

\* The bytes between two positions are those that lead from one to the other.
LEMMA Between ==
  ASSUME NEW g \in Nat, NEW h \in Nat, NEW o \in Nat, g < h, h <= o
  PROVE  \E n \in 1..(o - g) : h = g + n
<1>1. h - g \in 1..(o - g) /\ h = g + (h - g)
  OBVIOUS
<1> QED
  BY <1>1

\* The length of a body is a number.
LEMMA SizesAreNat == Fields => size \in Nat
BY BoundAssumption DEF Fields

\* No end of stream is queued while data may still come.
LEMMA AllData ==
  ASSUME IInv, ~cancel, producer # "ended"
  PROVE  Runs(queue, given, offered, Len(queue))
BY DEF IInv, QueueRuns, Runs

\* A chunk enters.
LEMMA EnqueueStep ==
  ASSUME IInv, ~cancel, producer # "ended", NEW n \in 1..MaxChunk,
         Enqueue(n), UNCHANGED given
  PROVE  queue' \in Seq(Chunks) /\ QueueRuns'
<1>1. queue \in Seq(Chunks) /\ given \in Nat /\ offered \in Nat
  BY DEF IInv, Fields
<1>2. n \in Nat /\ n > 0
  BY WindowAssumption
<1>3. [lo |-> offered, hi |-> offered + n] \in Chunks
  BY <1>1, <1>2 DEF Chunks
<1>4. queue' \in Seq(Chunks) /\ Len(queue') = Len(queue) + 1
  BY <1>1, <1>3 DEF Enqueue
<1>5. Runs(queue', given, offered', Len(queue) + 1)
  BY <1>1, <1>2, AllData, AppendData DEF Enqueue
<1>6. Len(queue') \in Nat
  BY <1>4
<1> QED
  BY <1>4, <1>5, <1>6 DEF QueueRuns, Runs

\* An end of stream enters, or is refused.
LEMMA EndStep ==
  ASSUME IInv, UNCHANGED <<given, offered>>,
         queue' = queue \/ queue' = Append(queue, EOF),
         cancel' \/ producer' = "ended"
  PROVE  queue' \in Seq(Chunks) /\ QueueRuns'
<1>1. queue \in Seq(Chunks) /\ given \in Nat /\ offered \in Nat
  BY DEF IInv, Fields
<1>2. PICK m \in 0..Len(queue) : Runs(queue, given, offered, m)
  BY DEF IInv, QueueRuns
<1>3. m \in Nat /\ Runs(queue', given, offered, m) /\ queue' \in Seq(Chunks)
  <2>1. CASE queue' = queue
    BY <1>1, <1>2, <2>1
  <2>2. CASE queue' = Append(queue, EOF)
    <3>1. /\ Append(queue, EOF) \in Seq(Chunks)
          /\ Runs(Append(queue, EOF), given, offered, m)
      BY <1>1, <1>2, AppendEnd
    <3> QED
      BY <2>2, <3>1
  <2> QED
    BY <2>1, <2>2
<1>4. m \in 0..Len(queue')
  BY <1>3 DEF Runs
<1> QED
  BY <1>3, <1>4 DEF QueueRuns

\* The producer reads a chunk and puts it, parks with it, or stops.
LEMMA ReadsStep ==
  ASSUME IInv, NEW n \in 1..MaxChunk, Reads(n) PROVE IInv'
<1> USE DEF Reads, Refused, Full
<1>0. /\ producer = "reading" /\ offered + n <= size
      /\ UNCHANGED <<ctx, shape, sockets, consumer, route, fut, agent,
                     installed, cancels>>
  OBVIOUS
<1>1. CASE cancel /\ producer' = "ended" /\ UNCHANGED <<window, held>>
  <2>1. QueueRuns'
    BY <1>0, <1>1, WindowUntouched DEF IInv, ctx
  <2>2. Flags'
    BY <1>0, Zenon DEF IInv, Flags, ctx, shape
  <2>3. Fields'
    BY <1>0, <1>1 DEF IInv, Fields, ctx, window, shape, sockets
  <2>4. Accounts'
    BY <1>0, <1>1 DEF IInv, Accounts, ctx, window, shape
  <2>6. Whole'
    BY <1>0, <1>1 DEF IInv, Whole, ctx, window, shape
  <2> QED
    BY <2>1, <2>2, <2>3, <2>4, <2>6 DEF IInv
<1>2. CASE ~cancel /\ producer' = "parked" /\ held' = n /\ UNCHANGED window
  <2>1. QueueRuns'
    BY <1>0, <1>2, WindowUntouched DEF IInv, ctx
  <2>2. Flags'
    BY <1>0, Zenon DEF IInv, Flags, ctx, shape
  <2>3. Fields'
    BY <1>0, <1>2 DEF IInv, Fields, ctx, window, shape, sockets
  <2>4. Accounts'
    BY <1>0, <1>2 DEF IInv, Accounts, ctx, window, shape
  <2>6. Whole'
    BY <1>0, <1>2 DEF IInv, Whole, ctx, window, shape
  <2> QED
    BY <2>1, <2>2, <2>3, <2>4, <2>6 DEF IInv
<1>3. CASE ~cancel /\ ~(queued >= Window) /\ Enqueue(n)
           /\ UNCHANGED <<producer, held, given>>
  <2>1. queue' \in Seq(Chunks) /\ QueueRuns'
    BY <1>0, <1>3, EnqueueStep
  <2>2. Flags'
    BY <1>0, Zenon DEF IInv, Flags, ctx, shape
  <2>3. Fields'
    BY <1>0, <1>3, <2>1, WindowAssumption
       DEF IInv, Fields, Enqueue, ctx, shape, sockets
  <2>4. Accounts'
    BY <1>0, <1>3, WindowAssumption
       DEF IInv, Fields, Accounts, Enqueue, ctx, shape
  <2>6. Whole'
    BY <1>0, <1>3, WindowAssumption
       DEF IInv, Fields, Whole, Enqueue, ctx, shape
  <2> QED
    BY <2>1, <2>2, <2>3, <2>4, <2>6 DEF IInv
<1> QED
  BY <1>1, <1>2, <1>3

\* A parked put wakes: there is room for what it holds, or it is refused.
LEMMA WakesStep ==
  ASSUME IInv, Wakes PROVE IInv'
<1> USE DEF Wakes, MayWake, Refused
<1>0. /\ producer \in {"parked", "released"} /\ held' = 0
      /\ producer = "released" \/ cancel
      /\ UNCHANGED <<ctx, shape, sockets, consumer, route, fut, agent,
                     installed, cancels>>
  OBVIOUS
<1>1. CASE cancel /\ producer' = "ended" /\ UNCHANGED window
  <2>1. QueueRuns'
    BY <1>0, <1>1, WindowUntouched DEF IInv, ctx
  <2>2. Flags'
    BY <1>0, Zenon DEF IInv, Flags, ctx, shape
  <2>3. Fields'
    BY <1>0, <1>1, WindowAssumption
       DEF IInv, Fields, ctx, window, shape, sockets
  <2>4. Accounts'
    BY <1>0, <1>1 DEF IInv, Accounts, ctx, window, shape
  <2>6. Whole'
    BY <1>0, <1>1 DEF IInv, Whole, ctx, window, shape
  <2> QED
    BY <2>1, <2>2, <2>3, <2>4, <2>6 DEF IInv
<1>2. CASE ~cancel /\ Enqueue(held) /\ producer' = "reading" /\ UNCHANGED given
  <2>0. /\ held \in 1..MaxChunk /\ offered + held <= size /\ queued <= Resume
    BY <1>0, <1>2 DEF IInv, Accounts
  <2>1. queue' \in Seq(Chunks) /\ QueueRuns'
    BY <1>0, <1>2, <2>0, EnqueueStep
  <2>2. Flags'
    BY <1>0, Zenon DEF IInv, Flags, ctx, shape
  <2>3. Fields'
    BY <1>0, <1>2, <2>0, <2>1, WindowAssumption
       DEF IInv, Fields, Enqueue, ctx, shape, sockets
  <2>4. Resume \in Nat /\ Resume < Window
    BY WindowAssumption DEF Resume
  <2>5. Accounts'
    BY <1>0, <1>2, <2>0, <2>4, WindowAssumption, SizesAreNat
       DEF IInv, Fields, Accounts, Enqueue, ctx, shape
  <2>6. Whole'
    BY <1>0, <1>2 DEF IInv, Whole, Enqueue, ctx, shape
  <2> QED
    BY <2>1, <2>2, <2>3, <2>5, <2>6 DEF IInv
<1> QED
  BY <1>1, <1>2

\* The producer ends with its end of stream.
LEMMA ProducerEndsStep ==
  ASSUME IInv, ProducerEnds PROVE IInv'
<1> USE DEF ProducerEnds, EndOfStream, Refused
<1>1. queue' \in Seq(Chunks) /\ QueueRuns'
  BY EndStep
<1>2. Flags'
  BY Zenon DEF IInv, Flags, ctx, shape
<1>3. Fields'
  BY <1>1, WindowAssumption DEF IInv, Fields, ctx, shape, sockets
<1>4. Accounts' /\ Whole'
  BY DEF IInv, Accounts, Whole, ctx, shape
<1> QED
  BY <1>1, <1>2, <1>3, <1>4 DEF IInv

\* The user cancels: an end of stream behind whatever is queued.
LEMMA UserCancelsStep ==
  ASSUME IInv, UserCancels PROVE IInv'
<1> USE DEF UserCancels
<1>1. queue' \in Seq(Chunks) /\ QueueRuns'
  BY EndStep
<1>2. Flags'
  BY Zenon DEF IInv, Flags, shape
<1>3. Fields'
  BY <1>1 DEF IInv, Fields, shape, sockets
<1>4. Accounts' /\ Whole'
  BY DEF IInv, Accounts, Whole, shape
<1> QED
  BY <1>1, <1>2, <1>3, <1>4 DEF IInv

\* What a get hands over is the next of what was put.
LEMMA HeadIsNext ==
  ASSUME IInv, queue # <<>>
  PROVE  /\ Head(queue) \in Chunks /\ Tail(queue) \in Seq(Chunks)
         /\ Head(queue) # EOF =>
              /\ Head(queue).lo = given
              /\ given < Head(queue).hi /\ Head(queue).hi <= offered
<1>1. queue \in Seq(Chunks) /\ given \in Nat /\ offered \in Nat
  BY DEF IInv, Fields
<1>2. PICK m \in 0..Len(queue) : Runs(queue, given, offered, m)
  BY DEF IInv, QueueRuns
<1>3. m \in Nat
  OBVIOUS
<1>4. Head(queue) \in Chunks /\ Tail(queue) \in Seq(Chunks)
  BY <1>1
<1>5. Head(queue) # EOF => /\ Head(queue).lo = given
                           /\ given < Head(queue).hi
                           /\ Head(queue).hi <= offered
  BY <1>1, <1>2, <1>3, TakeData
<1> QED
  BY <1>4, <1>5 DEF IInv

\* The queue behind the head is the rest of the body.
LEMMA TailRuns ==
  ASSUME IInv, queue # <<>>, queue' = Tail(queue), UNCHANGED offered,
         given' = IF Head(queue) = EOF THEN given ELSE Head(queue).hi,
         cancel' = cancel, producer = "ended" => producer' = "ended"
  PROVE  QueueRuns'
<1>1. queue \in Seq(Chunks) /\ given \in Nat /\ offered \in Nat
  BY DEF IInv, Fields
<1>2. PICK m \in 0..Len(queue) :
        /\ Runs(queue, given, offered, m)
        /\ m < Len(queue) => cancel \/ producer = "ended"
  BY DEF IInv, QueueRuns
<1>3. m \in Nat /\ Len(queue) \in Nat /\ Len(queue) > 0
      /\ Len(Tail(queue)) = Len(queue) - 1
  BY <1>1
<1>4. CASE Head(queue) = EOF
  <2>1. m = 0 /\ Runs(queue', given', offered', 0)
    BY <1>1, <1>2, <1>3, <1>4, TakeEnd
  <2>2. 0 \in 0..Len(queue') /\ (cancel' \/ producer' = "ended")
    BY <1>2, <1>3, <2>1
  <2> QED
    BY <2>1, <2>2 DEF QueueRuns
<1>5. CASE Head(queue) # EOF
  <2>1. m > 0 /\ Runs(queue', given', offered', m - 1)
    BY <1>1, <1>2, <1>3, <1>5, TakeData
  <2>2. m - 1 \in 0..Len(queue')
    BY <1>3, <2>1
  <2>3. m - 1 < Len(queue') => cancel' \/ producer' = "ended"
    BY <1>2, <1>3
  <2> QED
    BY <2>1, <2>2, <2>3 DEF QueueRuns
<1> QED
  BY <1>4, <1>5

\* A get.
LEMMA TakesStep ==
  ASSUME IInv, Takes PROVE IInv'
<1> DEFINE chunk == Head(queue)
           left  == queued - Length(chunk)
<1>1. /\ consumer = "taking" /\ queue # <<>>
      /\ queue' = Tail(queue) /\ queued' = left /\ producer' = Release(left)
      /\ consumer' \in {"sending", "complete", "broken"}
      /\ state' \in {state, "cancelled", "done"}
      /\ given' = IF chunk = EOF THEN given ELSE chunk.hi
      /\ consumer' = "complete" => ~(declared /\ given # size)
      /\ UNCHANGED <<known, ready, cancel, offered, shape, sockets, held,
                     route, fut, agent, installed, cancels>>
  BY DEF Takes, Finish, Short
<1>2. chunk \in Chunks /\ Tail(queue) \in Seq(Chunks)
  BY <1>1, HeadIsNext
<1>3. producer' = producer \/ (producer = "parked" /\ producer' = "released"
                               /\ (left <= Resume \/ cancel))
  BY <1>1 DEF Release, Drained
<1>4. QueueRuns'
  BY <1>1, <1>3, TailRuns
<1>5. PICK next \in Nat :
        /\ given <= next /\ next <= offered
        /\ given' = next /\ queued' = queued - (next - given)
  <2>1. given \in Nat /\ offered \in Nat /\ queued \in Nat
    BY DEF IInv, Fields
  <2>2. CASE chunk = EOF
    <3>1. Length(chunk) = 0
      BY <2>2 DEF Length, EOF
    <3>2. given <= offered
      BY <2>1 DEF IInv, Accounts
    <3> QED
      BY <1>1, <2>1, <2>2, <3>1, <3>2
  <2>3. CASE chunk # EOF
    <3>1. chunk.lo = given /\ given < chunk.hi /\ chunk.hi <= offered
          /\ chunk.hi \in Nat
      BY <1>1, <1>2, <2>3, HeadIsNext DEF Chunks
    <3> QED
      BY <1>1, <2>1, <2>3, <3>1 DEF Length
  <2> QED
    BY <2>2, <2>3
<1> HIDE DEF chunk, left
<1>6. Flags'
  BY <1>1, Zenon DEF IInv, Flags, shape
<1>7. Fields'
  BY <1>1, <1>2, <1>3, <1>5 DEF IInv, Fields, Accounts, shape, sockets
<1>8. Accounts'
  <2>1. /\ queued' = offered' - given'
        /\ queued' < Window + MaxChunk
        /\ offered' <= size'
    BY <1>1, <1>5, WindowAssumption DEF IInv, Fields, Accounts, shape
  <2>2. producer' = "released" /\ ~cancel' => queued' <= Resume
    <3>1. CASE producer' = producer
      <4>1. queued - (next - given) <= queued
        BY <1>5 DEF IInv, Fields
      <4>2. producer = "released" /\ ~cancel => queued <= Resume
        BY DEF IInv, Accounts
      <4>3. queued <= Resume => queued - (next - given) <= Resume
        BY <1>5, <4>1, WindowAssumption DEF IInv, Fields, Resume
      <4> QED
        BY <1>1, <1>5, <3>1, <4>2, <4>3
    <3>2. CASE left <= Resume \/ cancel
      BY <1>1, <3>2
    <3> QED
      BY <1>3, <3>1, <3>2
  <2>3. producer' \in {"parked", "released"} =>
          held' \in 1..MaxChunk /\ offered' + held' <= size'
    BY <1>1, <1>3 DEF IInv, Accounts, shape
  <2> QED
    BY <2>1, <2>2, <2>3 DEF Accounts
<1>9. Whole'
  <2>0. given = size => given' = size
    BY <1>1, <1>5, SizesAreNat DEF IInv, Fields, Accounts
  <2>1. consumer' = "complete" /\ declared' => given' = size'
    BY <1>1, <2>0 DEF shape
  <2> QED
    BY <1>1, <1>3, <2>1 DEF IInv, Whole, shape
<1> QED
  BY <1>4, <1>6, <1>7, <1>8, <1>9 DEF IInv

\* Every step keeps the invariant.
LEMMA StepHolds == IInv /\ [Next]_vars => IInv'
<1> SUFFICES ASSUME IInv, [Next]_vars PROVE IInv'
  OBVIOUS
<1>1. CASE Route
  BY <1>1, RouteBeginsStep, DownloadStreamsStep, DownloadGivesUpStep,
     UploadAnsweredStep DEF Route
<1>2. CASE User
  BY <1>2, UserCancelsStep, SweptStep, BrowserLeavesStep DEF User
<1>3. CASE Producer
  BY <1>3, ReadsStep, WakesStep, ProducerEndsStep DEF Producer
<1>4. CASE Consumer
  BY <1>4, TakesStep, SentStep, ConsumerLeftStep DEF Consumer
<1>5. CASE Agent
  BY <1>5, AgentConnectsStep, AgentFailsStep, AgentPushedStep,
     AgentPulledStep, AgentCancelledStep DEF Agent
<1>6. CASE Command
  BY <1>6, AnsweredStep, LinkLostStep, CommandTimesOutStep DEF Command
<1>7. CASE UNCHANGED vars
  <2>1. QueueRuns'
    BY <1>7, WindowUntouched DEF IInv, vars, ctx
  <2>2. Flags'
    BY <1>7, Zenon DEF IInv, Flags, vars, ctx, shape
  <2>3. Fields'
    BY <1>7 DEF IInv, Fields, vars, ctx, window, shape, sockets
  <2>4. Accounts'
    BY <1>7 DEF IInv, Accounts, vars, ctx, window, shape
  <2>6. Whole'
    BY <1>7 DEF IInv, Whole, vars, ctx, window, shape
  <2> QED
    BY <2>1, <2>2, <2>3, <2>4, <2>6 DEF IInv
<1> QED
  BY <1>1, <1>2, <1>3, <1>4, <1>5, <1>6, <1>7 DEF Next

LEMMA Invariance == Spec => []IInv
BY InitHolds, StepHolds, PTL DEF Spec

-----------------------------------------------------------------------------
(* The theorems *)

\* Every reachable state of a transfer is well typed; in particular the bytes
\* in the window are never counted below zero (transfers.py:89).
THEOREM TransferTyped == Spec => []TypeOK
<1>1. IInv => TypeOK
  BY TypeParts DEF IInv
<1> QED
  BY <1>1, Invariance, PTL

\* The window is bounded, whatever the chunk sizes and whoever cancels
\* (transfers.py:59, 85).
THEOREM WindowBounded == Spec => []WindowHolds
<1>1. IInv => WindowHolds
  BY DEF IInv, Accounts, WindowHolds
<1> QED
  BY <1>1, Invariance, PTL

\* The bytes in the window are the next ones of the body in order, with
\* nothing behind an end of stream (transfers.py:78).
THEOREM BytesInOrder == Spec => []InOrder
<1>1. IInv => InOrder
  BY DEF IInv, QueueRuns, Runs, InOrder
<1> QED
  BY <1>1, Invariance, PTL

\* A file of announced length is installed whole or not at all
\* (transfer.py:119).
THEOREM InstalledWhole == Spec => []InstalledIsWhole
<1>1. IInv => InstalledIsWhole
  BY DEF IInv, Whole, InstalledIsWhole
<1> QED
  BY <1>1, Invariance, PTL

-----------------------------------------------------------------------------
(* The refinement *)

\* What the queue says it holds is there to be delivered.
LEMMA TakesDelivers ==
  ASSUME IInv, Takes
  PROVE  \/ given' = given
         \/ /\ \E n \in 1..(offered - given) : given' = given + n
            /\ UNCHANGED <<offered, cancel>>
            /\ producer' = "ended" <=> producer = "ended"
<1>0. UNCHANGED cancel
  BY Zenon DEF Takes
<1>1. queue # <<>> /\ UNCHANGED offered
      /\ given' = IF Head(queue) = EOF THEN given ELSE Head(queue).hi
  BY DEF Takes
<1>4. producer' = producer \/ (producer = "parked" /\ producer' = "released")
  <2>1. producer' = Release(queued - Length(Head(queue)))
    BY DEF Takes
  <2> QED
    BY <2>1, Zenon DEF Release
<1>2. CASE Head(queue) = EOF
  BY <1>1, <1>2
<1>3. CASE Head(queue) # EOF
  <2>1. Head(queue) \in Chunks /\ Head(queue).lo = given
        /\ given < Head(queue).hi /\ Head(queue).hi <= offered
    BY <1>1, <1>3, HeadIsNext
  <2>2. given \in Nat /\ offered \in Nat /\ Head(queue).hi \in Nat
    BY <2>1 DEF IInv, Fields, Chunks
  <2>3. \E n \in 1..(offered - given) : Head(queue).hi = given + n
    BY <2>1, <2>2, Between
  <2>4. \E n \in 1..(offered - given) : given' = given + n
    BY <1>1, <1>3, <2>3
  <2>5. producer' = "ended" <=> producer = "ended"
    BY <1>4
  <2> QED
    BY <1>0, <1>1, <2>4, <2>5, Zenon
<1> QED
  BY <1>2, <1>3

\* A put that enters is let in by the abstract buffer.
LEMMA PutsAreAccepted ==
  ASSUME IInv, Producer
  PROVE  \/ UNCHANGED offered
         \/ /\ ~cancel /\ producer # "ended" /\ producer' # "ended"
            /\ offered - given < Window
            /\ \E n \in 1..MaxChunk : offered' = offered + n
            /\ UNCHANGED <<given, cancel>>
<1>1. ASSUME NEW n \in 1..MaxChunk, Reads(n)
      PROVE  \/ UNCHANGED offered
             \/ /\ ~cancel /\ producer # "ended" /\ producer' # "ended"
                /\ offered - given < Window
                /\ offered' = offered + n
                /\ UNCHANGED <<given, cancel>>
  <2>1. \/ UNCHANGED offered
        \/ /\ ~cancel /\ producer = "reading" /\ producer' = "reading"
           /\ ~(queued >= Window)
           /\ offered' = offered + n
           /\ UNCHANGED <<given, cancel>>
    BY <1>1 DEF Reads, Refused, Full, Enqueue, window, ctx
  <2>2. ~(queued >= Window) => offered - given < Window
    BY WindowAssumption DEF IInv, Fields, Accounts
  <2> QED
    BY <2>1, <2>2
<1>2. ASSUME Wakes
      PROVE  \/ UNCHANGED offered
             \/ /\ ~cancel /\ producer # "ended" /\ producer' # "ended"
                /\ offered - given < Window
                /\ held \in 1..MaxChunk /\ offered' = offered + held
                /\ UNCHANGED <<given, cancel>>
  <2>1. \/ UNCHANGED offered
        \/ /\ ~cancel /\ producer = "released" /\ producer' = "reading"
           /\ offered' = offered + held
           /\ UNCHANGED <<given, cancel>>
    BY <1>2 DEF Wakes, MayWake, Refused, Enqueue, window, ctx
  <2>2. producer = "released" /\ ~cancel =>
          held \in 1..MaxChunk /\ queued <= Resume
    BY DEF IInv, Accounts
  <2>3. queued <= Resume => offered - given < Window
    <3>1. Resume \in Nat /\ Resume < Window
      BY WindowAssumption DEF Resume
    <3> QED
      BY <3>1, WindowAssumption DEF IInv, Fields, Accounts
  <2> QED
    BY <2>1, <2>2, <2>3
<1>3. ProducerEnds => UNCHANGED offered
  BY DEF ProducerEnds
<1> QED
  BY <1>1, <1>2, <1>3 DEF Producer

\* Once shut, the buffer stays shut.
LEMMA StaysShut ==
  ASSUME IInv, [Next]_vars
  PROVE  /\ cancel => cancel'
         /\ producer = "ended" => producer' = "ended"
<1>1. CASE Route
  BY <1>1 DEF IInv, Whole, Route, RouteBegins, DownloadStreams,
     DownloadGivesUp, UploadAnswered, CancelPump
<1>2. CASE User
  BY <1>2 DEF User, UserCancels, Swept, BrowserLeaves, ctx
<1>3. CASE Producer
  BY <1>3 DEF Producer, Reads, Wakes, ProducerEnds, MayWake, Refused, ctx
<1>4. CASE Consumer
  BY <1>4 DEF Consumer, Takes, Sent, ConsumerLeft, Release, ctx
<1>5. CASE Agent
  BY <1>5 DEF IInv, Whole, Agent, AgentConnects, AgentFails, AgentPushed,
     AgentPulled, AgentCancelled, ctx
<1>6. CASE Command
  BY <1>6 DEF Command, Answered, LinkLost, CommandTimesOut, ctx
<1>7. CASE UNCHANGED vars
  BY <1>7 DEF vars, ctx
<1> QED
  BY <1>1, <1>2, <1>3, <1>4, <1>5, <1>6, <1>7 DEF Next

\* Every other step leaves both ends of the buffer alone.
LEMMA OthersLeaveBytes ==
  ASSUME Route \/ User \/ Sent \/ ConsumerLeft \/ Agent \/ Command
         \/ UNCHANGED vars
  PROVE  UNCHANGED <<offered, given>>
BY DEF Route, RouteBegins, DownloadStreams, DownloadGivesUp, UploadAnswered,
   User, UserCancels, Swept, BrowserLeaves, Sent, ConsumerLeft, Agent,
   AgentConnects, AgentFails, AgentPushed, AgentPulled, AgentCancelled,
   Command, Answered, LinkLost, CommandTimesOut, vars, window

LEMMA BridgeStep == IInv /\ [Next]_vars => [Bridge!Next]_Bridge!vars
<1> SUFFICES ASSUME IInv, [Next]_vars
             PROVE  [Bridge!Next]_Bridge!vars
  OBVIOUS
<1> DEFINE o == producer # "ended" /\ ~cancel
<1>0. ~o => ~o'
  BY StaysShut
<1>1. CASE UNCHANGED <<offered, given>>
  <2>1. o' = o \/ o' = FALSE
    BY <1>0, Zenon
  <2> QED
    BY <1>1, <2>1 DEF Bridge!Next, Bridge!Shut, Bridge!vars
<1>2. CASE Takes
  BY <1>1, <1>2, TakesDelivers
     DEF Bridge!Next, Bridge!Deliver, Bridge!vars, Takes
<1>3. CASE Producer
  <2>1. UNCHANGED given
    BY <1>3 DEF Producer, Reads, Wakes, ProducerEnds, window
  <2> QED
    BY <1>1, <1>3, <2>1, PutsAreAccepted
       DEF Bridge!Next, Bridge!Accept, Bridge!vars
<1> QED
  BY <1>1, <1>2, <1>3, OthersLeaveBytes DEF Next, Consumer

\* The two hops and the window between them implement the abstract buffer
\* (transfers.py:52-100).
THEOREM ImplementsPipe == Spec => BridgeSpec
<1>1. Init => Bridge!Init
  BY DEF Init, Bridge!Init
<1> QED
  BY <1>1, BridgeStep, Invariance, PTL
     DEF Spec, BridgeSpec, Bridge!Spec
=============================================================================
