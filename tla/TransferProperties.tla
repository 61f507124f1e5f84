------------------------- MODULE TransferProperties -------------------------
(* What the code of a transfer is to guarantee. *)
EXTENDS Transfer

\* Memory stays flat: the bytes accounted for are those between the two hops,
\* and a producer that parks and wakes never overfills the window by more than
\* the chunk it was let in with (transfers.py:59, 85).
WindowHolds ==
  /\ queued = offered - given
  /\ queued < Window + MaxChunk

\* The chunks waiting are the next bytes of the body in order, and nothing
\* waits behind an end of stream, whoever queued it: the consumer stops there
\* (transfers.py:78, api/transfers.py:183, 148, 210).
InOrder ==
  \A k \in 1..Len(queue) :
    queue[k] # EOF =>
      queue[k].lo = IF k = 1 THEN given ELSE queue[k - 1].hi

\* An upload that replaces its target file is whole whenever its length was
\* announced, whatever was cut, cancelled or lost (transfer.py:119).
InstalledIsWhole == installed /\ declared => given = size

\* The two hops and the window implement the abstract buffer (transfers.py:52).
Bridge == INSTANCE Pipe WITH
  in   <- offered,
  out  <- given,
  open <- producer # "ended" /\ ~cancel
BridgeSpec == Bridge!Spec

\* The producer of a download whose browser request was given up on has nobody
\* left to drain it.
Abandoned == direction = "download" /\ route = "failed"

\* A parked producer does not park for ever (transfers.py:55).
ProducerIsReleased == producer = "parked" ~> producer # "parked" \/ Abandoned

\* Cancelled from either side, the producing hop exits (transfers.py:55).
CancelEndsProducer == cancel ~> producer \in {"none", "ended"}

\* A consumer is not left waiting for a producer that is gone: it gets its end
\* of stream, unless the command outlives its 12 hours (transfers.py:62).
ConsumerEnds ==
  consumer = "taking" ~> consumer \in {"complete", "broken"}
                         \/ fut = "timeout" \/ Abandoned
=============================================================================
