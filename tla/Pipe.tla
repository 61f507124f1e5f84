-------------------------------- MODULE Pipe --------------------------------
(***************************************************************************)
(* What the buffer between the two hops of a transfer promises: bytes go   *)
(* in while it is open and not full, come out in order, none is lost or    *)
(* made up on the way, and once it is shut nothing goes in any more.       *)
(***************************************************************************)
EXTENDS Integers

CONSTANTS Window, MaxChunk

VARIABLES
  in,     \* bytes accepted from the producing hop
  out,    \* bytes handed to the consuming hop
  open    \* the producing hop may still add to it

vars == <<in, out, open>>

Init == in = 0 /\ out = 0 /\ open = TRUE

\* A full buffer takes no chunk; a chunk may overfill one that is not.
Accept ==
  /\ open
  /\ in - out < Window
  /\ \E n \in 1..MaxChunk : in' = in + n
  /\ UNCHANGED <<out, open>>

Deliver ==
  /\ \E n \in 1..(in - out) : out' = out + n
  /\ UNCHANGED <<in, open>>

Shut ==
  /\ open' = FALSE
  /\ UNCHANGED <<in, out>>

Next == Accept \/ Deliver \/ Shut

Spec == Init /\ [][Next]_vars
=============================================================================
