---------------------------- MODULE ByteChannel ----------------------------
(***************************************************************************)
(* What the writing side of a stream is for: the bytes it is given come    *)
(* out at the other end, each once and in order.  Bytes are numbered in    *)
(* the order they were given.                                              *)
(***************************************************************************)
EXTENDS Naturals, Sequences

VARIABLES accepted,  \* how many bytes the channel was given
          delivered  \* the bytes that came out

UpTo(n) == [i \in 1..n |-> i]

Init == accepted = 0 /\ delivered = <<>>

Next ==
  /\ accepted' \in Nat /\ accepted' >= accepted
  /\ \E n \in Len(delivered)..accepted' : delivered' = UpTo(n)

Spec == Init /\ [][Next]_<<accepted, delivered>>
=============================================================================
