------------------------------ MODULE ByteQueue ------------------------------
(***************************************************************************)
(* What the transmit ring of a port promises: a bounded first-in first-out *)
(* queue of bytes.  The writers append one byte, or the two bytes of an    *)
(* escape together, and only when they fit; the service takes the oldest   *)
(* byte; opening the port starts over.                                     *)
(***************************************************************************)
EXTENDS Naturals, Sequences

CONSTANTS Byte, Capacity

VARIABLES q, out

Init == q = <<>> /\ out = <<>>

Put(bytes) == /\ Len(q) + Len(bytes) <= Capacity
              /\ q' = q \o bytes
              /\ out' = out

Take == /\ q # <<>>
        /\ out' = Append(out, Head(q))
        /\ q' = Tail(q)

Clear == q' = <<>> /\ out' = <<>>

Next == \/ \E b \in Byte : Put(<<b>>)
        \/ \E b, d \in Byte : Put(<<b, d>>)
        \/ Take
        \/ Clear

Spec == Init /\ [][Next]_<<q, out>>
=============================================================================
