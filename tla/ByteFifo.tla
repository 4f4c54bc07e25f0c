------------------------------- MODULE ByteFifo -------------------------------
(***************************************************************************)
(* What a stream buffer promises (gba/sdk/include/chislink/stream.h:23-36): *)
(* the bytes committed by the producer come out once, in order, each with   *)
(* the offset it has in the logical stream, and what the consumer has been  *)
(* shown stays as it is until he releases it.                               *)
(***************************************************************************)
EXTENDS Naturals, Sequences

CONSTANTS Byte, Wrap,
          Block, Room   \* most bytes put at once, most bytes held

VARIABLES q,      \* the bytes committed and not released
          shown,  \* what the consumer is looking at
          next    \* where the next byte goes unless the producer says otherwise

vars == <<q, shown, next>>

At(offset, bytes) == [i \in 1 .. Len(bytes) |-> [at |-> (offset + i - 1) % Wrap,
                                                 byte |-> bytes[i]]]

Init == q = <<>> /\ shown = <<>> /\ next = 0

Put(offset, bytes) ==
  /\ bytes # <<>> /\ Len(q) + Len(bytes) <= Room
  /\ next' = (offset + Len(bytes)) % Wrap
  /\ UNCHANGED shown
  /\ q' = q \o At(offset, bytes)

Show(n) ==
  /\ n \in 1 .. Len(q)
  /\ UNCHANGED next
  /\ shown' = SubSeq(q, 1, n)
  /\ UNCHANGED q

Take(n) ==
  /\ n \in 1 .. Len(q)
  /\ UNCHANGED next
  /\ shown' = <<>>
  /\ q' = SubSeq(q, n + 1, Len(q))

Clear == q' = <<>> /\ shown' = <<>> /\ next' = 0

Next ==
  \/ \E n \in 1 .. Room : Show(n) \/ Take(n)
  \/ Clear
  \/ \E offset \in 0 .. Wrap - 1, n \in 1 .. Block : \E bytes \in [1 .. n -> Byte] :
       Put(offset, bytes)

Spec == Init /\ [][Next]_vars
=============================================================================
