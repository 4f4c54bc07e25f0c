------------------------------- MODULE Mailbox -------------------------------
(***************************************************************************)
(* What the relay server promises about a client's outbound queue: a FIFO  *)
(* of at most Cap packets that takes packets only while it is open, gives  *)
(* them up one at a time from the front, is closed once, and loses what it *)
(* holds when it is closed.                                                *)
(***************************************************************************)
EXTENDS Naturals, Sequences

CONSTANTS Client, Item, Cap

VARIABLES box, open

Init ==
  /\ box = [c \in Client |-> <<>>]
  /\ open = [c \in Client |-> TRUE]

Put(c, x) ==
  /\ open[c] /\ Len(box[c]) < Cap
  /\ box' = [box EXCEPT ![c] = Append(@, x)]
  /\ UNCHANGED open

Take(c) ==
  /\ box[c] # <<>>
  /\ box' = [box EXCEPT ![c] = Tail(@)]
  /\ UNCHANGED open

Close(c) ==
  /\ open[c]
  /\ open' = [open EXCEPT ![c] = FALSE]
  /\ box' = [box EXCEPT ![c] = <<>>]

Next == \E c \in Client : Take(c) \/ Close(c) \/ \E x \in Item : Put(c, x)

Spec == Init /\ [][Next]_<<box, open>>
=============================================================================
