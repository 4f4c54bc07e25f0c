------------------------------ MODULE StreamRing ------------------------------
(***************************************************************************)
(* The slots of a stream subscription (gba/sdk/src/stream.c): a ring of     *)
(* slot_count slots of slot_size bytes that a producer and a consumer share.*)
(*                                                                          *)
(* A producer acquires the write slot, fills it and commits a length; a     *)
(* consumer peeks at the bytes left in the read slot and releases some of   *)
(* them.  Between these calls come any others of either role, and a reset.  *)
(* Calls that return an error change nothing and are no actions; that a     *)
(* call returns one only for want of data or of space is NeverInvalid.      *)
(***************************************************************************)
EXTENDS Integers, Sequences

CONSTANTS
  SlotCount, SlotSize,   \* slot_count, slot_size
  Byte,                  \* contents of the buffer
  Wrap,                  \* offsets are modulo 2^32
  NoView

ASSUME RingAssumption ==
  /\ SlotCount \in Nat \ {0} /\ SlotSize \in Nat \ {0} /\ Wrap \in Nat \ {0}
  /\ Byte # {}
  /\ NoView \notin 0 .. SlotCount - 1
  /\ NoView \notin [slot : 0 .. SlotCount - 1, from : 0 .. SlotSize, to : 0 .. SlotSize]

VARIABLES
  buffer, slots,                          \* the caller's memory
  readSlot, writeSlot, readySlots,        \* read_slot, write_slot, ready_slots
  readOffset, rxOffset,                   \* read_offset, rx_offset
  span,                                   \* the slot the producer is filling
  view                                    \* the bytes the consumer is looking at

ringVars == <<slots, readSlot, writeSlot, readySlots, readOffset, rxOffset>>
allRingVars == <<buffer, ringVars, span, view>>

Index == 0 .. SlotCount - 1
Offset == 0 .. Wrap - 1
View == [slot : Index, from : 0 .. SlotSize, to : 0 .. SlotSize]
Slot == [offset : Offset, length : 0 .. SlotSize, flags : {"free", "ready", "consumed"}]
FreeSlot == [offset |-> 0, length |-> 0, flags |-> "free"]

RingTypeOK ==
  /\ buffer \in [Index -> [1 .. SlotSize -> Byte]]
  /\ slots \in [Index -> Slot]
  /\ readSlot \in Index /\ writeSlot \in Index /\ readySlots \in 0 .. SlotCount
  /\ readOffset \in 0 .. SlotSize /\ rxOffset \in Offset
  /\ span \in Index \cup {NoView} /\ view \in View \cup {NoView}

\* cl_stream_init over a buffer with anything in it.
RingInit ==
  /\ buffer \in [Index -> [1 .. SlotSize -> Byte]]
  /\ slots = [i \in Index |-> FreeSlot]
  /\ readSlot = 0 /\ writeSlot = 0 /\ readySlots = 0
  /\ readOffset = 0 /\ rxOffset = 0
  /\ span = NoView /\ view = NoView

\* A slot index after the other.
NextSlot(i) == IF i + 1 >= SlotCount THEN 0 ELSE i + 1

\* cl_stream_can_receive, cl_stream_free_count; the mutant is off by one.
CanReceiveOne == SlotCount - readySlots + 1 # 0
CanReceive == SlotCount - readySlots # 0

-----------------------------------------------------------------------------
(* The producer.                                                            *)

\* cl_stream_producer_acquire
Acquire ==
  /\ CanReceive
  /\ span' = writeSlot
  /\ UNCHANGED <<buffer, ringVars, view>>

\* The caller, or the payload interrupt on his behalf, writes to the span.
Fill(bytes) ==
  /\ span # NoView
  /\ buffer' = [buffer EXCEPT ![span] = bytes]
  /\ UNCHANGED <<ringVars, span, view>>

\* cl_stream_producer_commit_at; cl_stream_producer_commit is offset = rxOffset.
Commit(offset, length) ==
  /\ span # NoView
  /\ CanReceive
  /\ length \in 1 .. SlotSize
  /\ slots' = [slots EXCEPT ![writeSlot] =
                 [offset |-> offset, length |-> length, flags |-> "ready"]]
  /\ rxOffset' = (offset + length) % Wrap
  /\ writeSlot' = NextSlot(writeSlot)
  /\ readySlots' = readySlots + 1
  /\ span' = NoView
  /\ UNCHANGED <<buffer, readSlot, readOffset, view>>

-----------------------------------------------------------------------------
(* The consumer.                                                            *)

\* What peek and release test once they know that a slot is ready.
Readable ==
  /\ slots[readSlot].flags = "ready"
  /\ slots[readSlot].length # 0
  /\ readOffset < slots[readSlot].length

\* cl_stream_consumer_peek
Peek ==
  /\ readySlots # 0 /\ Readable
  /\ view' = [slot |-> readSlot, from |-> readOffset, to |-> slots[readSlot].length]
  /\ UNCHANGED <<buffer, ringVars, span>>

\* What release leaves of a slot.
Consumed(slot) == [offset |-> slot.offset, length |-> 0, flags |-> "consumed"]

\* cl_stream_consumer_release; the mutant leaves the offset where it was.
ReleaseInPlace ==
  /\ readySlots # 0 /\ Readable
  /\ slots' = [slots EXCEPT ![readSlot] = Consumed(@)]
  /\ readSlot' = NextSlot(readSlot)
  /\ readySlots' = readySlots - 1
  /\ view' = NoView
  /\ UNCHANGED <<buffer, writeSlot, readOffset, rxOffset, span>>

Release ==
  /\ readySlots # 0 /\ Readable
  /\ slots' = [slots EXCEPT ![readSlot] = Consumed(@)]
  /\ readOffset' = 0
  /\ readSlot' = NextSlot(readSlot)
  /\ readySlots' = readySlots - 1
  /\ view' = NoView
  /\ UNCHANGED <<buffer, writeSlot, rxOffset, span>>

Remaining == slots[readSlot].length - readOffset

\* cl_stream_consumer_release_bytes when the slot keeps some
ReleaseSome(length) ==
  /\ readySlots # 0 /\ Readable
  /\ length \in 1 .. Remaining - 1
  /\ readOffset' = readOffset + length
  /\ view' = NoView
  /\ UNCHANGED <<buffer, slots, readSlot, writeSlot, readySlots, rxOffset, span>>

-----------------------------------------------------------------------------
\* cl_stream_reset: neither role has a slot in hand afterwards.
Reset ==
  /\ slots' = [i \in Index |-> FreeSlot]
  /\ readSlot' = 0 /\ writeSlot' = 0 /\ readySlots' = 0
  /\ readOffset' = 0 /\ rxOffset' = 0
  /\ span' = NoView /\ view' = NoView
  /\ UNCHANGED buffer

RingNext ==
  \/ Acquire
  \/ \E bytes \in [1 .. SlotSize -> Byte] : Fill(bytes)
  \/ \E offset \in Offset, length \in 1 .. SlotSize : Commit(offset, length)
  \/ Peek
  \/ Release
  \/ \E length \in 1 .. SlotSize : ReleaseSome(length)
  \/ Reset

RingSpec == RingInit /\ [][RingNext]_allRingVars

-----------------------------------------------------------------------------
(* The bytes in the slots, as the queue of ByteFifo.                        *)

\* The pieces one after the other.
Concat(pieces) ==
  LET concat[k \in 0 .. Len(pieces)] == IF k = 0 THEN <<>> ELSE concat[k - 1] \o pieces[k]
  IN  concat[Len(pieces)]

\* The bytes from .. to of a slot, with their offsets.
Bytes(s, from, to) ==
  [nth \in 1 .. to - from |-> [at |-> (slots[s].offset + from + nth - 1) % Wrap,
                               byte |-> buffer[s][from + nth]]]

\* The ready slots from the read slot on; of the first, what is left.
SlotNumber(k) == (readSlot + k - 1) % SlotCount
Pieces ==
  [k \in 1 .. readySlots |->
    Bytes(SlotNumber(k), IF k = 1 THEN readOffset ELSE 0, slots[SlotNumber(k)].length)]
Pending == Concat(Pieces)

\* What the consumer sees through his view now.
Shown == IF view = NoView THEN <<>> ELSE Bytes(view.slot, view.from, view.to)

Fifo == INSTANCE ByteFifo WITH Block <- SlotSize, Room <- SlotCount * SlotSize,
                               q <- Pending, shown <- Shown, next <- rxOffset

-----------------------------------------------------------------------------
(* Properties.                                                              *)

\* stream.h:23-36: whatever the two roles do, the slots are a first-in-first-out
\* buffer of bytes, each with its offset, over wrapped indices, partial releases,
\* wrapped offsets and resets; what the consumer was shown does not change.
FifoSpec == Fifo!Spec

\* With a slot ready, peek and release find data in it (lines 168-178, 201-206,
\* 232-236): none of their tests for a broken stream ever fails.
NeverInvalid == readySlots # 0 => Readable

\* As long as the consumer looks at a view, nobody writes to the bytes of it, and
\* neither commit nor anything but his own release changes the slot they are in
\* (lines 109-114, 136-148).
ViewIntact ==
  [][view # NoView /\ view' = view =>
       /\ \A i \in view.from + 1 .. view.to : buffer'[view.slot][i] = buffer[view.slot][i]
       /\ slots'[view.slot] = slots[view.slot]]_allRingVars
=============================================================================
