--------------------------- MODULE StreamRingProofs ---------------------------
(***************************************************************************)
(* StreamRing, for every number and size of slots: types, NeverInvalid,     *)
(* ViewIntact, and that the slots implement the queue of ByteFifo.          *)
(*                                                                          *)
(* The inductive invariant says what readSlot, writeSlot and readySlots have*)
(* to do with each other and with the slots: the ready ones are those at a  *)
(* distance less than readySlots from the read slot.  The slot being filled *)
(* is the one right after them and the slot looked at the first of them,    *)
(* hence never the same one.                                                *)
(*                                                                          *)
(* For the queue, its bytes are those of the ready slots one after the      *)
(* other.  What Concat makes of a sequence of pieces is got from its last   *)
(* piece (a commit) and from its first (peek and release); since it is a    *)
(* recursive function, by least counterexample on the number of pieces.     *)
(***************************************************************************)
EXTENDS StreamRing, SequenceTheorems, FiniteSetTheorems, WellFoundedInduction, TLAPS

\* How far slot i is from the read slot, going round.
Distance(i) == IF i >= readSlot THEN i - readSlot ELSE i + SlotCount - readSlot

WriteFollows ==
  writeSlot = IF readSlot + readySlots >= SlotCount
              THEN readSlot + readySlots - SlotCount
              ELSE readSlot + readySlots

ReadyHoldData ==
  \A i \in Index : Distance(i) < readySlots =>
                     slots[i].flags = "ready" /\ slots[i].length # 0

OffsetInSlot ==
  IF readySlots = 0 THEN readOffset = 0 ELSE readOffset < slots[readSlot].length

SpanIsFree == span # NoView => span = writeSlot /\ readySlots # SlotCount

ViewIsFirst == view # NoView => view.slot = readSlot /\ readySlots # 0

RingInv == WriteFollows /\ ReadyHoldData /\ OffsetInSlot /\ SpanIsFree /\ ViewIsFirst

IInv == RingTypeOK /\ RingInv

-----------------------------------------------------------------------------
\* The constants, in the form the steps use them.
LEMMA Sizes ==
  /\ SlotCount \in Nat /\ SlotCount > 0 /\ SlotSize \in Nat /\ SlotSize > 0
  /\ Wrap \in Nat /\ Wrap > 0
BY RingAssumption

\* Offsets stay offsets (stream.c:144).
LEMMA OffsetWraps ==
  ASSUME NEW offset \in Offset, NEW length \in 1 .. SlotSize
  PROVE  (offset + length) % Wrap \in Offset
<1>1. offset + length \in Int
  BY Sizes DEF Offset
<1> QED
  BY <1>1, Sizes DEF Offset

\* Going to the next slot stays in the ring (stream.c:145-148, 210-213).
LEMMA NextInRing == \A i \in Index : NextSlot(i) \in Index
BY Sizes DEF NextSlot, Index

\* The first ready slot is the read slot: it holds data.
LEMMA FirstIsReady ==
  ASSUME IInv, readySlots # 0
  PROVE  Readable
<1>1. readSlot \in Index /\ Distance(readSlot) = 0
  BY Sizes DEF IInv, RingTypeOK, Index, Distance
<1>2. Distance(readSlot) < readySlots
  BY <1>1, Sizes DEF IInv, RingTypeOK
<1> QED
  BY <1>1, <1>2 DEF IInv, RingInv, ReadyHoldData, OffsetInSlot, Readable

LEMMA InitIInv == RingInit => IInv
<1> SUFFICES ASSUME RingInit PROVE IInv
  OBVIOUS
<1>1. FreeSlot \in Slot
  BY Sizes DEF FreeSlot, Slot, Offset
<1>2. RingTypeOK
  BY <1>1, Sizes DEF RingInit, RingTypeOK, Index, Offset
<1>3. RingInv
  BY Sizes DEF RingInit, RingInv, WriteFollows, ReadyHoldData, OffsetInSlot, SpanIsFree,
               ViewIsFirst, Distance, Index
<1> QED
  BY <1>2, <1>3 DEF IInv

LEMMA StepIInv == IInv /\ [RingNext]_allRingVars => IInv'
<1> SUFFICES ASSUME IInv, [RingNext]_allRingVars PROVE IInv'
  OBVIOUS
<1> USE DEF IInv
<1>1. CASE Acquire
  <2>1. RingTypeOK'
    BY <1>1 DEF Acquire, ringVars, RingTypeOK
  <2>2. RingInv'
    BY <1>1, Sizes DEF Acquire, ringVars, RingTypeOK, CanReceive, RingInv, WriteFollows,
              ReadyHoldData, OffsetInSlot, SpanIsFree, ViewIsFirst, Distance
  <2> QED
    BY <2>1, <2>2
<1>2. ASSUME NEW bytes \in [1 .. SlotSize -> Byte], Fill(bytes)
      PROVE  IInv'
  <2>1. RingTypeOK'
    BY <1>2 DEF Fill, ringVars, RingTypeOK
  <2>2. RingInv'
    BY <1>2 DEF Fill, ringVars, RingInv, WriteFollows, ReadyHoldData, OffsetInSlot,
                SpanIsFree, ViewIsFirst, Distance
  <2> QED
    BY <2>1, <2>2
<1>3. ASSUME NEW offset \in Offset, NEW length \in 1 .. SlotSize, Commit(offset, length)
      PROVE  IInv'
  <2> DEFINE slot == [offset |-> offset, length |-> length, flags |-> "ready"]
  <2>1. slot \in Slot
    BY Sizes DEF Slot
  <2>2. slots' = [slots EXCEPT ![writeSlot] = slot] /\ writeSlot \in Index
    BY <1>3 DEF Commit, RingTypeOK
  <2>3. readySlots < SlotCount /\ readySlots' = readySlots + 1
    BY <1>3, Sizes DEF Commit, CanReceive, RingTypeOK
  <2>4. RingTypeOK'
    <3>1. slots' \in [Index -> Slot]
      BY <2>1, <2>2 DEF RingTypeOK
    <3>2. rxOffset' \in Offset
      BY <1>3, OffsetWraps DEF Commit
    <3>3. writeSlot' \in Index
      BY <1>3, <2>2, NextInRing DEF Commit
    <3>4. readySlots' \in 0 .. SlotCount
      BY <2>3, Sizes DEF RingTypeOK
    <3> QED
      BY <1>3, <3>1, <3>2, <3>3, <3>4 DEF Commit, RingTypeOK
  <2>5. WriteFollows'
    BY <1>3, <2>3, Sizes DEF Commit, NextSlot, RingInv, WriteFollows, RingTypeOK, Index
  <2>6. Distance(writeSlot) = readySlots
    BY <2>3, Sizes DEF RingInv, WriteFollows, Distance, RingTypeOK, Index
  <2>7. ReadyHoldData'
    <3> SUFFICES ASSUME NEW i \in Index, Distance(i) < readySlots + 1
                 PROVE  slots'[i].flags = "ready" /\ slots'[i].length # 0
      BY <1>3 DEF Commit, ReadyHoldData, Distance
    <3>1. CASE i = writeSlot
      BY <3>1, <2>2, Sizes DEF RingTypeOK
    <3>2. CASE i # writeSlot
      <4>1. Distance(i) # readySlots
        BY <3>2, <2>3, Sizes DEF RingInv, WriteFollows, Distance, RingTypeOK, Index
      <4>2. Distance(i) < readySlots
        BY <4>1, Sizes DEF Distance, RingTypeOK, Index
      <4> QED
        BY <4>2, <3>2, <2>2 DEF RingInv, ReadyHoldData, RingTypeOK
    <3> QED
      BY <3>1, <3>2
  <2>8. OffsetInSlot'
    <3>1. CASE readySlots = 0
      <4>1. writeSlot = readSlot
        BY <3>1, Sizes DEF RingInv, WriteFollows, RingTypeOK, Index
      <4>2. slots'[readSlot].length = length /\ readOffset' = 0
        BY <4>1, <3>1, <2>2, <1>3 DEF RingInv, OffsetInSlot, Commit, RingTypeOK
      <4> QED
        BY <4>2, <3>1, <2>3, <1>3 DEF OffsetInSlot, Commit
    <3>2. CASE readySlots # 0
      <4>1. writeSlot # readSlot
        BY <3>2, <2>3, Sizes DEF RingInv, WriteFollows, RingTypeOK, Index
      <4>2. slots'[readSlot] = slots[readSlot]
        BY <4>1, <2>2 DEF RingTypeOK
      <4> QED
        BY <4>2, <3>2, <2>3, <1>3 DEF RingInv, OffsetInSlot, Commit, RingTypeOK
    <3> QED
      BY <3>1, <3>2
  <2>9. SpanIsFree' /\ ViewIsFirst'
    BY <1>3, <2>3, Sizes DEF Commit, RingInv, SpanIsFree, ViewIsFirst, RingTypeOK
  <2> QED
    BY <2>4, <2>5, <2>7, <2>8, <2>9 DEF RingInv
<1>4. CASE Peek
  <2>1. [slot |-> readSlot, from |-> readOffset, to |-> slots[readSlot].length] \in View
    BY DEF RingTypeOK, View, Slot
  <2>2. RingTypeOK'
    BY <1>4, <2>1 DEF Peek, ringVars, RingTypeOK
  <2>3. RingInv'
    BY <1>4 DEF Peek, ringVars, RingInv, WriteFollows, ReadyHoldData, OffsetInSlot,
                SpanIsFree, ViewIsFirst, Distance
  <2> QED
    BY <2>2, <2>3
<1>5. CASE Release
  <2> DEFINE slot == Consumed(slots[readSlot])
  <2>1. slots' = [slots EXCEPT ![readSlot] = slot] /\ slot \in Slot /\ readSlot \in Index
    <3>1. slots \in [Index -> Slot] /\ readSlot \in Index
      BY DEF RingTypeOK
    <3>2. slots' = [slots EXCEPT ![readSlot] = slot]
      BY <1>5, <3>1, Zenon DEF Release
    <3>3. slot \in Slot
      BY <3>1, Sizes DEF Consumed, Slot
    <3> QED
      BY <3>1, <3>2, <3>3
  <2>2. readySlots > 0 /\ readySlots' = readySlots - 1 /\ readySlots' \in 0 .. SlotCount
    BY <1>5, Sizes DEF Release, RingTypeOK
  <2>3. RingTypeOK'
    BY <1>5, <2>1, <2>2, NextInRing, Sizes DEF Release, RingTypeOK
  <2>4. WriteFollows'
    <3>1. readSlot' = IF readSlot + 1 >= SlotCount THEN 0 ELSE readSlot + 1
      BY <1>5 DEF Release, NextSlot
    <3>2. writeSlot' = writeSlot
      BY <1>5 DEF Release
    <3>3. readSlot \in Nat /\ readSlot < SlotCount /\ readySlots \in Nat
            /\ readySlots <= SlotCount
      BY Sizes DEF RingTypeOK, Index
    <3> QED
      BY <2>2, <3>1, <3>2, <3>3, Sizes DEF RingInv, WriteFollows
  <2>5. ASSUME NEW i \in Index, Distance(i)' < readySlots - 1
        PROVE  i # readSlot /\ Distance(i) < readySlots
    BY <2>5, <1>5, <2>2, Sizes DEF Release, NextSlot, Distance, RingTypeOK, Index
  <2>6. ReadyHoldData'
    <3> SUFFICES ASSUME NEW i \in Index, Distance(i)' < readySlots - 1
                 PROVE  slots'[i].flags = "ready" /\ slots'[i].length # 0
      BY <2>2 DEF ReadyHoldData
    <3>1. i # readSlot /\ Distance(i) < readySlots
      BY <2>5
    <3> QED
      BY <3>1, <2>1 DEF RingInv, ReadyHoldData, RingTypeOK
  <2>7. OffsetInSlot'
    <3>1. CASE readySlots - 1 # 0
      <4> DEFINE next == NextSlot(readSlot)
      <4>1. readSlot' = next /\ next \in Index
        BY <1>5, <2>1, NextInRing DEF Release
      <4>2. next # readSlot /\ Distance(next) < readySlots
        BY <3>1, <2>2, Sizes DEF NextSlot, Distance, RingTypeOK, Index
      <4>3. slots'[next] = slots[next] /\ slots[next].length # 0
        BY <4>1, <4>2, <2>1 DEF RingInv, ReadyHoldData, RingTypeOK
      <4>4. slots[next].length \in Nat
        BY <4>1, Sizes DEF RingTypeOK, Slot
      <4> QED
        BY <4>1, <4>3, <4>4, <3>1, <2>2, <1>5 DEF OffsetInSlot, Release
    <3>2. CASE readySlots - 1 = 0
      BY <3>2, <2>2, <1>5 DEF OffsetInSlot, Release
    <3> QED
      BY <3>1, <3>2
  <2>8. SpanIsFree' /\ ViewIsFirst'
    BY <1>5, <2>2, Sizes DEF Release, RingInv, SpanIsFree, ViewIsFirst, RingTypeOK
  <2> QED
    BY <2>3, <2>4, <2>6, <2>7, <2>8 DEF RingInv
<1>6. ASSUME NEW length \in 1 .. SlotSize, ReleaseSome(length)
      PROVE  IInv'
  <2>1. slots[readSlot].length \in 0 .. SlotSize
    BY DEF RingTypeOK, Slot
  <2>2. readOffset + length < slots[readSlot].length /\ readOffset + length \in 0 .. SlotSize
    BY <1>6, <2>1, Sizes DEF ReleaseSome, Remaining, RingTypeOK
  <2>3. RingTypeOK'
    BY <1>6, <2>2 DEF ReleaseSome, RingTypeOK
  <2>4. RingInv'
    BY <1>6, <2>2 DEF ReleaseSome, RingInv, WriteFollows, ReadyHoldData, OffsetInSlot,
                      SpanIsFree, ViewIsFirst, Distance
  <2> QED
    BY <2>3, <2>4
<1>7. CASE Reset
  <2>1. FreeSlot \in Slot
    BY Sizes DEF FreeSlot, Slot, Offset
  <2>2. RingTypeOK'
    BY <1>7, <2>1, Sizes DEF Reset, RingTypeOK, Index, Offset
  <2>3. RingInv'
    BY <1>7, Sizes DEF Reset, RingInv, WriteFollows, ReadyHoldData, OffsetInSlot,
              SpanIsFree, ViewIsFirst, Distance, Index
  <2> QED
    BY <2>2, <2>3
<1>8. CASE UNCHANGED allRingVars
  BY <1>8 DEF allRingVars, ringVars, RingTypeOK, RingInv, WriteFollows, ReadyHoldData, OffsetInSlot,
              SpanIsFree, ViewIsFirst, Distance
<1> QED
  BY <1>1, <1>2, <1>3, <1>4, <1>5, <1>6, <1>7, <1>8 DEF RingNext

\* The ring is consistent in every reachable state.
LEMMA RingConsistent == RingSpec => []IInv
BY InitIInv, StepIInv, PTL DEF RingSpec

-----------------------------------------------------------------------------
(* Sequences that are concatenated.                                          *)

\* A set of natural numbers has a smallest element.
LEMMA SmallestOf ==
  ASSUME NEW S \in SUBSET Nat, S # {}
  PROVE  \E x \in S : \A y \in S : x <= y
<1> DEFINE upto(x) == {y \in S : y <= x}
           family == {upto(x) : x \in S}
<1>1. family \subseteq FiniteSubsetsOf(Nat) /\ family # {}
  <2>1. ASSUME NEW x \in S PROVE upto(x) \in SUBSET Nat /\ IsFiniteSet(upto(x))
    <3>1. x \in Nat /\ 0 \in Int /\ x \in Int
      BY <2>1
    <3>2. IsFiniteSet(0 .. x)
      BY <3>1, FS_Interval, Zenon
    <3>3. \A y \in upto(x) : y \in Nat /\ y <= x
      OBVIOUS
    <3>4. upto(x) \in SUBSET (0 .. x) /\ upto(x) \in SUBSET Nat
      <4> HIDE DEF upto
      <4> QED
        BY <3>1, <3>3
    <3> QED
      BY <3>2, <3>4, FS_Subset
  <2> QED
    BY <2>1 DEF FiniteSubsetsOf
<1>2. PICK T \in family : \A U \in family : ~(<<U, T>> \in StrictSubsetOrdering(Nat))
  BY <1>1, WFMin, FS_StrictSubsetOrderingWellFounded
<1>3. PICK x \in S : T = upto(x)
  BY <1>2
<1>4. ASSUME NEW y \in S, ~(x <= y) PROVE FALSE
  <2>0. x \in Nat /\ y \in Nat /\ y <= x /\ x <= x
    BY <1>3, <1>4
  <2>1. upto(y) \subseteq T /\ x \in T /\ x \notin upto(y)
    <3>1. \A z \in S : z <= y => z <= x
      BY <2>0
    <3>2. ~(x <= y)
      BY <1>4
    <3> QED
      BY <1>3, <2>0, <3>1, <3>2, Zenon
  <2>2. upto(y) \in family /\ upto(y) \in SUBSET Nat /\ T \in SUBSET Nat
    BY <1>3
  <2>3. <<upto(y), T>> \in StrictSubsetOrdering(Nat)
    BY <2>1, <2>2 DEF StrictSubsetOrdering
  <2> QED
    BY <1>2, <2>2, <2>3
<1> QED
  BY <1>4

LEMMA Associates == \A S : \A s, t, u \in Seq(S) : (s \o t) \o u = s \o (t \o u)
  BY ConcatAssociative, Zenon

\* What Concat collects, piece by piece.
LEMMA ConcatIs ==
  ASSUME NEW S, NEW ps \in Seq(Seq(S))
  PROVE  \E c : /\ c[0] = <<>> /\ Concat(ps) = c[Len(ps)]
                /\ \A k \in 0 .. Len(ps) : c[k] \in Seq(S)
                /\ \A k \in 1 .. Len(ps) : c[k] = c[k - 1] \o ps[k] /\ ps[k] \in Seq(S)
<1> DEFINE N == Len(ps)
           Sums(n, g) == g = [j \in 0 .. n |-> IF j = 0 THEN <<>> ELSE g[j - 1] \o ps[j]]
           None == {n \in Nat : n <= N /\ ~ \E g : Sums(n, g)}
<1>0. N \in Nat /\ \A k \in 1 .. N : ps[k] \in Seq(S)
  OBVIOUS
<1>1. ASSUME None # {} PROVE FALSE
  <2>1. None \in SUBSET Nat
    OBVIOUS
  <2>2. PICK n \in None : \A m \in None : n <= m
    BY <1>1, <2>1, SmallestOf
  <2>3. n # 0
    <3>1. Sums(0, [j \in 0 .. 0 |-> <<>>])
      OBVIOUS
    <3> QED BY <2>2, <3>1
  <2>4. n - 1 \in Nat /\ n - 1 <= N /\ ~(n <= n - 1) /\ n \in Nat
    BY <2>2, <2>3
  <2>5. PICK g : Sums(n - 1, g)
    BY <2>2, <2>4
  <2> DEFINE h == [j \in 0 .. n |-> IF j = n THEN g[n - 1] \o ps[n] ELSE g[j]]
  <2>6. \A j \in 0 .. n : h[j] = IF j = 0 THEN <<>> ELSE h[j - 1] \o ps[j]
    <3>1. \A j \in 0 .. n - 1 : g[j] = IF j = 0 THEN <<>> ELSE g[j - 1] \o ps[j]
      BY <2>5
    <3>2. TAKE j \in 0 .. n
    <3>3. CASE j = n
      <4>1. n - 1 \in 0 .. n /\ n - 1 # n /\ j - 1 = n - 1
        BY <2>4, <3>3
      <4> QED BY <2>3, <3>3, <4>1
    <3>4. CASE j # n /\ j # 0
      <4>1. j \in 0 .. n - 1 /\ j - 1 \in 0 .. n /\ j - 1 # n
        BY <2>4, <3>4
      <4> QED BY <3>1, <3>4, <4>1
    <3>5. CASE j = 0
      <4>1. j \in 0 .. n - 1 /\ j # n
        BY <2>3, <2>4, <3>5
      <4> QED BY <3>1, <3>5, <4>1
    <3> QED BY <3>3, <3>4, <3>5
  <2>7. Sums(n, h)
    <3> DEFINE r == [j \in 0 .. n |-> IF j = 0 THEN <<>> ELSE h[j - 1] \o ps[j]]
    <3>1. \A j \in 0 .. n : h[j] = r[j]
      BY <2>6
    <3>2. h = r
      BY <3>1
    <3> QED BY <3>2
  <2> QED BY <2>2, <2>7
<1>2. \E g : Sums(N, g)
  <2> HIDE DEF Sums
  <2>1. \A n \in Nat : n <= N => \E g : Sums(n, g)
    BY <1>1
  <2>2. N <= N
    BY <1>0
  <2> QED BY <1>0, <2>1, <2>2
<1> DEFINE c == CHOOSE g : Sums(N, g)
<1>3. Sums(N, c)
  BY <1>2
<1>4. Concat(ps) = c[N]
  BY DEF Concat
<1> HIDE DEF c
<1>5. \A j \in 0 .. N : c[j] = IF j = 0 THEN <<>> ELSE c[j - 1] \o ps[j]
  BY <1>3
<1>6. c[0] = <<>> /\ \A k \in 1 .. N : c[k] = c[k - 1] \o ps[k]
  <2>1. 0 \in 0 .. N /\ \A k \in 1 .. N : k \in 0 .. N /\ k # 0
    BY <1>0
  <2> HIDE DEF N
  <2> QED BY <1>5, <2>1, Zenon
<1>7. \A k \in 0 .. N : c[k] \in Seq(S)
  <2> DEFINE Bad == {k \in Nat : k <= N /\ c[k] \notin Seq(S)}
  <2>1. ASSUME Bad # {} PROVE FALSE
    <3>1. PICK k \in Bad : \A m \in Bad : k <= m
      BY <2>1, SmallestOf
    <3>2. k # 0
      <4>1. <<>> \in Seq(S)
        OBVIOUS
      <4> QED BY <1>6, <3>1, <4>1
    <3>3. k \in 1 .. N /\ k - 1 \in Nat /\ k - 1 <= N /\ ~(k <= k - 1)
      BY <1>0, <3>1, <3>2
    <3>4. c[k - 1] \in Seq(S) /\ ps[k] \in Seq(S) /\ c[k] = c[k - 1] \o ps[k]
      BY <1>0, <1>6, <3>1, <3>3
    <3>5. c[k] \in Seq(S)
      BY <3>4, ConcatProperties
    <3> QED BY <3>1, <3>5
  <2> HIDE DEF Bad
  <2>2. Bad = {}
    BY <2>1
  <2>3. \A k \in Nat : k <= N => c[k] \in Seq(S)
    BY <2>2 DEF Bad
  <2> QED BY <1>0, <2>3
<1> QED
  BY <1>0, <1>4, <1>6, <1>7

LEMMA ConcatType ==
  ASSUME NEW S, NEW ps \in Seq(Seq(S)) PROVE Concat(ps) \in Seq(S)
<1>1. PICK c : /\ c[0] = <<>> /\ Concat(ps) = c[Len(ps)]
                /\ \A k \in 0 .. Len(ps) : c[k] \in Seq(S)
  BY ConcatIs
<1>2. Len(ps) \in 0 .. Len(ps)
  OBVIOUS
<1> QED
  BY <1>1, <1>2

LEMMA ConcatNone ==
  ASSUME NEW S, NEW ps \in Seq(Seq(S)), Len(ps) = 0 PROVE Concat(ps) = <<>>
<1>1. PICK c : c[0] = <<>> /\ Concat(ps) = c[Len(ps)]
  BY ConcatIs
<1> QED
  BY <1>1

\* Another piece at the end.
LEMMA ConcatAppend ==
  ASSUME NEW S, NEW ps \in Seq(Seq(S)), NEW p \in Seq(S)
  PROVE  Concat(Append(ps, p)) = Concat(ps) \o p
<1> DEFINE N == Len(ps)
           qs == Append(ps, p)
<1>0. /\ N \in Nat /\ qs \in Seq(Seq(S)) /\ Len(qs) = N + 1 /\ qs[N + 1] = p
      /\ \A k \in 1 .. N : qs[k] = ps[k]
  BY AppendProperties
<1>1. PICK c : /\ c[0] = <<>> /\ Concat(ps) = c[Len(ps)]
               /\ \A k \in 0 .. Len(ps) : c[k] \in Seq(S)
               /\ \A k \in 1 .. Len(ps) : c[k] = c[k - 1] \o ps[k] /\ ps[k] \in Seq(S)
  BY ConcatIs
<1> HIDE DEF qs
<1>2. PICK d : /\ d[0] = <<>> /\ Concat(qs) = d[Len(qs)]
               /\ \A k \in 0 .. Len(qs) : d[k] \in Seq(S)
               /\ \A k \in 1 .. Len(qs) : d[k] = d[k - 1] \o qs[k] /\ qs[k] \in Seq(S)
  BY <1>0, ConcatIs
<1>3. \A k \in 0 .. N : d[k] = c[k]
  <2> DEFINE Bad == {k \in Nat : k <= N /\ d[k] # c[k]}
  <2>1. ASSUME Bad # {} PROVE FALSE
    <3>1. PICK k \in Bad : \A m \in Bad : k <= m
      BY <2>1, SmallestOf
    <3>2. k # 0
      BY <1>1, <1>2, <3>1
    <3>3. k \in 1 .. N /\ k - 1 \in Nat /\ k - 1 <= N /\ ~(k <= k - 1) /\ k \in 1 .. N + 1
      BY <1>0, <3>1, <3>2
    <3>4. d[k - 1] = c[k - 1]
      BY <3>1, <3>3
    <3>5. d[k] = d[k - 1] \o qs[k] /\ c[k] = c[k - 1] \o ps[k] /\ qs[k] = ps[k]
      BY <1>0, <1>1, <1>2, <3>3
    <3> QED BY <3>1, <3>4, <3>5
  <2> HIDE DEF Bad
  <2>2. Bad = {}
    BY <2>1
  <2>3. \A k \in Nat : k <= N => d[k] = c[k]
    BY <2>2 DEF Bad
  <2> QED BY <1>0, <2>3
<1>4. N + 1 \in 1 .. Len(qs) /\ N \in 0 .. N /\ N + 1 - 1 = N
  BY <1>0
<1>5. d[N + 1] = d[N] \o p
  <2>1. PICK k \in 1 .. Len(qs) : k = N + 1
    BY <1>4
  <2>2. d[k] = d[k - 1] \o qs[k]
    BY <1>2
  <2>3. k - 1 = N
    BY <1>0, <2>1
  <2> QED BY <1>0, <2>1, <2>2, <2>3, Zenon
<1> QED
  BY <1>0, <1>1, <1>2, <1>3, <1>4, <1>5 DEF qs

\* The first piece before the others.
LEMMA ConcatFirst ==
  ASSUME NEW S, NEW ps \in Seq(Seq(S)), ps # <<>>
  PROVE  Concat(ps) = ps[1] \o Concat(Tail(ps))
<1>00. \A x, y, z \in Seq(S) : (x \o y) \o z = x \o (y \o z)
  BY Associates, SMTT(30)
<1> DEFINE N == Len(ps)
           qs == Tail(ps)
<1>0. /\ N \in Nat /\ N # 0 /\ qs \in Seq(Seq(S)) /\ Len(qs) = N - 1
      /\ \A k \in 1 .. N - 1 : qs[k] = ps[k + 1]
  BY HeadTailProperties
<1>1. PICK c : /\ c[0] = <<>> /\ Concat(ps) = c[Len(ps)]
               /\ \A k \in 0 .. Len(ps) : c[k] \in Seq(S)
               /\ \A k \in 1 .. Len(ps) : c[k] = c[k - 1] \o ps[k] /\ ps[k] \in Seq(S)
  BY ConcatIs
<1> HIDE DEF qs
<1>2. PICK d : /\ d[0] = <<>> /\ Concat(qs) = d[Len(qs)]
               /\ \A k \in 0 .. Len(qs) : d[k] \in Seq(S)
               /\ \A k \in 1 .. Len(qs) : d[k] = d[k - 1] \o qs[k] /\ qs[k] \in Seq(S)
  BY <1>0, ConcatIs
<1>3. \A k \in Nat : k <= N - 1 => c[k + 1] = ps[1] \o d[k]
  <2> DEFINE Bad == {k \in Nat : k <= N - 1 /\ c[k + 1] # ps[1] \o d[k]}
  <2>0. 1 \in 1 .. N /\ ps[1] \in Seq(S)
    BY <1>0, <1>1
  <2>1. ASSUME Bad # {} PROVE FALSE
    <3>1. PICK k \in Bad : \A m \in Bad : k <= m
      BY <2>1, SmallestOf
    <3>2. CASE k = 0
      <4>1. c[1] = <<>> \o ps[1] /\ d[0] = <<>>
        <5>1. PICK o \in 1 .. N : o = 1
          BY <2>0
        <5>2. c[o] = c[o - 1] \o ps[o]
          BY <1>1
        <5>3. o - 1 = 0
          BY <5>1
        <5> QED BY <1>1, <1>2, <5>1, <5>2, <5>3, Zenon
      <4>2. <<>> \o ps[1] = ps[1] /\ ps[1] \o <<>> = ps[1]
        BY <2>0, ConcatEmptySeq
      <4>3. c[k + 1] = ps[1] \o d[k]
        <5>1. k + 1 = 1
          BY <3>2
        <5> QED BY <3>2, <4>1, <4>2, <5>1, Zenon
      <4> QED BY <3>1, <4>3
    <3>3. CASE k # 0
      <4>1. /\ k \in 1 .. N - 1 /\ k - 1 \in Nat /\ k - 1 <= N - 1 /\ ~(k <= k - 1)
            /\ k + 1 \in 1 .. N /\ k - 1 + 1 = k /\ k + 1 - 1 = k /\ k - 1 \in 0 .. N - 1
        BY <1>0, <3>1, <3>3
      <4>2. c[k] = ps[1] \o d[k - 1]
        BY <3>1, <4>1
      <4>3. /\ d[k] = d[k - 1] \o qs[k] /\ c[k + 1] = c[k] \o ps[k + 1] /\ qs[k] = ps[k + 1]
            /\ d[k - 1] \in Seq(S) /\ qs[k] \in Seq(S)
        <5>1. k \in 1 .. Len(qs) /\ k - 1 \in 0 .. Len(qs)
          BY <1>0, <4>1
        <5>2. d[k] = d[k - 1] \o qs[k] /\ qs[k] \in Seq(S) /\ d[k - 1] \in Seq(S)
          BY <1>2, <5>1, Zenon
        <5>3. c[k + 1] = c[k] \o ps[k + 1]
          <6>1. PICK o \in 1 .. N : o = k + 1
            BY <4>1
          <6>2. c[o] = c[o - 1] \o ps[o]
            BY <1>1
          <6>3. o - 1 = k
            BY <4>1, <6>1
          <6> QED BY <6>1, <6>2, <6>3, Zenon
        <5>4. qs[k] = ps[k + 1]
          BY <1>0, <4>1
        <5> QED BY <4>1, <5>2, <5>3, <5>4, Zenon
      <4>4. (ps[1] \o d[k - 1]) \o qs[k] = ps[1] \o (d[k - 1] \o qs[k])
        <5>1. ps[1] \in Seq(S) /\ d[k - 1] \in Seq(S) /\ qs[k] \in Seq(S)
          BY <2>0, <4>3
        <5> QED BY <1>00, <5>1, Zenon
      <4> QED BY <3>1, <4>2, <4>3, <4>4
    <3> QED BY <3>2, <3>3
  <2> HIDE DEF Bad
  <2>2. Bad = {}
    BY <2>1
  <2> QED BY <2>2 DEF Bad
<1>4. N - 1 \in Nat /\ N - 1 + 1 = N
  BY <1>0
<1>5. c[N] = ps[1] \o d[N - 1]
  <2>1. N - 1 <= N - 1
    BY <1>0
  <2>2. c[N - 1 + 1] = ps[1] \o d[N - 1]
    BY <1>3, <1>4, <2>1
  <2> QED BY <1>4, <2>2, Zenon
<1> QED
  BY <1>0, <1>1, <1>2, <1>5, Zenon DEF qs

\* No longer than its pieces together.
LEMMA ConcatLength ==
  ASSUME NEW S, NEW ps \in Seq(Seq(S)), NEW z \in Nat, \A k \in 1 .. Len(ps) : Len(ps[k]) <= z
  PROVE  Len(Concat(ps)) <= Len(ps) * z
<1> DEFINE N == Len(ps)
<1>0. N \in Nat
  OBVIOUS
<1>1. PICK c : /\ c[0] = <<>> /\ Concat(ps) = c[Len(ps)]
               /\ \A k \in 0 .. Len(ps) : c[k] \in Seq(S)
               /\ \A k \in 1 .. Len(ps) : c[k] = c[k - 1] \o ps[k] /\ ps[k] \in Seq(S)
  BY ConcatIs
<1> DEFINE Bad == {k \in Nat : k <= N /\ ~(Len(c[k]) <= k * z)}
<1>2. ASSUME Bad # {} PROVE FALSE
  <2>1. PICK k \in Bad : \A m \in Bad : k <= m
    BY <1>2, SmallestOf
  <2>2. CASE k = 0
    <3>1. Len(c[0]) = 0 /\ 0 * z = 0
      BY <1>1
    <3> QED BY <2>1, <2>2, <3>1
  <2>3. CASE k # 0
    <3>1. k \in 1 .. N /\ k - 1 \in Nat /\ k - 1 <= N /\ ~(k <= k - 1) /\ k - 1 \in 0 .. N
      BY <1>0, <2>1, <2>3
    <3>2. Len(c[k - 1]) <= (k - 1) * z
      BY <2>1, <3>1
    <3>3. c[k - 1] \in Seq(S) /\ ps[k] \in Seq(S) /\ c[k] = c[k - 1] \o ps[k] /\ Len(ps[k]) <= z
      BY <1>1, <3>1
    <3>4. Len(c[k]) = Len(c[k - 1]) + Len(ps[k]) /\ Len(c[k - 1]) \in Nat /\ Len(ps[k]) \in Nat
      BY <3>3, ConcatProperties
    <3>5. (k - 1) * z = k * z - z
      BY <3>1
    <3>6. k * z \in Nat
      BY <2>1
    <3>7. Len(c[k - 1]) + Len(ps[k]) <= k * z
      <4>1. \A x, y, t \in Int : x <= t - z /\ y <= z => x + y <= t
        OBVIOUS
      <4>2. Len(c[k - 1]) <= k * z - z
        BY <3>2, <3>5, Zenon
      <4>3. Len(c[k - 1]) \in Int /\ Len(ps[k]) \in Int /\ k * z \in Int
        BY <3>4, <3>6
      <4> QED BY <3>3, <4>1, <4>2, <4>3, Zenon
    <3> QED BY <2>1, <3>4, <3>7
  <2> QED BY <2>2, <2>3
<1> HIDE DEF Bad
<1>3. Bad = {}
  BY <1>2
<1>4. \A k \in Nat : k <= N => Len(c[k]) <= k * z
  BY <1>3 DEF Bad
<1> QED
  BY <1>0, <1>1, <1>4

\* A sequence, and another one behind it.
LEMMA ConcatParts ==
  ASSUME NEW S, NEW s \in Seq(S), NEW t \in Seq(S)
  PROVE  /\ SubSeq(s \o t, 1, Len(s)) = s
         /\ SubSeq(s \o t, Len(s) + 1, Len(s \o t)) = t
         /\ s \o t \in Seq(S) /\ Len(s \o t) = Len(s) + Len(t)
<1>1. /\ s \o t \in Seq(S) /\ Len(s \o t) = Len(s) + Len(t) /\ Len(s) \in Nat /\ Len(t) \in Nat
      /\ \A i \in 1 .. Len(s) + Len(t) : (s \o t)[i] = IF i <= Len(s) THEN s[i] ELSE t[i - Len(s)]
  BY ConcatProperties
<1> DEFINE r == s \o t
<1>2. SubSeq(r, 1, Len(s)) = s
  <2>1. SubSeq(r, 1, Len(s)) = [i \in 1 .. Len(s) |-> r[i]]
    BY <1>1
  <2>2. \A i \in 1 .. Len(s) : r[i] = s[i]
    BY <1>1
  <2>3. s = [i \in 1 .. Len(s) |-> s[i]]
    OBVIOUS
  <2> HIDE DEF r
  <2>4. [i \in 1 .. Len(s) |-> r[i]] = [i \in 1 .. Len(s) |-> s[i]]
    BY <2>2
  <2> QED BY <2>1, <2>3, <2>4, Zenon
<1>3. SubSeq(r, Len(s) + 1, Len(r)) = t
  <2> DEFINE u == SubSeq(r, Len(s) + 1, Len(r))
  <2>1. \A i \in Len(s) + 1 .. Len(r) : r[i] \in S
    BY <1>1
  <2>2. /\ u \in Seq(S) /\ Len(u) = Len(t)
        /\ \A i \in 1 .. Len(t) : u[i] = r[Len(s) + i]
    <3> HIDE DEF r
    <3>1. Len(s) + 1 \in Int /\ Len(r) \in Int
      BY <1>1 DEF r
    <3>2. /\ u \in Seq(S)
          /\ Len(u) = IF Len(s) + 1 <= Len(r) THEN Len(r) - (Len(s) + 1) + 1 ELSE 0
          /\ \A i \in 1 .. Len(r) - (Len(s) + 1) + 1 : u[i] = r[Len(s) + 1 + i - 1]
      BY <2>1, <3>1, SubSeqProperties
    <3>3. Len(r) - (Len(s) + 1) + 1 = Len(t) /\ (Len(s) + 1 <= Len(r) <=> Len(t) # 0)
      BY <1>1 DEF r
    <3>4. \A i \in 1 .. Len(t) : Len(s) + 1 + i - 1 = Len(s) + i
      BY <1>1
    <3> HIDE DEF u
    <3>5. Len(u) = Len(t)
      BY <1>1, <3>2, <3>3
    <3> QED BY <3>2, <3>3, <3>4, <3>5
  <2>3. \A i \in 1 .. Len(t) : r[Len(s) + i] = t[i]
    BY <1>1
  <2> HIDE DEF u, r
  <2>4. \A i \in 1 .. Len(t) : u[i] = t[i]
    BY <2>2, <2>3
  <2>5. u \in Seq(S) /\ Len(u) = Len(t) /\ \A i \in 1 .. Len(u) : u[i] = t[i]
    BY <2>2, <2>4
  <2>6. u = t
    BY <2>5, SeqEqual
  <2> QED BY <2>6 DEF u, r
<1> QED
  BY <1>1, <1>2, <1>3

-----------------------------------------------------------------------------
(* The slots as one queue.                                                   *)

Pair == [at : Offset, byte : Byte]

\* Going round once (stream.c:145-148).
LEMMA Rounds == \A n \in Nat \ {0} : \A x \in 0 .. 2 * n - 1 : x % n = IF x < n THEN x ELSE x - n
<1> SUFFICES ASSUME NEW n \in Nat \ {0}, NEW x \in 0 .. 2 * n - 1
             PROVE  x % n = IF x < n THEN x ELSE x - n
  OBVIOUS
<1>1. x \div n \in Nat /\ x % n \in 0 .. n - 1 /\ x = n * (x \div n) + (x % n)
  OBVIOUS
<1> DEFINE d == x \div n
           r == x % n
<1>2. d \in Nat /\ r \in 0 .. n - 1 /\ x = n * d + r
  BY <1>1
<1> HIDE DEF d, r
<1>3. CASE d = 0
  BY <1>2, <1>3 DEF r
<1>4. CASE d = 1
  BY <1>2, <1>4 DEF r
<1>5. CASE d >= 2
  <2>1. n * d >= n * 2
    <3>1. n * (d - 2) >= 0 /\ n * (d - 2) = n * d - n * 2
      BY <1>2, <1>5
    <3> QED BY <1>2, <3>1
  <2> QED BY <1>2, <2>1
<1> QED
  BY <1>2, <1>3, <1>4, <1>5

\* Where the k-th slot from slot r on is, and its bytes from .. to.
Place(r, k) == (r + k - 1) % SlotCount
Cut(slot, bytes, from, to) ==
  [nth \in 1 .. to - from |-> [at |-> (slot.offset + from + nth - 1) % Wrap,
                               byte |-> bytes[from + nth]]]

\* Pieces, of the n slots from r on with o bytes of the first released.
Cuts(n, r, o, sl, bf) ==
  [k \in 1 .. n |-> Cut(sl[Place(r, k)], bf[Place(r, k)], IF k = 1 THEN o ELSE 0,
                        sl[Place(r, k)].length)]

\* Going round, in comparisons (stream.c:145-148).
LEMMA PlaceIs ==
  \A r \in Index : \A k \in 1 .. SlotCount :
    /\ Place(r, k) = IF r + k - 1 < SlotCount THEN r + k - 1 ELSE r + k - 1 - SlotCount
    /\ Place(r, k) \in Index
<1> SUFFICES ASSUME NEW r \in Index, NEW k \in 1 .. SlotCount
             PROVE  /\ Place(r, k) = IF r + k - 1 < SlotCount THEN r + k - 1
                                     ELSE r + k - 1 - SlotCount
                    /\ Place(r, k) \in Index
  OBVIOUS
<1>1. SlotCount \in Nat \ {0} /\ r \in 0 .. SlotCount - 1
  BY Sizes DEF Index
<1>2. PICK z : z = r + k - 1
  OBVIOUS
<1>3. z \in 0 .. 2 * SlotCount - 1
  BY <1>1, <1>2
<1>4. z % SlotCount = IF z < SlotCount THEN z ELSE z - SlotCount
  BY <1>1, <1>3, Rounds
<1>5. Place(r, k) = IF z < SlotCount THEN z ELSE z - SlotCount
  BY <1>2, <1>4 DEF Place
<1> QED
  BY <1>1, <1>2, <1>3, <1>5 DEF Index

\* The slots after the next one are the ones after this, one closer.
LEMMA NextPlace ==
  \A r \in Index : \A k \in 1 .. SlotCount - 1 :
    /\ Place(NextSlot(r), k) = Place(r, k + 1)
    /\ Place(r, k + 1) # r /\ Place(r, k + 1) \in Index
<1> SUFFICES ASSUME NEW r \in Index, NEW k \in 1 .. SlotCount - 1
             PROVE  /\ Place(NextSlot(r), k) = Place(r, k + 1)
                    /\ Place(r, k + 1) # r /\ Place(r, k + 1) \in Index
  OBVIOUS
<1>1. SlotCount \in Nat /\ r \in 0 .. SlotCount - 1 /\ NextSlot(r) \in Index
  BY Sizes, NextInRing DEF Index
<1>2. k \in 1 .. SlotCount /\ k + 1 \in 1 .. SlotCount
  BY <1>1
<1>3. NextSlot(r) = IF r + 1 >= SlotCount THEN 0 ELSE r + 1
  BY DEF NextSlot
<1>4. PICK s \in Index : s = NextSlot(r)
  BY <1>1
<1>5. Place(s, k) = IF s + k - 1 < SlotCount THEN s + k - 1 ELSE s + k - 1 - SlotCount
  BY <1>2, PlaceIs
<1>6. PICK m \in 1 .. SlotCount : m = k + 1
  BY <1>2
<1>7. /\ Place(r, m) = IF r + m - 1 < SlotCount THEN r + m - 1 ELSE r + m - 1 - SlotCount
      /\ Place(r, m) \in Index
  BY PlaceIs
<1>8. Place(s, k) = Place(r, m) /\ Place(r, m) # r
  BY <1>1, <1>3, <1>4, <1>5, <1>6, <1>7
<1> QED
  BY <1>4, <1>6, <1>7, <1>8

\* The slot being filled is behind the ready ones.
LEMMA WritePlace ==
  IInv /\ readySlots # SlotCount =>
    /\ writeSlot = Place(readSlot, readySlots + 1)
    /\ \A k \in 1 .. readySlots : Place(readSlot, k) # writeSlot
<1> SUFFICES ASSUME IInv, readySlots # SlotCount
             PROVE  /\ writeSlot = Place(readSlot, readySlots + 1)
                    /\ \A k \in 1 .. readySlots : Place(readSlot, k) # writeSlot
  OBVIOUS
<1>1. PICK r \in Index, n \in 0 .. SlotCount - 1 : r = readSlot /\ n = readySlots
  BY Sizes DEF IInv, RingTypeOK
<1>2. SlotCount \in Nat /\ r \in 0 .. SlotCount - 1
  BY Sizes DEF Index
<1>3. writeSlot = IF r + n >= SlotCount THEN r + n - SlotCount ELSE r + n
  BY <1>1 DEF IInv, RingInv, WriteFollows
<1>4. PICK m \in 1 .. SlotCount : m = n + 1
  BY <1>2
<1>5. Place(r, m) = IF r + m - 1 < SlotCount THEN r + m - 1 ELSE r + m - 1 - SlotCount
  BY PlaceIs
<1>6. writeSlot = Place(r, m)
  BY <1>2, <1>3, <1>4, <1>5
<1>7. ASSUME NEW k \in 1 .. n PROVE Place(r, k) # writeSlot
  <2>1. k \in 1 .. SlotCount
    BY <1>2
  <2>2. Place(r, k) = IF r + k - 1 < SlotCount THEN r + k - 1 ELSE r + k - 1 - SlotCount
    BY <2>1, PlaceIs
  <2> QED BY <1>2, <1>3, <2>1, <2>2
<1> QED
  BY <1>1, <1>4, <1>6, <1>7

\* Bytes of a slot, with their offsets; they are bytes one by one.
LEMMA CutType ==
  ASSUME NEW slot \in Slot, NEW bytes \in [1 .. SlotSize -> Byte],
         NEW from \in 0 .. SlotSize, NEW to \in 0 .. SlotSize, from <= to
  PROVE  /\ Cut(slot, bytes, from, to) \in Seq(Pair)
         /\ Len(Cut(slot, bytes, from, to)) = to - from
<1>1. slot.offset \in Nat
  BY Sizes DEF Slot, Offset
<1>2. to - from \in Nat /\ \A n \in 1 .. to - from : from + n \in 1 .. SlotSize
  BY Sizes
<1>3. \A n \in 1 .. to - from : (slot.offset + from + n - 1) % Wrap \in Offset
  <2> TAKE n \in 1 .. to - from
  <2>1. slot.offset + from + n - 1 \in Nat
    BY <1>1, Sizes
  <2> QED BY <2>1, Sizes DEF Offset
<1>4. \A n \in 1 .. to - from :
        [at |-> (slot.offset + from + n - 1) % Wrap, byte |-> bytes[from + n]] \in Pair
  BY <1>1, <1>2, <1>3 DEF Pair
<1> DEFINE f == [n \in 1 .. to - from |->
                   [at |-> (slot.offset + from + n - 1) % Wrap, byte |-> bytes[from + n]]]
<1>5. f \in [1 .. to - from -> Pair]
  BY <1>4
<1>6. Cut(slot, bytes, from, to) = f
  BY DEF Cut
<1> HIDE DEF f
<1> QED
  BY <1>2, <1>5, <1>6

\* A slot in two goes is the slot (stream.c:241-246).
LEMMA CutTwice ==
  ASSUME NEW slot \in Slot, NEW bytes \in [1 .. SlotSize -> Byte], NEW from \in 0 .. SlotSize,
         NEW mid \in 0 .. SlotSize, NEW to \in 0 .. SlotSize, from <= mid, mid <= to
  PROVE  Cut(slot, bytes, from, to) = Cut(slot, bytes, from, mid) \o Cut(slot, bytes, mid, to)
<1> DEFINE a == Cut(slot, bytes, from, mid)
           b == Cut(slot, bytes, mid, to)
           c == Cut(slot, bytes, from, to)
<1>1. SlotSize \in Nat /\ from <= to /\ slot.offset \in Nat
  BY Sizes DEF Slot, Offset
<1>2. /\ a \in Seq(Pair) /\ Len(a) = mid - from /\ b \in Seq(Pair) /\ Len(b) = to - mid
      /\ c \in Seq(Pair) /\ Len(c) = to - from
  BY <1>1, CutType
<1>3. /\ \A i \in 1 .. mid - from :
           a[i] = [at |-> (slot.offset + from + i - 1) % Wrap, byte |-> bytes[from + i]]
      /\ \A i \in 1 .. to - mid :
           b[i] = [at |-> (slot.offset + mid + i - 1) % Wrap, byte |-> bytes[mid + i]]
      /\ \A i \in 1 .. to - from :
           c[i] = [at |-> (slot.offset + from + i - 1) % Wrap, byte |-> bytes[from + i]]
  BY DEF Cut
<1> HIDE DEF a, b, c
<1>4. /\ a \o b \in Seq(Pair) /\ Len(a \o b) = Len(a) + Len(b)
      /\ \A i \in 1 .. Len(a) + Len(b) :
           (a \o b)[i] = IF i <= Len(a) THEN a[i] ELSE b[i - Len(a)]
  BY <1>2, ConcatProperties
<1>5. Len(a) + Len(b) = to - from
  BY <1>1, <1>2
<1>6. ASSUME NEW i \in 1 .. to - from PROVE c[i] = (a \o b)[i]
  <2>1. (a \o b)[i] = IF i <= mid - from THEN a[i] ELSE b[i - (mid - from)]
    BY <1>2, <1>4, <1>5
  <2>2. CASE i <= mid - from
    <3>1. i \in 1 .. mid - from
      BY <1>1, <2>2
    <3> QED BY <1>3, <2>1, <2>2, <3>1
  <2>3. CASE ~(i <= mid - from)
    <3>1. PICK j \in 1 .. to - mid : j = i - (mid - from)
      BY <1>1, <2>3
    <3>2. slot.offset + mid + j - 1 = slot.offset + from + i - 1 /\ mid + j = from + i
      BY <1>1, <3>1
    <3> QED BY <1>3, <2>1, <2>3, <3>1, <3>2
  <2> QED BY <2>2, <2>3
<1>7. c = a \o b
  BY <1>2, <1>4, <1>5, <1>6, SeqEqual
<1> QED
  BY <1>7 DEF a, b, c

\* The pieces and the view, of the variables one by one.
LEMMA PiecesAreCuts == Pieces = Cuts(readySlots, readSlot, readOffset, slots, buffer)
  BY DEF Pieces, Bytes, SlotNumber, Cuts, Cut, Place

LEMMA ShownIsCut ==
  Shown = IF view = NoView THEN <<>>
          ELSE Cut(slots[view.slot], buffer[view.slot], view.from, view.to)
  BY DEF Shown, Bytes, Cut

LEMMA PiecesAre ==
  IInv => /\ Pieces \in Seq(Seq(Pair)) /\ Len(Pieces) = readySlots
          /\ \A k \in 1 .. readySlots :
               /\ Pieces[k] = Cut(slots[Place(readSlot, k)], buffer[Place(readSlot, k)],
                                  IF k = 1 THEN readOffset ELSE 0,
                                  slots[Place(readSlot, k)].length)
               /\ Place(readSlot, k) \in Index
               /\ Len(Pieces[k]) <= SlotSize
<1> SUFFICES ASSUME IInv
             PROVE  /\ Pieces \in Seq(Seq(Pair)) /\ Len(Pieces) = readySlots
                    /\ \A k \in 1 .. readySlots :
                         /\ Pieces[k] = Cut(slots[Place(readSlot, k)],
                                            buffer[Place(readSlot, k)],
                                            IF k = 1 THEN readOffset ELSE 0,
                                            slots[Place(readSlot, k)].length)
                         /\ Place(readSlot, k) \in Index
                         /\ Len(Pieces[k]) <= SlotSize
  OBVIOUS
<1> DEFINE Part(k) == Cut(slots[Place(readSlot, k)], buffer[Place(readSlot, k)],
                          IF k = 1 THEN readOffset ELSE 0, slots[Place(readSlot, k)].length)
<1>1. readySlots \in 0 .. SlotCount /\ SlotSize \in Nat /\ SlotCount \in Nat
  BY Sizes DEF IInv, RingTypeOK
<1>2. ASSUME NEW k \in 1 .. readySlots
      PROVE  Part(k) \in Seq(Pair) /\ Len(Part(k)) <= SlotSize /\ Place(readSlot, k) \in Index
  <2>1. k \in 1 .. SlotCount /\ readSlot \in Index
    BY <1>1 DEF IInv, RingTypeOK
  <2>2. PICK p \in Index : p = Place(readSlot, k)
    BY <2>1, PlaceIs
  <2>3. slots[p] \in Slot /\ buffer[p] \in [1 .. SlotSize -> Byte]
    BY DEF IInv, RingTypeOK
  <2>4. PICK to \in 0 .. SlotSize : to = slots[p].length
    BY <2>3 DEF Slot
  <2>5. k = 1 => p = readSlot
    <3>1. readSlot \in 0 .. SlotCount - 1
      BY <2>1 DEF Index
    <3>2. Place(readSlot, k) = IF readSlot + k - 1 < SlotCount THEN readSlot + k - 1
                               ELSE readSlot + k - 1 - SlotCount
      BY <2>1, PlaceIs
    <3> QED BY <1>1, <2>2, <3>1, <3>2
  <2>6. k = 1 => readOffset < to
    BY <1>1, <2>4, <2>5 DEF IInv, RingInv, OffsetInSlot
  <2>7. readOffset \in 0 .. SlotSize
    BY DEF IInv, RingTypeOK
  <2>8. PICK from \in 0 .. SlotSize : from = (IF k = 1 THEN readOffset ELSE 0) /\ from <= to
    BY <1>1, <2>6, <2>7
  <2>9. /\ Cut(slots[p], buffer[p], from, to) \in Seq(Pair)
        /\ Len(Cut(slots[p], buffer[p], from, to)) = to - from
    BY <2>3, <2>8, CutType
  <2>10. to - from <= SlotSize
    BY <1>1
  <2> QED BY <2>2, <2>4, <2>8, <2>9, <2>10
<1>3. Pieces = [k \in 1 .. readySlots |-> Part(k)]
  BY PiecesAreCuts DEF Cuts
<1> HIDE DEF Part
<1>4. Pieces \in [1 .. readySlots -> Seq(Pair)]
  BY <1>2, <1>3
<1>5. Pieces \in Seq(Seq(Pair)) /\ Len(Pieces) = readySlots
  <2> HIDE DEF Pieces
  <2>1. readySlots \in Nat
    BY <1>1
  <2> DEFINE T == Seq(Pair)
  <2>2. Pieces \in [1 .. readySlots -> T]
    BY <1>4
  <2> HIDE DEF T
  <2>3. Pieces \in Seq(T) /\ Len(Pieces) = readySlots
    BY <2>1, <2>2
  <2> QED BY <2>3 DEF T
<1>6. \A k \in 1 .. readySlots : Pieces[k] = Part(k)
  BY <1>3
<1> QED
  BY <1>2, <1>5, <1>6 DEF Part

\* What is pending fits in the slots.
LEMMA PendingFits ==
  IInv => Pending \in Seq(Pair) /\ Len(Pending) <= readySlots * SlotSize
<1> SUFFICES ASSUME IInv
             PROVE  Pending \in Seq(Pair) /\ Len(Pending) <= readySlots * SlotSize
  OBVIOUS
<1>1. PICK ps : ps = Pieces
  OBVIOUS
<1>2. /\ ps \in Seq(Seq(Pair)) /\ Len(ps) = readySlots
      /\ \A k \in 1 .. Len(ps) : Len(ps[k]) <= SlotSize
  BY <1>1, PiecesAre
<1>3. SlotSize \in Nat
  BY Sizes
<1>4. Concat(ps) \in Seq(Pair) /\ Len(Concat(ps)) <= Len(ps) * SlotSize
  BY <1>2, <1>3, ConcatType, ConcatLength
<1> QED
  BY <1>1, <1>2, <1>4 DEF Pending

\* What a view shows is in a slot nobody writes to (stream.c:109-114).
LEMMA ViewedSlotStays ==
  IInv /\ [RingNext]_allRingVars =>
    (view # NoView /\ view' = view => /\ buffer'[view.slot] = buffer[view.slot]
                                      /\ slots'[view.slot] = slots[view.slot])
<1> SUFFICES ASSUME IInv, [RingNext]_allRingVars, view # NoView, view' = view
             PROVE  buffer'[view.slot] = buffer[view.slot]
                      /\ slots'[view.slot] = slots[view.slot]
  OBVIOUS
<1>1. view.slot = readSlot /\ readySlots # 0
  BY DEF IInv, RingInv, ViewIsFirst
<1>2. readySlots # SlotCount => writeSlot # readSlot
  BY <1>1, Sizes DEF IInv, RingInv, WriteFollows, RingTypeOK, Index
<1>3. ASSUME NEW bytes \in [1 .. SlotSize -> Byte], Fill(bytes)
      PROVE  buffer'[view.slot] = buffer[view.slot]
               /\ slots'[view.slot] = slots[view.slot]
  BY <1>1, <1>2, <1>3 DEF Fill, ringVars, IInv, RingInv, SpanIsFree, RingTypeOK
<1>4. ASSUME NEW offset \in Offset, NEW length \in 1 .. SlotSize, Commit(offset, length)
      PROVE  buffer'[view.slot] = buffer[view.slot]
               /\ slots'[view.slot] = slots[view.slot]
  <2>1. readySlots # SlotCount
    BY <1>4, Sizes DEF Commit, CanReceive, IInv, RingTypeOK
  <2> QED
    BY <1>1, <1>2, <1>4, <2>1 DEF Commit, IInv, RingTypeOK
<1> QED
  BY <1>3, <1>4 DEF RingNext, Acquire, Peek, Release, ReleaseSome, Reset, ringVars, allRingVars

\* ... so it shows the same as before.
LEMMA ShownStays ==
  IInv /\ [RingNext]_allRingVars => (view' = view => Shown' = Shown)
<1> SUFFICES ASSUME IInv, [RingNext]_allRingVars, view' = view PROVE Shown' = Shown
  OBVIOUS
<1>1. Shown' = IF view' = NoView THEN <<>>
               ELSE Cut(slots'[view'.slot], buffer'[view'.slot], view'.from, view'.to)
  BY DEF Shown, Bytes, Cut
<1>2. view # NoView => /\ buffer'[view.slot] = buffer[view.slot]
                       /\ slots'[view.slot] = slots[view.slot]
  BY ViewedSlotStays
<1> QED
  BY <1>1, <1>2, ShownIsCut

\* The pieces after a step.
LEMMA NextPieces ==
  /\ Pieces' = Cuts(readySlots', readSlot', readOffset', slots', buffer')
  /\ Pending = Concat(Pieces) /\ Pending' = Concat(Pieces')
  BY DEF Pieces, Bytes, SlotNumber, Cuts, Cut, Place, Pending

\* The room of the queue is that of the slots.
LEMMA RoomIs ==
  IInv => /\ readySlots * SlotSize <= SlotCount * SlotSize
          /\ SlotCount * SlotSize \in Nat
          /\ readySlots # SlotCount => readySlots * SlotSize + SlotSize <= SlotCount * SlotSize
<1> SUFFICES ASSUME IInv
             PROVE  /\ readySlots * SlotSize <= SlotCount * SlotSize
                    /\ SlotCount * SlotSize \in Nat
                    /\ readySlots # SlotCount =>
                         readySlots * SlotSize + SlotSize <= SlotCount * SlotSize
  OBVIOUS
<1>1. PICK n \in 0 .. SlotCount : n = readySlots
  BY DEF IInv, RingTypeOK
<1>2. SlotCount \in Nat /\ SlotSize \in Nat
  BY Sizes
<1>3. PICK d \in Nat : SlotCount = n + d
  <2>1. SlotCount - n \in Nat /\ SlotCount = n + (SlotCount - n)
    BY <1>2
  <2> QED BY <2>1
<1>4. SlotCount * SlotSize = n * SlotSize + d * SlotSize /\ n * SlotSize \in Nat
  BY <1>2, <1>3
<1>5. d * SlotSize \in Nat
  BY <1>2
<1>6. d # 0 => SlotSize <= d * SlotSize
  <2>1. ASSUME d # 0 PROVE SlotSize <= d * SlotSize
    <3>1. d - 1 \in Nat /\ (d - 1) * SlotSize \in Nat
      BY <1>2, <2>1
    <3>2. d * SlotSize = (d - 1) * SlotSize + SlotSize
      BY <1>2, <2>1
    <3> QED BY <1>2, <3>1, <3>2
  <2> QED BY <2>1
<1>7. n # SlotCount => d # 0
  BY <1>2, <1>3
<1> HIDE DEF IInv
<1>8. PICK a \in Nat, b \in Nat, c \in Nat : a = n * SlotSize /\ b = d * SlotSize /\ c = SlotCount * SlotSize
  BY <1>4, <1>5
<1>9. c = a + b /\ (n # SlotCount => SlotSize <= b)
  BY <1>4, <1>6, <1>7, <1>8
<1>10. a <= c /\ (n # SlotCount => a + SlotSize <= c)
  BY <1>2, <1>8, <1>9
<1> QED
  BY <1>1, <1>8, <1>10

\* The consumer's view stays and the pieces too: nothing happens to the queue.
LEMMA AcquireStutters == IInv /\ Acquire => UNCHANGED Fifo!vars
<1> SUFFICES ASSUME IInv, Acquire PROVE UNCHANGED Fifo!vars
  OBVIOUS
<1>1. Shown' = Shown
  BY ShownStays DEF Acquire, RingNext
<1>2. Pieces' = Pieces
  BY NextPieces, PiecesAreCuts DEF Acquire, ringVars
<1> QED
  BY <1>1, <1>2, NextPieces DEF Fifo!vars, Acquire, ringVars

LEMMA FillStutters ==
  ASSUME NEW bytes \in [1 .. SlotSize -> Byte]
  PROVE  IInv /\ Fill(bytes) => UNCHANGED Fifo!vars
<1> SUFFICES ASSUME IInv, Fill(bytes) PROVE UNCHANGED Fifo!vars
  OBVIOUS
<1>1. Shown' = Shown
  BY ShownStays DEF Fill, RingNext
<1>2. /\ span = writeSlot /\ readySlots # SlotCount
      /\ buffer' = [buffer EXCEPT ![span] = bytes]
      /\ slots' = slots /\ readySlots' = readySlots /\ readSlot' = readSlot
      /\ readOffset' = readOffset /\ rxOffset' = rxOffset
  BY DEF Fill, ringVars, IInv, RingInv, SpanIsFree
<1>3. \A k \in 1 .. readySlots : buffer'[Place(readSlot, k)] = buffer[Place(readSlot, k)]
  <2>1. \A k \in 1 .. readySlots : Place(readSlot, k) # writeSlot /\ Place(readSlot, k) \in Index
    BY <1>2, WritePlace, PiecesAre
  <2> QED BY <1>2, <2>1 DEF IInv, RingTypeOK
<1>4. Cuts(readySlots, readSlot, readOffset, slots, buffer')
        = Cuts(readySlots, readSlot, readOffset, slots, buffer)
  BY <1>3 DEF Cuts
<1>5. Pieces' = Pieces
  BY <1>2, <1>4, NextPieces, PiecesAreCuts
<1> QED
  BY <1>1, <1>2, <1>5, NextPieces DEF Fifo!vars

\* A commit appends a piece.
LEMMA CommitPuts ==
  ASSUME NEW offset \in Offset, NEW length \in 1 .. SlotSize
  PROVE  IInv /\ Commit(offset, length) => Fifo!Next
<1> SUFFICES ASSUME IInv, Commit(offset, length) PROVE Fifo!Next
  OBVIOUS
<1>1. Shown' = Shown
  BY ShownStays DEF Commit, RingNext
<1> DEFINE slot == [offset |-> offset, length |-> length, flags |-> "ready"]
<1>2. /\ slots' = [slots EXCEPT ![writeSlot] = slot]
      /\ rxOffset' = (offset + length) % Wrap /\ readySlots' = readySlots + 1
      /\ buffer' = buffer /\ readSlot' = readSlot /\ readOffset' = readOffset
  BY DEF Commit
<1>3. readySlots # SlotCount /\ readySlots \in 0 .. SlotCount /\ SlotCount \in Nat
  BY Sizes DEF Commit, CanReceive, IInv, RingTypeOK
<1>4. /\ slot \in Slot /\ slot.offset = offset /\ slot.length = length
      /\ writeSlot \in Index /\ readSlot \in Index
      /\ length \in 0 .. SlotSize /\ 0 \in 0 .. SlotSize /\ 0 <= length
      /\ SlotSize \in Nat /\ offset \in Nat /\ length # 0
  BY Sizes DEF Slot, IInv, RingTypeOK, Offset
<1>5. PICK bytes \in [1 .. SlotSize -> Byte] : bytes = buffer[writeSlot]
  BY <1>4 DEF IInv, RingTypeOK
<1>6. PICK sl : sl = slot
  OBVIOUS
<1> DEFINE part == Cut(sl, bytes, 0, length)
<1>7. part \in Seq(Pair) /\ Len(part) = length
  <2>1. sl \in Slot
    BY <1>4, <1>6
  <2>2. part \in Seq(Pair) /\ Len(part) = length - 0
    BY <1>4, <2>1, CutType
  <2> QED BY <1>4, <2>2
<1>8. slots'[writeSlot] = sl /\ sl.offset = offset /\ sl.length = length
  BY <1>2, <1>4, <1>6 DEF IInv, RingTypeOK
<1> HIDE DEF part, slot
<1>9. Pieces' = Append(Pieces, part)
  <2>1. PICK n \in 0 .. SlotCount : n = readySlots
    BY <1>3
  <2>2. /\ Pieces \in Seq(Seq(Pair)) /\ Len(Pieces) = n
        /\ \A k \in 1 .. n : Pieces[k] = Cut(slots[Place(readSlot, k)],
                                             buffer[Place(readSlot, k)],
                                             IF k = 1 THEN readOffset ELSE 0,
                                             slots[Place(readSlot, k)].length)
        /\ \A k \in 1 .. n : Place(readSlot, k) \in Index
    BY <2>1, PiecesAre
  <2>3. /\ writeSlot = Place(readSlot, n + 1)
        /\ \A k \in 1 .. n : Place(readSlot, k) # writeSlot
    BY <1>3, <2>1, WritePlace
  <2>4. Pieces' = [k \in 1 .. n + 1 |->
                     Cut(slots'[Place(readSlot, k)], buffer[Place(readSlot, k)],
                         IF k = 1 THEN readOffset ELSE 0, slots'[Place(readSlot, k)].length)]
    BY <1>2, <2>1, NextPieces DEF Cuts
  <2>5. PICK qs : qs = Append(Pieces, part)
    OBVIOUS
  <2>6. qs = [k \in 1 .. n + 1 |-> IF k = n + 1 THEN part ELSE Pieces[k]]
    <3>1. /\ qs \in Seq(Seq(Pair)) /\ Len(qs) = n + 1
          /\ \A k \in 1 .. n : qs[k] = Pieces[k]
          /\ qs[n + 1] = part
      <4>1. PICK ps \in Seq(Seq(Pair)) : ps = Pieces
        BY <2>2
      <4>2. PICK el \in Seq(Pair) : el = part
        BY <1>7
      <4>3. Len(ps) = n
        BY <2>2, <4>1
      <4>4. qs = Append(ps, el)
        BY <2>5, <4>1, <4>2
      <4>5. /\ Append(ps, el) \in Seq(Seq(Pair)) /\ Len(Append(ps, el)) = Len(ps) + 1
            /\ \A k \in 1 .. Len(ps) : Append(ps, el)[k] = ps[k]
            /\ Append(ps, el)[Len(ps) + 1] = el
        BY AppendProperties
      <4> QED BY <4>1, <4>2, <4>3, <4>4, <4>5
    <3>2. qs = [k \in 1 .. n + 1 |-> qs[k]]
      BY <3>1
    <3>3. \A k \in 1 .. n + 1 : qs[k] = IF k = n + 1 THEN part ELSE Pieces[k]
      <4>1. \A k \in 1 .. n + 1 : k # n + 1 => k \in 1 .. n
        BY <2>1
      <4> QED BY <3>1, <4>1
    <3> QED BY <3>2, <3>3
  <2>7. ASSUME NEW k \in 1 .. n + 1
        PROVE  Cut(slots'[Place(readSlot, k)], buffer[Place(readSlot, k)],
                   IF k = 1 THEN readOffset ELSE 0, slots'[Place(readSlot, k)].length)
                 = IF k = n + 1 THEN part ELSE Pieces[k]
    <3>1. CASE k = n + 1
      <4>1. Place(readSlot, k) = writeSlot
        BY <2>3, <3>1
      <4>2. k = 1 => readOffset = 0
        BY <1>3, <2>1, <3>1 DEF IInv, RingInv, OffsetInSlot
      <4>3. (IF k = 1 THEN readOffset ELSE 0) = 0
        BY <4>2
      <4> QED BY <3>1, <4>1, <4>3, <1>5, <1>8 DEF part
    <3>2. CASE k # n + 1
      <4>1. k \in 1 .. n
        BY <2>1, <3>2
      <4>2. Place(readSlot, k) # writeSlot /\ Place(readSlot, k) \in Index
        BY <2>2, <2>3, <4>1
      <4>3. slots'[Place(readSlot, k)] = slots[Place(readSlot, k)]
        BY <1>2, <4>2 DEF IInv, RingTypeOK
      <4> QED BY <2>2, <3>2, <4>1, <4>3
    <3> QED BY <3>1, <3>2
  <2>8. Pieces' = qs
    BY <2>4, <2>6, <2>7
  <2> QED BY <2>5, <2>8
<1>10. Pending' = Pending \o part
  <2>1. PICK ps : ps = Pieces
    OBVIOUS
  <2>2. ps \in Seq(Seq(Pair))
    BY <2>1, PiecesAre
  <2>3. Concat(Append(ps, part)) = Concat(ps) \o part
    BY <1>7, <2>2, ConcatAppend
  <2> QED BY <1>9, <2>1, <2>3, NextPieces
<1> DEFINE some == [i \in 1 .. length |-> bytes[i]]
<1>11. some \in [1 .. length -> Byte] /\ Len(some) = length /\ some # <<>>
  <2>1. \A i \in 1 .. length : i \in 1 .. SlotSize
    BY <1>4
  <2>2. some \in [1 .. length -> Byte]
    BY <2>1
  <2>3. Len(some) = length
    BY <1>4
  <2> HIDE DEF some
  <2> QED BY <1>4, <2>2, <2>3
<1>12. Fifo!At(offset, some) = part
  <2>1. \A i \in 1 .. length : some[i] = bytes[i]
    OBVIOUS
  <2> HIDE DEF some
  <2>2. Fifo!At(offset, some) = [i \in 1 .. length |-> [at |-> (offset + i - 1) % Wrap,
                                                        byte |-> bytes[i]]]
    BY <1>11, <2>1 DEF Fifo!At
  <2>3. \A i \in 1 .. length : offset + 0 + i - 1 = offset + i - 1 /\ 0 + i = i
    BY <1>4
  <2>4. part = [i \in 1 .. length - 0 |-> [at |-> (offset + 0 + i - 1) % Wrap,
                                           byte |-> bytes[0 + i]]]
    BY <1>8 DEF part, Cut
  <2>5. length - 0 = length
    BY <1>4
  <2> QED BY <2>2, <2>3, <2>4, <2>5
<1> HIDE DEF some
<1>13. Len(Pending) + Len(some) <= SlotCount * SlotSize
  <2>1. PICK a \in Nat, b \in Nat, c \in Nat :
           a = Len(Pending) /\ b = readySlots * SlotSize /\ c = SlotCount * SlotSize
    <3>1. Len(Pending) \in Nat /\ SlotCount * SlotSize \in Nat
      BY PendingFits, RoomIs
    <3>2. readySlots * SlotSize \in Nat
      BY <1>3, <1>4
    <3> QED BY <3>1, <3>2
  <2>2. a <= b /\ b + SlotSize <= c
    BY <1>3, <2>1, PendingFits, RoomIs
  <2>3. a + length <= c
    BY <1>4, <2>1, <2>2
  <2> QED BY <1>11, <2>1, <2>3
<1>14. Fifo!Put(offset, some)
  BY <1>1, <1>2, <1>10, <1>11, <1>12, <1>13 DEF Fifo!Put
<1> QED
  BY <1>4, <1>11, <1>14 DEF Fifo!Next, Offset

\* With a slot ready, the first piece is what is left of the read slot.
LEMMA FirstPiece ==
  IInv /\ readySlots # 0 =>
    /\ Pieces # <<>> /\ Pieces[1] = Cut(slots[readSlot], buffer[readSlot], readOffset,
                                        slots[readSlot].length)
    /\ Pieces[1] \in Seq(Pair) /\ Len(Pieces[1]) = Remaining /\ Remaining \in 1 .. SlotSize
    /\ Concat(Tail(Pieces)) \in Seq(Pair) /\ Pending = Pieces[1] \o Concat(Tail(Pieces))
    /\ Len(Pieces) = readySlots /\ Tail(Pieces) \in Seq(Seq(Pair))
<1> SUFFICES ASSUME IInv, readySlots # 0
             PROVE  /\ Pieces # <<>> /\ Pieces[1] = Cut(slots[readSlot], buffer[readSlot],
                                                        readOffset, slots[readSlot].length)
                    /\ Pieces[1] \in Seq(Pair) /\ Len(Pieces[1]) = Remaining
                    /\ Remaining \in 1 .. SlotSize
                    /\ Concat(Tail(Pieces)) \in Seq(Pair)
                    /\ Pending = Pieces[1] \o Concat(Tail(Pieces))
                    /\ Len(Pieces) = readySlots /\ Tail(Pieces) \in Seq(Seq(Pair))
  OBVIOUS
<1>1. readySlots \in 1 .. SlotCount /\ SlotCount \in Nat /\ SlotSize \in Nat
  BY Sizes DEF IInv, RingTypeOK
<1>2. readSlot \in Index /\ slots[readSlot] \in Slot /\ buffer[readSlot] \in [1 .. SlotSize -> Byte]
  BY DEF IInv, RingTypeOK
<1>3. Place(readSlot, 1) = readSlot
  <2>1. PICK r \in Index : r = readSlot
    BY <1>2
  <2>2. r \in 0 .. SlotCount - 1 /\ 1 \in 1 .. SlotCount
    BY <1>1 DEF Index
  <2>3. PICK k \in 1 .. SlotCount : k = 1
    BY <2>2
  <2>4. Place(r, k) = IF r + k - 1 < SlotCount THEN r + k - 1 ELSE r + k - 1 - SlotCount
    BY PlaceIs
  <2>5. Place(r, k) = r
    BY <1>1, <2>2, <2>3, <2>4
  <2> QED BY <2>1, <2>3, <2>5
<1>4. /\ Pieces \in Seq(Seq(Pair)) /\ Len(Pieces) = readySlots
      /\ Pieces[1] = Cut(slots[readSlot], buffer[readSlot], readOffset, slots[readSlot].length)
  <2>1. PICK k \in 1 .. readySlots : k = 1
    BY <1>1
  <2>2. Pieces[k] = Cut(slots[Place(readSlot, k)], buffer[Place(readSlot, k)],
                        IF k = 1 THEN readOffset ELSE 0, slots[Place(readSlot, k)].length)
    BY PiecesAre
  <2> QED BY <1>3, <2>1, <2>2, PiecesAre
<1>5. PICK sl \in Slot, bf \in [1 .. SlotSize -> Byte], o \in 0 .. SlotSize, l \in 0 .. SlotSize :
        /\ sl = slots[readSlot] /\ bf = buffer[readSlot] /\ o = readOffset /\ l = sl.length
  BY <1>2 DEF Slot, IInv, RingTypeOK
<1>6. o < l
  BY <1>1, <1>5 DEF IInv, RingInv, OffsetInSlot
<1>7. o <= l
  BY <1>1, <1>6
<1>8. Cut(sl, bf, o, l) \in Seq(Pair) /\ Len(Cut(sl, bf, o, l)) = l - o
  BY <1>7, CutType
<1>9. Remaining = l - o /\ l - o \in 1 .. SlotSize
  BY <1>1, <1>5, <1>6 DEF Remaining
<1>10. PICK ps \in Seq(Seq(Pair)) : ps = Pieces
  BY <1>4
<1>11. Len(ps) # 0 /\ ps # <<>>
  BY <1>1, <1>4, <1>10
<1>12. Concat(ps) = ps[1] \o Concat(Tail(ps))
  BY <1>11, ConcatFirst
<1>13. Tail(ps) \in Seq(Seq(Pair))
  BY <1>11, HeadTailProperties
<1>14. Concat(Tail(ps)) \in Seq(Pair)
  BY <1>13, ConcatType
<1> QED
  BY <1>4, <1>5, <1>8, <1>9, <1>10, <1>11, <1>12, <1>13, <1>14 DEF Pending

\* Any number of bytes that are there is a number of the queue's actions.
LEMMA InRoom ==
  IInv => \A n \in Nat : n <= Len(Pending) => n <= SlotCount * SlotSize
<1> SUFFICES ASSUME IInv, NEW n \in Nat, n <= Len(Pending) PROVE n <= SlotCount * SlotSize
  OBVIOUS
<1>1. readySlots * SlotSize \in Nat
  BY Sizes DEF IInv, RingTypeOK
<1>2. PICK a \in Nat, b \in Nat, c \in Nat :
        a = Len(Pending) /\ b = readySlots * SlotSize /\ c = SlotCount * SlotSize
  BY <1>1, PendingFits, RoomIs
<1>3. a <= b /\ b <= c
  BY <1>2, PendingFits, RoomIs
<1> QED
  BY <1>2, <1>3

\* A peek shows the first piece.
LEMMA PeekShows == IInv /\ Peek => Fifo!Next
<1> SUFFICES ASSUME IInv, Peek PROVE Fifo!Next
  OBVIOUS
<1>1. /\ readySlots # 0 /\ UNCHANGED <<buffer, ringVars, span>>
      /\ view' = [slot |-> readSlot, from |-> readOffset, to |-> slots[readSlot].length]
  BY DEF Peek
<1>2. PICK p \in Seq(Pair), t \in Seq(Pair) : p = Pieces[1] /\ t = Concat(Tail(Pieces))
  BY <1>1, FirstPiece
<1>3. Pending = p \o t /\ Len(p) \in 1 .. SlotSize
  BY <1>1, <1>2, FirstPiece
<1>4. /\ SubSeq(p \o t, 1, Len(p)) = p /\ Len(p \o t) = Len(p) + Len(t)
      /\ Len(t) \in Nat
  BY ConcatParts
<1>5. Shown' = p
  <2>1. view' # NoView /\ view'.slot = readSlot /\ view'.from = readOffset
          /\ view'.to = slots[readSlot].length
    <3>1. [slot |-> readSlot, from |-> readOffset, to |-> slots[readSlot].length] \in View
      BY DEF IInv, RingTypeOK, View, Slot
    <3> QED BY <1>1, <3>1, RingAssumption DEF View, Index
  <2>2. Shown' = IF view' = NoView THEN <<>>
                 ELSE Cut(slots'[view'.slot], buffer'[view'.slot], view'.from, view'.to)
    BY DEF Shown, Bytes, Cut
  <2>3. slots' = slots /\ buffer' = buffer
    BY <1>1 DEF ringVars
  <2>4. p = Cut(slots[readSlot], buffer[readSlot], readOffset, slots[readSlot].length)
    BY <1>1, <1>2, FirstPiece
  <2> QED BY <2>1, <2>2, <2>3, <2>4
<1>6. Pending' = Pending /\ rxOffset' = rxOffset
  <2>1. Pieces' = Pieces
    BY <1>1, NextPieces, PiecesAreCuts DEF ringVars
  <2> QED BY <1>1, <2>1, NextPieces DEF ringVars
<1>7. PICK n \in Nat : n = Len(p)
  BY <1>3
<1>8. n \in 1 .. Len(Pending) /\ n \in 1 .. SlotCount * SlotSize
  <2>1. n <= Len(Pending) /\ n >= 1 /\ Len(Pending) \in Nat
    BY <1>3, <1>4, <1>7, Sizes, PendingFits
  <2>2. n <= SlotCount * SlotSize /\ SlotCount * SlotSize \in Nat
    BY <2>1, InRoom, RoomIs
  <2>3. PICK c \in Nat : c = SlotCount * SlotSize
    BY <2>2
  <2> QED BY <2>1, <2>2, <2>3
<1>9. Fifo!Show(n)
  BY <1>3, <1>4, <1>5, <1>6, <1>7, <1>8 DEF Fifo!Show
<1> QED
  BY <1>8, <1>9 DEF Fifo!Next

\* What takes the first bytes of the queue.
LEMMA Takes ==
  ASSUME NEW p \in Seq(Pair), NEW t \in Seq(Pair)
  PROVE  (/\ IInv /\ Pending = p \o t /\ Len(p) # 0
          /\ Pending' = t /\ Shown' = <<>> /\ rxOffset' = rxOffset) => Fifo!Next
<1> SUFFICES ASSUME IInv, Pending = p \o t, Len(p) # 0, Pending' = t, Shown' = <<>>,
                    rxOffset' = rxOffset
             PROVE  Fifo!Next
  OBVIOUS
<1>1. /\ SubSeq(p \o t, Len(p) + 1, Len(p \o t)) = t /\ Len(p \o t) = Len(p) + Len(t)
      /\ Len(t) \in Nat /\ Len(p) \in Nat
  BY ConcatParts
<1>2. PICK n \in Nat : n = Len(p)
  BY <1>1
<1>3. n \in 1 .. Len(Pending) /\ n \in 1 .. SlotCount * SlotSize
  <2>1. n <= Len(Pending) /\ n >= 1 /\ Len(Pending) \in Nat
    BY <1>1, <1>2, PendingFits
  <2>2. n <= SlotCount * SlotSize /\ SlotCount * SlotSize \in Nat
    BY <2>1, InRoom, RoomIs
  <2>3. PICK c \in Nat : c = SlotCount * SlotSize
    BY <2>2
  <2> QED BY <2>1, <2>2, <2>3
<1>4. Fifo!Take(n)
  BY <1>1, <1>2, <1>3 DEF Fifo!Take
<1> QED
  BY <1>3, <1>4 DEF Fifo!Next

\* A release takes the first piece.
LEMMA ReleaseTakes == IInv /\ Release => Fifo!Next
<1> SUFFICES ASSUME IInv, Release PROVE Fifo!Next
  OBVIOUS
<1>1. /\ readySlots # 0 /\ slots' = [slots EXCEPT ![readSlot] = Consumed(@)]
      /\ readOffset' = 0 /\ readSlot' = NextSlot(readSlot) /\ readySlots' = readySlots - 1
      /\ view' = NoView /\ buffer' = buffer /\ rxOffset' = rxOffset
  BY DEF Release
<1>2. PICK p \in Seq(Pair), t \in Seq(Pair) : p = Pieces[1] /\ t = Concat(Tail(Pieces))
  BY <1>1, FirstPiece
<1>3. Pending = p \o t /\ Len(p) # 0
  BY <1>1, <1>2, FirstPiece, Sizes
<1>4. Shown' = <<>>
  BY <1>1 DEF Shown
<1>5. PICK n \in 1 .. SlotCount : n = readySlots
  BY <1>1, Sizes DEF IInv, RingTypeOK
<1>6. SlotCount \in Nat /\ readSlot \in Index
  BY Sizes DEF IInv, RingTypeOK
<1>7. Pieces' = Tail(Pieces)
  <2>1. PICK ps \in Seq(Seq(Pair)) : ps = Pieces
    BY PiecesAre
  <2>2. /\ Len(ps) = n
        /\ \A k \in 1 .. n : ps[k] = Cut(slots[Place(readSlot, k)], buffer[Place(readSlot, k)],
                                         IF k = 1 THEN readOffset ELSE 0,
                                         slots[Place(readSlot, k)].length)
    BY <1>5, <2>1, PiecesAre
  <2>3. ps # <<>>
    BY <1>6, <2>2
  <2>4. PICK qs \in Seq(Seq(Pair)) : qs = Tail(ps)
    BY <2>3, HeadTailProperties
  <2>5. Len(qs) = n - 1 /\ \A k \in 1 .. n - 1 : qs[k] = ps[k + 1]
    BY <2>2, <2>3, <2>4, HeadTailProperties
  <2>6. qs = [k \in 1 .. n - 1 |-> qs[k]]
    BY <2>5
  <2>7. Pieces' = [k \in 1 .. n - 1 |->
                     Cut(slots'[Place(NextSlot(readSlot), k)], buffer[Place(NextSlot(readSlot), k)],
                         IF k = 1 THEN 0 ELSE 0, slots'[Place(NextSlot(readSlot), k)].length)]
    BY <1>1, <1>5, NextPieces DEF Cuts
  <2>8. ASSUME NEW k \in 1 .. n - 1
        PROVE  Cut(slots'[Place(NextSlot(readSlot), k)], buffer[Place(NextSlot(readSlot), k)],
                   IF k = 1 THEN 0 ELSE 0, slots'[Place(NextSlot(readSlot), k)].length) = qs[k]
    <3>1. k \in 1 .. SlotCount - 1 /\ k + 1 \in 1 .. n /\ k + 1 # 1
      BY <1>6
    <3>2. /\ Place(NextSlot(readSlot), k) = Place(readSlot, k + 1)
          /\ Place(readSlot, k + 1) # readSlot /\ Place(readSlot, k + 1) \in Index
      BY <1>6, <3>1, NextPlace
    <3>3. slots'[Place(readSlot, k + 1)] = slots[Place(readSlot, k + 1)]
      BY <1>1, <3>2 DEF IInv, RingTypeOK
    <3>4. PICK m \in 1 .. n : m = k + 1
      BY <3>1
    <3>5. ps[m] = Cut(slots[Place(readSlot, m)], buffer[Place(readSlot, m)], 0,
                      slots[Place(readSlot, m)].length)
      <4>1. m # 1
        BY <3>1, <3>4
      <4> QED BY <2>2, <4>1
    <3>6. qs[k] = ps[m]
      BY <2>5, <3>4
    <3>7. (IF k = 1 THEN 0 ELSE 0) = 0
      OBVIOUS
    <3> QED BY <3>2, <3>3, <3>4, <3>5, <3>6, <3>7
  <2>9. Pieces' = qs
    BY <2>6, <2>7, <2>8
  <2> QED BY <2>1, <2>4, <2>9
<1>8. Pending' = t
  BY <1>2, <1>7, NextPieces
<1> QED
  BY <1>1, <1>2, <1>3, <1>4, <1>8, Takes

\* Releasing some bytes takes these from the first piece.
LEMMA ReleaseSomeTakes ==
  ASSUME NEW length \in 1 .. SlotSize
  PROVE  IInv /\ ReleaseSome(length) => Fifo!Next
<1>0. \A x, y, z \in Seq(Pair) : (x \o y) \o z = x \o (y \o z)
  BY Associates, SMTT(30)
<1> SUFFICES ASSUME IInv, ReleaseSome(length) PROVE Fifo!Next
  OBVIOUS
<1>1. /\ readySlots # 0 /\ length \in 1 .. Remaining - 1 /\ readOffset' = readOffset + length
      /\ view' = NoView /\ rxOffset' = rxOffset
      /\ slots' = slots /\ buffer' = buffer /\ readSlot' = readSlot /\ readySlots' = readySlots
  BY DEF ReleaseSome
<1>2. Shown' = <<>>
  BY <1>1 DEF Shown
<1>3. PICK n \in 1 .. SlotCount : n = readySlots
  BY <1>1, Sizes DEF IInv, RingTypeOK
<1>4. IInv'
  BY StepIInv DEF RingNext
<1>5. PICK sl \in Slot, bf \in [1 .. SlotSize -> Byte], o \in 0 .. SlotSize, l \in 0 .. SlotSize :
        /\ sl = slots[readSlot] /\ bf = buffer[readSlot] /\ o = readOffset /\ l = sl.length
  <2>1. readSlot \in Index
    BY DEF IInv, RingTypeOK
  <2>2. slots[readSlot] \in Slot /\ buffer[readSlot] \in [1 .. SlotSize -> Byte]
    BY <2>1 DEF IInv, RingTypeOK
  <2> QED BY <2>2 DEF Slot, IInv, RingTypeOK
<1>6. PICK m \in 0 .. SlotSize : m = o + length /\ o <= m /\ m <= l /\ o <= l
  BY <1>1, <1>5, Sizes DEF Remaining
<1> DEFINE a == Cut(sl, bf, o, m)
           b == Cut(sl, bf, m, l)
<1>7. a \in Seq(Pair) /\ b \in Seq(Pair) /\ Len(a) = length /\ Len(a) # 0
  <2>1. a \in Seq(Pair) /\ Len(a) = m - o
    BY <1>6, CutType
  <2>2. b \in Seq(Pair)
    BY <1>6, CutType
  <2>3. m - o = length /\ length # 0
    BY <1>6
  <2> HIDE DEF a, b
  <2> QED BY <2>1, <2>2, <2>3
<1>8. Cut(sl, bf, o, l) = a \o b
  BY <1>6, CutTwice, SMTT(60)
<1> HIDE DEF a, b
<1>9. PICK t \in Seq(Pair) : t = Concat(Tail(Pieces))
  BY <1>1, FirstPiece
<1>10. Pieces[1] = a \o b /\ Pending = (a \o b) \o t
  BY <1>1, <1>5, <1>8, <1>9, FirstPiece
<1>11. Pending = a \o (b \o t) /\ b \o t \in Seq(Pair)
  <2>2. (a \o b) \o t = a \o (b \o t)
    BY <1>0, <1>7
  <2>3. b \o t \in Seq(Pair)
    BY <1>7, ConcatParts
  <2> QED BY <1>10, <2>2, <2>3
<1>12. /\ Pieces' \in Seq(Seq(Pair)) /\ Pieces' # <<>>
       /\ Pieces'[1] = b /\ Tail(Pieces') = Tail(Pieces)
  <2>1. PICK ps \in Seq(Seq(Pair)) : ps = Pieces
    BY PiecesAre
  <2>2. Len(ps) = n /\ SlotCount \in Nat
    BY <1>3, <2>1, PiecesAre, Sizes
  <2>3. ps = [k \in 1 .. n |-> Cut(slots[Place(readSlot, k)], buffer[Place(readSlot, k)],
                                   IF k = 1 THEN readOffset ELSE 0,
                                   slots[Place(readSlot, k)].length)]
    BY <1>3, <2>1, PiecesAreCuts DEF Cuts
  <2>4. Pieces' = [k \in 1 .. n |-> Cut(slots[Place(readSlot, k)], buffer[Place(readSlot, k)],
                                        IF k = 1 THEN readOffset + length ELSE 0,
                                        slots[Place(readSlot, k)].length)]
    BY <1>1, <1>3, NextPieces DEF Cuts
  <2>5. PICK qs : qs = Pieces'
    OBVIOUS
  <2>6. /\ \A k \in 1 .. n : k # 1 => qs[k] = ps[k]
        /\ qs = [k \in 1 .. n |-> qs[k]]
    BY <2>3, <2>4, <2>5
  <2>7. qs[1] = b
    <3>1. ps[1] = Cut(slots[readSlot], buffer[readSlot], readOffset, slots[readSlot].length)
      BY <1>1, <2>1, FirstPiece
    <3>2. Place(readSlot, 1) = readSlot
      <4>1. PICK r \in Index : r = readSlot
        BY DEF IInv, RingTypeOK
      <4>2. r \in 0 .. SlotCount - 1
        BY DEF Index
      <4>3. PICK k \in 1 .. SlotCount : k = 1
        BY <2>2
      <4>4. Place(r, k) = IF r + k - 1 < SlotCount THEN r + k - 1 ELSE r + k - 1 - SlotCount
        BY PlaceIs
      <4> QED BY <2>2, <4>1, <4>2, <4>3, <4>4
    <3>3. 1 \in 1 .. n
      BY <2>2
    <3>4. qs[1] = Cut(slots[Place(readSlot, 1)], buffer[Place(readSlot, 1)],
                      readOffset + length, slots[Place(readSlot, 1)].length)
      BY <2>4, <2>5, <3>3
    <3> QED BY <1>5, <1>6, <3>2, <3>4 DEF b
  <2>8. \A k \in 1 .. n : ps[k] \in Seq(Pair)
    BY <2>1, <2>2
  <2>9. \A k \in 1 .. n : qs[k] \in Seq(Pair)
    BY <1>7, <2>6, <2>7, <2>8
  <2>10. qs \in Seq(Seq(Pair)) /\ Len(qs) = n
    <3> DEFINE T == Seq(Pair)
    <3>1. \A k \in 1 .. n : qs[k] \in T
      BY <2>9
    <3> HIDE DEF T
    <3>2. n \in Nat /\ qs \in [1 .. n -> T]
      BY <2>2, <2>6, <3>1
    <3>3. qs \in Seq(T) /\ Len(qs) = n
      BY <3>2
    <3> QED BY <3>3 DEF T
  <2>11. qs # <<>> /\ ps # <<>>
    BY <2>2, <2>10
  <2>12. Tail(qs) = Tail(ps)
    <3>1. PICK x \in Seq(Seq(Pair)), y \in Seq(Seq(Pair)) : x = Tail(qs) /\ y = Tail(ps)
      BY <2>1, <2>10, <2>11, HeadTailProperties
    <3>2. /\ Len(x) = n - 1 /\ Len(y) = n - 1
          /\ \A k \in 1 .. n - 1 : x[k] = qs[k + 1]
          /\ \A k \in 1 .. n - 1 : y[k] = ps[k + 1]
      BY <2>1, <2>2, <2>10, <2>11, <3>1, HeadTailProperties
    <3>3. \A k \in 1 .. n - 1 : k + 1 \in 1 .. n /\ k + 1 # 1
      BY <2>2
    <3>4. \A k \in 1 .. n - 1 : x[k] = y[k]
      BY <2>6, <3>2, <3>3
    <3>5. x = y
      BY <3>2, <3>4, SeqEqual
    <3> QED BY <3>1, <3>5
  <2> QED BY <2>1, <2>5, <2>7, <2>10, <2>11, <2>12
<1>13. Pending' = b \o t
  <2>1. PICK qs \in Seq(Seq(Pair)) : qs = Pieces'
    BY <1>12
  <2>2. qs # <<>>
    BY <1>12, <2>1
  <2>3. Concat(qs) = qs[1] \o Concat(Tail(qs))
    BY <2>2, ConcatFirst
  <2> QED BY <1>9, <1>12, <2>1, <2>3, NextPieces
<1>14. PICK u \in Seq(Pair) : u = b \o t
  BY <1>11
<1>15. PICK d \in Seq(Pair) : d = a
  BY <1>7
<1>16. Pending = d \o u /\ Len(d) # 0 /\ Pending' = u
  BY <1>7, <1>11, <1>13, <1>14, <1>15
<1> QED
  BY <1>1, <1>2, <1>16, Takes

\* No ready slot, no byte.
LEMMA NoPieces == \A r, o, sl, bf : Concat(Cuts(0, r, o, sl, bf)) = <<>>
<1> TAKE r, o, sl, bf
<1>1. Cuts(0, r, o, sl, bf) = <<>>
  BY DEF Cuts
<1>2. PICK ps \in Seq(Seq(Pair)) : ps = <<>> /\ Len(ps) = 0
  <2> DEFINE T == Seq(Pair)
  <2> HIDE DEF T
  <2>1. <<>> \in Seq(T) /\ Len(<<>>) = 0
    OBVIOUS
  <2> QED BY <2>1 DEF T
<1>3. Concat(ps) = <<>>
  BY <1>2, ConcatNone
<1> QED
  BY <1>1, <1>2, <1>3

LEMMA InitIsEmpty == RingInit => Fifo!Init
<1> SUFFICES ASSUME RingInit PROVE Fifo!Init
  OBVIOUS
<1>1. Pending = Concat(Cuts(0, 0, 0, slots, buffer))
  BY PiecesAreCuts DEF Pending, RingInit
<1>2. Pending = <<>>
  BY <1>1, NoPieces
<1> QED
  BY <1>2 DEF Fifo!Init, RingInit, Shown

LEMMA ResetClears == Reset => Fifo!Next
<1> SUFFICES ASSUME Reset PROVE Fifo!Next
  OBVIOUS
<1>1. Pieces' = Cuts(0, 0, 0, slots', buffer')
  BY NextPieces DEF Reset
<1>2. Pending' = <<>>
  BY <1>1, NextPieces, NoPieces
<1>3. Shown' = <<>> /\ rxOffset' = 0
  BY DEF Reset, Shown
<1> QED
  BY <1>2, <1>3 DEF Fifo!Next, Fifo!Clear

\* Every step of the ring is one of the queue, or none.
LEMMA StepIsFifo == IInv /\ [RingNext]_allRingVars => [Fifo!Next]_Fifo!vars
<1> SUFFICES ASSUME IInv, [RingNext]_allRingVars PROVE [Fifo!Next]_Fifo!vars
  OBVIOUS
<1>1. CASE Acquire
  BY <1>1, AcquireStutters
<1>2. ASSUME NEW bytes \in [1 .. SlotSize -> Byte], Fill(bytes) PROVE [Fifo!Next]_Fifo!vars
  BY <1>2, FillStutters
<1>3. ASSUME NEW offset \in Offset, NEW length \in 1 .. SlotSize, Commit(offset, length)
      PROVE  [Fifo!Next]_Fifo!vars
  BY <1>3, CommitPuts
<1>4. CASE Peek
  BY <1>4, PeekShows
<1>5. CASE Release
  BY <1>5, ReleaseTakes
<1>6. ASSUME NEW length \in 1 .. SlotSize, ReleaseSome(length) PROVE [Fifo!Next]_Fifo!vars
  BY <1>6, ReleaseSomeTakes
<1>7. CASE Reset
  BY <1>7, ResetClears
<1>8. CASE UNCHANGED allRingVars
  <2>1. Pieces' = Pieces
    BY <1>8, NextPieces, PiecesAreCuts DEF allRingVars, ringVars
  <2>2. Shown' = Shown
    BY <1>8, ShownStays DEF allRingVars
  <2> QED BY <1>8, <2>1, <2>2, NextPieces DEF Fifo!vars, allRingVars, ringVars
<1> QED
  BY <1>1, <1>2, <1>3, <1>4, <1>5, <1>6, <1>7, <1>8 DEF RingNext

-----------------------------------------------------------------------------
\* For every number and size of slots: indices, counts, offsets and lengths stay in
\* range over commits, releases, wraps and resets (stream.c:124-247).
THEOREM RingTypeCorrect == RingSpec => []RingTypeOK
<1>1. IInv => RingTypeOK
  BY DEF IInv
<1> QED
  BY <1>1, RingConsistent, PTL

\* For every number and size of slots: with a slot ready, peek and release return
\* data, never CL_STREAM_ERR_INVALID or CL_STREAM_ERR_EMPTY (stream.c:168-178,
\* 201-206, 232-236).
THEOREM NoCallIsInvalid == RingSpec => []NeverInvalid
<1>1. IInv => NeverInvalid
  BY FirstIsReady DEF NeverInvalid
<1> QED
  BY <1>1, RingConsistent, PTL

\* For every number and size of slots: the bytes of a view stay as they are until
\* its consumer lets go of it, whatever the producer writes (stream.c:109-114).
THEOREM ViewsStayIntact == RingSpec => ViewIntact
<1> DEFINE Intact ==
      view # NoView /\ view' = view =>
        /\ \A i \in view.from + 1 .. view.to : buffer'[view.slot][i] = buffer[view.slot][i]
        /\ slots'[view.slot] = slots[view.slot]
<1>1. IInv /\ [RingNext]_allRingVars => Intact
  BY ViewedSlotStays
<1> QED
  BY <1>1, RingConsistent, PTL DEF RingSpec, ViewIntact

\* For every number and size of slots: whatever producer and consumer do, the slots
\* are one first-in-first-out queue of bytes, each with its offset in the stream
\* (stream.h:23-36): a commit appends what was written to the slot, a peek shows the
\* front, a release takes it away, a partial release the first bytes of it.
THEOREM SlotsAreOneQueue == RingSpec => FifoSpec
<1>1. RingInit => Fifo!Init
  BY InitIsEmpty
<1>2. IInv /\ [RingNext]_allRingVars => [Fifo!Next]_Fifo!vars
  BY StepIsFifo
<1> QED
  BY <1>1, <1>2, RingConsistent, PTL DEF RingSpec, FifoSpec, Fifo!Spec
=============================================================================
