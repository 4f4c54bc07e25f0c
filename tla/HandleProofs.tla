---------------------------- MODULE HandleProofs -----------------------------
(****************************************************************************)
(* Who has what the cartridge and the MCU have open: FileLayer, SocketTable *)
(* and BleLink, for any number of handles; and what a select tells:         *)
(* SocketCalls, for any number of descriptors.                              *)
(****************************************************************************)
EXTENDS FileLayer, SocketTable, SocketCalls, BleLink, FiniteSetTheorems, SequenceTheorems,
        WellFoundedInduction, TLAPS

-----------------------------------------------------------------------------
(* Two facts about numbers and small sets.                                  *)

\* A set of natural numbers has a smallest element.
LEMMA SmallestOf ==
  ASSUME NEW S \in SUBSET Nat, S # {}
  PROVE  \E x \in S : \A y \in S : x <= y
<1> DEFINE upto(x) == {y \in S : y <= x}
           family == {upto(x) : x \in S}
<1>1. family \subseteq FiniteSubsetsOf(Nat) /\ family # {}
  <2>1. ASSUME NEW x \in S PROVE upto(x) \in SUBSET Nat /\ IsFiniteSet(upto(x))
    <3>1. x \in Nat /\ 0 \in Int /\ x \in Int
      BY <2>1
    <3>2. IsFiniteSet(0 .. x)
      BY <3>1, FS_Interval, Zenon
    <3>3. \A y \in upto(x) : y \in Nat /\ y <= x
      OBVIOUS
    <3>4. upto(x) \in SUBSET (0 .. x) /\ upto(x) \in SUBSET Nat
      <4> HIDE DEF upto
      <4> QED
        BY <3>1, <3>3
    <3> QED
      BY <3>2, <3>4, FS_Subset
  <2> QED
    BY <2>1 DEF FiniteSubsetsOf
<1>2. PICK T \in family : \A U \in family : ~(<<U, T>> \in StrictSubsetOrdering(Nat))
  BY <1>1, WFMin, FS_StrictSubsetOrderingWellFounded
<1>3. PICK x \in S : T = upto(x)
  BY <1>2
<1>4. ASSUME NEW y \in S, ~(x <= y) PROVE FALSE
  <2>0. x \in Nat /\ y \in Nat /\ y <= x /\ x <= x
    BY <1>3, <1>4
  <2>1. upto(y) \subseteq T /\ x \in T /\ x \notin upto(y)
    <3>1. \A z \in S : z <= y => z <= x
      BY <2>0
    <3>2. ~(x <= y)
      BY <1>4
    <3> QED
      BY <1>3, <2>0, <3>1, <3>2, Zenon
  <2>2. upto(y) \in family /\ upto(y) \in SUBSET Nat /\ T \in SUBSET Nat
    BY <1>3
  <2>3. <<upto(y), T>> \in StrictSubsetOrdering(Nat)
    BY <2>1, <2>2 DEF StrictSubsetOrdering
  <2> QED
    BY <1>2, <2>2, <2>3
<1> QED
  BY <1>4

\* What has exactly one element, or none.
LEMMA OneOrNone ==
  ASSUME NEW S
  PROVE  /\ (\E x : S = {x}) => Cardinality(S) = 1
         /\ S = {} => Cardinality(S) = 0
BY FS_Singleton, FS_EmptySet

-----------------------------------------------------------------------------
(* FileLayer                                                                *)

Whys == SUBSET {"lost", "clamped"}
CartHandle == [backend : {"cart"}, local : Local, offset : Position, why : Whys]
RemoteHandle == [backend : {"remote"}, local : 1 .. MaxRemote, offset : Position, why : Whys]
Slot == [open : {TRUE}, write : BOOLEAN, offset : Position, flushed : BOOLEAN]
FileShape ==
  /\ handles \in [Handle -> {Free} \cup CartHandle \cup RemoteHandle]
  /\ cart \in [Local -> {Shut} \cup Slot]
  /\ DOMAIN remote \subseteq 1 .. MaxRemote /\ \A r \in DOMAIN remote : remote[r] \in Position
  /\ unsaved \in BOOLEAN /\ events \subseteq {"lost", "reset", "driver", "torn"}

\* Until the backends or the driver are replaced, every handle in use has one of the backend's of
\* its own.
Undisturbed == events \cap {"driver", "reset"} = {}
Distinct ==
  Undisturbed =>
    /\ \A h \in Handle : InUse(h) => CartOpen(h) \/ RemoteOpen(h)
    /\ \A g, h \in Handle :
         InUse(g) /\ handles[g].backend = handles[h].backend /\ handles[g].local = handles[h].local
           => g = h

\* Nothing of a backend is open without a handle.
Covered ==
  events \subseteq {"torn"} =>
    /\ \A l \in Local : cart[l].open =>
         \E h \in Handle : handles[h].backend = "cart" /\ handles[h].local = l
    /\ \A r \in DOMAIN remote :
         \E h \in Handle : handles[h].backend = "remote" /\ handles[h].local = r

\* What is unsaved was written through a handle that will flush.
Saved ==
  events = {} /\ unsaved => \E l \in Local : cart[l].open /\ cart[l].write /\ ~cart[l].flushed

FileInv == FileShape /\ Distinct /\ PositionsAgree /\ Covered /\ Saved

-----------------------------------------------------------------------------
\* The pair of a handle's two positions through the calls.
Pairs == [off : Position, pos : Position, ok : BOOLEAN, n : Nat, why : Whys]
Agrees(p) == p.why = {} => p.off = p.pos

LEMMA Remainders ==
  ASSUME NEW a \in Nat, NEW b \in Nat PROVE Plus(a, b) \in Position
<1>1. Huge + 1 \in Nat \ {0} /\ a + b \in Nat
  BY FileAssumption
<1>2. (a + b) % (Huge + 1) \in 0 .. (Huge + 1) - 1
  BY <1>1
<1> QED
  BY <1>2, FileAssumption DEF Plus, Position

LEMMA Targets ==
  ASSUME NEW base \in Position, NEW delta \in -1 .. Size
  PROVE  Target(base, delta) \in Position
<1>1. base \in Nat /\ delta \in Int /\ 0 \in Position /\ Huge + 1 \in Nat \ {0}
  BY FileAssumption DEF Position
<1>2. CASE base + delta < 0
  BY <1>1, <1>2 DEF Target
<1>3. CASE ~(base + delta < 0)
  <2>1. base + delta \in Nat
    BY <1>1, <1>3
  <2>2. (base + delta) % (Huge + 1) \in 0 .. (Huge + 1) - 1
    BY <1>1, <2>1
  <2> QED
    BY <1>1, <1>3, <2>2, FileAssumption DEF Target, Plus, Position
<1> QED
  BY <1>2, <1>3

LEMMA SoughtPairs ==
  ASSUME NEW p \in Pairs, NEW o \in Position, NEW backend, NEW q \in Sought(p, o, backend)
  PROVE  q \in Pairs /\ (Agrees(p) => Agrees(q)) /\ q.n = p.n
<1>1. Size \in Position
  BY FileAssumption DEF Position
<1> DEFINE done == [p EXCEPT !.off = o, !.pos = o, !.ok = TRUE]
<1>2. done \in Pairs /\ done.why = p.why /\ done.off = o /\ done.pos = o /\ done.n = p.n
  BY DEF Pairs
<1>3. \/ q = done
      \/ q = [p EXCEPT !.ok = FALSE]
      \/ q = [[[p EXCEPT !.pos = o] EXCEPT !.ok = FALSE] EXCEPT !.why = @ \cup {"lost"}]
      \/ q = [[done EXCEPT !.pos = Size] EXCEPT !.why = @ \cup {"clamped"}]
  BY DEF Sought, Bad, Blamed
<1> HIDE DEF done
<1>4. CASE q = done
  BY <1>2, <1>4 DEF Agrees
<1>5. CASE q = [p EXCEPT !.ok = FALSE]
  BY <1>5 DEF Pairs, Agrees
<1>6. CASE q = [[[p EXCEPT !.pos = o] EXCEPT !.ok = FALSE] EXCEPT !.why = @ \cup {"lost"}]
  <2>1. p.why \cup {"lost"} \in Whys
    BY DEF Pairs, Whys
  <2> QED
    BY <1>6, <2>1 DEF Pairs, Agrees
<1>7. CASE q = [[done EXCEPT !.pos = Size] EXCEPT !.why = @ \cup {"clamped"}]
  <2>1. done.why \cup {"clamped"} \in Whys
    BY <1>2 DEF Pairs, Whys
  <2> QED
    BY <1>1, <1>2, <1>7, <2>1 DEF Pairs, Agrees
<1> QED
  BY <1>3, <1>4, <1>5, <1>6, <1>7

LEMMA TransferredPairs ==
  ASSUME NEW p \in Pairs, NEW asked \in 1 .. Size, NEW backend, p.n = 0,
         NEW q \in Transferred(p, asked, backend)
  PROVE  q \in Pairs /\ (Agrees(p) => Agrees(q)) /\ (~q.ok => q.n = 0)
<1>1. Size \in Nat /\ Huge \in Nat /\ Size < Huge /\ p.pos \in Nat /\ p.off \in Nat
  BY FileAssumption DEF Pairs, Position
<1> DEFINE most == IF p.pos > Size THEN 0
                   ELSE IF Size - p.pos < asked THEN Size - p.pos ELSE asked
<1>2. most \in Nat /\ (most > 0 => p.pos + most <= Size)
  BY <1>1
<1>3. \/ \E n \in 0 .. most : q = Moved(p, n, asked)
      \/ q = Bad(p)
      \/ \E n \in 1 .. most : q = Blamed(Bad([p EXCEPT !.pos = @ + n]), "lost")
  BY DEF Transferred
<1> HIDE DEF most
<1>4. ASSUME NEW n \in 0 .. most, q = Moved(p, n, asked)
      PROVE  q \in Pairs /\ (Agrees(p) => Agrees(q)) /\ (~q.ok => q.n = 0)
  <2>1. n \in Nat /\ Plus(p.off, n) \in Position /\ Plus(p.pos, n) \in Position
    BY <1>1, <1>2, Remainders
  <2>2. q = [p EXCEPT !.off = Plus(p.off, n), !.pos = Plus(p.pos, n), !.n = n, !.ok = TRUE]
    BY <1>4 DEF Moved, Pairs
  <2> QED
    BY <2>1, <2>2 DEF Pairs, Agrees
<1>5. CASE q = Bad(p)
  BY <1>5 DEF Bad, Pairs, Agrees
<1>6. ASSUME NEW n \in 1 .. most, q = Blamed(Bad([p EXCEPT !.pos = @ + n]), "lost")
      PROVE  q \in Pairs /\ (Agrees(p) => Agrees(q)) /\ (~q.ok => q.n = 0)
  <2>1. p.pos + n \in Position
    BY <1>1, <1>2 DEF Position
  <2>2. p.why \cup {"lost"} \in Whys
    BY DEF Pairs, Whys
  <2>3. q = [[[p EXCEPT !.pos = p.pos + n] EXCEPT !.ok = FALSE] EXCEPT !.why = @ \cup {"lost"}]
    BY <1>6 DEF Blamed, Bad, Pairs
  <2> QED
    BY <2>1, <2>2, <2>3 DEF Pairs, Agrees
<1> QED
  BY <1>3, <1>4, <1>5, <1>6

LEMMA PositionedPairs ==
  ASSUME NEW p \in Pairs, NEW asked \in 1 .. Size, NEW o \in Position, NEW backend, p.n = 0,
         NEW q \in Positioned(p, asked, o, backend)
  PROVE  q \in Pairs /\ (Agrees(p) => Agrees(q)) /\ (~q.ok => q.n = 0)
<1>1. PICK first \in Sought(p, o, backend) :
        q \in IF ~first.ok THEN {first}
              ELSE UNION {{[s EXCEPT !.ok = r.ok] : s \in Sought(r, p.off, backend)} :
                            r \in Transferred(first, asked, backend)}
  BY DEF Positioned
<1>2. first \in Pairs /\ (Agrees(p) => Agrees(first)) /\ first.n = 0
  BY SoughtPairs
<1>3. CASE ~first.ok
  BY <1>1, <1>2, <1>3
<1>4. CASE first.ok
  <2>1. PICK r \in Transferred(first, asked, backend) :
          \E s \in Sought(r, p.off, backend) : q = [s EXCEPT !.ok = r.ok]
    BY <1>1, <1>4
  <2>2. r \in Pairs /\ (Agrees(p) => Agrees(r)) /\ (~r.ok => r.n = 0)
    BY <1>2, TransferredPairs
  <2>3. PICK s \in Sought(r, p.off, backend) : q = [s EXCEPT !.ok = r.ok]
    BY <2>1
  <2>4. s \in Pairs /\ (Agrees(p) => Agrees(s)) /\ s.n = r.n
    <3>1. p.off \in Position
      BY DEF Pairs
    <3> QED
      BY <2>2, <3>1, SoughtPairs
  <2>5. r.ok \in BOOLEAN
    BY <2>2 DEF Pairs
  <2> QED
    BY <2>2, <2>3, <2>4, <2>5 DEF Pairs, Agrees
<1> QED
  BY <1>3, <1>4

LEMMA LsoughtPairs ==
  ASSUME NEW p \in Pairs, NEW delta \in -1 .. Size, NEW whence \in {"set", "cur", "end"},
         whence = "set" => delta >= 0, NEW backend, NEW q \in Lsought(p, delta, whence, backend)
  PROVE  q \in Pairs /\ (Agrees(p) => Agrees(q))
<1>1. CASE whence = "set"
  <2>1. delta \in Position
    BY <1>1, FileAssumption DEF Position
  <2> QED
    BY <1>1, <2>1, SoughtPairs DEF Lsought
<1>2. CASE whence = "cur"
  <2>1. Target(p.off, delta) \in Position
    BY Targets DEF Pairs
  <2> QED
    BY <1>2, <2>1, SoughtPairs DEF Lsought
<1>3. CASE whence = "end"
  <2>1. PICK end \in Sought(p, Huge, backend) :
          q \in IF end.ok THEN Sought(end, Target(end.off, delta), backend) ELSE {end}
    BY <1>3 DEF Lsought
  <2>2. Huge \in Position
    BY FileAssumption DEF Position
  <2>3. end \in Pairs /\ (Agrees(p) => Agrees(end))
    BY <2>2, SoughtPairs
  <2>4. Target(end.off, delta) \in Position
    BY <2>3, Targets DEF Pairs
  <2> QED
    BY <2>1, <2>3, <2>4, SoughtPairs
<1> QED
  BY <1>1, <1>2, <1>3

LEMMA FirstIn ==
  ASSUME NEW S \in SUBSET Nat, S # {}
  PROVE  First(S) \in S
<1>1. \E i \in S : \A j \in S : i <= j
  BY SmallestOf
<1> QED
  BY <1>1 DEF First

\* What the backend has of a handle in use.
LEMMA HandleKinds ==
  ASSUME FileShape, NEW h \in Handle, InUse(h)
  PROVE  /\ handles[h] \in CartHandle \/ handles[h] \in RemoteHandle
         /\ handles[h].backend = "cart" <=> handles[h] \in CartHandle
         /\ handles[h].backend = "remote" <=> handles[h] \in RemoteHandle
         /\ handles[h].backend = "cart" => handles[h].local \in Local
         /\ handles[h].backend = "remote" => handles[h].local \in 1 .. MaxRemote
         /\ handles[h].offset \in Position /\ handles[h].why \in Whys
         /\ CartOpen(h) => cart[handles[h].local] \in Slot
<1>1. handles[h] \in CartHandle \cup RemoteHandle
  BY DEF FileShape, InUse, Free
<1>2. \A l \in Local : cart[l].open => cart[l] \in Slot
  BY DEF FileShape, Shut
<1> QED
  BY <1>1, <1>2 DEF CartHandle, RemoteHandle, CartOpen

LEMMA PairOfHandle ==
  ASSUME FileInv, NEW h \in Handle, InUse(h), CartOpen(h) \/ RemoteOpen(h)
  PROVE  Pair(h) \in Pairs /\ (Undisturbed => Agrees(Pair(h))) /\ Pair(h).n = 0
<1>1. Pos(h) \in Position
  BY HandleKinds DEF FileInv, FileShape, Pos, CartOpen, RemoteOpen, Slot
<1>2. Undisturbed /\ handles[h].why = {} => handles[h].offset = Pos(h)
  BY DEF FileInv, PositionsAgree, Undisturbed
<1>3. handles[h].offset \in Position /\ handles[h].why \in Whys
  BY HandleKinds DEF FileInv
<1>4. /\ Pair(h) \in Pairs /\ Pair(h).off = handles[h].offset /\ Pair(h).pos = Pos(h)
      /\ Pair(h).why = handles[h].why /\ Pair(h).n = 0
  BY <1>1, <1>3 DEF Pair, Pairs
<1> QED
  BY <1>2, <1>4 DEF Agrees

\* The slot that a handle of the cartridge has is only its own.
LEMMA OwnSlot ==
  ASSUME FileShape, Distinct, Undisturbed, NEW h \in Handle, InUse(h), NEW g \in Handle, g # h,
         InUse(g), handles[g].backend = handles[h].backend
  PROVE  handles[g].local # handles[h].local
BY DEF Distinct

\* A pair written back changes the two positions of its handle, and what the handle knows of
\* flushing.
LEMMA WrittenBack ==
  ASSUME FileInv, NEW h \in Handle, InUse(h), CartOpen(h) \/ RemoteOpen(h),
         NEW p \in Pairs, Undisturbed => Agrees(p), NEW wrote \in BOOLEAN, Becomes(h, p, wrote),
         events' = events \/ events' = events \cup {"torn"}, unsaved' \in BOOLEAN
  PROVE  /\ FileShape' /\ Distinct' /\ PositionsAgree' /\ Covered'
         /\ \A l \in Local : /\ cart'[l].open = cart[l].open
                             /\ cart[l].open => cart'[l].write = cart[l].write
                             /\ cart[l].open /\ ~cart[l].flushed => ~cart'[l].flushed
         /\ CartOpen(h) /\ wrote => ~cart'[handles[h].local].flushed
<1> DEFINE l == handles[h].local
<1>0. /\ FileShape /\ Distinct /\ PositionsAgree /\ Covered
      /\ p.off \in Position /\ p.pos \in Position /\ p.why \in Whys
  BY DEF FileInv, Pairs
<1>1. /\ handles[h] \in CartHandle \/ handles[h] \in RemoteHandle
      /\ handles[h].backend = "cart" <=> handles[h] \in CartHandle
      /\ handles[h].backend = "remote" <=> handles[h] \in RemoteHandle
      /\ handles[h].backend = "cart" => l \in Local
      /\ handles[h].backend = "remote" => l \in 1 .. MaxRemote
      /\ CartOpen(h) => cart[l] \in Slot
  BY <1>0, HandleKinds
<1>2. /\ handles'[h].backend = handles[h].backend /\ handles'[h].local = handles[h].local
      /\ handles'[h].offset = p.off /\ handles'[h].why = p.why
      /\ \A g \in Handle \ {h} : handles'[g] = handles[g]
      /\ handles' \in [Handle -> {Free} \cup CartHandle \cup RemoteHandle]
  <2> DEFINE new == [handles[h] EXCEPT !.offset = p.off, !.why = p.why]
  <2>1. /\ handles[h] \in CartHandle => new \in CartHandle
        /\ handles[h] \in RemoteHandle => new \in RemoteHandle
        /\ new.backend = handles[h].backend /\ new.local = handles[h].local
        /\ new.offset = p.off /\ new.why = p.why
    BY <1>0, <1>1 DEF CartHandle, RemoteHandle
  <2>2. handles' = [handles EXCEPT ![h] = new]
    BY <1>0 DEF Becomes, FileShape
  <2> HIDE DEF new
  <2> QED
    BY <1>0, <1>1, <2>1, <2>2 DEF FileShape
<1>3. events' \subseteq {"lost", "reset", "driver", "torn"} /\ (Undisturbed' <=> Undisturbed)
      /\ (events' \subseteq {"torn"} => events \subseteq {"torn"})
  BY <1>0 DEF FileShape, Undisturbed
<1>4. \A g \in Handle : InUse(g)' <=> InUse(g)
  BY <1>2 DEF InUse
<1>5. CASE handles[h].backend = "cart"
  <2> DEFINE slot == [cart[l] EXCEPT !.offset = p.pos, !.flushed = Flushed(@, wrote)]
  <2>1. l \in Local /\ CartOpen(h) /\ cart[l] \in Slot
    BY <1>1, <1>5 DEF RemoteOpen
  <2>2. /\ slot \in Slot /\ slot.open = TRUE /\ slot.write = cart[l].write
        /\ slot.offset = p.pos /\ slot.flushed = Flushed(cart[l].flushed, wrote)
    BY <1>0, <2>1 DEF Slot, Flushed
  <2>3. cart' = [cart EXCEPT ![l] = slot] /\ remote' = remote
    BY <1>0, <1>5, <2>1 DEF Becomes, FileShape
  <2>a. cart[l].open
    BY <2>1 DEF CartOpen
  <2> HIDE DEF slot
  <2>4. /\ cart' \in [Local -> {Shut} \cup Slot] /\ cart'[l] = slot
        /\ \A k \in Local \ {l} : cart'[k] = cart[k]
    BY <1>0, <2>1, <2>2, <2>3 DEF FileShape
  <2> HIDE DEF l
  <2>5. \A k \in Local : cart'[k].open <=> cart[k].open
    BY <2>1, <2>2, <2>4, <2>a
  <2>6. FileShape'
    BY <1>0, <1>2, <1>3, <2>3, <2>4 DEF FileShape
  <2>7. \A g \in Handle : /\ handles'[g].backend = handles[g].backend
                          /\ handles'[g].local = handles[g].local
    BY <1>2
  <2>b. \A g \in Handle : CartOpen(g)' /\ InUse(g) <=> CartOpen(g) /\ InUse(g)
    BY <1>0, <2>5, <2>7, HandleKinds DEF CartOpen
  <2>c. \A g \in Handle : RemoteOpen(g)' <=> RemoteOpen(g)
    BY <2>3, <2>7 DEF RemoteOpen
  <2>8. Distinct'
    BY <1>0, <1>3, <1>4, <2>7, <2>b, <2>c, ZenonT(40) DEF Distinct
  <2>9. Covered'
    BY <1>0, <1>3, <2>3, <2>5, <2>7 DEF Covered
  <2>10. PositionsAgree'
    <3> SUFFICES ASSUME NEW g \in Handle, InUse(g)', handles'[g].why = {}, Undisturbed,
                        (CartOpen(g) \/ RemoteOpen(g))'
                 PROVE  handles'[g].offset = Pos(g)'
      BY <1>3, Zenon DEF PositionsAgree, Undisturbed
    <3>1. CASE g = h
      BY <1>2, <1>5, <2>2, <2>4, <3>1 DEF Pos, Agrees, l
    <3>2. CASE g # h
      <4>1. InUse(g) /\ (CartOpen(g) \/ RemoteOpen(g)) /\ handles'[g] = handles[g]
        BY <1>2, <1>4, <2>b, <2>c, <3>2
      <4>2. handles[g].offset = Pos(g)
        BY <1>0, <4>1 DEF PositionsAgree, Undisturbed
      <4>3. handles[g].backend = "cart" => handles[g].local # l /\ handles[g].local \in Local
        BY <1>0, <1>5, <3>2, <4>1, OwnSlot, HandleKinds DEF l
      <4>4. Pos(g)' = Pos(g)
        BY <2>3, <2>4, <4>1, <4>3 DEF Pos
      <4> QED
        BY <4>1, <4>2, <4>4
    <3> QED
      BY <3>1, <3>2
  <2>11. \A k \in Local : /\ cart'[k].open = cart[k].open
                          /\ cart[k].open => cart'[k].write = cart[k].write
                          /\ cart[k].open /\ ~cart[k].flushed => ~cart'[k].flushed
    <3>1. cart[l].open = TRUE /\ (~cart[l].flushed => ~slot.flushed)
      BY <2>1, <2>2 DEF Slot, Flushed
    <3> QED
      BY <2>1, <2>2, <2>4, <3>1
  <2>12. wrote => ~cart'[l].flushed
    BY <2>2, <2>4 DEF Flushed
  <2> QED
    BY <2>6, <2>8, <2>9, <2>10, <2>11, <2>12 DEF l
<1>6. CASE handles[h].backend = "remote"
  <2>1. l \in DOMAIN remote /\ l \in 1 .. MaxRemote /\ ~CartOpen(h)
    BY <1>1, <1>6 DEF RemoteOpen, CartOpen
  <2>2. remote' = Put(remote, l, p.pos) /\ cart' = cart
    BY <1>6 DEF Becomes
  <2> HIDE DEF l
  <2>3. /\ DOMAIN remote' = DOMAIN remote /\ remote'[l] = p.pos
        /\ \A r \in DOMAIN remote \ {l} : remote'[r] = remote[r]
    BY <2>1, <2>2 DEF Put
  <2>4. FileShape'
    BY <1>0, <1>2, <1>3, <2>1, <2>2, <2>3 DEF FileShape
  <2>5. \A g \in Handle : /\ handles'[g].backend = handles[g].backend
                          /\ handles'[g].local = handles[g].local
    BY <1>2
  <2>6. \A g \in Handle : (CartOpen(g)' <=> CartOpen(g)) /\ (RemoteOpen(g)' <=> RemoteOpen(g))
    BY <2>2, <2>3, <2>5 DEF CartOpen, RemoteOpen
  <2>7. Distinct'
    BY <1>0, <1>3, <1>4, <2>5, <2>6, ZenonT(40) DEF Distinct
  <2>8. Covered'
    BY <1>0, <1>3, <2>2, <2>3, <2>5 DEF Covered
  <2>9. PositionsAgree'
    <3> SUFFICES ASSUME NEW g \in Handle, InUse(g)', handles'[g].why = {}, Undisturbed,
                        (CartOpen(g) \/ RemoteOpen(g))'
                 PROVE  handles'[g].offset = Pos(g)'
      BY <1>3, Zenon DEF PositionsAgree, Undisturbed
    <3>1. CASE g = h
      BY <1>2, <1>6, <2>3, <3>1 DEF Pos, Agrees, l
    <3>2. CASE g # h
      <4>1. InUse(g) /\ (CartOpen(g) \/ RemoteOpen(g)) /\ handles'[g] = handles[g]
        BY <1>2, <1>4, <2>6, <3>2
      <4>2. handles[g].offset = Pos(g)
        BY <1>0, <4>1 DEF PositionsAgree, Undisturbed
      <4>3. handles[g].backend # "cart" => RemoteOpen(g) /\ handles[g].local # l
        <5>1. ASSUME handles[g].backend # "cart"
              PROVE  RemoteOpen(g) /\ handles[g].local # l
          <6>1. RemoteOpen(g) /\ handles[g].backend = handles[h].backend
            BY <1>6, <4>1, <5>1 DEF CartOpen, RemoteOpen
          <6> QED
            BY <1>0, <3>2, <4>1, <6>1, OwnSlot DEF l
        <5> QED
          BY <5>1
      <4>4. Pos(g)' = Pos(g)
        BY <2>2, <2>3, <4>1, <4>3 DEF Pos, RemoteOpen
      <4> QED
        BY <4>1, <4>2, <4>4
    <3> QED
      BY <3>1, <3>2
  <2> QED
    BY <2>1, <2>2, <2>4, <2>7, <2>8, <2>9
<1> QED
  BY <1>1, <1>5, <1>6 DEF CartHandle, RemoteHandle

\* A free slot is taken for what the backend opened, ...
LEMMA HandleTaken ==
  ASSUME FileInv, FreeHandles # {}, NEW backend \in {"cart", "remote"}, NEW local,
         backend = "cart" => local \in Local, backend = "remote" => local \in 1 .. MaxRemote,
         Opened(backend, local)
  PROVE  \E f \in Handle :
           /\ ~InUse(f) /\ InUse(f)' /\ handles'[f].backend = backend /\ handles'[f].local = local
           /\ handles'[f].offset = 0
           /\ \A g \in Handle \ {f} : handles'[g] = handles[g] /\ (InUse(g)' <=> InUse(g))
           /\ handles' \in [Handle -> {Free} \cup CartHandle \cup RemoteHandle]
<1>1. First(FreeHandles) \in FreeHandles
  <2>1. FreeHandles \in SUBSET Nat
    BY FileAssumption DEF FreeHandles, Handle
  <2> QED
    BY <2>1, FirstIn
<1>2. PICK f \in Handle : f = First(FreeHandles) /\ ~InUse(f)
  BY <1>1 DEF FreeHandles
<1> DEFINE new == [backend |-> backend, local |-> local, offset |-> 0, why |-> {}]
<1>3. 0 \in Position /\ {} \in Whys
  BY FileAssumption DEF Position, Whys
<1>4. /\ new \in CartHandle \cup RemoteHandle
      /\ new.backend = backend /\ new.local = local /\ new.offset = 0
  BY <1>3 DEF CartHandle, RemoteHandle
<1>5. handles' = [handles EXCEPT ![f] = new]
  BY <1>2 DEF Opened
<1> HIDE DEF new
<1>6. /\ handles' \in [Handle -> {Free} \cup CartHandle \cup RemoteHandle]
      /\ handles'[f] = new /\ \A g \in Handle \ {f} : handles'[g] = handles[g]
  BY <1>2, <1>4, <1>5 DEF FileInv, FileShape
<1>7. InUse(f)' /\ \A g \in Handle \ {f} : InUse(g)' <=> InUse(g)
  BY <1>4, <1>6 DEF InUse
<1> QED
  BY <1>2, <1>4, <1>6, <1>7

\* ... and is free again.
LEMMA HandleFreed ==
  ASSUME FileShape, NEW h \in Handle, NEW done, Closed(h, done)
  PROVE  /\ handles' \in [Handle -> {Free} \cup CartHandle \cup RemoteHandle]
         /\ ~InUse(h)' /\ handles'[h].backend = "none"
         /\ \A g \in Handle \ {h} : handles'[g] = handles[g] /\ (InUse(g)' <=> InUse(g))
BY DEF FileShape, Closed, InUse, Free

\* The other handles are as they were.
LEMMA HandleGone ==
  ASSUME FileInv, NEW h \in Handle, NEW done, Closed(h, done), Undisturbed' <=> Undisturbed,
         \A g \in Handle \ {h} : Undisturbed /\ InUse(g) =>
           (CartOpen(g) \/ RemoteOpen(g))' /\ Pos(g)' = Pos(g)
  PROVE  Distinct' /\ PositionsAgree'
<1>1. /\ ~InUse(h)' /\ handles'[h].backend = "none"
      /\ \A g \in Handle \ {h} : handles'[g] = handles[g] /\ (InUse(g)' <=> InUse(g))
  BY HandleFreed DEF FileInv
<1>2. Distinct'
  <2> SUFFICES ASSUME Undisturbed PROVE Distinct'
    BY DEF Distinct
  <2>1. \A g \in Handle : InUse(g)' => (CartOpen(g) \/ RemoteOpen(g))'
    BY <1>1
  <2>2. ASSUME NEW g \in Handle, NEW k \in Handle, InUse(g)',
               handles'[g].backend = handles'[k].backend, handles'[g].local = handles'[k].local
        PROVE  g = k
    <3>1. InUse(k)'
      BY <2>2 DEF InUse
    <3>2. InUse(g) /\ handles'[g] = handles[g] /\ handles'[k] = handles[k]
      BY <1>1, <2>2, <3>1
    <3> QED
      BY <2>2, <3>2 DEF FileInv, Distinct
  <2> QED
    BY <2>1, <2>2 DEF Distinct
<1>3. PositionsAgree'
  <2> SUFFICES ASSUME NEW g \in Handle, InUse(g)', handles'[g].why = {}, Undisturbed
               PROVE  handles'[g].offset = Pos(g)'
    BY DEF PositionsAgree, Undisturbed
  <2>1. InUse(g) /\ handles'[g] = handles[g] /\ Pos(g)' = Pos(g)
    BY <1>1
  <2>2. CartOpen(g) \/ RemoteOpen(g)
    BY <2>1 DEF FileInv, Distinct
  <2> QED
    BY <2>1, <2>2 DEF FileInv, PositionsAgree, Undisturbed
<1> QED
  BY <1>2, <1>3

LEMMA FileAtFirst == FileInit => FileInv
<1> SUFFICES ASSUME FileInit PROVE FileInv
  OBVIOUS
<1>1. DOMAIN <<>> = {}
  OBVIOUS
<1>2. \A h \in Handle : ~InUse(h)
  BY DEF FileInit, InUse, Free
<1>3. \A l \in Local : ~cart[l].open
  BY DEF FileInit, Shut
<1>4. FileShape
  BY <1>1 DEF FileInit, FileShape
<1> QED
  BY <1>1, <1>2, <1>3, <1>4
  DEF FileInit, FileInv, Distinct, PositionsAgree, Covered, Saved

LEMMA FileStep == FileInv /\ [FileNext]_fileVars => FileInv'
<1> SUFFICES ASSUME FileInv, [FileNext]_fileVars PROVE FileInv'
  OBVIOUS
<1>0. FileShape /\ Distinct /\ PositionsAgree /\ Covered /\ Saved
  BY DEF FileInv
<1>a. \A h \in Handle : InUse(h) =>
        /\ handles[h].backend \in {"cart", "remote"}
        /\ handles[h].backend = "cart" => handles[h].local \in Local
        /\ handles[h].backend = "remote" => handles[h].local \in 1 .. MaxRemote
  BY <1>0, HandleKinds DEF CartHandle, RemoteHandle
<1>1. ASSUME NEW write \in BOOLEAN, OpenCart(write) PROVE FileInv'
  <2> DEFINE closed == {k \in Local : ~cart[k].open}
  <2>1. PICK l \in Local : ~cart[l].open /\ l = First(closed)
    <3>1. closed \in SUBSET Nat /\ closed # {}
      BY <1>1, FileAssumption DEF OpenCart, Local
    <3>2. First(closed) \in closed
      BY <3>1, FirstIn
    <3> QED
      BY <3>2
  <2>2. /\ Opened("cart", l) /\ UNCHANGED <<remote, unsaved, events>> /\ FreeHandles # {}
        /\ cart' = [cart EXCEPT ![l] = [open |-> TRUE, write |-> write, offset |-> 0,
                                        flushed |-> FALSE]]
    BY <1>1, <2>1 DEF OpenCart
  <2>3. PICK f \in Handle :
          /\ ~InUse(f) /\ InUse(f)' /\ handles'[f].backend = "cart" /\ handles'[f].local = l
          /\ handles'[f].offset = 0
          /\ \A g \in Handle \ {f} : handles'[g] = handles[g] /\ (InUse(g)' <=> InUse(g))
          /\ handles' \in [Handle -> {Free} \cup CartHandle \cup RemoteHandle]
    BY <2>2, HandleTaken
  <2>4. 0 \in Position
    BY FileAssumption DEF Position
  <2>5. /\ cart' \in [Local -> {Shut} \cup Slot]
        /\ cart'[l].open /\ cart'[l].offset = 0
        /\ \A k \in Local \ {l} : cart'[k] = cart[k]
    BY <1>0, <2>2, <2>4 DEF FileShape, Slot
  <2>6. FileShape'
    BY <1>0, <2>2, <2>3, <2>5 DEF FileShape
  <2>7. \A g \in Handle : g # f /\ InUse(g) =>
          /\ CartOpen(g) => handles[g].local # l
          /\ CartOpen(g)' <=> CartOpen(g) \/ (handles[g].backend = "cart" /\ handles[g].local = l)
          /\ RemoteOpen(g)' <=> RemoteOpen(g)
    BY <1>a, <2>1, <2>2, <2>3, <2>5 DEF CartOpen, RemoteOpen
  <2>8. CartOpen(f)'
    BY <2>3, <2>5 DEF CartOpen
  <2>9. Distinct'
    <3> SUFFICES ASSUME Undisturbed PROVE Distinct'
      BY <2>2 DEF Distinct, Undisturbed
    <3>1. \A g \in Handle : InUse(g) => CartOpen(g) \/ RemoteOpen(g)
      BY <1>0 DEF Distinct
    <3>2. \A g \in Handle : InUse(g)' => (CartOpen(g) \/ RemoteOpen(g))'
      BY <2>3, <2>7, <2>8, <3>1
    <3>3. \A g \in Handle : g # f /\ InUse(g) /\ handles[g].backend = "cart" =>
            handles[g].local # l
      BY <2>7, <3>1 DEF RemoteOpen
    <3>4. ASSUME NEW g \in Handle, NEW h \in Handle, InUse(g)',
                 handles'[g].backend = handles'[h].backend, handles'[g].local = handles'[h].local
          PROVE  g = h
      <4>1. InUse(h)'
        BY <3>4 DEF InUse
      <4>2. CASE g # f /\ h # f
        BY <1>0, <2>3, <3>4, <4>2 DEF Distinct
      <4>3. CASE g = f /\ h # f
        BY <2>3, <3>3, <3>4, <4>1, <4>3
      <4>4. CASE g # f /\ h = f
        BY <2>3, <3>3, <3>4, <4>4
      <4> QED
        BY <4>2, <4>3, <4>4
    <3> QED
      BY <3>2, <3>4 DEF Distinct
  <2>10. PositionsAgree'
    <3> SUFFICES ASSUME NEW g \in Handle, InUse(g)', handles'[g].why = {}, Undisturbed,
                        (CartOpen(g) \/ RemoteOpen(g))'
                 PROVE  handles'[g].offset = Pos(g)'
      BY <2>2 DEF PositionsAgree, Undisturbed
    <3>1. CASE g = f
      BY <2>3, <2>5, <3>1 DEF Pos
    <3>2. CASE g # f
      <4>1. InUse(g) /\ (CartOpen(g) \/ RemoteOpen(g)) /\ handles'[g] = handles[g]
        BY <1>0, <2>3, <3>2 DEF Distinct
      <4>2. handles[g].offset = Pos(g)
        BY <1>0, <2>3, <4>1 DEF PositionsAgree, Undisturbed
      <4>3. handles[g].backend = "cart" => handles[g].local # l /\ handles[g].local \in Local
        BY <1>a, <2>7, <3>2, <4>1 DEF RemoteOpen
      <4>4. Pos(g)' = Pos(g)
        BY <2>2, <2>5, <4>1, <4>3 DEF Pos
      <4> QED
        BY <4>1, <4>2, <4>4
    <3> QED
      BY <3>1, <3>2
  <2>11. Covered'
    <3>1. \A g \in Handle : InUse(g) => handles'[g] = handles[g]
      BY <2>3
    <3>2. \A g \in Handle : handles[g].backend \in {"cart", "remote"} => InUse(g)
      BY DEF InUse
    <3> QED
      BY <1>0, <2>2, <2>3, <2>5, <3>1, <3>2 DEF Covered
  <2>12. Saved'
    BY <1>0, <2>1, <2>2, <2>5 DEF Saved
  <2> QED
    BY <2>6, <2>9, <2>10, <2>11, <2>12 DEF FileInv
<1>2. ASSUME NEW r \in 1 .. MaxRemote, OpenRemote(r) PROVE FileInv'
  <2>1. /\ remote' = Put(remote, r, 0) /\ r \notin DOMAIN remote /\ FreeHandles # {}
        /\ UNCHANGED <<cart, unsaved>> /\ 0 \in Position
        /\ \/ Opened("remote", r) /\ events' = events
           \/ handles' = handles /\ events' = events \cup {"lost"}
    BY <1>2, FileAssumption DEF OpenRemote, Position
  <2>2. /\ DOMAIN remote' = DOMAIN remote \cup {r} /\ remote'[r] = 0
        /\ \A s \in DOMAIN remote : remote'[s] = remote[s]
    BY <2>1 DEF Put
  <2>3. \A s \in DOMAIN remote' : s \in 1 .. MaxRemote /\ remote'[s] \in Position
    BY <1>0, <2>1, <2>2 DEF FileShape
  <2>4. CASE handles' = handles /\ events' = events \cup {"lost"}
    <3>1. FileShape'
      BY <1>0, <2>1, <2>3, <2>4 DEF FileShape
    <3>2. \A g \in Handle : /\ InUse(g)' <=> InUse(g)
                            /\ CartOpen(g) => CartOpen(g)'
                            /\ RemoteOpen(g) => RemoteOpen(g)'
      BY <2>1, <2>2, <2>4 DEF InUse, CartOpen, RemoteOpen
    <3>3. Undisturbed' <=> Undisturbed
      BY <2>4 DEF Undisturbed
    <3>4. Distinct'
      <4> SUFFICES ASSUME Undisturbed PROVE Distinct'
        BY <3>3 DEF Distinct
      <4>1. \A g \in Handle : InUse(g)' => CartOpen(g)' \/ RemoteOpen(g)'
        BY <1>0, <3>2 DEF Distinct
      <4>2. \A g, h \in Handle :
              InUse(g)' /\ handles'[g].backend = handles'[h].backend
                /\ handles'[g].local = handles'[h].local => g = h
        BY <1>0, <2>4, <3>2 DEF Distinct
      <4> QED
        BY <4>1, <4>2 DEF Distinct
    <3>5. PositionsAgree'
      <4> SUFFICES ASSUME NEW g \in Handle, InUse(g), handles[g].why = {}, Undisturbed
                   PROVE  handles[g].offset = Pos(g)'
        BY <2>4, <3>2, <3>3 DEF PositionsAgree, Undisturbed
      <4>1. handles[g].offset = Pos(g) /\ (CartOpen(g) \/ RemoteOpen(g))
        BY <1>0 DEF PositionsAgree, Distinct, Undisturbed
      <4>2. Pos(g)' = Pos(g)
        BY <2>1, <2>2, <2>4, <4>1 DEF Pos, CartOpen, RemoteOpen
      <4> QED
        BY <4>1, <4>2
    <3> QED
      BY <2>4, <3>1, <3>4, <3>5 DEF FileInv, Covered, Saved
  <2>5. CASE Opened("remote", r) /\ events' = events
    <3>1. PICK f \in Handle :
            /\ ~InUse(f) /\ InUse(f)' /\ handles'[f].backend = "remote" /\ handles'[f].local = r
            /\ handles'[f].offset = 0
            /\ \A g \in Handle \ {f} : handles'[g] = handles[g] /\ (InUse(g)' <=> InUse(g))
            /\ handles' \in [Handle -> {Free} \cup CartHandle \cup RemoteHandle]
      BY <2>1, <2>5, HandleTaken
    <3>2. FileShape'
      BY <1>0, <2>1, <2>3, <2>5, <3>1 DEF FileShape
    <3>3. \A g \in Handle : g # f /\ InUse(g) =>
            /\ CartOpen(g)' <=> CartOpen(g)
            /\ RemoteOpen(g) => RemoteOpen(g)' /\ handles[g].local # r
      BY <2>1, <2>2, <3>1 DEF CartOpen, RemoteOpen
    <3>4. RemoteOpen(f)'
      BY <2>2, <3>1 DEF RemoteOpen
    <3>5. Distinct'
      <4> SUFFICES ASSUME Undisturbed PROVE Distinct'
        BY <2>5 DEF Distinct, Undisturbed
      <4>1. \A g \in Handle : InUse(g) => CartOpen(g) \/ RemoteOpen(g)
        BY <1>0 DEF Distinct
      <4>2. \A g \in Handle : InUse(g)' => (CartOpen(g) \/ RemoteOpen(g))'
        BY <3>1, <3>3, <3>4, <4>1
      <4>3. \A g \in Handle : g # f /\ InUse(g) /\ handles[g].backend = "remote" =>
              handles[g].local # r
        BY <3>3, <4>1 DEF CartOpen
      <4>4. ASSUME NEW g \in Handle, NEW h \in Handle, InUse(g)',
                   handles'[g].backend = handles'[h].backend,
                   handles'[g].local = handles'[h].local
            PROVE  g = h
        <5>1. InUse(h)'
          BY <4>4 DEF InUse
        <5>2. CASE g # f /\ h # f
          BY <1>0, <3>1, <4>4, <5>2 DEF Distinct
        <5>3. CASE g = f /\ h # f
          BY <3>1, <4>3, <4>4, <5>1, <5>3
        <5>4. CASE g # f /\ h = f
          BY <3>1, <4>3, <4>4, <5>4
        <5> QED
          BY <5>2, <5>3, <5>4
      <4> QED
        BY <4>2, <4>4 DEF Distinct
    <3>6. PositionsAgree'
      <4> SUFFICES ASSUME NEW g \in Handle, InUse(g)', handles'[g].why = {}, Undisturbed
                   PROVE  handles'[g].offset = Pos(g)'
        BY <2>5 DEF PositionsAgree, Undisturbed
      <4>1. CASE g = f
        BY <2>2, <3>1, <4>1 DEF Pos
      <4>2. CASE g # f
        <5>1. InUse(g) /\ (CartOpen(g) \/ RemoteOpen(g)) /\ handles'[g] = handles[g]
          BY <1>0, <3>1, <4>2 DEF Distinct
        <5>2. handles[g].offset = Pos(g)
          BY <1>0, <3>1, <5>1 DEF PositionsAgree, Undisturbed
        <5>3. Pos(g)' = Pos(g)
          BY <2>1, <2>2, <5>1 DEF Pos, CartOpen, RemoteOpen
        <5> QED
          BY <5>1, <5>2, <5>3
      <4> QED
        BY <4>1, <4>2
    <3>7. Covered'
      <4>1. \A g \in Handle : InUse(g) => handles'[g] = handles[g]
        BY <3>1
      <4>2. \A g \in Handle : handles[g].backend \in {"cart", "remote"} => InUse(g)
        BY DEF InUse
      <4> QED
        BY <1>0, <2>1, <2>2, <2>5, <3>1, <4>1, <4>2 DEF Covered
    <3>8. Saved'
      BY <1>0, <2>1, <2>5 DEF Saved
    <3> QED
      BY <3>2, <3>5, <3>6, <3>7, <3>8 DEF FileInv
  <2> QED
    BY <2>1, <2>4, <2>5
<1>3. ASSUME NEW h \in Handle, NEW done \in BOOLEAN, CloseCart(h, done) PROVE FileInv'
  <2>1. PICK l \in Local : l = handles[h].local /\ handles[h].backend = "cart" /\ cart[l].open
    BY <1>a, <1>3 DEF CloseCart, CartOpen
  <2>2. /\ InUse(h) /\ Closed(h, done) /\ remote' = remote /\ cart' = [cart EXCEPT ![l] = Shut]
        /\ IF cart[l].write /\ ~cart[l].flushed
           THEN unsaved' = (unsaved /\ ~done) /\ events' = IF done THEN events
                                                           ELSE events \cup {"torn"}
           ELSE done /\ UNCHANGED <<unsaved, events>>
    BY <1>3, <2>1 DEF CloseCart
  <2>3. events' = events \/ events' = events \cup {"torn"}
    BY <2>2
  <2>4. (Undisturbed' <=> Undisturbed) /\ (events' \subseteq {"torn"} => events \subseteq {"torn"})
    BY <2>3 DEF Undisturbed
  <2>5. /\ cart' \in [Local -> {Shut} \cup Slot] /\ ~cart'[l].open
        /\ \A k \in Local \ {l} : cart'[k] = cart[k]
    BY <1>0, <2>2 DEF FileShape, Shut
  <2>6. /\ handles' \in [Handle -> {Free} \cup CartHandle \cup RemoteHandle]
        /\ ~InUse(h)' /\ handles'[h].backend = "none"
        /\ \A g \in Handle \ {h} : handles'[g] = handles[g] /\ (InUse(g)' <=> InUse(g))
    BY <1>0, <2>2, HandleFreed
  <2>7. FileShape'
    <3>1. unsaved' \in BOOLEAN
      BY <1>0, <2>2, Zenon DEF FileShape
    <3> QED
      BY <1>0, <2>2, <2>3, <2>5, <2>6, <3>1 DEF FileShape
  <2>8. ASSUME NEW g \in Handle \ {h}, Undisturbed, InUse(g)
        PROVE  (CartOpen(g) \/ RemoteOpen(g))' /\ Pos(g)' = Pos(g)
    <3>1. CartOpen(g) \/ RemoteOpen(g)
      BY <1>0, <2>8 DEF Distinct
    <3>2. handles'[g] = handles[g]
      BY <2>6
    <3>3. CASE handles[g].backend = "cart"
      <4>1. handles[g].local \in Local \ {l}
        BY <1>0, <1>a, <2>1, <2>2, <2>8, <3>3, OwnSlot
      <4> QED
        BY <2>5, <3>1, <3>2, <3>3, <4>1 DEF CartOpen, RemoteOpen, Pos
    <3>4. CASE handles[g].backend # "cart"
      BY <2>2, <3>1, <3>2, <3>4 DEF CartOpen, RemoteOpen, Pos
    <3> QED
      BY <3>3, <3>4
  <2>9. Distinct' /\ PositionsAgree'
    BY <2>2, <2>4, <2>8, HandleGone
  <2>10. Covered'
    <3> SUFFICES ASSUME events \subseteq {"torn"} PROVE Covered'
      BY <2>4 DEF Covered
    <3>1. ASSUME NEW k \in Local, cart'[k].open
          PROVE  \E g \in Handle : handles'[g].backend = "cart" /\ handles'[g].local = k
      <4>1. k # l /\ cart[k].open
        BY <2>5, <3>1
      <4>2. PICK g \in Handle : handles[g].backend = "cart" /\ handles[g].local = k
        BY <1>0, <4>1 DEF Covered
      <4>3. g # h
        BY <2>1, <4>1, <4>2
      <4> QED
        BY <2>6, <4>2, <4>3
    <3>2. ASSUME NEW r \in DOMAIN remote'
          PROVE  \E g \in Handle : handles'[g].backend = "remote" /\ handles'[g].local = r
      <4>1. PICK g \in Handle : handles[g].backend = "remote" /\ handles[g].local = r
        BY <1>0, <2>2, <3>2 DEF Covered
      <4>2. g # h
        BY <2>1, <4>1
      <4> QED
        BY <2>6, <4>1, <4>2
    <3> QED
      BY <3>1, <3>2 DEF Covered
  <2>11. Saved'
    <3> SUFFICES ASSUME events' = {}, unsaved'
                 PROVE  \E k \in Local : cart'[k].open /\ cart'[k].write /\ ~cart'[k].flushed
      BY DEF Saved
    <3>1. ~(cart[l].write /\ ~cart[l].flushed)
      BY <2>2, Zenon
    <3>2. events = {} /\ unsaved
      BY <2>2, <3>1
    <3>3. PICK k \in Local : cart[k].open /\ cart[k].write /\ ~cart[k].flushed
      BY <1>0, <3>2 DEF Saved
    <3> QED
      BY <2>5, <3>1, <3>3
  <2> QED
    BY <2>7, <2>9, <2>10, <2>11 DEF FileInv
<1>4. ASSUME NEW h \in Handle, NEW done \in BOOLEAN, CloseRemote(h, done) PROVE FileInv'
  <2>1. PICK r \in DOMAIN remote : r = handles[h].local /\ handles[h].backend = "remote"
    BY <1>4 DEF CloseRemote, RemoteOpen
  <2>2. /\ InUse(h) /\ Closed(h, done) /\ UNCHANGED <<cart, unsaved>>
        /\ \/ remote' = Drop(remote, r) /\ events' = events
           \/ remote' = remote /\ events' = events \cup {"lost"}
    BY <1>4, <2>1 DEF CloseRemote
  <2>3. Undisturbed' <=> Undisturbed
    BY <2>2 DEF Undisturbed
  <2>4. /\ DOMAIN remote \ {r} \subseteq DOMAIN remote' /\ DOMAIN remote' \subseteq DOMAIN remote
        /\ \A s \in DOMAIN remote' : remote'[s] = remote[s]
        /\ events' \subseteq {"torn"} => events \subseteq {"torn"} /\ r \notin DOMAIN remote'
        /\ events' = {} => events = {}
    BY <2>2 DEF Drop
  <2>5. /\ handles' \in [Handle -> {Free} \cup CartHandle \cup RemoteHandle]
        /\ ~InUse(h)' /\ handles'[h].backend = "none"
        /\ \A g \in Handle \ {h} : handles'[g] = handles[g] /\ (InUse(g)' <=> InUse(g))
    BY <1>0, <2>2, HandleFreed
  <2>6. FileShape'
    BY <1>0, <2>2, <2>4, <2>5 DEF FileShape
  <2>7. ASSUME NEW g \in Handle \ {h}, Undisturbed, InUse(g)
        PROVE  (CartOpen(g) \/ RemoteOpen(g))' /\ Pos(g)' = Pos(g)
    <3>1. CartOpen(g) \/ RemoteOpen(g)
      BY <1>0, <2>7 DEF Distinct
    <3>2. handles'[g] = handles[g]
      BY <2>5
    <3>3. CASE handles[g].backend = "remote"
      <4>1. handles[g].local \in DOMAIN remote \ {r}
        BY <1>0, <2>1, <2>2, <2>7, <3>1, <3>3, OwnSlot DEF CartOpen, RemoteOpen
      <4> QED
        BY <2>4, <3>2, <3>3, <4>1 DEF RemoteOpen, Pos
    <3>4. CASE handles[g].backend # "remote"
      BY <2>2, <3>1, <3>2, <3>4 DEF CartOpen, RemoteOpen, Pos
    <3> QED
      BY <3>3, <3>4
  <2>8. Distinct' /\ PositionsAgree'
    BY <2>2, <2>3, <2>7, HandleGone
  <2>9. Covered'
    <3> SUFFICES ASSUME events' \subseteq {"torn"} PROVE Covered'
      BY DEF Covered
    <3>1. ASSUME NEW k \in Local, cart'[k].open
          PROVE  \E g \in Handle : handles'[g].backend = "cart" /\ handles'[g].local = k
      <4>1. PICK g \in Handle : handles[g].backend = "cart" /\ handles[g].local = k
        BY <1>0, <2>2, <2>4, <3>1 DEF Covered
      <4>2. g # h
        BY <2>1, <4>1
      <4> QED
        BY <2>5, <4>1, <4>2
    <3>2. ASSUME NEW s \in DOMAIN remote'
          PROVE  \E g \in Handle : handles'[g].backend = "remote" /\ handles'[g].local = s
      <4>1. PICK g \in Handle : handles[g].backend = "remote" /\ handles[g].local = s
        BY <1>0, <2>4, <3>2 DEF Covered
      <4>2. g # h
        BY <2>1, <2>4, <3>2, <4>1
      <4> QED
        BY <2>5, <4>1, <4>2
    <3> QED
      BY <3>1, <3>2 DEF Covered
  <2>10. Saved'
    BY <1>0, <2>2, <2>4 DEF Saved
  <2> QED
    BY <2>6, <2>8, <2>9, <2>10 DEF FileInv
<1>5. ASSUME NEW h \in Handle, CloseStale(h) PROVE FileInv'
  <2>1. /\ InUse(h) /\ ~CartOpen(h) /\ ~RemoteOpen(h) /\ Closed(h, FALSE)
        /\ UNCHANGED <<cart, remote, unsaved, events>>
    BY <1>5 DEF CloseStale
  <2>2. ~Undisturbed
    BY <1>0, <2>1 DEF Distinct
  <2>3. handles' \in [Handle -> {Free} \cup CartHandle \cup RemoteHandle]
    BY <1>0, <2>1, HandleFreed
  <2>4. FileShape'
    BY <1>0, <2>1, <2>3 DEF FileShape
  <2>5. ~(events \subseteq {"torn"})
    BY <2>2 DEF Undisturbed
  <2> QED
    BY <2>1, <2>2, <2>4, <2>5
    DEF FileInv, Distinct, PositionsAgree, Undisturbed, Covered, Saved
<1>6. CASE ResetBackends \/ SetDriver
  <2>1. FileShape'
    BY <1>0, <1>6 DEF FileShape, ResetBackends, SetDriver
  <2>2. ~(events' \cap {"driver", "reset"} = {})
    BY <1>6 DEF ResetBackends, SetDriver
  <2>3. ~(events' \subseteq {"torn"})
    BY <2>2
  <2> QED
    BY <2>1, <2>2, <2>3 DEF FileInv, Distinct, PositionsAgree, Undisturbed, Covered, Saved
<1>7. ASSUME NEW h \in Handle, Flush(h) \/ Truncate(h) PROVE FileInv'
  <2>1. PICK l \in Local : l = handles[h].local /\ handles[h].backend = "cart" /\ cart[l].open
    BY <1>a, <1>7 DEF Flush, Truncate, Live, CartOpen
  <2>2. PICK flushed \in BOOLEAN :
          /\ cart' = [cart EXCEPT ![l].flushed = flushed]
          /\ IF flushed THEN unsaved' = FALSE ELSE unsaved' = TRUE /\ cart[l].write
          /\ UNCHANGED <<handles, remote, events>>
    BY <1>7, <2>1 DEF Flush, Truncate, Flushed, Live
  <2>3. cart[l] \in Slot
    BY <1>0, <2>1 DEF FileShape, Shut
  <2>4. /\ [cart[l] EXCEPT !.flushed = flushed] \in Slot
        /\ [cart[l] EXCEPT !.flushed = flushed].flushed = flushed
        /\ [cart[l] EXCEPT !.flushed = flushed].open
        /\ [cart[l] EXCEPT !.flushed = flushed].write = cart[l].write
        /\ [cart[l] EXCEPT !.flushed = flushed].offset = cart[l].offset
    BY <2>3 DEF Slot
  <2>5. /\ cart' \in [Local -> {Shut} \cup Slot]
        /\ cart'[l] = [cart[l] EXCEPT !.flushed = flushed]
        /\ \A k \in Local \ {l} : cart'[k] = cart[k]
    BY <1>0, <2>2, <2>4 DEF FileShape
  <2>6. \A k \in Local : (cart'[k].open <=> cart[k].open) /\ cart'[k].offset = cart[k].offset
    BY <2>1, <2>4, <2>5
  <2>7. FileShape'
    <3>1. unsaved' \in BOOLEAN
      BY <2>2, Zenon
    <3> QED
      BY <1>0, <2>2, <2>5, <3>1 DEF FileShape
  <2>8. \A g \in Handle : InUse(g) => /\ CartOpen(g)' <=> CartOpen(g)
                                      /\ RemoteOpen(g)' <=> RemoteOpen(g)
                                      /\ Pos(g)' = Pos(g)
    BY <1>a, <2>2, <2>6 DEF CartOpen, RemoteOpen, Pos
  <2>9. \A g \in Handle : InUse(g)' <=> InUse(g)
    BY <2>2 DEF InUse
  <2>10. Distinct'
    BY <1>0, <2>2, <2>8, <2>9, Zenon DEF Distinct, Undisturbed
  <2>11. PositionsAgree' /\ Covered'
    BY <1>0, <2>2, <2>6, <2>8, <2>9 DEF PositionsAgree, Covered
  <2>12. Saved'
    BY <2>1, <2>2, <2>4, <2>5 DEF Saved
  <2> QED
    BY <2>7, <2>10, <2>11, <2>12 DEF FileInv
<1>8. ASSUME NEW h \in Handle, NEW writes \in BOOLEAN, Live(h, writes),
             NEW p \in Pairs, Undisturbed => Agrees(p), ~p.ok => p.n = 0,
             TransferBecomes(h, p, writes)
      PROVE  FileInv'
  <2>1. /\ InUse(h) /\ (CartOpen(h) \/ RemoteOpen(h))
        /\ writes /\ CartOpen(h) => cart[handles[h].local].write
    BY <1>8 DEF Live
  <2>2. PICK wrote \in BOOLEAN : wrote = (writes /\ CartOpen(h) /\ p.ok /\ p.n > 0)
    OBVIOUS
  <2>3. /\ Becomes(h, p, wrote)
        /\ \/ unsaved' = (unsaved \/ (writes /\ CartOpen(h) /\ p.n > 0)) /\ events' = events
           \/ unsaved' = TRUE /\ events' = events \cup {"torn"}
    <3>1. Becomes(h, p, writes /\ CartOpen(h) /\ p.ok /\ p.n > 0)
      BY <1>8 DEF TransferBecomes
    <3>2. \/ unsaved' = (unsaved \/ (writes /\ CartOpen(h) /\ p.n > 0)) /\ events' = events
          \/ unsaved' = TRUE /\ events' = events \cup {"torn"}
      BY <1>8, Zenon DEF TransferBecomes
    <3> QED
      BY <2>2, <3>1, <3>2
  <2>4. unsaved' \in BOOLEAN /\ (events' = events \/ events' = events \cup {"torn"})
    BY <1>0, <2>3, Zenon DEF FileShape
  <2>5. /\ FileShape' /\ Distinct' /\ PositionsAgree' /\ Covered'
        /\ \A l \in Local : /\ cart'[l].open = cart[l].open
                            /\ cart[l].open => cart'[l].write = cart[l].write
                            /\ cart[l].open /\ ~cart[l].flushed => ~cart'[l].flushed
        /\ CartOpen(h) /\ wrote => ~cart'[handles[h].local].flushed
    BY <1>8, <2>1, <2>3, <2>4, WrittenBack
  <2>6. Saved'
    <3> SUFFICES ASSUME events' = {}, unsaved'
                 PROVE  \E l \in Local : cart'[l].open /\ cart'[l].write /\ ~cart'[l].flushed
      BY DEF Saved
    <3>1. events = {} /\ (unsaved \/ (writes /\ CartOpen(h) /\ p.n > 0))
      BY <2>3
    <3>2. CASE unsaved
      <4>1. PICK l \in Local : cart[l].open /\ cart[l].write /\ ~cart[l].flushed
        BY <1>0, <3>1, <3>2 DEF Saved
      <4> QED
        BY <2>5, <4>1
    <3>3. CASE writes /\ CartOpen(h) /\ p.n > 0
      <4>1. wrote
        BY <1>8, <2>2, <3>3 DEF Pairs
      <4>2. handles[h].local \in Local /\ cart[handles[h].local].open
        BY <1>a, <2>1, <3>3 DEF CartOpen
      <4> QED
        BY <2>1, <2>5, <3>3, <4>1, <4>2
    <3> QED
      BY <3>1, <3>2, <3>3
  <2> QED
    BY <2>5, <2>6 DEF FileInv
<1>9. ASSUME NEW h \in Handle, NEW asked \in 1 .. Size, NEW writes \in BOOLEAN,
             Transfer(h, asked, writes)
      PROVE  FileInv'
  <2>1. PICK p \in Transferred(Pair(h), asked, handles[h].backend) : TransferBecomes(h, p, writes)
    BY <1>9 DEF Transfer
  <2>2. Live(h, writes) /\ Pair(h) \in Pairs /\ (Undisturbed => Agrees(Pair(h))) /\ Pair(h).n = 0
    BY <1>9, PairOfHandle DEF Transfer, Live
  <2>3. p \in Pairs /\ (Agrees(Pair(h)) => Agrees(p)) /\ (~p.ok => p.n = 0)
    BY <2>2, TransferredPairs
  <2> QED
    BY <1>8, <2>1, <2>2, <2>3
<1>10. ASSUME NEW h \in Handle, NEW asked \in 1 .. Size, NEW o \in 0 .. Size,
              NEW writes \in BOOLEAN, TransferAt(h, asked, o, writes)
       PROVE  FileInv'
  <2>1. PICK p \in Positioned(Pair(h), asked, o, handles[h].backend) :
          TransferBecomes(h, p, writes)
    BY <1>10 DEF TransferAt
  <2>2. Live(h, writes) /\ Pair(h) \in Pairs /\ (Undisturbed => Agrees(Pair(h))) /\ Pair(h).n = 0
    BY <1>10, PairOfHandle DEF TransferAt, Live
  <2>3. o \in Position
    BY FileAssumption DEF Position
  <2>4. p \in Pairs /\ (Agrees(Pair(h)) => Agrees(p)) /\ (~p.ok => p.n = 0)
    BY <2>2, <2>3, PositionedPairs
  <2> QED
    BY <1>8, <2>1, <2>2, <2>4
<1>11. ASSUME NEW h \in Handle, NEW delta \in -1 .. Size, NEW whence \in {"set", "cur", "end"},
              Lseek(h, delta, whence)
       PROVE  FileInv'
  <2>1. PICK p \in Lsought(Pair(h), delta, whence, handles[h].backend) : Becomes(h, p, FALSE)
    BY <1>11 DEF Lseek
  <2>2. /\ InUse(h) /\ (CartOpen(h) \/ RemoteOpen(h)) /\ (whence = "set" => delta >= 0)
        /\ unsaved' = unsaved /\ events' = events
    BY <1>11 DEF Lseek, Live
  <2>3. Pair(h) \in Pairs /\ (Undisturbed => Agrees(Pair(h)))
    BY <2>2, PairOfHandle
  <2>4. p \in Pairs /\ (Agrees(Pair(h)) => Agrees(p))
    BY <2>2, <2>3, LsoughtPairs
  <2>5. unsaved' \in BOOLEAN
    BY <1>0, <2>2, Zenon DEF FileShape
  <2>6. /\ FileShape' /\ Distinct' /\ PositionsAgree' /\ Covered'
        /\ \A l \in Local : /\ cart'[l].open = cart[l].open
                            /\ cart[l].open => cart'[l].write = cart[l].write
                            /\ cart[l].open /\ ~cart[l].flushed => ~cart'[l].flushed
    BY <2>1, <2>2, <2>3, <2>4, <2>5, WrittenBack
  <2>7. Saved'
    BY <1>0, <2>2, <2>6 DEF Saved
  <2> QED
    BY <2>6, <2>7 DEF FileInv
<1>12. CASE UNCHANGED fileVars
  <2>1. UNCHANGED <<handles, cart, remote, unsaved, events>>
    BY <1>12 DEF fileVars
  <2>2. \A g \in Handle : /\ InUse(g)' <=> InUse(g)
                          /\ CartOpen(g)' <=> CartOpen(g)
                          /\ RemoteOpen(g)' <=> RemoteOpen(g)
                          /\ Pos(g)' = Pos(g)
    BY <2>1 DEF InUse, CartOpen, RemoteOpen, Pos
  <2>3. FileShape' /\ PositionsAgree' /\ Covered' /\ Saved'
    BY <1>0, <2>1, <2>2 DEF FileShape, PositionsAgree, Covered, Saved
  <2>4. Distinct'
    BY <1>0, <2>1, <2>2, Zenon DEF Distinct, Undisturbed
  <2> QED
    BY <2>3, <2>4 DEF FileInv
<1> QED
  BY <1>1, <1>2, <1>3, <1>4, <1>5, <1>6, <1>7, <1>9, <1>10, <1>11, <1>12 DEF FileNext

\* What the invariant says of owners.
LEMMA OwnersCounted == FileInv => OneOwner
<1> SUFFICES ASSUME FileInv, events \subseteq {"torn"}
             PROVE  /\ \A l \in Local :
                         Cardinality(Owners("cart", l)) = IF cart[l].open THEN 1 ELSE 0
                    /\ \A r \in 1 .. MaxRemote :
                         Cardinality(Owners("remote", r)) = IF r \in DOMAIN remote THEN 1 ELSE 0
                    /\ events = {} /\ (\A l \in Local : ~cart[l].open) => ~unsaved
  BY Zenon DEF OneOwner
<1>1. /\ \A h \in Handle : InUse(h) => CartOpen(h) \/ RemoteOpen(h)
      /\ \A g, h \in Handle :
           InUse(g) /\ handles[g].backend = handles[h].backend
             /\ handles[g].local = handles[h].local => g = h
      /\ \A l \in Local : cart[l].open =>
           \E h \in Handle : handles[h].backend = "cart" /\ handles[h].local = l
      /\ \A r \in DOMAIN remote :
           \E h \in Handle : handles[h].backend = "remote" /\ handles[h].local = r
  <2>1. Undisturbed
    BY DEF Undisturbed
  <2> QED
    BY <2>1 DEF FileInv, Distinct, Covered
<1>2. \A backend \in {"cart", "remote"}, h \in Handle : handles[h].backend = backend => InUse(h)
  BY DEF InUse
<1>3. ASSUME NEW l \in Local
      PROVE  Cardinality(Owners("cart", l)) = IF cart[l].open THEN 1 ELSE 0
  <2>1. ASSUME cart[l].open PROVE \E h : Owners("cart", l) = {h}
    <3>1. PICK h \in Handle : handles[h].backend = "cart" /\ handles[h].local = l
      BY <1>1, <2>1
    <3>2. \A g \in Handle : handles[g].backend = "cart" /\ handles[g].local = l => g = h
      BY <1>1, <1>2, <3>1
    <3>3. Owners("cart", l) = {h}
      BY <3>1, <3>2 DEF Owners
    <3> QED
      BY <3>3
  <2>2. ~cart[l].open => Owners("cart", l) = {}
    BY <1>1, <1>2 DEF Owners, CartOpen, RemoteOpen
  <2> QED
    BY <2>1, <2>2, OneOrNone
<1>4. ASSUME NEW r \in 1 .. MaxRemote
      PROVE  Cardinality(Owners("remote", r)) = IF r \in DOMAIN remote THEN 1 ELSE 0
  <2>1. ASSUME r \in DOMAIN remote PROVE \E h : Owners("remote", r) = {h}
    <3>1. PICK h \in Handle : handles[h].backend = "remote" /\ handles[h].local = r
      BY <1>1, <2>1
    <3>2. \A g \in Handle : handles[g].backend = "remote" /\ handles[g].local = r => g = h
      BY <1>1, <1>2, <3>1
    <3>3. Owners("remote", r) = {h}
      BY <3>1, <3>2 DEF Owners
    <3> QED
      BY <3>3
  <2>2. r \notin DOMAIN remote => Owners("remote", r) = {}
    BY <1>1, <1>2 DEF Owners, CartOpen, RemoteOpen
  <2> QED
    BY <2>1, <2>2, OneOrNone
<1>5. events = {} /\ (\A l \in Local : ~cart[l].open) => ~unsaved
  BY DEF FileInv, Saved
<1> QED
  BY <1>3, <1>4, <1>5

LEMMA FileInvariant == FileSpec => []FileInv
BY FileAtFirst, FileStep, PTL DEF FileSpec

\* file.c:191-226, 672-811: for any number of handles and files of any size, the offset file.c
\* reports is the backend's position, whichever step of an lseek, pread or pwrite failed, unless a
\* call on the storage was done in vain, a seek was cut short or the backend replaced.
THEOREM OffsetsArePositions == FileSpec => []PositionsAgree
<1>1. FileInv => PositionsAgree
  BY DEF FileInv
<1> QED
  BY <1>1, FileInvariant, PTL

\* file.c:131-182, cart_file.c:97-181, 302-307: every handle of a backend has exactly one owner,
\* and nothing written to the cartridge is left unflushed when nobody has it open, with the same
\* exceptions as the property names.
THEOREM HandlesAreOwned == FileSpec => []OneOwner
BY OwnersCounted, FileInvariant, PTL

-----------------------------------------------------------------------------
(* SocketTable                                                              *)

RequestShape ==
  [pc : {"idle", "connect", "send", "full", "recv", "empty", "close"}, kind : Requests,
   handle : NetHandles \cup {NoHandle}, sent : 0 .. TxLength, budget : 0 .. Attempts,
   result : {"ok", "failed"}]
McuShape ==
  /\ DOMAIN mcu \subseteq NetHandles
  /\ \A h \in DOMAIN mcu : mcu[h] \in [proto : {"tcp", "udp"}, listening : BOOLEAN]
SocketShape ==
  /\ fds \in [Fd -> Descriptor \cup {Unused}] /\ McuShape /\ held \subseteq NetHandles
  /\ request \in RequestShape /\ (request.pc = "idle" <=> request.handle = NoHandle)
  /\ wire \in Seq(Nat) /\ mishap \in BOOLEAN

\* Descriptor fd has handle h.
Holds(fd, h) == fds[fd].used /\ fds[fd].handle = h

\* As long as no answer was lost: what the MCU has open is what someone has, and nobody has
\* what another has.
WellOwned(h) ==
  /\ h \in DOMAIN mcu <=> (\E fd \in Fd : Holds(fd, h)) \/ h \in held \/ request.handle = h
  /\ \A fd, e \in Fd : Holds(fd, h) /\ Holds(e, h) => fd = e
  /\ \A fd \in Fd : Holds(fd, h) => h \notin held /\ request.handle # h
  /\ h \in held => request.handle # h
OwnedOnce == ~mishap => \A h \in NetHandles : WellOwned(h)

\* What a request has sent is on the wire as long as it goes on.
OnTheWire ==
  /\ \A i \in 1 .. Len(wire) : wire[i] = i
  /\ request.pc \in {"connect", "send", "full", "recv", "empty"} => Len(wire) = request.sent
  /\ request.pc \in {"recv", "empty"} => request.sent = TxLength

SocketInv == SocketShape /\ OwnedOnce /\ ListenersListen /\ OnTheWire

\* The descriptor chosen is free.
LEMMA FirstUnusedIsFree ==
  ASSUME \E fd \in Fd : ~fds[fd].used
  PROVE  FirstUnused \in Fd /\ ~fds[FirstUnused].used
<1> DEFINE free == {fd \in Fd : ~fds[fd].used}
<1>1. free \in SUBSET Nat /\ free # {}
  BY SocketAssumption DEF Fd
<1>2. \E fd \in free : \A e \in free : fd <= e
  BY <1>1, SmallestOf
<1>3. \E fd \in Fd : ~fds[fd].used /\ \A e \in Fd : ~fds[e].used => fd <= e
  BY <1>2
<1> QED
  BY <1>3 DEF FirstUnused

\* A new handle, and one closed.
LEMMA HandleGiven ==
  ASSUME SocketShape, NEW h, NEW proto \in {"tcp", "udp"}, Gives(h, proto)
  PROVE  /\ McuShape'
         /\ h \in NetHandles \ DOMAIN mcu /\ DOMAIN mcu' = DOMAIN mcu \cup {h}
         /\ \A k \in DOMAIN mcu : mcu'[k] = mcu[k]
         /\ mishap' = mishap
BY DEF SocketShape, McuShape, Gives, Put

LEMMA HandleUnseen ==
  ASSUME SocketShape, NEW h, NEW proto \in {"tcp", "udp"}, GivesUnseen(h, proto)
  PROVE  McuShape' /\ mishap' = TRUE
BY DEF SocketShape, McuShape, GivesUnseen, Put

LEMMA HandleClosed ==
  ASSUME SocketShape, NEW h, CloseCommand(h)
  PROVE  /\ McuShape' /\ mishap' \in BOOLEAN
         /\ ~mishap' => /\ ~mishap /\ DOMAIN mcu' = DOMAIN mcu \ {h}
                        /\ \A k \in DOMAIN mcu' : mcu'[k] = mcu[k]
<1>1. CASE mcu' = Drop(mcu, h) /\ UNCHANGED mishap
  BY <1>1 DEF SocketShape, McuShape, Drop
<1>2. CASE UNCHANGED mcu /\ mishap' = TRUE
  BY <1>2 DEF SocketShape, McuShape
<1> QED
  BY <1>1, <1>2 DEF CloseCommand

\* A descriptor that gets a handle, or a connection's.
LEMMA DescriptorGets ==
  ASSUME SocketShape, OwnedOnce, ListenersListen, NEW fd \in Fd, NEW h,
         NEW proto \in {"tcp", "udp"},
         Gives(h, proto), UNCHANGED <<held, request, wire>>,
         fds' \in [Fd -> Descriptor \cup {Unused}],
         \A e \in Fd \ {fd} : fds'[e] = fds[e],
         \A k \in NetHandles : ~Holds(fd, k),
         fds'[fd].used /\ fds'[fd].handle = h /\ ~fds'[fd].listening
  PROVE  SocketShape' /\ OwnedOnce' /\ ListenersListen'
<1>1. /\ McuShape' /\ h \in NetHandles \ DOMAIN mcu /\ DOMAIN mcu' = DOMAIN mcu \cup {h}
      /\ \A k \in DOMAIN mcu : mcu'[k] = mcu[k]
      /\ mishap' = mishap
  BY HandleGiven
<1>2. SocketShape'
  BY <1>1 DEF SocketShape
<1>3. \A e \in Fd, k \in NetHandles : Holds(e, k)' <=> Holds(e, k) \/ (e = fd /\ k = h)
  BY DEF Holds
<1>4. OwnedOnce'
  <2> SUFFICES ASSUME ~mishap' PROVE OwnedOnce'
    BY DEF OwnedOnce, WellOwned
  <2>1. /\ \A k \in NetHandles : k # h => /\ k \in DOMAIN mcu' <=> k \in DOMAIN mcu
                                        /\ \A e \in Fd : Holds(e, k)' <=> Holds(e, k)
        /\ h \in DOMAIN mcu' /\ \A e \in Fd : Holds(e, h)' <=> e = fd
        /\ h \notin held /\ request.handle # h
    <3>1. /\ \A e \in Fd : ~Holds(e, h)
          /\ h \notin held /\ request.handle # h
      BY <1>1, Zenon DEF OwnedOnce, WellOwned
    <3> QED
      BY <1>1, <1>3, <3>1
  <2>2. ASSUME NEW k \in NetHandles
        PROVE  WellOwned(k)'
    <3>1. CASE k = h
      BY <2>1, <3>1, Zenon DEF WellOwned
    <3>2. CASE k # h
      BY <1>1, <2>1, <3>2, Zenon DEF OwnedOnce, WellOwned
    <3> QED
      BY <3>1, <3>2
  <2> QED
    BY <2>2, Zenon DEF OwnedOnce, WellOwned
<1>5. ListenersListen'
  BY <1>1 DEF ListenersListen
<1> QED
  BY <1>2, <1>4, <1>5

\* A request goes on with its handle.
LEMMA RequestMoves ==
  ASSUME SocketShape, OwnedOnce, ListenersListen, UNCHANGED <<fds, mcu, held, mishap>>,
         request' \in RequestShape, request'.handle = request.handle,
         request.pc # "idle", request'.pc # "idle", wire' \in Seq(Nat)
  PROVE  SocketShape' /\ OwnedOnce' /\ ListenersListen'
<1>1. SocketShape' /\ ListenersListen'
  BY DEF SocketShape, McuShape, ListenersListen
<1>2. OwnedOnce'
  BY Zenon DEF OwnedOnce, WellOwned, Holds
<1> QED
  BY <1>1, <1>2

\* It sends the next n bytes.
LEMMA ChunkSent ==
  ASSUME SocketInv, request.pc = "send", NEW n \in Nat, n <= TxLength - request.sent,
         wire' = wire \o Chunk(n)
  PROVE  /\ wire' \in Seq(Nat) /\ Len(wire') = request.sent + n
         /\ \A i \in 1 .. Len(wire') : wire'[i] = i
         /\ request.sent + n \in 0 .. TxLength
<1> DEFINE chunk == Chunk(n)
<1>1. /\ request.sent \in Nat /\ Len(wire) = request.sent /\ wire \in Seq(Nat)
      /\ \A i \in 1 .. Len(wire) : wire[i] = i
      /\ request.sent + n \in 0 .. TxLength
  BY SocketAssumption DEF SocketInv, SocketShape, RequestShape, OnTheWire
<1>2. chunk \in Seq(Nat) /\ Len(chunk) = n /\ \A i \in 1 .. n : chunk[i] = request.sent + i
  BY <1>1 DEF Chunk
<1> HIDE DEF chunk
<1>3. wire' = wire \o chunk
  BY DEF chunk
<1>4. /\ wire' \in Seq(Nat) /\ Len(wire') = Len(wire) + n
      /\ \A i \in 1 .. Len(wire) + n :
           wire'[i] = IF i <= Len(wire) THEN wire[i] ELSE chunk[i - Len(wire)]
  <2>1. wire \in Seq(Nat) /\ chunk \in Seq(Nat) /\ Len(chunk) = n
    BY <1>1, <1>2
  <2>2. /\ wire \o chunk \in Seq(Nat) /\ Len(wire \o chunk) = Len(wire) + Len(chunk)
        /\ \A i \in 1 .. Len(wire) + Len(chunk) :
             (wire \o chunk)[i] = IF i <= Len(wire) THEN wire[i] ELSE chunk[i - Len(wire)]
    BY <2>1, ConcatProperties
  <2> QED
    BY <1>3, <2>1, <2>2
<1>5. ASSUME NEW i \in 1 .. Len(wire) + n PROVE wire'[i] = i
  <2>0. i \in Nat /\ Len(wire) \in Nat /\ i >= 1 /\ i <= Len(wire) + n
    BY <1>1
  <2>1. CASE i <= Len(wire)
    BY <1>1, <1>4, <2>0, <2>1
  <2>2. CASE ~(i <= Len(wire))
    <3>1. i - Len(wire) \in 1 .. n
      BY <2>0, <2>2
    <3>2. chunk[i - Len(wire)] = request.sent + (i - Len(wire))
      BY <1>2, <3>1
    <3> QED
      BY <1>1, <1>4, <2>0, <2>2, <3>2, SMTT(30)
  <2> QED
    BY <2>1, <2>2
<1> QED
  BY <1>1, <1>4, <1>5

LEMMA SocketAtFirst == SocketInit => SocketInv
<1> SUFFICES ASSUME SocketInit PROVE SocketInv
  OBVIOUS
<1>1. <<>> \in Seq(Nat) /\ Len(<<>>) = 0 /\ DOMAIN <<>> = {}
  OBVIOUS
<1>2. request \in RequestShape /\ request.pc = "idle" /\ request.handle = NoHandle
  BY SocketAssumption DEF SocketInit, RequestShape, Requests
<1>3. SocketShape
  BY <1>1, <1>2 DEF SocketInit, SocketShape, McuShape
<1>4. \A fd \in Fd : ~fds[fd].used
  BY DEF SocketInit, Unused
<1>5. OwnedOnce
  BY <1>1, <1>2, <1>4, SocketAssumption DEF SocketInit, OwnedOnce, WellOwned, Holds
<1>6. ListenersListen /\ OnTheWire
  BY <1>1, <1>2, <1>4 DEF SocketInit, ListenersListen, OnTheWire
<1> QED
  BY <1>3, <1>5, <1>6 DEF SocketInv

LEMMA SocketStep == SocketInv /\ [SocketNext]_socketVars => SocketInv'
<1> SUFFICES ASSUME SocketInv, [SocketNext]_socketVars PROVE SocketInv'
  OBVIOUS
<1> USE DEF SocketInv
<1>0. \A fd \in Fd : fds[fd].used => fds[fd] \in Descriptor
  BY DEF SocketShape, Unused
<1>a. Unused \in Descriptor \cup {Unused} /\ ~Unused.used
  BY DEF Unused
<1>1. ASSUME NEW proto \in {"tcp", "udp"}, Socket(proto) PROVE SocketInv'
  <2>1. FirstUnused \in Fd /\ ~fds[FirstUnused].used
    BY <1>1, FirstUnusedIsFree DEF Socket
  <2>2. NewFd(proto, NoHandle, FALSE) \in Descriptor
    BY DEF NewFd, Descriptor
  <2>3. /\ fds' \in [Fd -> Descriptor \cup {Unused}]
        /\ \A e \in Fd \ {FirstUnused} : fds'[e] = fds[e]
        /\ fds'[FirstUnused] = NewFd(proto, NoHandle, FALSE)
        /\ UNCHANGED <<mcu, held, request, wire, mishap>>
    BY <1>1, <2>1, <2>2 DEF Socket, SocketShape
  <2>4. /\ fds'[FirstUnused].handle = NoHandle /\ ~fds'[FirstUnused].listening
        /\ fds'[FirstUnused].used
    BY <2>3 DEF NewFd
  <2>5. \A e \in Fd, k \in NetHandles : Holds(e, k)' <=> Holds(e, k)
    BY <2>1, <2>3, <2>4, SocketAssumption DEF Holds
  <2>6. SocketShape' /\ OnTheWire'
    BY <2>3 DEF SocketShape, McuShape, OnTheWire
  <2>7. OwnedOnce'
    BY <2>3, <2>5, Zenon DEF OwnedOnce, WellOwned
  <2>8. ListenersListen'
    BY <2>1, <2>3, <2>4 DEF ListenersListen
  <2> QED
    BY <2>6, <2>7, <2>8
<1>2. ASSUME NEW proto \in {"tcp", "udp"}, NEW h \in NetHandles, NetOpen(h, proto)
      PROVE  SocketInv'
  <2>1. UNCHANGED <<fds, request, wire>> /\ held' \subseteq NetHandles
    BY <1>2 DEF NetOpen, SocketShape
  <2>2. OnTheWire'
    BY <2>1 DEF OnTheWire
  <2>3. CASE Gives(h, proto) /\ held' = held \cup {h}
    <3>1. /\ McuShape' /\ h \in NetHandles \ DOMAIN mcu /\ DOMAIN mcu' = DOMAIN mcu \cup {h}
          /\ \A k \in DOMAIN mcu : mcu'[k] = mcu[k]
          /\ mishap' = mishap
      BY <2>3, HandleGiven
    <3>2. SocketShape' /\ ListenersListen'
      BY <2>1, <3>1 DEF SocketShape, ListenersListen
    <3>3. OwnedOnce'
      BY <2>1, <2>3, <3>1, Zenon DEF OwnedOnce, WellOwned, Holds
    <3> QED
      BY <2>2, <3>2, <3>3
  <2>4. CASE GivesUnseen(h, proto) /\ UNCHANGED held
    BY <2>1, <2>2, <2>4, HandleUnseen DEF SocketShape, OwnedOnce, WellOwned, ListenersListen
  <2> QED
    BY <1>2, <2>3, <2>4 DEF NetOpen
<1>3. ASSUME NEW fd \in Fd, Listen(fd) PROVE SocketInv'
  <2>1. /\ UNCHANGED <<held, request, wire, mishap>> /\ Bound(fd) /\ fds[fd].handle \in DOMAIN mcu
        /\ mcu' = [mcu EXCEPT ![fds[fd].handle].listening = TRUE]
        /\ fds' = [fds EXCEPT ![fd].listening = TRUE] \/ fds' = fds
    BY <1>3 DEF Listen
  <2>2. fds[fd] \in Descriptor
    BY <1>0, <2>1 DEF Bound
  <2>3. /\ fds' \in [Fd -> Descriptor \cup {Unused}]
        /\ \A e \in Fd : /\ fds'[e].used = fds[e].used /\ (e # fd => fds'[e] = fds[e])
                         /\ fds[e].used => fds'[e].handle = fds[e].handle
    <3>1. CASE fds' = [fds EXCEPT ![fd].listening = TRUE]
      <4>1. [fds[fd] EXCEPT !.listening = TRUE] \in Descriptor
        BY <2>2 DEF Descriptor
      <4>2. /\ [fds[fd] EXCEPT !.listening = TRUE].used = fds[fd].used
            /\ [fds[fd] EXCEPT !.listening = TRUE].handle = fds[fd].handle
        BY <2>2 DEF Descriptor
      <4>3. /\ fds'[fd] = [fds[fd] EXCEPT !.listening = TRUE]
            /\ \A e \in Fd \ {fd} : fds'[e] = fds[e]
        BY <3>1 DEF SocketShape
      <4>4. fds' \in [Fd -> Descriptor \cup {Unused}]
        BY <3>1, <4>1 DEF SocketShape
      <4> QED
        BY <4>2, <4>3, <4>4
    <3>2. CASE fds' = fds
      BY <3>2 DEF SocketShape
    <3> QED
      BY <2>1, <3>1, <3>2
  <2>4. /\ McuShape' /\ DOMAIN mcu' = DOMAIN mcu
        /\ \A k \in DOMAIN mcu : k # fds[fd].handle => mcu'[k] = mcu[k]
        /\ mcu'[fds[fd].handle].listening
    BY <2>1 DEF SocketShape, McuShape
  <2>5. SocketShape' /\ OnTheWire'
    BY <2>1, <2>3, <2>4 DEF SocketShape, OnTheWire
  <2>6. \A e \in Fd, k \in NetHandles : Holds(e, k)' <=> Holds(e, k)
    BY <2>3 DEF Holds
  <2>7. OwnedOnce'
    BY <2>1, <2>4, <2>6, Zenon DEF OwnedOnce, WellOwned
  <2>8. ListenersListen'
    BY <2>1, <2>3, <2>4 DEF ListenersListen
  <2> QED
    BY <2>5, <2>7, <2>8
<1>4. ASSUME NEW fd \in Fd, CloseSocket(fd) PROVE SocketInv'
  <2>1. /\ fds' \in [Fd -> Descriptor \cup {Unused}] /\ ~fds'[fd].used
        /\ \A e \in Fd \ {fd} : fds'[e] = fds[e]
        /\ UNCHANGED <<held, request, wire>> /\ fds[fd].used
    BY <1>4, <1>a DEF CloseSocket, SocketShape
  <2>2. \A e \in Fd, k \in NetHandles : Holds(e, k)' <=> Holds(e, k) /\ e # fd
    BY <2>1 DEF Holds
  <2>3. OnTheWire'
    BY <2>1 DEF OnTheWire
  <2>4. CASE Bound(fd)
    <3>1. PICK h \in NetHandles : h = fds[fd].handle /\ Holds(fd, h)
      BY <1>0, <2>1, <2>4 DEF Bound, Descriptor, Holds
    <3>2. CloseCommand(h)
      BY <1>4, <2>4, <3>1 DEF CloseSocket
    <3>3. /\ McuShape' /\ mishap' \in BOOLEAN
          /\ ~mishap' => /\ ~mishap /\ DOMAIN mcu' = DOMAIN mcu \ {h}
                         /\ \A k \in DOMAIN mcu' : mcu'[k] = mcu[k]
      BY <3>2, HandleClosed
    <3>4. SocketShape'
      BY <2>1, <3>3 DEF SocketShape
    <3>5. OwnedOnce'
      <4> SUFFICES ASSUME ~mishap'
                   PROVE  OwnedOnce'
        BY DEF OwnedOnce, WellOwned
      <4>0. ~mishap /\ DOMAIN mcu' = DOMAIN mcu \ {h}
        BY <3>3
      <4>1. h \notin held /\ request.handle # h /\ \A e \in Fd : Holds(e, h) => e = fd
        BY <3>1, <4>0, Zenon DEF OwnedOnce, WellOwned
      <4>2. \A k \in NetHandles : Holds(fd, k) => k = h
        BY <3>1 DEF Holds
      <4>3. ASSUME NEW k \in NetHandles, k # h
            PROVE  /\ k \in DOMAIN mcu' <=> k \in DOMAIN mcu
                   /\ \A e \in Fd : Holds(e, k)' <=> Holds(e, k)
        BY <2>2, <4>0, <4>2, <4>3
      <4>4. h \notin DOMAIN mcu' /\ \A e \in Fd : ~Holds(e, h)'
        BY <2>2, <3>1, <4>0, <4>1
      <4>5. ASSUME NEW k \in NetHandles
            PROVE  WellOwned(k)'
        <5>1. CASE k = h
          BY <2>1, <4>1, <4>4, <5>1, Zenon DEF WellOwned
        <5>2. CASE k # h
          BY <2>1, <4>0, <4>3, <5>2, Zenon DEF OwnedOnce, WellOwned
        <5> QED
          BY <5>1, <5>2
      <4> QED
        BY <4>5, Zenon DEF OwnedOnce, WellOwned
    <3>6. ListenersListen'
      <4> SUFFICES ASSUME ~mishap', NEW e \in Fd, fds'[e].used, fds'[e].listening
                   PROVE  fds'[e].handle \in DOMAIN mcu' /\ mcu'[fds'[e].handle].listening
        BY DEF ListenersListen
      <4>1. e # fd /\ fds'[e] = fds[e] /\ ~mishap
        BY <2>1, <3>3
      <4>2. fds[e].handle \in DOMAIN mcu /\ mcu[fds[e].handle].listening
        BY <4>1 DEF ListenersListen
      <4>3. fds[e].handle # h
        BY <3>1, <4>1, <4>2 DEF OwnedOnce, WellOwned, Holds
      <4> QED
        BY <3>3, <4>1, <4>2, <4>3
    <3> QED
      BY <2>3, <3>4, <3>5, <3>6
  <2>5. CASE ~Bound(fd)
    <3>1. UNCHANGED <<mcu, mishap>> /\ \A k \in NetHandles : ~Holds(fd, k)
      BY <1>4, <2>1, <2>5, SocketAssumption DEF CloseSocket, Bound, Holds
    <3>a. \A e \in Fd, k \in NetHandles : Holds(e, k)' <=> Holds(e, k)
      BY <2>2, <3>1
    <3>2. SocketShape' /\ ListenersListen'
      BY <2>1, <3>1 DEF SocketShape, McuShape, ListenersListen
    <3>3. OwnedOnce'
      BY <2>1, <3>1, <3>a, Zenon DEF OwnedOnce, WellOwned
    <3> QED
      BY <2>3, <3>2, <3>3
  <2> QED
    BY <2>4, <2>5
<1>5. ASSUME NEW fd \in Fd, NEW h \in NetHandles, Obtain(fd, h) PROVE SocketInv'
  <2>1. /\ UNCHANGED <<held, request, wire>> /\ fds[fd] \in Descriptor
        /\ fds[fd].handle = NoHandle
    BY <1>0, <1>5 DEF Obtain
  <2>2. OnTheWire'
    BY <2>1 DEF OnTheWire
  <2>3. CASE Gives(h, fds[fd].proto) /\ fds' = [fds EXCEPT ![fd].handle = h]
    <3> DEFINE new == [fds[fd] EXCEPT !.handle = h]
    <3>1. new \in Descriptor /\ new.used /\ new.handle = h /\ new.listening = fds[fd].listening
      BY <2>1 DEF Descriptor
    <3>2. fds'[fd] = new /\ \A e \in Fd \ {fd} : fds'[e] = fds[e]
      BY <2>3 DEF SocketShape
    <3>3. fds' \in [Fd -> Descriptor \cup {Unused}]
      BY <2>3, <3>1 DEF SocketShape
    <3>4. \A k \in NetHandles : ~Holds(fd, k)
      BY <2>1, SocketAssumption DEF Holds
    <3> HIDE DEF new
    <3>5. CASE mishap
      <4>1. mishap' = mishap /\ McuShape'
        BY <2>1, <2>3, HandleGiven DEF Descriptor
      <4>2. mishap' \in BOOLEAN /\ mishap'
        BY <3>5, <4>1, Zenon DEF SocketShape
      <4> QED
        BY <2>1, <2>2, <3>3, <4>1, <4>2 DEF SocketShape, OwnedOnce, WellOwned, ListenersListen
    <3>6. CASE ~mishap
      <4>1. ~fds[fd].listening
        <5>1. fds[fd].used /\ fds[fd].handle \notin DOMAIN mcu
          BY <2>1, SocketAssumption DEF SocketShape, McuShape, Descriptor
        <5> QED
          BY <3>6, <5>1 DEF ListenersListen
      <4>2. fds'[fd].used /\ fds'[fd].handle = h /\ ~fds'[fd].listening
        BY <3>1, <3>2, <4>1
      <4>3. fds[fd].proto \in {"tcp", "udp"}
        BY <2>1 DEF Descriptor
      <4> QED
        BY <2>1, <2>2, <2>3, <3>2, <3>3, <3>4, <4>2, <4>3, DescriptorGets
    <3> QED
      BY <3>5, <3>6
  <2>4. CASE GivesUnseen(h, fds[fd].proto) /\ UNCHANGED fds
    <3>1. fds[fd].proto \in {"tcp", "udp"}
      BY <2>1 DEF Descriptor
    <3>2. McuShape' /\ mishap' = TRUE
      BY <2>4, <3>1, HandleUnseen
    <3> QED
      BY <2>1, <2>2, <2>4, <3>2 DEF SocketShape, OwnedOnce, WellOwned, ListenersListen
  <2> QED
    BY <1>5, <2>3, <2>4 DEF Obtain
<1>6. ASSUME NEW fd \in Fd, NEW h \in NetHandles, AcceptConn(fd, h) PROVE SocketInv'
  <2>1. UNCHANGED <<held, request, wire>> /\ FirstUnused \in Fd /\ ~fds[FirstUnused].used
    BY <1>6, FirstUnusedIsFree DEF AcceptConn
  <2>2. OnTheWire'
    BY <2>1 DEF OnTheWire
  <2>3. CASE Gives(h, "tcp") /\ fds' = [fds EXCEPT ![FirstUnused] = AcceptedFd(fd, h)]
    <3> DEFINE new == AcceptedFd(fd, h)
    <3>1. new \in Descriptor /\ new.used /\ new.handle = h /\ ~new.listening
      BY DEF AcceptedFd, NewFd, Descriptor
    <3>2. fds'[FirstUnused] = new /\ \A e \in Fd \ {FirstUnused} : fds'[e] = fds[e]
      BY <2>1, <2>3 DEF SocketShape
    <3>3. fds' \in [Fd -> Descriptor \cup {Unused}]
      BY <2>3, <3>1 DEF SocketShape
    <3>4. \A k \in NetHandles : ~Holds(FirstUnused, k)
      BY <2>1 DEF Holds
    <3> HIDE DEF new
    <3> QED
      BY <2>1, <2>2, <2>3, <3>1, <3>2, <3>3, <3>4, DescriptorGets
  <2>4. CASE GivesUnseen(h, "tcp") /\ UNCHANGED fds
    BY <2>1, <2>2, <2>4, HandleUnseen DEF SocketShape, OwnedOnce, WellOwned, ListenersListen
  <2> QED
    BY <1>6, <2>3, <2>4 DEF AcceptConn
<1>7. ASSUME NEW h \in NetHandles, NetClose(h) PROVE SocketInv'
  <2>1. /\ UNCHANGED <<fds, request, wire>> /\ h \in held /\ held' = held \ {h}
        /\ CloseCommand(h)
    BY <1>7 DEF NetClose
  <2>2. /\ McuShape' /\ mishap' \in BOOLEAN
        /\ ~mishap' => /\ ~mishap /\ DOMAIN mcu' = DOMAIN mcu \ {h}
                       /\ \A k \in DOMAIN mcu' : mcu'[k] = mcu[k]
    BY <2>1, HandleClosed
  <2>3. SocketShape' /\ OnTheWire'
    BY <2>1, <2>2 DEF SocketShape, OnTheWire
  <2>4. OwnedOnce'
    BY <2>1, <2>2, Zenon DEF OwnedOnce, WellOwned, Holds
  <2>5. ListenersListen'
    <3> SUFFICES ASSUME ~mishap', NEW e \in Fd, fds[e].used, fds[e].listening
                 PROVE  fds[e].handle \in DOMAIN mcu' /\ mcu'[fds[e].handle].listening
      BY <2>1 DEF ListenersListen
    <3>1. fds[e].handle \in DOMAIN mcu /\ mcu[fds[e].handle].listening
      BY <2>2 DEF ListenersListen
    <3>2. fds[e].handle # h
      BY <2>1, <2>2, <3>1 DEF OwnedOnce, WellOwned, Holds
    <3> QED
      BY <2>2, <3>1, <3>2
  <2> QED
    BY <2>3, <2>4, <2>5
<1>8. ASSUME NEW kind \in Requests, NEW h \in NetHandles, RequestOpen(kind, h)
      PROVE  SocketInv'
  <2>1. UNCHANGED <<fds, held>> /\ wire' = <<>> /\ request.pc = "idle"
    BY <1>8 DEF RequestOpen, Quiet
  <2>2. wire' \in Seq(Nat) /\ Len(wire') = 0
    BY <2>1
  <2> DEFINE proto == IF kind = "udp_send" THEN "udp" ELSE "tcp"
  <2>3. CASE /\ Gives(h, proto)
             /\ request' = [pc |-> IF kind = "udp_send" THEN "send" ELSE "connect",
                            kind |-> kind, handle |-> h, sent |-> 0, budget |-> Attempts,
                            result |-> "ok"]
    <3>0. proto \in {"tcp", "udp"}
      OBVIOUS
    <3> HIDE DEF proto
    <3>1. request' \in RequestShape
      <4>1. 0 \in 0 .. TxLength /\ Attempts \in 0 .. Attempts
        BY SocketAssumption
      <4> QED
        BY <2>3, <4>1 DEF RequestShape
    <3>2. /\ request'.handle = h /\ request'.sent = 0 /\ request'.pc # "idle"
          /\ request'.pc \notin {"recv", "empty"}
      BY <2>3
    <3>3. /\ McuShape' /\ h \in NetHandles \ DOMAIN mcu /\ DOMAIN mcu' = DOMAIN mcu \cup {h}
          /\ \A k \in DOMAIN mcu : mcu'[k] = mcu[k]
          /\ mishap' = mishap
      BY <2>3, <3>0, HandleGiven
    <3>4. request.handle = NoHandle
      BY <2>1 DEF SocketShape
    <3>5. SocketShape' /\ ListenersListen' /\ OnTheWire'
      BY <2>1, <2>2, <3>1, <3>2, <3>3, SocketAssumption
      DEF SocketShape, ListenersListen, OnTheWire
    <3>6. OwnedOnce'
      <4>1. \A k \in NetHandles : k # NoHandle
        BY SocketAssumption
      <4> QED
        BY <2>1, <3>2, <3>3, <3>4, <4>1, Zenon DEF OwnedOnce, WellOwned, Holds
    <3> QED
      BY <3>5, <3>6
  <2>4. CASE GivesUnseen(h, proto) /\ UNCHANGED request
    <3>1. proto \in {"tcp", "udp"}
      OBVIOUS
    <3> HIDE DEF proto
    <3>2. McuShape' /\ mishap' = TRUE
      BY <2>4, <3>1, HandleUnseen
    <3>3. OnTheWire'
      BY <2>1, <2>2, <2>4 DEF OnTheWire
    <3> QED
      BY <2>1, <2>2, <2>4, <3>2, <3>3 DEF SocketShape, OwnedOnce, ListenersListen
  <2> QED
    BY <1>8, <2>3, <2>4 DEF RequestOpen
<1>9. ASSUME NEW ready \in BOOLEAN, RequestPoll(ready) PROVE SocketInv'
  <2>1. /\ UNCHANGED <<fds, mcu, wire, mishap>> /\ request.pc \in {"connect", "full", "empty"}
        /\ held' = IF request'.pc = "idle" THEN held \cup {request.handle} ELSE held
        /\ request \in RequestShape
    BY <1>9 DEF RequestPoll, SocketShape
  <2>2. request.handle \in NetHandles /\ request.handle # NoHandle /\ Attempts \in 0 .. Attempts
    BY <2>1, SocketAssumption DEF RequestShape, SocketShape
  <2>3. /\ request' \in RequestShape /\ request'.sent = request.sent
        /\ \/ request'.pc \in {request.pc, "close"} /\ request'.handle = request.handle
           \/ request.pc = "full" /\ request'.pc = "send" /\ request'.handle = request.handle
           \/ request.pc = "empty" /\ request'.pc = "recv" /\ request'.handle = request.handle
           \/ request.pc = "connect" /\ request'.pc = "send" /\ request'.handle = request.handle
           \/ request.pc = "connect" /\ request'.pc = "idle" /\ request'.handle = NoHandle
    <3>1. CASE request.budget = 0
      BY <1>9, <2>1, <3>1 DEF RequestPoll, Fails, RequestShape
    <3>2. CASE request.budget # 0 /\ ~ready
      <4>1. request.budget - 1 \in 0 .. Attempts
        BY <2>1, <3>2, SocketAssumption DEF RequestShape
      <4>2. request' = [request EXCEPT !.budget = @ - 1]
        BY <1>9, <3>2 DEF RequestPoll
      <4> QED
        BY <2>1, <4>1, <4>2 DEF RequestShape
    <3>3. CASE request.budget # 0 /\ ready
      <4>1. request.budget - 1 \in 0 .. Attempts
        BY <2>1, <3>3, SocketAssumption DEF RequestShape
      <4> DEFINE asked == [request EXCEPT !.budget = @ - 1]
      <4>2. /\ asked \in RequestShape /\ asked.pc = request.pc /\ asked.sent = request.sent
            /\ asked.handle = request.handle /\ asked.kind = request.kind
        BY <2>1, <4>1 DEF RequestShape
      <4>3. request' = [asked EXCEPT
                  !.pc = CASE @ = "full" -> "send" [] @ = "empty" -> "recv"
                           [] @ = "connect" -> IF request.kind = "tcp_open" THEN "idle"
                                               ELSE "send",
                  !.budget = IF request.pc = "connect" THEN Attempts ELSE @,
                  !.handle = IF request.pc = "connect" /\ request.kind = "tcp_open"
                             THEN NoHandle ELSE @]
        BY <1>9, <3>3 DEF RequestPoll
      <4> HIDE DEF asked
      <4>4. CASE request.pc = "full"
        BY <2>2, <4>2, <4>3, <4>4 DEF RequestShape
      <4>5. CASE request.pc = "empty"
        BY <2>2, <4>2, <4>3, <4>5 DEF RequestShape
      <4>6. CASE request.pc = "connect" /\ request.kind = "tcp_open"
        BY <2>2, <4>2, <4>3, <4>6 DEF RequestShape
      <4>7. CASE request.pc = "connect" /\ request.kind # "tcp_open"
        BY <2>2, <4>2, <4>3, <4>7 DEF RequestShape
      <4> QED
        BY <2>1, <4>4, <4>5, <4>6, <4>7
    <3> QED
      BY <3>1, <3>2, <3>3
  <2>4. OnTheWire'
    BY <2>1, <2>3 DEF OnTheWire
  <2>5. CASE request'.pc # "idle"
    <3>1. request'.handle = request.handle /\ held' = held
      BY <2>1, <2>3, <2>5
    <3> QED
      BY <2>1, <2>3, <2>4, <2>5, <3>1, RequestMoves DEF SocketShape
  <2>6. CASE request'.pc = "idle"
    <3>1. request'.handle = NoHandle /\ held' = held \cup {request.handle}
      BY <2>1, <2>3, <2>6
    <3>2. SocketShape' /\ ListenersListen'
      BY <2>1, <2>2, <2>3, <2>6, <3>1 DEF SocketShape, McuShape, ListenersListen
    <3>3. OwnedOnce'
      <4>1. \A k \in NetHandles : k # NoHandle
        BY SocketAssumption
      <4> QED
        BY <2>1, <2>2, <3>1, <4>1, Zenon DEF OwnedOnce, WellOwned, Holds
    <3> QED
      BY <2>4, <3>2, <3>3
  <2> QED
    BY <2>5, <2>6
<1>10. ASSUME NEW n \in 0 .. TxLength, RequestSend(n) PROVE SocketInv'
  <2>1. /\ UNCHANGED <<fds, mcu, held, mishap>> /\ request.pc = "send" /\ n \in Nat
        /\ n <= TxLength - request.sent /\ wire' = wire \o Chunk(n)
        /\ request \in RequestShape
    BY <1>10, SocketAssumption DEF RequestSend, SocketShape
  <2>2. /\ wire' \in Seq(Nat) /\ Len(wire') = request.sent + n
        /\ \A i \in 1 .. Len(wire') : wire'[i] = i
        /\ request.sent + n \in 0 .. TxLength
    BY <2>1, ChunkSent
  <2> DEFINE after == [request EXCEPT !.sent = @ + n]
  <2>3. /\ after \in RequestShape /\ after.handle = request.handle
        /\ after.sent = request.sent + n
    BY <2>1, <2>2 DEF RequestShape
  <2>a. Attempts \in 0 .. Attempts
    BY SocketAssumption
  <2>4. /\ request' \in RequestShape /\ request'.handle = request.handle
        /\ request'.sent = request.sent + n /\ request'.pc \in {"close", "full", "recv", "send"}
        /\ request'.pc = "recv" => request'.sent = TxLength
    <3>1. request' = CASE request.kind = "udp_send" -> [after EXCEPT !.pc = "close"]
                       [] n = 0 -> [after EXCEPT !.pc = "full"]
                       [] OTHER -> [after EXCEPT !.budget = Attempts,
                                      !.pc = IF after.sent = TxLength THEN "recv" ELSE "send"]
      BY <1>10 DEF RequestSend
    <3> HIDE DEF after
    <3>2. CASE request.kind = "udp_send"
      <4>1. request' \in {[after EXCEPT !.pc = "close"], [after EXCEPT !.pc = "full"]}
        BY <3>1, <3>2
      <4> QED
        BY <2>3, <4>1 DEF RequestShape
    <3>3. CASE request.kind # "udp_send" /\ n = 0
      <4>1. request' = [after EXCEPT !.pc = "full"]
        BY <3>1, <3>3
      <4> QED
        BY <2>3, <4>1 DEF RequestShape
    <3>4. CASE request.kind # "udp_send" /\ n # 0
      <4>1. request' = [after EXCEPT !.budget = Attempts,
                          !.pc = IF after.sent = TxLength THEN "recv" ELSE "send"]
        BY <3>1, <3>4
      <4> QED
        BY <2>3, <2>a, <4>1 DEF RequestShape
    <3> QED
      BY <3>2, <3>3, <3>4
  <2> HIDE DEF after
  <2>5. OnTheWire'
    BY <2>2, <2>4 DEF OnTheWire
  <2> QED
    BY <2>1, <2>2, <2>4, <2>5, RequestMoves DEF SocketShape
<1>11. ASSUME NEW n \in 0 .. TxLength, RequestSendLost(n) PROVE SocketInv'
  <2>1. /\ UNCHANGED <<fds, mcu, held, mishap>> /\ request.pc = "send" /\ n \in Nat
        /\ n <= TxLength - request.sent /\ wire' = wire \o Chunk(n)
        /\ request \in RequestShape
        /\ request' = [request EXCEPT !.pc = "close", !.result = "failed"]
    BY <1>11, SocketAssumption DEF RequestSendLost, Fails, SocketShape
  <2>2. wire' \in Seq(Nat) /\ \A i \in 1 .. Len(wire') : wire'[i] = i
    BY <2>1, ChunkSent
  <2>3. request' \in RequestShape /\ request'.handle = request.handle /\ request'.pc = "close"
    BY <2>1 DEF RequestShape
  <2>4. OnTheWire'
    BY <2>2, <2>3 DEF OnTheWire
  <2> QED
    BY <2>1, <2>2, <2>3, <2>4, RequestMoves DEF SocketShape
<1>12. ASSUME NEW some \in BOOLEAN, RequestRecv(some) PROVE SocketInv'
  <2>1. /\ UNCHANGED <<fds, mcu, held, wire, mishap>> /\ request.pc = "recv"
        /\ request \in RequestShape
        /\ request' = [request EXCEPT !.pc = IF some THEN "close" ELSE "empty"]
    BY <1>12 DEF RequestRecv, To, SocketShape
  <2>2. /\ request' \in RequestShape /\ request'.handle = request.handle
        /\ request'.sent = request.sent /\ request'.pc \in {"close", "empty"}
    BY <2>1 DEF RequestShape
  <2>3. OnTheWire'
    BY <2>1, <2>2 DEF OnTheWire
  <2> QED
    BY <2>1, <2>2, <2>3, RequestMoves DEF SocketShape
<1>13. CASE RequestFails
  <2>1. /\ UNCHANGED <<fds, mcu, held, wire, mishap>> /\ request.pc # "idle"
        /\ request \in RequestShape
        /\ request' = [request EXCEPT !.pc = "close", !.result = "failed"]
    BY <1>13 DEF RequestFails, Fails, SocketShape
  <2>2. request' \in RequestShape /\ request'.handle = request.handle /\ request'.pc = "close"
    BY <2>1 DEF RequestShape
  <2>3. OnTheWire'
    BY <2>1, <2>2 DEF OnTheWire
  <2> QED
    BY <2>1, <2>2, <2>3, RequestMoves DEF SocketShape
<1>14. CASE RequestClose
  <2>1. /\ UNCHANGED <<fds, held, wire>> /\ request.pc = "close" /\ request \in RequestShape
        /\ CloseCommand(request.handle)
    BY <1>14 DEF RequestClose, SocketShape
  <2>2. PICK result \in {request.result, "failed"} :
          request' = [request EXCEPT !.pc = "idle", !.handle = NoHandle, !.result = result]
    BY <1>14 DEF RequestClose
  <2>3. request' \in RequestShape /\ request'.pc = "idle" /\ request'.handle = NoHandle
    BY <2>1, <2>2 DEF RequestShape
  <2>4. request.handle \in NetHandles
    BY <2>1 DEF SocketShape, RequestShape
  <2>5. /\ McuShape' /\ mishap' \in BOOLEAN
        /\ ~mishap' => /\ ~mishap /\ DOMAIN mcu' = DOMAIN mcu \ {request.handle}
                       /\ \A k \in DOMAIN mcu' : mcu'[k] = mcu[k]
    BY <2>1, HandleClosed
  <2>6. SocketShape' /\ OnTheWire'
    BY <2>1, <2>3, <2>5 DEF SocketShape, OnTheWire
  <2>7. OwnedOnce'
    <3>1. \A k \in NetHandles : k # NoHandle
      BY SocketAssumption
    <3> QED
      BY <2>1, <2>3, <2>4, <2>5, <3>1, ZenonT(40) DEF OwnedOnce, WellOwned, Holds
  <2>8. ListenersListen'
    <3> SUFFICES ASSUME ~mishap', NEW e \in Fd, fds[e].used, fds[e].listening
                 PROVE  fds[e].handle \in DOMAIN mcu' /\ mcu'[fds[e].handle].listening
      BY <2>1 DEF ListenersListen
    <3>1. fds[e].handle \in DOMAIN mcu /\ mcu[fds[e].handle].listening
      BY <2>5 DEF ListenersListen
    <3>2. fds[e].handle # request.handle
      BY <2>4, <2>5 DEF OwnedOnce, WellOwned, Holds
    <3> QED
      BY <2>5, <3>1, <3>2
  <2> QED
    BY <2>6, <2>7, <2>8
<1>15. CASE UNCHANGED socketVars
  <2>1. UNCHANGED <<fds, mcu, held, request, wire, mishap>>
    BY <1>15 DEF socketVars
  <2>2. SocketShape' /\ ListenersListen' /\ OnTheWire'
    BY <2>1 DEF SocketShape, McuShape, ListenersListen, OnTheWire
  <2>3. OwnedOnce'
    BY <2>1, Zenon DEF OwnedOnce, WellOwned, Holds
  <2> QED
    BY <2>2, <2>3
<1> QED
  BY <1>1, <1>2, <1>3, <1>4, <1>5, <1>6, <1>7, <1>8, <1>9, <1>10, <1>11, <1>12, <1>13, <1>14,
     <1>15 DEF SocketNext

\* net.c:817-853: what was sent is on the wire, all of it once the answer is awaited.
\* socket_compat.c:401-622, 827-843, net.c:591-652, 855-900: for any number of descriptors and
\* handles, requests of any length and any partial writes, each handle the MCU has open has
\* exactly one owner, and each descriptor that accepts listens, unless an answer was lost or a
\* close failed.
THEOREM HandlesHaveOneOwner == SocketSpec => []DescriptorsOwned
<1>1. SocketInv => DescriptorsOwned
  <2> SUFFICES ASSUME SocketInv PROVE DescriptorsOwned
    OBVIOUS
  <2>1. ListenersListen /\ SentInOrder
    BY DEF SocketInv, OnTheWire, SentInOrder
  <2>2. ASSUME ~mishap, NEW h \in NetHandles
        PROVE  Cardinality(HandleOwners(h)) = IF h \in DOMAIN mcu THEN 1 ELSE 0
    <3>1. /\ h \in DOMAIN mcu <=> (\E fd \in Fd : Holds(fd, h)) \/ h \in held
                                  \/ request.handle = h
          /\ \A fd, e \in Fd : Holds(fd, h) /\ Holds(e, h) => fd = e
          /\ \A fd \in Fd : Holds(fd, h) => h \notin held /\ request.handle # h
          /\ h \in held => request.handle # h
      BY <2>2, Zenon DEF SocketInv, OwnedOnce, WellOwned
    <3>2. /\ h \in held => {<<"application", 0>> : x \in held \cap {h}} = {<<"application", 0>>}
          /\ h \notin held => {<<"application", 0>> : x \in held \cap {h}} = {}
      OBVIOUS
    <3>3. /\ request.handle = h =>
               {<<"request", 0>> : x \in {request.handle} \cap {h}} = {<<"request", 0>>}
          /\ request.handle # h => {<<"request", 0>> : x \in {request.handle} \cap {h}} = {}
      OBVIOUS
    <3> DEFINE ofFds == {<<"fd", fd>> : fd \in {fd \in Fd : fds[fd].used /\ fds[fd].handle = h}}
    <3>4. (\A fd \in Fd : ~Holds(fd, h)) => ofFds = {}
      BY DEF Holds
    <3>5. ASSUME NEW fd \in Fd, Holds(fd, h) PROVE ofFds = {<<"fd", fd>>}
      BY <3>1, <3>5 DEF Holds
    <3> HIDE DEF ofFds
    <3>6. HandleOwners(h) = ofFds \cup {<<"application", 0>> : x \in held \cap {h}}
                                  \cup {<<"request", 0>> : x \in {request.handle} \cap {h}}
      BY DEF HandleOwners, ofFds
    <3>7. CASE h \notin DOMAIN mcu
      <4>1. HandleOwners(h) = {}
        BY <3>1, <3>2, <3>3, <3>4, <3>6, <3>7
      <4> QED
        BY <3>7, <4>1, OneOrNone
    <3>8. CASE h \in DOMAIN mcu
      <4>1. \E x : HandleOwners(h) = {x}
        BY <3>1, <3>2, <3>3, <3>4, <3>5, <3>6, <3>8
      <4> QED
        BY <3>8, <4>1, OneOrNone
    <3> QED
      BY <3>7, <3>8
  <2> QED
    BY <2>1, <2>2 DEF DescriptorsOwned, HandleOwned
<1> QED
  BY <1>1, SocketAtFirst, SocketStep, PTL DEF SocketSpec

-----------------------------------------------------------------------------
(* BleLink                                                                  *)

Sessions ==
  [kind : Procedures \cup {"none"}, step : Steps, conn : Conns \cup {NoOne}, polls : 0 .. Polls,
   found : BOOLEAN]
Messages ==
  [asked : Peers \cup {NoOne}, from : Peers \cup {NoOne}, n : 0 .. MaxWrites,
   before : 0 .. MaxWrites]
BleShape ==
  /\ conns \subseteq Conns /\ kept \subseteq Conns
  /\ scanning \in BOOLEAN /\ serving \in BOOLEAN
  /\ link \in [rx : Conns \cup {NoOne}, notify : Conns \cup {NoOne}, tx : BOOLEAN]
  /\ queue \in Seq(Event) /\ value \in 0 .. MaxWrites /\ message \in Messages
  /\ flawed \subseteq {"lost", "long"}

\* The steps a call can be at, and those at which it has a connection.
Path(kind) ==
  CASE kind = "none" -> {"idle"}
    [] kind = "visit" -> {"connect", "find", "use", "disconnect"}
    [] kind = "notify" -> {"connect", "find", "subscribe", "poll", "unsubscribe", "disconnect"}
    [] kind = "collect" -> {"scan", "poll", "stop"}
    [] kind = "join" ->
         {"scan", "poll", "stop", "connect", "service", "rx", "tx", "subscribe", "disconnect"}
    [] kind = "host" -> {"reset", "service", "rx", "tx", "start", "adv"}
Connected(s) ==
  \/ s.kind \in {"visit", "notify"} /\ s.step # "connect"
  \/ s.kind = "join" /\ s.step \in {"service", "rx", "tx", "subscribe", "disconnect"}
Fits(s) ==
  /\ s \in Sessions /\ s.step \in Path(s.kind) /\ (Connected(s) <=> s.conn # NoOne)
  /\ s.kind # "none" => s.polls # 0

\* As long as no answer was lost, the MCU has the connections of the application and of the
\* call, which are not the same, and scans only while a call waits for devices.
NothingLost ==
  "lost" \notin flawed =>
    /\ conns = kept \cup ({session.conn} \ {NoOne}) /\ session.conn \notin kept
    /\ scanning => session.kind \in {"collect", "join"} /\ session.step \in {"poll", "stop"}

\* The link a call is about to set up.
LinkGrows ==
  /\ Joining => link.notify = NoOne /\ ~link.tx
  /\ Joining /\ session.step \in {"tx", "subscribe"} => link.rx = session.conn
  /\ session.kind = "host" /\ session.step # "adv" => link = Forgotten

\* The messages that wait: in the order they were written, and newer than the last one received.
IsWrite(i) == queue[i].kind = "write"
InLine ==
  /\ \A i \in 1 .. Len(queue) : IsWrite(i) =>
       /\ queue[i].n <= value
       /\ "long" \notin flawed => ~queue[i].long /\ queue[i].n > message.n
  /\ \A i, j \in 1 .. Len(queue) : IsWrite(i) /\ IsWrite(j) /\ i < j => queue[i].n < queue[j].n
  /\ message.n <= value

BleInv ==
  BleShape /\ Fits(session) /\ NothingLost /\ LinkIsWhole /\ LinkGrows /\ InLine /\ LinkInOrder

LEMMA RestFits == Fits(Rest) /\ Rest.conn = NoOne /\ Rest.step = "idle" /\ Rest.kind = "none"
<1>1. 0 \in 0 .. Polls
  BY BleAssumption
<1> QED
  BY <1>1 DEF Fits, Rest, Sessions, Steps, Procedures, Path, Connected

\* A call that waits for no connection goes on to a step of its path, ...
LEMMA EndsFits ==
  ASSUME Fits(session), session.step \notin {"idle", "connect"}, NEW ok \in BOOLEAN
  PROVE  Fits(Ends(session.step, ok))
<1> DEFINE to == IF Joining /\ session.step = "stop" /\ ~session.found THEN "idle"
                 ELSE IF ok THEN Onward(session.kind, session.step)
                 ELSE Back(session.kind, session.step)
<1>1. /\ session \in Sessions /\ session.step \in Path(session.kind)
      /\ Connected(session) <=> session.conn # NoOne
  BY DEF Fits
<1>2. session.kind \in {"visit", "notify", "collect", "join", "host"}
  BY <1>1 DEF Sessions, Procedures, Path
<1>3. \/ to = "idle"
      \/ /\ to \in Path(session.kind) /\ to \in Steps
         /\ Connected([session EXCEPT !.step = to]) <=> session.conn # NoOne
  <2>1. CASE session.kind = "visit"
    BY <1>1, <2>1, ZenonT(60) DEF Sessions, Path, Onward, Back, Joining, Connected, Steps
  <2>2. CASE session.kind = "notify"
    BY <1>1, <2>2, ZenonT(60) DEF Sessions, Path, Onward, Back, Joining, Connected, Steps
  <2>3. CASE session.kind = "collect"
    BY <1>1, <2>3 DEF Sessions, Path, Onward, Back, Joining, Connected, Steps
  <2>4. CASE session.kind = "join"
    BY <1>1, <2>4, ZenonT(60) DEF Sessions, Path, Onward, Back, Joining, Connected, Steps
  <2>5. CASE session.kind = "host"
    BY <1>1, <2>5 DEF Sessions, Path, Onward, Back, Joining, Connected, Steps
  <2> QED
    BY <1>2, <2>1, <2>2, <2>3, <2>4, <2>5
<1>4. Ends(session.step, ok) = IF to = "idle" THEN Rest ELSE [session EXCEPT !.step = to]
  BY DEF Ends
<1> HIDE DEF to
<1>5. CASE to = "idle"
  BY <1>4, <1>5, RestFits
<1>6. CASE to # "idle"
  <2> DEFINE s == [session EXCEPT !.step = to]
  <2>1. s \in Sessions /\ s.step = to /\ s.kind = session.kind /\ s.conn = session.conn
    BY <1>1, <1>3, <1>6 DEF Sessions
  <2>2. Fits(s)
    <3>1. s.step \in Path(s.kind) /\ (Connected(s) <=> s.conn # NoOne)
      BY <1>3, <1>6, <2>1
    <3> QED
      BY <2>1, <3>1 DEF Fits
  <2> QED
    BY <1>4, <1>6, <2>2
<1> QED
  BY <1>5, <1>6

\* ... and with a plain command it keeps its connection, unless it is a JOIN that succeeds.
LEMMA EndsKeeps ==
  ASSUME Fits(session), NEW ok \in BOOLEAN,
         session.step \in {"find", "use", "service", "rx", "tx", "subscribe", "unsubscribe", "adv"}
  PROVE  LET s == Ends(session.step, ok)
         IN  /\ ok /\ Joining /\ In("subscribe") => s = Rest
             /\ ~(ok /\ Joining /\ In("subscribe")) => s.conn = session.conn
             /\ s.step # "idle" => s.kind = session.kind
             /\ Joining /\ s.step \in {"tx", "subscribe"} =>
                  ok /\ session.step \in {"rx", "tx"} /\ s.conn = session.conn
             /\ Joining => session.step \in {"service", "rx", "tx", "subscribe"}
             /\ session.kind = "host" => session.conn = NoOne
<1>1. /\ session \in Sessions /\ session.step \in Path(session.kind)
      /\ Connected(session) <=> session.conn # NoOne
  BY DEF Fits
<1>2. session.kind \in {"visit", "notify", "collect", "join", "host"}
  BY <1>1 DEF Sessions, Procedures, Path
<1> USE DEF Sessions, Path, Onward, Back, Joining, In, Connected, Ends, Rest
<1>3. CASE session.kind = "visit"
  BY <1>1, <1>3
<1>4. CASE session.kind = "notify"
  BY <1>1, <1>4
<1>5. CASE session.kind = "collect"
  BY <1>1, <1>5
<1>6. CASE session.kind = "join"
  BY <1>1, <1>6
<1>7. CASE session.kind = "host"
  BY <1>1, <1>7
<1> QED
  BY <1>2, <1>3, <1>4, <1>5, <1>6, <1>7

\* The queue: nothing changes, the first event is gone, or one more comes.
LEMMA DataStays ==
  ASSUME InLine, LinkInOrder, UNCHANGED dataVars, flawed' \in {flawed, flawed \cup {"lost"}}
  PROVE  InLine' /\ LinkInOrder'
<1>1. "long" \in flawed' <=> "long" \in flawed
  OBVIOUS
<1>2. queue' = queue /\ value' = value /\ message' = message
  BY DEF dataVars
<1> QED
  BY <1>1, <1>2 DEF InLine, IsWrite, LinkInOrder

LEMMA QueueOfEvents ==
  ASSUME BleShape, queue # <<>>
  PROVE  /\ Tail(queue) \in Seq(Event) /\ Head(queue) = queue[1] /\ queue[1] \in Event
         /\ Len(queue) \in Nat \ {0} /\ Len(Tail(queue)) = Len(queue) - 1
         /\ \A i \in 1 .. Len(queue) - 1 : Tail(queue)[i] = queue[i + 1]
<1>1. queue \in Seq(Event)
  BY DEF BleShape
<1> QED
  BY <1>1, HeadTailProperties

LEMMA FirstGone ==
  ASSUME BleShape, InLine, queue # <<>>, queue' = Tail(queue), UNCHANGED <<value, flawed>>,
         message'.n = message.n \/ (IsWrite(1) /\ message'.n = queue[1].n)
                    \/ ("long" \in flawed /\ message'.n <= value)
  PROVE  InLine'
<1>1. /\ Len(queue) \in Nat \ {0} /\ Len(queue') = Len(queue) - 1
      /\ \A i \in 1 .. Len(queue') : queue'[i] = queue[i + 1]
  BY QueueOfEvents
<1>2. \A i \in 1 .. Len(queue') : i \in 1 .. Len(queue) /\ i + 1 \in 1 .. Len(queue) /\ 1 < i + 1
  BY <1>1
<1>3. 1 \in 1 .. Len(queue)
  BY <1>1
<1>4. message'.n <= value'
  BY <1>3 DEF InLine
<1>5. ASSUME NEW i \in 1 .. Len(queue'), IsWrite(i)'
      PROVE  /\ queue'[i].n <= value'
             /\ "long" \notin flawed' => ~queue'[i].long /\ queue'[i].n > message'.n
  <2>1. IsWrite(i + 1) /\ queue'[i] = queue[i + 1] /\ i + 1 \in 1 .. Len(queue) /\ 1 < i + 1
    BY <1>1, <1>2, <1>5 DEF IsWrite
  <2>2. IsWrite(1) => queue[i + 1].n > queue[1].n
    BY <1>3, <2>1 DEF InLine
  <2> QED
    BY <2>1, <2>2 DEF InLine
<1>6. ASSUME NEW i \in 1 .. Len(queue'), NEW j \in 1 .. Len(queue'), IsWrite(i)', IsWrite(j)', i < j
      PROVE  queue'[i].n < queue'[j].n
  <2>1. /\ IsWrite(i + 1) /\ queue'[i] = queue[i + 1] /\ i + 1 \in 1 .. Len(queue)
        /\ IsWrite(j + 1) /\ queue'[j] = queue[j + 1] /\ j + 1 \in 1 .. Len(queue)
        /\ i + 1 < j + 1
    BY <1>1, <1>2, <1>6 DEF IsWrite
  <2> QED
    BY <2>1 DEF InLine
<1> QED
  BY <1>4, <1>5, <1>6 DEF InLine

LEMMA OneMore ==
  ASSUME BleShape, InLine, NEW e \in Event, queue' = Append(queue, e), message' = message,
         value' \in Nat, value <= value', "long" \notin flawed' => "long" \notin flawed,
         e.kind = "write" => /\ e.n = value' /\ value < value'
                             /\ "long" \notin flawed' => ~e.long
  PROVE  queue' \in Seq(Event) /\ InLine'
<1>1. queue \in Seq(Event) /\ value \in Nat /\ message.n \in Nat
  BY BleAssumption DEF BleShape, Messages
<1>2. /\ queue' \in Seq(Event) /\ Len(queue) \in Nat /\ Len(queue') = Len(queue) + 1
      /\ \A i \in 1 .. Len(queue) : queue'[i] = queue[i]
      /\ queue'[Len(queue) + 1] = e
  BY <1>1, AppendProperties
<1>3. \A i \in 1 .. Len(queue) : IsWrite(i) => queue[i].n \in Nat
  BY <1>1 DEF IsWrite, Event
<1>4. message'.n <= value'
  BY <1>1 DEF InLine
<1>5. ASSUME NEW i \in 1 .. Len(queue'), IsWrite(i)'
      PROVE  /\ queue'[i].n <= value'
             /\ "long" \notin flawed' => ~queue'[i].long /\ queue'[i].n > message'.n
  <2>1. CASE i \in 1 .. Len(queue)
    BY <1>1, <1>2, <1>3, <1>5, <2>1 DEF InLine, IsWrite
  <2>2. CASE i = Len(queue) + 1
    BY <1>1, <1>2, <1>5, <2>2 DEF InLine, IsWrite
  <2> QED
    BY <1>2, <2>1, <2>2
<1>6. ASSUME NEW i \in 1 .. Len(queue'), NEW j \in 1 .. Len(queue'), IsWrite(i)', IsWrite(j)', i < j
      PROVE  queue'[i].n < queue'[j].n
  <2>1. i \in 1 .. Len(queue)
    BY <1>2, <1>6
  <2>2. CASE j \in 1 .. Len(queue)
    BY <1>2, <1>6, <2>1, <2>2 DEF InLine, IsWrite
  <2>3. CASE j = Len(queue) + 1
    BY <1>1, <1>2, <1>3, <1>6, <2>1, <2>3 DEF InLine, IsWrite
  <2> QED
    BY <1>2, <2>2, <2>3
<1> QED
  BY <1>2, <1>4, <1>5, <1>6 DEF InLine

LEMMA BleAtFirst == BleInit => BleInv
<1> SUFFICES ASSUME BleInit PROVE BleInv
  OBVIOUS
<1>1. <<>> \in Seq(Event) /\ Len(<<>>) = 0 /\ 0 \in 0 .. MaxWrites
  BY BleAssumption
<1>2. Fits(session) /\ session.conn = NoOne /\ session.step = "idle" /\ session.kind = "none"
  BY RestFits DEF BleInit
<1>3. BleShape
  BY <1>1 DEF BleInit, BleShape, Messages
<1>4. NothingLost
  BY <1>2 DEF BleInit, NothingLost
<1>5. InLine /\ LinkInOrder
  BY <1>1 DEF BleInit, InLine, LinkInOrder
<1>6. LinkIsWhole /\ LinkGrows
  BY <1>2 DEF BleInit, LinkIsWhole, LinkGrows, Joining
<1> QED
  BY <1>2, <1>3, <1>4, <1>5, <1>6 DEF BleInv

LEMMA BleStep == BleInv /\ [BleNext]_bleVars => BleInv'
<1> SUFFICES ASSUME BleInv, [BleNext]_bleVars PROVE BleInv'
  OBVIOUS
<1> USE DEF BleInv
<1>0. /\ session \in Sessions /\ session.step \in Path(session.kind)
      /\ Connected(session) <=> session.conn # NoOne
      /\ session.kind # "none" => session.polls # 0
  BY DEF Fits
<1>a. session.step = "idle" => session.kind = "none" /\ session.conn = NoOne
  BY <1>0 DEF Sessions, Procedures, Path, Connected
<1>b. NoOne \notin Conns
  BY BleAssumption
<1>1. ASSUME NEW kind \in Procedures, Begin(kind) PROVE BleInv'
  <2>1. /\ UNCHANGED <<conns, scanning, serving, kept, flawed>> /\ UNCHANGED dataVars
        /\ session.step = "idle" /\ session'.conn = NoOne /\ session'.kind = kind
        /\ session'.step = CASE kind \in {"visit", "notify"} -> "connect"
                             [] kind \in {"collect", "join"} -> "scan"
                             [] kind = "host" -> "reset"
        /\ session' \in [kind : {kind}, conn : {NoOne}, polls : {Polls}, found : {FALSE},
                         step : {session'.step}]
        /\ link' = IF kind \in {"join", "host"} THEN Forgotten ELSE link
    BY <1>1 DEF Begin, Rests, mcuVars
  <2>2. session'.step \in {"connect", "scan", "reset"}
    BY <2>1 DEF Procedures
  <2>3. Fits(session)'
    <3>1. Polls \in 0 .. Polls
      BY BleAssumption
    <3>2. session' \in Sessions /\ session'.polls # 0
      BY <2>1, <2>2, <3>1, BleAssumption DEF Sessions, Steps
    <3>3. session'.step \in Path(session'.kind) /\ ~Connected(session')
      BY <2>1 DEF Path, Connected, Procedures
    <3> QED
      BY <2>1, <3>2, <3>3 DEF Fits
  <2>4. Forgotten \in [rx : Conns \cup {NoOne}, notify : Conns \cup {NoOne}, tx : BOOLEAN]
    BY DEF Forgotten
  <2>5. BleShape'
    BY <2>1, <2>4 DEF BleShape, dataVars
  <2>6. InLine' /\ LinkInOrder'
    BY <2>1, DataStays
  <2>7. NothingLost'
    BY <1>a, <2>1, <2>2 DEF NothingLost
  <2>8. LinkIsWhole' /\ LinkGrows'
    BY <2>1, <2>2 DEF LinkIsWhole, LinkGrows, Joining, Forgotten
  <2> QED
    BY <2>3, <2>5, <2>6, <2>7, <2>8
<1>2. ASSUME NEW ok \in BOOLEAN, Plain(ok) PROVE BleInv'
  <2>1. /\ UNCHANGED <<conns, scanning, serving, flawed>> /\ UNCHANGED dataVars
        /\ session.step \in
             {"find", "use", "service", "rx", "tx", "subscribe", "unsubscribe", "adv"}
        /\ session' = Ends(session.step, ok)
        /\ link' = IF ~ok \/ ~Joining THEN link
                   ELSE IF In("rx") THEN [link EXCEPT !.rx = session.conn]
                   ELSE IF In("subscribe") THEN [link EXCEPT !.notify = session.conn] ELSE link
        /\ kept' = IF ok /\ Joining /\ In("subscribe") THEN kept \cup {session.conn} ELSE kept
    BY <1>2 DEF Plain, mcuVars
  <2>2. Fits(session)'
    <3>1. Fits(Ends(session.step, ok))
      BY <2>1, EndsFits
    <3> QED
      BY <2>1, <3>1 DEF Fits, Connected
  <2>3. /\ ok /\ Joining /\ In("subscribe") => session' = Rest
        /\ ~(ok /\ Joining /\ In("subscribe")) => session'.conn = session.conn
        /\ session'.step # "idle" => session'.kind = session.kind
        /\ Joining /\ session'.step \in {"tx", "subscribe"} =>
             ok /\ session.step \in {"rx", "tx"} /\ session'.conn = session.conn
        /\ Joining => session.step \in {"service", "rx", "tx", "subscribe"}
        /\ session.kind = "host" => session.conn = NoOne
    BY <2>1, EndsKeeps
  <2>4. session.conn \in Conns \cup {NoOne} /\ (Joining => session.conn # NoOne)
    BY <1>0, <2>3 DEF Sessions, Joining, Connected
  <2>5. BleShape'
    <3>1. link' \in [rx : Conns \cup {NoOne}, notify : Conns \cup {NoOne}, tx : BOOLEAN]
      BY <2>1, <2>4 DEF BleShape
    <3>2. kept' \subseteq Conns
      BY <2>1, <2>4 DEF BleShape
    <3> QED
      BY <2>1, <3>1, <3>2 DEF BleShape, dataVars
  <2>6. InLine' /\ LinkInOrder'
    BY <2>1, DataStays
  <2>7. NothingLost'
    <3> SUFFICES ASSUME "lost" \notin flawed PROVE NothingLost'
      BY <2>1 DEF NothingLost
    <3>1. ~scanning /\ conns = kept \cup ({session.conn} \ {NoOne}) /\ session.conn \notin kept
      BY <2>1 DEF NothingLost
    <3>2. CASE ok /\ Joining /\ In("subscribe")
      BY <1>b, <2>1, <2>3, <2>4, <3>1, <3>2, RestFits, ZenonT(60) DEF NothingLost, BleShape
    <3>3. CASE ~(ok /\ Joining /\ In("subscribe"))
      BY <2>1, <2>3, <3>1, <3>3 DEF NothingLost
    <3> QED
      BY <3>2, <3>3
  <2>8. LinkIsWhole'
    <3>1. CASE ok /\ Joining /\ In("subscribe")
      BY <2>1, <2>4, <3>1 DEF LinkIsWhole, LinkGrows, In, BleShape
    <3>2. CASE ok /\ Joining /\ In("rx")
      BY <2>1, <2>4, <3>2 DEF LinkIsWhole, LinkGrows, In, BleShape
    <3>3. CASE link' = link
      BY <2>1, <3>3 DEF LinkIsWhole
    <3> QED
      BY <2>1, <3>1, <3>2, <3>3
  <2>9. LinkGrows'
    <3>1. CASE session'.step = "idle"
      <4>1. session'.kind = "none"
        BY <2>2, <3>1 DEF Fits, Sessions, Procedures, Path
      <4> QED
        BY <3>1, <4>1 DEF LinkGrows, Joining
    <3>2. CASE session'.step # "idle" /\ Joining
      BY <2>1, <2>3, <2>4, <3>2, RestFits DEF LinkGrows, Joining, In, BleShape
    <3>3. CASE session'.step # "idle" /\ ~Joining
      <4>1. link' = link /\ session'.kind = session.kind
        BY <2>1, <2>3, <3>3
      <4>2. session.kind = "host" /\ session'.step # "adv" => session.step # "adv"
        <5>1. ASSUME session.step = "adv" PROVE session'.step = "idle"
          <6>1. session.kind = "host"
            BY <1>0, <5>1 DEF Sessions, Procedures, Path
          <6>2. Onward("host", "adv") = "idle" /\ Back("host", "adv") = "idle"
            BY DEF Onward, Back
          <6> QED
            BY <2>1, <5>1, <6>1, <6>2, RestFits DEF Ends, Joining
        <5> QED
          BY <3>3, <5>1
      <4> QED
        BY <3>3, <4>1, <4>2 DEF LinkGrows, Joining
    <3> QED
      BY <3>1, <3>2, <3>3
  <2> QED
    BY <2>2, <2>5, <2>6, <2>7, <2>8, <2>9
<1>3. ASSUME NEW c \in Conns, Connect(c) PROVE BleInv'
  <2>1. /\ UNCHANGED <<kept, scanning, serving, link>> /\ UNCHANGED dataVars
        /\ session.step = "connect" /\ c \notin conns
        /\ \/ /\ session' = [Ends("connect", TRUE) EXCEPT !.conn = c]
              /\ conns' = conns \cup {c} /\ UNCHANGED flawed
           \/ session' = Ends("connect", FALSE) /\ UNCHANGED <<conns, flawed>>
           \/ session' = Ends("connect", FALSE) /\ conns' = conns \cup {c}
              /\ flawed' = flawed \cup {"lost"}
    BY <1>3 DEF Connect, In, Losing
  <2>2. session.conn = NoOne /\ session.kind \in {"visit", "notify", "join"}
    BY <1>0, <2>1 DEF Sessions, Procedures, Path, Connected
  <2>3. InLine' /\ LinkInOrder'
    BY <2>1, DataStays
  <2>4. BleShape'
    BY <2>1 DEF BleShape, dataVars
  <2>5. LinkIsWhole'
    BY <2>1 DEF LinkIsWhole
  <2>6. CASE /\ session' = [Ends("connect", TRUE) EXCEPT !.conn = c]
             /\ conns' = conns \cup {c} /\ UNCHANGED flawed
    <3> DEFINE to == IF session.kind = "join" THEN "service" ELSE "find"
    <3>1. Ends("connect", TRUE) = [session EXCEPT !.step = to]
      BY DEF Ends, Onward, Joining
    <3>2. /\ session' \in Sessions /\ session'.step = to /\ session'.kind = session.kind
          /\ session'.conn = c /\ session'.polls = session.polls
      BY <1>0, <2>6, <3>1 DEF Sessions, Steps
    <3>3. session'.step \in Path(session'.kind) /\ Connected(session')
      BY <2>2, <3>2 DEF Path, Connected
    <3>4. Fits(session)'
      BY <1>0, <1>b, <2>2, <3>2, <3>3 DEF Fits
    <3>5. NothingLost'
      BY <1>b, <2>1, <2>2, <2>6, <3>2, ZenonT(60) DEF NothingLost
    <3>6. LinkGrows'
      BY <2>1, <2>2, <3>2 DEF LinkGrows, Joining
    <3> QED
      BY <2>3, <2>4, <2>5, <3>4, <3>5, <3>6
  <2>7. CASE /\ session' = Ends("connect", FALSE)
             /\ \/ UNCHANGED <<conns, flawed>>
                \/ flawed' = flawed \cup {"lost"}
    <3>1. Ends("connect", FALSE) = Rest
      BY <2>2 DEF Ends, Back, Joining
    <3>2. Fits(session)' /\ session'.conn = NoOne /\ session'.kind = "none"
      BY <2>7, <3>1, RestFits
    <3>3. NothingLost'
      BY <2>1, <2>2, <2>7, <3>1, <3>2, <1>b DEF NothingLost, BleShape
    <3>4. LinkGrows'
      BY <3>2 DEF LinkGrows, Joining
    <3> QED
      BY <2>3, <2>4, <2>5, <3>2, <3>3, <3>4
  <2> QED
    BY <2>1, <2>6, <2>7
<1>4. CASE Disconnect
  <2>1. PICK ok \in BOOLEAN :
          /\ session' = Ends("disconnect", ok)
          /\ \/ conns' = conns \ {session.conn} /\ UNCHANGED flawed
             \/ ~ok /\ UNCHANGED conns /\ Losing
    BY <1>4 DEF Disconnect
  <2>2. /\ UNCHANGED <<kept, scanning, serving, link>> /\ UNCHANGED dataVars
        /\ session.step = "disconnect"
        /\ \/ conns' = conns \ {session.conn} /\ flawed' = flawed
           \/ conns' = conns /\ flawed' = flawed \cup {"lost"}
    BY <1>4, <2>1 DEF Disconnect, In, Losing
  <2>3. session' = Rest
    <3>1. session.kind \in {"visit", "notify", "join"}
      BY <1>0, <2>2 DEF Sessions, Procedures, Path
    <3>2. Ends("disconnect", ok) = Rest
      BY <3>1 DEF Ends, Onward, Back, Joining
    <3> QED
      BY <2>1, <3>2
  <2>4. Fits(session)' /\ session'.conn = NoOne /\ session'.kind = "none"
    BY <2>3, RestFits
  <2>5. InLine' /\ LinkInOrder'
    BY <2>2, DataStays
  <2>6. BleShape' /\ LinkIsWhole' /\ LinkGrows'
    BY <2>2, <2>4 DEF BleShape, dataVars, LinkIsWhole, LinkGrows, Joining
  <2>7. NothingLost'
    BY <1>b, <2>2, <2>4 DEF NothingLost, BleShape
  <2> QED
    BY <2>4, <2>5, <2>6, <2>7
<1>5. ASSUME NEW on \in BOOLEAN, Scan(on) PROVE BleInv'
  <2>1. PICK ok \in BOOLEAN :
          /\ session' = Ends(session.step, ok)
          /\ scanning' = on \/ (~ok /\ scanning' = scanning)
          /\ IF ~ok /\ scanning' THEN Losing ELSE UNCHANGED flawed
    BY <1>5 DEF Scan
  <2>2. /\ UNCHANGED <<conns, kept, serving, link>> /\ UNCHANGED dataVars
        /\ session.step = IF on THEN "scan" ELSE "stop"
    BY <1>5 DEF Scan, In
  <2>a. flawed' \in {flawed, flawed \cup {"lost"}}
    BY <2>1 DEF Losing
  <2>3. Fits(session)'
    <3>1. Fits(Ends(session.step, ok))
      BY <2>2, EndsFits
    <3> QED
      BY <2>1, <3>1 DEF Fits, Connected
  <2>4. session.conn = NoOne /\ session.kind \in {"collect", "join"}
    BY <1>0, <2>2 DEF Sessions, Procedures, Path, Connected
  <2>5. /\ session'.conn = NoOne
        /\ session'.step # "idle" => session'.kind = session.kind
        /\ session'.step \in {"poll", "connect", "idle"}
        /\ session'.step = "poll" <=> on /\ ok
    <3>1. CASE on
      <4>1. Onward(session.kind, "scan") = "poll" /\ Back(session.kind, "scan") = "idle"
        BY <2>4 DEF Onward, Back
      <4>2. session' = IF ok THEN [session EXCEPT !.step = "poll"] ELSE Rest
        BY <2>1, <2>2, <3>1, <4>1 DEF Ends
      <4> QED
        BY <1>0, <2>4, <3>1, <4>2, RestFits DEF Sessions
    <3>2. CASE ~on
      <4>1. /\ Onward(session.kind, "stop") \in {"idle", "connect"}
            /\ Back(session.kind, "stop") \in {"idle", "connect"}
        BY <2>4 DEF Onward, Back
      <4>2. session' \in {Rest, [session EXCEPT !.step = "connect"]}
        BY <2>1, <2>2, <3>2, <4>1 DEF Ends
      <4> QED
        BY <1>0, <2>4, <3>2, <4>2, RestFits DEF Sessions
    <3> QED
      BY <3>1, <3>2
  <2>6. InLine' /\ LinkInOrder'
    BY <2>2, <2>a, DataStays
  <2>7. scanning' \in BOOLEAN
    BY <2>1, Zenon DEF BleShape
  <2>8. BleShape' /\ LinkIsWhole'
    BY <2>2, <2>7, <2>a DEF BleShape, dataVars, LinkIsWhole
  <2>9. NothingLost'
    <3> SUFFICES ASSUME "lost" \notin flawed' PROVE NothingLost'
      BY DEF NothingLost
    <3>1. "lost" \notin flawed /\ ~(~ok /\ scanning')
      BY <2>1, <2>a DEF Losing
    <3>2. scanning' => ok /\ on
      <4>1. CASE ok
        BY <2>1, <4>1
      <4>2. CASE ~ok
        BY <3>1, <4>2
      <4> QED
        BY <4>1, <4>2
    <3>3. scanning' => session'.kind \in {"collect", "join"} /\ session'.step = "poll"
      BY <2>4, <2>5, <3>2
    <3> QED
      BY <2>2, <2>4, <2>5, <3>1, <3>3 DEF NothingLost
  <2>10. LinkGrows'
    <3>1. session'.kind # "host" /\ (session'.kind = "join" => session.kind = "join")
      BY <2>3, <2>4, <2>5 DEF Fits, Path, Sessions, Procedures
    <3> QED
      BY <2>2, <2>5, <3>1 DEF LinkGrows, Joining
  <2> QED
    BY <2>3, <2>6, <2>8, <2>9, <2>10
<1>6. ASSUME NEW on \in BOOLEAN, Serve(on) PROVE BleInv'
  <2>1. PICK ok \in BOOLEAN :
          /\ session' = Ends(session.step, ok)
          /\ serving' \in IF ok THEN {on} ELSE {on, serving}
          /\ link' = IF ok /\ on THEN [link EXCEPT !.tx = TRUE] ELSE link
    BY <1>6 DEF Serve
  <2>2. /\ UNCHANGED <<conns, kept, scanning, flawed>> /\ UNCHANGED dataVars
        /\ session.step = IF on THEN "start" ELSE "reset"
    BY <1>6 DEF Serve, In
  <2>3. Fits(session)'
    <3>1. Fits(Ends(session.step, ok))
      BY <2>2, EndsFits
    <3> QED
      BY <2>1, <3>1 DEF Fits, Connected
  <2>4. session.conn = NoOne /\ session.kind = "host" /\ link = Forgotten
    <3>1. session.conn = NoOne /\ session.kind = "host"
      BY <1>0, <2>2 DEF Sessions, Procedures, Path, Connected
    <3> QED
      BY <2>2, <3>1 DEF LinkGrows
  <2>5. session' = IF ok THEN [session EXCEPT !.step = IF on THEN "adv" ELSE "service"] ELSE Rest
    <3>1. /\ Onward("host", "start") = "adv" /\ Onward("host", "reset") = "service"
          /\ Back("host", "start") = "idle" /\ Back("host", "reset") = "idle"
      BY DEF Onward, Back
    <3> QED
      BY <2>1, <2>2, <2>4, <3>1 DEF Ends, Joining
  <2>6. /\ session'.conn = NoOne /\ session'.kind \in {"host", "none"}
        /\ session'.kind = "host" => ok /\ session'.step = IF on THEN "adv" ELSE "service"
        /\ session'.step \notin {"poll", "stop"}
    BY <1>0, <2>4, <2>5, RestFits DEF Sessions
  <2>7. InLine' /\ LinkInOrder'
    BY <2>2, DataStays
  <2>8. /\ serving' \in BOOLEAN /\ (ok /\ on => serving')
        /\ link' \in [rx : Conns \cup {NoOne}, notify : Conns \cup {NoOne}, tx : BOOLEAN]
        /\ link'.rx = NoOne /\ link'.notify = NoOne /\ (link'.tx => ok /\ on)
        /\ ~(ok /\ on) => link' = Forgotten
    <3>1. serving' \in BOOLEAN /\ (ok /\ on => serving')
      BY <2>1, Zenon DEF BleShape
    <3>2. link' = IF ok /\ on THEN [Forgotten EXCEPT !.tx = TRUE] ELSE Forgotten
      BY <2>1, <2>4
    <3> QED
      BY <3>1, <3>2 DEF Forgotten
  <2>9. BleShape'
    BY <2>2, <2>8 DEF BleShape, dataVars
  <2>10. LinkIsWhole' /\ LinkGrows'
    BY <2>6, <2>8 DEF LinkIsWhole, LinkGrows, Joining
  <2>11. NothingLost'
    BY <2>2, <2>4, <2>6 DEF NothingLost
  <2> QED
    BY <2>3, <2>7, <2>9, <2>10, <2>11
<1>7. CASE Poll
  <2>1. /\ UNCHANGED <<conns, scanning, serving, kept, link, value, message, flawed>>
        /\ session.step = "poll"
        /\ queue' = queue \/ (queue # <<>> /\ queue' = Tail(queue))
        /\ \/ session' = [session EXCEPT !.polls = @ - 1] /\ session.polls # 1
           \/ \E found \in BOOLEAN : session' = [Ends("poll", TRUE) EXCEPT !.found = found]
           \/ session' = Ends("poll", FALSE)
    BY <1>7 DEF Poll, In, mcuVars
  <2>2. session.kind \in {"notify", "collect", "join"}
    BY <1>0, <2>1 DEF Sessions, Procedures, Path
  <2>3. Back(session.kind, "poll") = Onward(session.kind, "poll")
    BY DEF Back
  <2> DEFINE to == IF session.kind = "notify" THEN "unsubscribe" ELSE "stop"
  <2>4. Onward(session.kind, "poll") = to
    BY DEF Onward
  <2>5. \A ok \in BOOLEAN : Ends("poll", ok) = [session EXCEPT !.step = to]
    BY <2>3, <2>4 DEF Ends
  <2>6. /\ session' \in Sessions /\ session'.kind = session.kind /\ session'.conn = session.conn
        /\ session'.step \in {"poll", to} /\ session'.polls # 0
    <3>1. CASE session' = [session EXCEPT !.polls = @ - 1] /\ session.polls # 1
      <4>1. session.polls \in 0 .. Polls /\ session.polls # 0
        BY <1>0, <2>2 DEF Sessions
      <4>2. session.polls - 1 \in 0 .. Polls /\ session.polls - 1 # 0
        BY <3>1, <4>1, BleAssumption
      <4> QED
        BY <1>0, <2>1, <3>1, <4>2 DEF Sessions
    <3>2. CASE \E found \in BOOLEAN : session' = [Ends("poll", TRUE) EXCEPT !.found = found]
      BY <1>0, <2>2, <2>5, <3>2, ZenonT(60) DEF Sessions, Steps
    <3>3. CASE session' = Ends("poll", FALSE)
      BY <1>0, <2>2, <2>5, <3>3 DEF Sessions, Steps
    <3> QED
      BY <2>1, <3>1, <3>2, <3>3
  <2>7. Fits(session)'
    <3>1. session'.step \in Path(session'.kind) /\ (Connected(session') <=> Connected(session))
      BY <2>1, <2>2, <2>6 DEF Path, Connected
    <3> QED
      BY <1>0, <2>6, <3>1 DEF Fits
  <2>8. queue' \in Seq(Event) /\ InLine'
    <3>1. CASE queue' = queue
      BY <2>1, <3>1 DEF BleShape, InLine, IsWrite
    <3>2. CASE queue # <<>> /\ queue' = Tail(queue)
      BY <2>1, <3>2, QueueOfEvents, FirstGone
    <3> QED
      BY <2>1, <3>1, <3>2
  <2>9. BleShape' /\ LinkIsWhole' /\ LinkInOrder'
    BY <2>1, <2>8 DEF BleShape, LinkIsWhole, LinkInOrder
  <2>10. NothingLost' /\ LinkGrows'
    BY <2>1, <2>2, <2>6 DEF NothingLost, LinkGrows, Joining
  <2> QED
    BY <2>7, <2>8, <2>9, <2>10
<1>8. ASSUME NEW c \in Conns, OwnConnect(c) \/ OwnDisconnect(c) PROVE BleInv'
  <2>1. /\ UNCHANGED <<session, scanning, serving, link>> /\ UNCHANGED dataVars
        /\ session.step = "idle"
        /\ \/ /\ c \notin conns /\ conns' = conns \cup {c}
              /\ \/ kept' = kept \cup {c} /\ flawed' = flawed
                 \/ kept' = kept /\ flawed' = flawed \cup {"lost"}
           \/ /\ c \in kept /\ kept' = kept \ {c}
              /\ \/ conns' = conns \ {c} /\ flawed' = flawed
                 \/ conns' = conns /\ flawed' = flawed \cup {"lost"}
    BY <1>8 DEF OwnConnect, OwnDisconnect, Rests, Losing
  <2>2. InLine' /\ LinkInOrder'
    <3>1. flawed' \in {flawed, flawed \cup {"lost"}}
      BY <2>1
    <3> QED
      BY <2>1, <3>1, DataStays
  <2>3. BleShape' /\ LinkIsWhole' /\ LinkGrows' /\ Fits(session)'
    BY <2>1 DEF BleShape, dataVars, LinkIsWhole, LinkGrows, Joining, Fits, Connected
  <2>4. NothingLost'
    BY <1>a, <1>b, <2>1 DEF NothingLost, BleShape
  <2> QED
    BY <2>2, <2>3, <2>4
<1>9. ASSUME NEW c \in Conns \cup {NoOne}, LinkStop(c) PROVE BleInv'
  <2>1. /\ UNCHANGED <<session, scanning>> /\ UNCHANGED dataVars
        /\ session.step = "idle" /\ link' = Forgotten /\ serving' \in {FALSE, serving}
        /\ c \in kept \cup {NoOne} /\ kept' = kept \ {c}
        /\ \/ conns' = conns \ {c} /\ flawed' = flawed
           \/ conns' = conns /\ flawed' = flawed \cup {"lost"}
    BY <1>9 DEF LinkStop, Rests, Losing
  <2>2. InLine' /\ LinkInOrder'
    <3>1. flawed' \in {flawed, flawed \cup {"lost"}}
      BY <2>1
    <3> QED
      BY <2>1, <3>1, DataStays
  <2>3. serving' \in BOOLEAN
    BY <2>1, Zenon DEF BleShape
  <2>4. /\ link' \in [rx : Conns \cup {NoOne}, notify : Conns \cup {NoOne}, tx : BOOLEAN]
        /\ LinkIsWhole' /\ LinkGrows'
    BY <1>a, <2>1 DEF Forgotten, LinkIsWhole, LinkGrows, Joining
  <2>5. BleShape' /\ Fits(session)'
    BY <2>1, <2>3, <2>4 DEF BleShape, dataVars, Fits, Connected
  <2>6. NothingLost'
    BY <1>a, <1>b, <2>1 DEF NothingLost, BleShape
  <2> QED
    BY <2>2, <2>4, <2>5, <2>6
<1>10. ASSUME NEW e \in Event, Tells(e), value' = value, flawed' = flawed, e.kind # "write",
              UNCHANGED <<session, mcuVars, kept, link, message>>
       PROVE  BleInv'
  <2>1. /\ queue' = Append(queue, e) /\ value' \in Nat /\ value <= value'
        /\ UNCHANGED <<session, conns, scanning, serving, kept, link, message>>
    BY <1>10, BleAssumption DEF Tells, BleShape, mcuVars
  <2>2. queue' \in Seq(Event) /\ InLine'
    BY <1>10, <2>1, OneMore
  <2>3. BleShape' /\ LinkIsWhole' /\ LinkGrows' /\ Fits(session)' /\ LinkInOrder'
    BY <1>10, <2>1, <2>2
    DEF BleShape, LinkIsWhole, LinkGrows, Joining, Fits, Connected, LinkInOrder
  <2>4. NothingLost'
    BY <1>10, <2>1 DEF NothingLost
  <2> QED
    BY <2>2, <2>3, <2>4
<1>11. ASSUME NEW kind \in {"scan", "complete"}, Found(kind) PROVE BleInv'
  <2>1. [kind |-> kind] \in Event /\ [kind |-> kind].kind # "write"
    BY DEF Event
  <2> QED
    BY <1>10, <1>11, <2>1 DEF Found
<1>12. ASSUME NEW p \in Peers, Subscribes(p) PROVE BleInv'
  <2> DEFINE e == [kind |-> "subscribe", peer |-> p]
  <2>1. e \in Event /\ e.kind # "write"
    BY DEF Event
  <2>2. Tells(e) /\ UNCHANGED <<session, mcuVars, kept, link, value, message, flawed>>
    BY <1>12 DEF Subscribes
  <2> HIDE DEF e
  <2> QED
    BY <1>10, <2>1, <2>2
<1>13. ASSUME NEW p \in Peers, NEW long \in BOOLEAN, Writes(p, long) PROVE BleInv'
  <2> DEFINE e == [kind |-> "write", peer |-> p, n |-> value + 1, long |-> long]
  <2>1. value \in Nat /\ value < MaxWrites /\ value' = value + 1 /\ value + 1 \in 1 .. MaxWrites
    BY <1>13, BleAssumption DEF Writes, BleShape
  <2>2. e \in Event /\ e.kind = "write" /\ e.n = value + 1 /\ e.long = long
    BY <2>1 DEF Event
  <2>3. /\ queue' = Append(queue, e)
        /\ UNCHANGED <<session, conns, scanning, serving, kept, link, message>>
        /\ flawed' = IF long THEN flawed \cup {"long"} ELSE flawed
    BY <1>13 DEF Writes, Tells, mcuVars
  <2>4. "long" \notin flawed' => "long" \notin flawed /\ ~e.long
    BY <2>2, <2>3
  <2> HIDE DEF e
  <2>5. queue' \in Seq(Event) /\ InLine'
    BY <2>1, <2>2, <2>3, <2>4, OneMore
  <2>6. BleShape' /\ LinkIsWhole' /\ LinkGrows' /\ Fits(session)'
    BY <2>1, <2>3, <2>5 DEF BleShape, LinkIsWhole, LinkGrows, Joining, Fits, Connected
  <2>7. LinkInOrder'
    BY <2>3, <2>4 DEF LinkInOrder
  <2>8. NothingLost'
    BY <2>3 DEF NothingLost
  <2> QED
    BY <2>5, <2>6, <2>7, <2>8
<1>14. CASE PeerReady
  <2>1. /\ queue # <<>> /\ queue' = Tail(queue) /\ UNCHANGED <<value, message, flawed>>
        /\ UNCHANGED <<session, conns, scanning, serving, kept, link>>
    BY <1>14 DEF PeerReady, mcuVars
  <2>2. queue' \in Seq(Event) /\ InLine'
    BY <2>1, QueueOfEvents, FirstGone
  <2>3. BleShape' /\ LinkIsWhole' /\ LinkGrows' /\ Fits(session)' /\ LinkInOrder'
    BY <2>1, <2>2 DEF BleShape, LinkIsWhole, LinkGrows, Joining, Fits, Connected, LinkInOrder
  <2>4. NothingLost'
    BY <2>1 DEF NothingLost
  <2> QED
    BY <2>2, <2>3, <2>4
<1>15. ASSUME NEW p \in Peers, Recv(p) PROVE BleInv'
  <2>1. /\ queue # <<>> /\ queue' = Tail(queue) /\ UNCHANGED <<value, flawed>>
        /\ UNCHANGED <<session, conns, scanning, serving, kept, link>>
    BY <1>15 DEF Recv, mcuVars
  <2>2. /\ Head(queue) = queue[1] /\ queue[1] \in Event /\ 1 \in 1 .. Len(queue)
        /\ Tail(queue) \in Seq(Event)
    BY <2>1, QueueOfEvents
  <2>3. message' = IF OfPeer(queue[1], p)
                   THEN [asked |-> p, from |-> queue[1].peer,
                         n |-> IF queue[1].long THEN value ELSE queue[1].n,
                         before |-> IF message.asked = p THEN message.n ELSE 0]
                   ELSE message
    BY <1>15, <2>2 DEF Recv
  <2>4. CASE ~OfPeer(queue[1], p)
    <3>1. InLine'
      BY <2>1, <2>3, <2>4, FirstGone
    <3> QED
      BY <2>1, <2>2, <2>3, <2>4, <3>1
      DEF BleShape, LinkIsWhole, LinkGrows, Joining, Fits, Connected, LinkInOrder, NothingLost
  <2>5. CASE OfPeer(queue[1], p)
    <3>1. /\ IsWrite(1) /\ queue[1].peer = p /\ queue[1].n \in 1 .. MaxWrites
          /\ queue[1].long \in BOOLEAN
      BY <2>2, <2>5 DEF OfPeer, IsWrite, Event
    <3>2. /\ queue[1].n <= value
          /\ "long" \notin flawed => ~queue[1].long /\ queue[1].n > message.n
      BY <2>2, <3>1 DEF InLine
    <3> DEFINE n == IF queue[1].long THEN value ELSE queue[1].n
               before == IF message.asked = p THEN message.n ELSE 0
    <3>3. n \in 0 .. MaxWrites /\ before \in 0 .. MaxWrites
      BY <3>1, BleAssumption DEF BleShape, Messages
    <3>4. message' = [asked |-> p, from |-> p, n |-> n, before |-> before]
      BY <2>3, <2>5, <3>1
    <3>5. /\ "long" \notin flawed => n = queue[1].n /\ n > before
          /\ n = queue[1].n \/ (queue[1].long /\ n = value)
      BY <3>1, <3>2
    <3> HIDE DEF n, before
    <3>6. message' \in Messages /\ message'.n = n /\ message'.before = before
          /\ message'.from = message'.asked
      BY <3>3, <3>4 DEF Messages
    <3>7. queue[1].long => "long" \in flawed
      BY <3>2
    <3>8. InLine'
      <4>1. value <= value /\ value \in Nat
        BY BleAssumption DEF BleShape
      <4> QED
        BY <2>1, <3>1, <3>5, <3>6, <3>7, <4>1, FirstGone
    <3>9. LinkInOrder'
      BY <2>1, <3>5, <3>6 DEF LinkInOrder
    <3> QED
      BY <2>1, <2>2, <3>6, <3>8, <3>9
      DEF BleShape, LinkIsWhole, LinkGrows, Joining, Fits, Connected, NothingLost
  <2> QED
    BY <2>4, <2>5
<1>16. CASE UNCHANGED bleVars
  <2>1. UNCHANGED <<session, conns, kept, scanning, serving, link, flawed>> /\ UNCHANGED dataVars
    BY <1>16 DEF bleVars, dataVars
  <2>2. InLine' /\ LinkInOrder'
    BY <2>1, DataStays
  <2> QED
    BY <2>1, <2>2
    DEF BleShape, dataVars, LinkIsWhole, LinkGrows, Joining, Fits, Connected, NothingLost
<1> QED
  BY <1>1, <1>2, <1>3, <1>4, <1>5, <1>6, <1>7, <1>8, <1>9, <1>11, <1>12, <1>13, <1>14, <1>15,
     <1>16 DEF BleNext

\* ble.c:395-577, 950-984, 1607-1723, ble_link_io.c:29-72: for any number of connections, peers
\* and messages, whichever command of a call fails, it leaves no connection and no scan behind
\* unless an answer was lost; a link is whole; messages come in the order they were sent.
THEOREM CallsLeaveNothing == BleSpec => []NothingDangles
<1>1. BleInv => NothingDangles
  <2> SUFFICES ASSUME BleInv PROVE NothingDangles
    OBVIOUS
  <2>1. session.step = "idle" => session.step \notin {"poll", "stop"}
    OBVIOUS
  <2>2. NothingLeftBehind
    BY <2>1 DEF BleInv, NothingLost, NothingLeftBehind, Rests
  <2> QED
    BY <2>2 DEF BleInv, NothingDangles
<1> QED
  BY <1>1, BleAtFirst, BleStep, PTL DEF BleSpec

-----------------------------------------------------------------------------
(* SocketCalls                                                              *)

SelectFields == [round : BOOLEAN, nfds : Nat, read : SUBSET Nat, write : SUBSET Nat,
                 except : SUBSET Nat, attempts : Int, fd : Nat, ready_read : SUBSET Nat,
                 ready_write : SUBSET Nat, ready_count : Nat]
SelectShape == sel \in SelectFields

\* A select under way has marked and counted what it was asked for and has found, each
\* descriptor before the next.
SoFar ==
  sel.round =>
    /\ sel.fd \in 1 .. sel.nfds
    /\ polled \subseteq (1 .. sel.fd - 1) \X {"readable", "writable"}
    /\ sel.ready_read = {d \in sel.read : <<d, "readable">> \in polled}
    /\ sel.ready_write = {d \in sel.write : <<d, "writable">> \in polled}
    /\ sel.ready_count = Cardinality(sel.ready_read \cup sel.ready_write)

\* A socket's remote is who sent the last bytes.
Remembered ==
  /\ slots = [fd \in Descriptors |-> [state |-> slots[fd].state, remote |-> last_from[fd]]]
  /\ last_from = [fd \in Descriptors |-> last_from[fd]]

CallInv == SelectShape /\ SoFar /\ Remembered /\ ToldTrue

LEMMA NoSelectShape ==
  /\ NoSelect \in SelectFields /\ NoSelect.round = FALSE
  /\ NoSelect.read = {} /\ NoSelect.write = {}
BY DEF NoSelect, SelectFields

\* What a call tells that is not a select and has received nothing.
LEMMA NothingTold ==
  /\ told_of' = Nothing => ToldTrue'
  /\ \A error : FailsWith(error) => ToldTrue'
  /\ \A r : told_of' = [Nothing EXCEPT !.ret = r] => ToldTrue'
<1>1. told_of' = Nothing => ToldTrue'
  BY NoSelectShape DEF Nothing, ToldTrue
<1>2. ASSUME NEW error, FailsWith(error) PROVE ToldTrue'
  BY <1>2, NoSelectShape DEF Nothing, FailsWith, ToldTrue
<1>3. ASSUME NEW r, told_of' = [Nothing EXCEPT !.ret = r] PROVE ToldTrue'
  BY <1>3, NoSelectShape DEF Nothing, ToldTrue
<1> QED
  BY <1>1, <1>2, <1>3

LEMMA CallsAtFirst == CallInit => CallInv
<1> SUFFICES ASSUME CallInit PROVE CallInv
  OBVIOUS
<1>1. sel = NoSelect /\ told_of = Nothing
  BY DEF CallInit
<1>2. SelectShape /\ SoFar
  BY <1>1, NoSelectShape DEF SelectShape, SelectFields, SoFar
<1>3. Remembered
  <2>1. /\ slots \in [Descriptors -> [state : {"free", "unopened", "open"}, remote : {Nobody}]]
        /\ last_from = [fd \in Descriptors |-> Nobody]
    BY DEF CallInit
  <2>2. \A fd \in Descriptors : slots[fd] = [state |-> slots[fd].state, remote |-> Nobody]
    BY <2>1
  <2> QED
    BY <2>1, <2>2 DEF Remembered
<1>4. ToldTrue
  BY <1>1, NoSelectShape DEF ToldTrue, Nothing
<1> QED
  BY <1>2, <1>3, <1>4 DEF CallInv

\* The calls of one step and the world leave a select alone.
LEMMA BesideSelect ==
  ASSUME CallInv, UNCHANGED <<sel, polled>>, Remembered', ToldTrue'
  PROVE  CallInv'
BY DEF CallInv, SelectShape, SelectFields, SoFar

LEMMA StillRemembered ==
  ASSUME Remembered, UNCHANGED last_from,
         slots' = slots \/ \E f \in Descriptors : slots' = [slots EXCEPT ![f].state = "open"]
  PROVE  Remembered'
<1>1. CASE slots' = slots
  BY <1>1 DEF Remembered
<1>2. ASSUME NEW f \in Descriptors, slots' = [slots EXCEPT ![f].state = "open"]
      PROVE  Remembered'
  <2>1. slots' = [slots EXCEPT ![f] = [slots[f] EXCEPT !.state = "open"]]
    BY <1>2
  <2>2. slots[f] = [state |-> slots[f].state, remote |-> last_from[f]]
    BY DEF Remembered
  <2>3. [slots[f] EXCEPT !.state = "open"] = [state |-> "open", remote |-> last_from[f]]
    BY <2>2
  <2>4. slots' = [slots EXCEPT ![f] = [state |-> "open", remote |-> last_from[f]]]
    BY <2>1, <2>3
  <2>5. \A d \in Descriptors : slots'[d] = IF d = f THEN [state |-> "open", remote |-> last_from[f]]
                                           ELSE slots[d]
    BY <2>4 DEF Remembered
  <2>6. \A d \in Descriptors : slots'[d] = [state |-> slots'[d].state, remote |-> last_from[d]]
    <3> SUFFICES ASSUME NEW d \in Descriptors
                 PROVE  slots'[d] = [state |-> slots'[d].state, remote |-> last_from[d]]
      OBVIOUS
    <3>1. CASE d = f
      BY <2>5, <3>1
    <3>2. CASE d # f
      <4>1. slots[d] = [state |-> slots[d].state, remote |-> last_from[d]] /\ slots'[d] = slots[d]
        BY <2>5, <3>2 DEF Remembered
      <4> QED
        BY <4>1
    <3> QED
      BY <3>1, <3>2
  <2>7. slots' = [d \in Descriptors |-> slots'[d]]
    BY <2>4 DEF Remembered
  <2> QED
    BY <2>6, <2>7 DEF Remembered
<1> QED
  BY <1>1, <1>2

LEMMA OtherCalls ==
  ASSUME CallInv, NEW f \in Descriptors,
         \/ RoomChanges(f) \/ PollOne(f) \/ SendData(f)
         \/ \E sender \in Senders \cup {Nobody} : Arrives(f, sender)
         \/ \E kind \in DataCalls \cup {"poll"} : RefusedCall(kind, f) \/ CommandFails(kind, f)
         \/ \E fails \in BOOLEAN : OpensFirst(f, fails)
  PROVE  CallInv'
<1>1. UNCHANGED <<sel, polled, last_from>>
  BY DEF RoomChanges, PollOne, SendData, Arrives, RefusedCall, CommandFails, OpensFirst, BesideCall
<1>a. Remembered'
  <2>1. slots' = slots \/ slots' = [slots EXCEPT ![f].state = "open"]
    BY DEF RoomChanges, PollOne, SendData, Arrives, RefusedCall, CommandFails, OpensFirst
  <2> QED
    BY <1>1, <2>1, StillRemembered DEF CallInv
<1>2. CASE \E kind \in DataCalls \cup {"poll"} : RefusedCall(kind, f) \/ CommandFails(kind, f)
  <2>1. \E error : FailsWith(error)
    BY <1>2, Zenon DEF RefusedCall, CommandFails
  <2> QED
    BY <1>1, <1>a, <2>1, NothingTold, BesideSelect
<1>3. CASE \/ RoomChanges(f) \/ PollOne(f)
           \/ \E sender \in Senders \cup {Nobody} : Arrives(f, sender)
  <2>1. told_of' = Nothing
    BY <1>3 DEF RoomChanges, PollOne, Arrives, Succeeds
  <2> QED
    BY <1>1, <1>a, <2>1, NothingTold, BesideSelect
<1>4. CASE SendData(f)
  BY <1>1, <1>a, <1>4, NothingTold, BesideSelect DEF SendData, Succeeds
<1>5. CASE \E fails \in BOOLEAN : OpensFirst(f, fails)
  BY <1>1, <1>a, <1>5, NothingTold, BesideSelect DEF OpensFirst
<1> QED
  BY <1>2, <1>3, <1>4, <1>5

\* recv and recvfrom.
LEMMA DataArrive ==
  ASSUME CallInv, NEW f \in Descriptors, NEW kind \in {"recv", "recvfrom"}, NEW capacity,
         ReceiveData(kind, f, capacity)
  PROVE  CallInv'
<1> DEFINE took == IF inbox[f] = <<>> THEN <<>> ELSE <<Head(inbox[f])>>
           some == took \notin {<<>>, <<Nobody>>} /\ capacity # 0
           now == RemoteNow(f, some)
           first == Head(inbox[f])
<1>1. /\ UNCHANGED <<sel, polled>>
      /\ slots' = IF kind = "recv" THEN slots ELSE [slots EXCEPT ![f].remote = now]
      /\ last_from' = IF kind = "recvfrom" /\ some THEN [last_from EXCEPT ![f] = first] ELSE last_from
      /\ told_of' = IF ~some /\ capacity # 0
                    THEN [Nothing EXCEPT !.call = kind, !.fd = f, !.took = took, !.ret = -1,
                                         !.error = "EAGAIN"]
                    ELSE [Nothing EXCEPT !.call = kind, !.fd = f, !.took = took,
                                         !.ret = IF some THEN 1 ELSE 0,
                                         !.addr = IF kind = "recv" THEN Nobody ELSE now]
  BY DEF ReceiveData, BesideCall
<1>2. now = IF some THEN first ELSE last_from[f]
  <2>1. slots[f].remote = last_from[f]
    <3>1. slots[f] = [state |-> slots[f].state, remote |-> last_from[f]]
      BY DEF CallInv, Remembered
    <3> QED
      BY <3>1
  <2> QED
    BY <2>1 DEF RemoteNow
<1>3. ~some /\ capacity # 0 => took \in {<<>>, <<Nobody>>}
  OBVIOUS
<1>4. some => took \notin {<<>>, <<Nobody>>}
  OBVIOUS
<1> HIDE DEF took, some, now, first
<1>5. last_from = [d \in Descriptors |-> last_from[d]]
  BY DEF CallInv, Remembered
<1>6. kind = "recvfrom" => last_from'[f] = now /\ \A d \in Descriptors \ {f} : last_from'[d] = last_from[d]
  BY <1>1, <1>2, <1>5
<1>7. last_from' = [d \in Descriptors |-> last_from'[d]]
  BY <1>1, <1>5
<1>8. Remembered'
  <2>1. CASE kind = "recv"
    <3>1. UNCHANGED <<slots, last_from>>
      BY <1>1, <2>1
    <3> QED
      BY <3>1, StillRemembered DEF CallInv
  <2>2. CASE kind = "recvfrom"
    <3>1. slots[f] = [state |-> slots[f].state, remote |-> last_from[f]]
      BY DEF CallInv, Remembered
    <3>2. slots' = [slots EXCEPT ![f] = [slots[f] EXCEPT !.remote = now]]
      BY <1>1, <2>2
    <3>3. [slots[f] EXCEPT !.remote = now] = [state |-> slots[f].state, remote |-> now]
      BY <3>1
    <3>4. slots' = [slots EXCEPT ![f] = [state |-> slots[f].state, remote |-> now]]
      BY <3>2, <3>3
    <3>5. /\ slots'[f] = [state |-> slots[f].state, remote |-> now]
          /\ \A d \in Descriptors \ {f} : slots'[d] = slots[d]
          /\ slots' = [d \in Descriptors |-> slots'[d]]
      BY <3>4 DEF CallInv, Remembered
    <3>6. \A d \in Descriptors : slots'[d] = [state |-> slots'[d].state, remote |-> last_from'[d]]
      <4> SUFFICES ASSUME NEW d \in Descriptors
                   PROVE  slots'[d] = [state |-> slots'[d].state, remote |-> last_from'[d]]
        OBVIOUS
      <4>1. CASE d = f
        BY <1>6, <2>2, <3>5, <4>1
      <4>2. CASE d # f
        <5>1. slots[d] = [state |-> slots[d].state, remote |-> last_from[d]]
          BY DEF CallInv, Remembered
        <5> QED
          BY <1>6, <2>2, <3>5, <4>2, <5>1
      <4> QED
        BY <4>1, <4>2
    <3> QED
      BY <1>7, <3>5, <3>6 DEF Remembered
  <2> QED
    BY <2>1, <2>2
<1>9. ToldTrue'
  <2>1. CASE ~some /\ capacity # 0
    <3>1. /\ told_of'.read = {} /\ told_of'.write = {} /\ told_of'.asked = NoSelect
          /\ told_of'.ret = -1 /\ told_of'.took = took
      BY <1>1, <2>1 DEF Nothing
    <3> QED
      BY <1>3, <2>1, <3>1, NoSelectShape DEF ToldTrue
  <2>2. CASE ~(~some /\ capacity # 0)
    <3>1. /\ told_of'.read = {} /\ told_of'.write = {} /\ told_of'.asked = NoSelect
          /\ told_of'.ret = IF some THEN 1 ELSE 0
          /\ told_of'.took = took /\ told_of'.error = "none" /\ told_of'.call = kind
          /\ told_of'.fd = f
          /\ kind = "recvfrom" => told_of'.addr = now
      BY <1>1, <2>2 DEF Nothing
    <3>2. told_of'.ret >= 0 /\ (told_of'.ret > 0 => told_of'.took \notin {<<>>, <<Nobody>>})
      BY <1>4, <3>1
    <3>3. told_of'.call = "recvfrom" => told_of'.addr = last_from'[told_of'.fd]
      BY <1>6, <3>1
    <3>4. told_of'.error # "EAGAIN" /\ ~(told_of'.ret < 0)
      BY <3>1
    <3> HIDE DEF some, took, now
    <3> QED
      BY <3>1, <3>2, <3>3, <3>4, NoSelectShape DEF ToldTrue
  <2> QED
    BY <2>1, <2>2
<1> QED
  BY <1>1, <1>8, <1>9, BesideSelect

LEMMA SelectStarts == ASSUME CallInv, NEW ask \in Asks, SelectBegins(ask) PROVE CallInv'
<1>1. /\ polled' = {} /\ told_of' = Nothing
      /\ sel' = IF ask.nfds = 0 \/ ask.read \cup ask.write \cup ask.except = {} THEN NoSelect
                ELSE [NoSelect EXCEPT !.round = TRUE, !.nfds = ask.nfds, !.read = ask.read,
                        !.write = ask.write, !.except = ask.except, !.attempts = Rounds, !.fd = 1]
  BY DEF SelectBegins
<1>r. Remembered'
  BY StillRemembered DEF CallInv, SelectBegins
<1>2. /\ ask.nfds \in Nat /\ ask.read \in SUBSET Nat /\ ask.write \in SUBSET Nat
      /\ ask.except \in SUBSET Nat /\ Rounds \in Nat
  BY CallsAssumption DEF CallsAssumption
<1>3. ToldTrue'
  BY <1>1, NothingTold
<1>4. CASE sel' = NoSelect
  BY <1>r, <1>3, <1>4, NoSelectShape DEF CallInv, SelectShape, SelectFields, SoFar
<1>5. CASE /\ ask.nfds # 0
           /\ sel' = [NoSelect EXCEPT !.round = TRUE, !.nfds = ask.nfds, !.read = ask.read,
                        !.write = ask.write, !.except = ask.except, !.attempts = Rounds, !.fd = 1]
  <2>1. sel' = [round |-> TRUE, nfds |-> ask.nfds, read |-> ask.read, write |-> ask.write,
                except |-> ask.except, attempts |-> Rounds, fd |-> 1, ready_read |-> {},
                ready_write |-> {}, ready_count |-> 0]
    BY <1>5, Zenon DEF NoSelect
  <2>2. SelectShape'
    BY <1>2, <2>1 DEF SelectShape, SelectFields
  <2>3. /\ sel'.fd = 1 /\ sel'.nfds = ask.nfds /\ sel'.ready_read = {} /\ sel'.ready_write = {}
        /\ sel'.ready_count = 0
    BY <2>1
  <2>4. sel'.fd \in 1 .. sel'.nfds
    BY <1>2, <1>5, <2>3
  <2>5. Cardinality(sel'.ready_read \cup sel'.ready_write) = 0
    BY <2>3, FS_EmptySet
  <2>6. SoFar'
    BY <1>1, <2>3, <2>4, <2>5 DEF SoFar
  <2> QED
    BY <1>r, <1>3, <2>2, <2>6 DEF CallInv
<1> QED
  BY <1>1, <1>4, <1>5

\* One more descriptor is marked and counted, once.
LEMMA OneAsked ==
  ASSUME SelectShape, SoFar, sel.round, sel.fd < sel.nfds,
         NEW flags \in SUBSET {"readable", "writable"},
         polled' = polled \cup {<<sel.fd, flag>> : flag \in flags}, sel' = Marked(sel.fd, flags)
  PROVE  SelectShape' /\ SoFar'
<1> DEFINE f == sel.fd
           r == "readable" \in flags /\ f \in sel.read
           w == "writable" \in flags /\ f \in sel.write
           rr == IF r THEN sel.ready_read \cup {f} ELSE sel.ready_read
           rw == IF w THEN sel.ready_write \cup {f} ELSE sel.ready_write
           rc == IF r \/ w THEN sel.ready_count + 1 ELSE sel.ready_count
           old == sel.ready_read \cup sel.ready_write
<1>1. /\ f \in 1 .. sel.nfds /\ f + 1 \in 1 .. sel.nfds
      /\ sel.ready_count \in Nat /\ sel.ready_count = Cardinality(old)
      /\ sel.ready_read \in SUBSET Nat /\ sel.ready_write \in SUBSET Nat
  BY DEF SelectShape, SelectFields, SoFar
<1>2. /\ sel' = [sel EXCEPT !.fd = @ + 1, !.ready_read = IF r THEN @ \cup {f} ELSE @,
                            !.ready_write = IF w THEN @ \cup {f} ELSE @,
                            !.ready_count = IF r \/ w THEN @ + 1 ELSE @]
  BY DEF Marked
<1>3. /\ sel'.round = sel.round /\ sel'.nfds = sel.nfds /\ sel'.read = sel.read
      /\ sel'.write = sel.write /\ sel'.fd = f + 1 /\ sel'.ready_read = rr
      /\ sel'.ready_write = rw /\ sel'.ready_count = rc
  BY <1>2 DEF SelectShape, SelectFields
<1>4. rr \in SUBSET Nat /\ rw \in SUBSET Nat /\ rc \in Nat /\ f + 1 \in Nat
  BY <1>1
<1>5. SelectShape'
  <2>1. sel' = [sel EXCEPT !.fd = f + 1, !.ready_read = rr, !.ready_write = rw, !.ready_count = rc]
    BY <1>2, Zenon
  <2> HIDE DEF f, rr, rw, rc
  <2> QED
    BY <1>4, <2>1 DEF SelectShape, SelectFields
<1>6. polled' \subseteq (1 .. sel'.fd - 1) \X {"readable", "writable"}
  BY <1>1, <1>3 DEF SoFar
<1>7. \A flag \in {"readable", "writable"} : <<f, flag>> \notin polled
  BY <1>1 DEF SoFar
<1>8. /\ \A d, flag : d # f => (<<d, flag>> \in polled' <=> <<d, flag>> \in polled)
      /\ \A flag \in {"readable", "writable"} : <<f, flag>> \in polled' <=> flag \in flags
  BY <1>7
<1>9. rr = {d \in sel.read : <<d, "readable">> \in polled'}
  BY <1>7, <1>8 DEF SoFar
<1>10. rw = {d \in sel.write : <<d, "writable">> \in polled'}
  BY <1>7, <1>8 DEF SoFar
<1>11. rc = Cardinality(rr \cup rw)
  <2>1. f \notin old
    BY <1>7 DEF SoFar
  <2>2. old \subseteq 1 .. sel.nfds
    <3>1. old \subseteq 1 .. f - 1
      BY DEF SoFar
    <3>2. f - 1 <= sel.nfds /\ sel.nfds \in Nat /\ f \in Nat
      BY <1>1 DEF SelectShape, SelectFields
    <3> HIDE DEF f, old
    <3> QED
      BY <3>1, <3>2
  <2>3. IsFiniteSet(old)
    <3>1. IsFiniteSet(1 .. sel.nfds)
      BY <1>1, FS_Interval DEF SelectShape, SelectFields
    <3> QED
      BY <2>2, <3>1, FS_Subset
  <2>4. Cardinality(old \cup {f}) = Cardinality(old) + 1
    BY <2>1, <2>3, FS_AddElement
  <2>5. rr \cup rw = IF r \/ w THEN old \cup {f} ELSE old
    OBVIOUS
  <2> HIDE DEF r, w, rr, rw, old
  <2> QED
    BY <1>1, <2>4, <2>5
<1>12. sel'.fd \in 1 .. sel'.nfds
  BY <1>1, <1>3
<1>13. /\ sel'.ready_read = {d \in sel'.read : <<d, "readable">> \in polled'}
       /\ sel'.ready_write = {d \in sel'.write : <<d, "writable">> \in polled'}
       /\ sel'.ready_count = Cardinality(sel'.ready_read \cup sel'.ready_write)
  <2> HIDE DEF f, r, w, rr, rw, rc, old
  <2> QED
    BY <1>3, <1>9, <1>10, <1>11
<1>14. SoFar'
  BY <1>6, <1>12, <1>13 DEF SoFar
<1> QED
  BY <1>5, <1>14

LEMMA SelectGoesOn == ASSUME CallInv, NEW fails \in BOOLEAN, SelectNext(fails) PROVE CallInv'
<1>1. /\ sel.round /\ sel.fd < sel.nfds
      /\ \/ sel' = [sel EXCEPT !.fd = sel.fd + 1] /\ told_of' = Nothing /\ UNCHANGED polled
         \/ \E error : SelectFails(error)
         \/ /\ polled' = polled \cup {<<sel.fd, flag>> : flag \in PollFlags(sel.fd)}
            /\ sel' = Marked(sel.fd, PollFlags(sel.fd))
            /\ told_of' = Nothing
            /\ sel.fd \in Requested
         \/ FALSE
      /\ sel.fd \notin Requested =>
           sel' = [sel EXCEPT !.fd = sel.fd + 1] /\ told_of' = Nothing /\ UNCHANGED polled
  BY DEF SelectNext
<1>r. Remembered'
  BY StillRemembered DEF CallInv, SelectNext
<1>2. CASE sel' = [sel EXCEPT !.fd = sel.fd + 1] /\ told_of' = Nothing /\ UNCHANGED polled
  <2>1. SelectShape'
    BY <1>2 DEF CallInv, SelectShape, SelectFields
  <2>2. SoFar'
    BY <1>1, <1>2 DEF CallInv, SelectShape, SelectFields, SoFar
  <2> QED
    BY <1>r, <1>2, <2>1, <2>2, NothingTold DEF CallInv
<1>3. CASE \E error : SelectFails(error)
  <2>1. ToldTrue' /\ sel' = NoSelect
    BY <1>3, NothingTold DEF SelectFails
  <2> QED
    BY <1>r, <2>1, NoSelectShape DEF CallInv, SelectShape, SelectFields, SoFar
<1>4. CASE /\ polled' = polled \cup {<<sel.fd, flag>> : flag \in PollFlags(sel.fd)}
           /\ sel' = Marked(sel.fd, PollFlags(sel.fd))
           /\ told_of' = Nothing
  <2>1. PollFlags(sel.fd) \in SUBSET {"readable", "writable"}
    BY DEF PollFlags
  <2>2. SelectShape' /\ SoFar'
    <3>0. PICK flags : flags = PollFlags(sel.fd)
      OBVIOUS
    <3>1. /\ flags \in SUBSET {"readable", "writable"} /\ sel' = Marked(sel.fd, flags)
          /\ polled' = polled \cup {<<sel.fd, flag>> : flag \in flags}
          /\ SelectShape /\ SoFar /\ sel.round /\ sel.fd < sel.nfds
      BY <1>1, <1>4, <2>1, <3>0 DEF CallInv
    <3> QED
      BY <3>1, OneAsked
  <2> QED
    BY <1>r, <1>4, <2>2, NothingTold DEF CallInv
<1> QED
  BY <1>1, <1>2, <1>3, <1>4

LEMMA SelectRound == CallInv /\ RoundOver => CallInv'
<1> SUFFICES ASSUME CallInv, RoundOver PROVE CallInv'
  OBVIOUS
<1>1. sel.round /\ sel.fd >= sel.nfds
  BY DEF RoundOver
<1>r. Remembered'
  BY StillRemembered DEF CallInv, RoundOver
<1>2. /\ sel.fd = sel.nfds
      /\ polled \subseteq (1 .. sel.nfds - 1) \X {"readable", "writable"}
      /\ sel.ready_read = {d \in sel.read : <<d, "readable">> \in polled}
      /\ sel.ready_write = {d \in sel.write : <<d, "writable">> \in polled}
      /\ sel.ready_count = Cardinality(sel.ready_read \cup sel.ready_write)
      /\ sel.nfds \in Nat /\ sel.ready_count \in Nat
  BY <1>1 DEF CallInv, SelectShape, SelectFields, SoFar
<1>3. CASE /\ told_of' = [Nothing EXCEPT !.ret = sel.ready_count, !.read = sel.ready_read,
                            !.write = sel.ready_write, !.asked = sel, !.found = polled]
           /\ sel' = NoSelect
  <2>1. /\ told_of'.ret = sel.ready_count /\ told_of'.read = sel.ready_read
        /\ told_of'.write = sel.ready_write /\ told_of'.asked = sel /\ told_of'.found = polled
        /\ told_of'.call = "none" /\ told_of'.error = "none"
    BY <1>3 DEF Nothing
  <2>2. /\ sel.ready_read = {d \in sel.read : d < sel.nfds /\ <<d, "readable">> \in polled}
        /\ sel.ready_write = {d \in sel.write : d < sel.nfds /\ <<d, "writable">> \in polled}
    BY <1>2
  <2>3. ToldTrue'
    BY <1>2, <2>1, <2>2 DEF ToldTrue
  <2> QED
    BY <1>r, <1>3, <2>3, NoSelectShape DEF CallInv, SelectShape, SelectFields, SoFar
<1>4. CASE /\ sel' = [sel EXCEPT !.attempts = @ - 1, !.fd = 1]
           /\ polled' = {} /\ told_of' = Nothing /\ sel.ready_count = 0
  <2>1. SelectShape'
    <3>1. sel.attempts - 1 \in Int /\ 1 \in Nat
      BY DEF CallInv, SelectShape, SelectFields
    <3>2. sel' = [sel EXCEPT !.attempts = sel.attempts - 1, !.fd = 1]
      BY <1>4
    <3> DEFINE fewer == sel.attempts - 1
    <3> HIDE DEF fewer
    <3> QED
      BY <3>1, <3>2 DEF fewer, CallInv, SelectShape, SelectFields
  <2>2. sel.ready_read \cup sel.ready_write = {}
    <3>1. sel.ready_read \cup sel.ready_write \subseteq 1 .. sel.nfds
      BY <1>2
    <3>2. IsFiniteSet(sel.ready_read \cup sel.ready_write)
      <4>1. IsFiniteSet(1 .. sel.nfds)
        BY <1>2, FS_Interval
      <4> QED
        BY <3>1, <4>1, FS_Subset
    <3> QED
      BY <1>2, <1>4, <3>2, FS_EmptySet
  <2>3. /\ sel'.fd = 1 /\ sel'.nfds = sel.nfds /\ sel'.read = sel.read /\ sel'.write = sel.write
        /\ sel'.ready_read = sel.ready_read /\ sel'.ready_write = sel.ready_write
        /\ sel'.ready_count = sel.ready_count
    BY <1>4 DEF CallInv, SelectShape, SelectFields
  <2>4. sel.nfds \in Nat /\ 1 \in 1 .. sel.nfds
    BY <1>1 DEF CallInv, SelectShape, SelectFields, SoFar
  <2>5. sel.ready_read = {} /\ sel.ready_write = {}
    BY <2>2
  <2>6. SoFar'
    BY <1>2, <1>4, <2>3, <2>4, <2>5 DEF SoFar
  <2> QED
    BY <1>r, <1>4, <2>1, <2>6, NothingTold DEF CallInv
<1> QED
  BY <1>3, <1>4 DEF RoundOver, Succeeds

LEMMA CallStep == CallInv /\ [CallNext]_callVars => CallInv'
<1> SUFFICES ASSUME CallInv, [CallNext]_callVars PROVE CallInv'
  OBVIOUS
<1>1. CASE UNCHANGED callVars
  BY <1>1 DEF CallInv, SelectShape, SelectFields, SoFar, Remembered, ToldTrue, callVars
<1>2. CASE CallNext
  BY <1>2, OtherCalls, DataArrive, SelectStarts, SelectGoesOn, SelectRound DEF CallNext
<1> QED
  BY <1>1, <1>2

\* socket_compat.c:548-826: for any number of descriptors, rounds and requests, whatever arrives
\* while one descriptor is asked after the other, a select tells what it was asked for and has
\* found, counts each descriptor once, and tells nothing when it fails; and received bytes come
\* with the address of who sent them.
THEOREM CallersAreTold == CallSpec => []ToldTrue
<1>1. CallInit => CallInv
  BY CallsAtFirst
<1>2. CallInv /\ [CallNext]_callVars => CallInv'
  BY CallStep
<1>3. CallInv => ToldTrue
  BY DEF CallInv
<1> QED
  BY <1>1, <1>2, <1>3, PTL DEF CallSpec
=============================================================================
