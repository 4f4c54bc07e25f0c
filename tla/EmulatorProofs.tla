---------------------------- MODULE EmulatorProofs -----------------------------
(***************************************************************************)
(* What the emulators show of their caches, and keep of battery RAM and     *)
(* saved states: BankCache, for every number of windows and slots and every *)
(* game; GoombaCache, for every size of the ROM and the cache; GoombaSave,  *)
(* for any games and any number of failures; Mmc3Banks with Mmc3Irq, for    *)
(* lines, ROMs and games of any kind; Timeouts, for any number of nodes,    *)
(* times and builds.                                                        *)
(*                                                                          *)
(* BankCache: the inductive invariant says that a tagged slot holds what    *)
(* its tag says (or the remains of a failed read), that the tables lead to  *)
(* slots with the right tag, and that the slot behind a window is tagged    *)
(* with the group or page of the window's bank.  The argument is a          *)
(* pigeonhole: a slot is only taken when what is asked for is on no slot,   *)
(* so there are fewer active tags on the slots than slots, and a slot       *)
(* behind a window is never taken.  A restore is the same: the banks of the *)
(* saved state are all active, so none brought back is taken for the rest.  *)
(*                                                                          *)
(* Timeouts: that it implements Alarms.  The inductive invariant says that  *)
(* the nodes whose links are even are a list, each once and in the order of *)
(* their times, with the countdown set for the first, and that a saved      *)
(* state is such a list at address 0.  Each of the first two nodes is in it *)
(* with its own handler, or that handler runs and has not yet put it back,  *)
(* so that the list is never left empty; states are saved and loaded while  *)
(* the second's does, so a list that is loaded lacks the same node.         *)
(***************************************************************************)
EXTENDS BankCache, GoombaCache, GoombaSave, Mmc3Banks, Timeouts, FiniteSetTheorems,
        SequenceTheorems, WellFoundedInduction, TLAPS

PrgTypes ==
  /\ s_prg_group \in [PrgSlot -> 0 .. PrgGroups - 1 \cup {None}]
  /\ s_prg_age \in [PrgSlot -> 0 .. PrgSlots]
  /\ prg_cache \in [PrgSlot -> 0 .. PrgGroups - 1 \cup {Bad}]
  /\ instant_prg \in [0 .. PrgGroups - 1 -> PrgSlot \cup {None}]
  /\ \A s, t \in PrgSlot : s_prg_group[s] # None /\ s_prg_group[s] = s_prg_group[t] => s = t

ChrTypes ==
  /\ s_chr_page \in [ChrSlot -> 0 .. ChrPages - 1 \cup {None}]
  /\ s_chr_age \in [ChrSlot -> 0 .. ChrSlots]
  /\ chr_cache \in [ChrSlot -> 0 .. ChrPages - 1 \cup {Bad}]
  /\ instant_chr \in [0 .. ChrBanks - 1 -> ChrSlot \cup {None, Ram}]
  /\ \A s, t \in ChrSlot : s_chr_page[s] # None /\ s_chr_page[s] = s_chr_page[t] => s = t

WindowTypes ==
  /\ bank \in [1 .. PrgWindows -> 0 .. PrgPages - 1]
  /\ memmap \in [1 .. PrgWindows -> [slot : PrgSlot, page : 0 .. GroupPages - 1] \cup {None}]
  /\ cbank \in [1 .. ChrWindows -> 0 .. ChrBanks - 1 \cup {None}]
  /\ vram_map \in [1 .. ChrWindows -> ChrSlot \cup {None, Ram}]

ControlTypes ==
  /\ op \in {"fillPrg", "fillChr", "idle", "chr", "restorePrg", "restoreChr"}
  /\ i \in Nat /\ call \in ChrCalls \cup {None}
  /\ saved \in [prg : PrgSaved, chr : ChrSaved] \cup {None}
  /\ failures \in 0 .. MaxFailures /\ diverged \in BOOLEAN

\* Slots hold what their tags say; the tables lead to slots with the right tag.
PrgTags ==
  /\ \A s \in PrgSlot : s_prg_group[s] # None => prg_cache[s] \in {s_prg_group[s], Bad}
  /\ \A g \in 0 .. PrgGroups - 1 : instant_prg[g] # None => s_prg_group[instant_prg[g]] = g

ChrTags ==
  /\ \A s \in ChrSlot : s_chr_page[s] # None => chr_cache[s] \in {s_chr_page[s], Bad}
  /\ \A b \in 0 .. ChrBanks - 1 : instant_chr[b] \in ChrSlot =>
       b \notin RamBanks /\ s_chr_page[instant_chr[b]] = ChrPage(b)

\* The slot behind a window is tagged with the group or page of the window's bank.
PrgBehind ==
  \A w \in 1 .. PrgWindows : memmap[w] # None =>
    s_prg_group[memmap[w].slot] = Group(bank[w]) /\ memmap[w].page = bank[w] % GroupPages

ChrBehind ==
  \A w \in 1 .. ChrWindows : vram_map[w] \in ChrSlot =>
    /\ cbank[w] # None /\ cbank[w] \notin RamBanks
    /\ s_chr_page[vram_map[w]] = ChrPage(cbank[w])

\* What the loop under way may rely on.
LoopInv ==
  /\ op \in {"fillPrg", "fillChr"} =>
       memmap = NoWindows(PrgWindows) /\ vram_map = NoWindows(ChrWindows)
  /\ op = "chr" => call \in ChrCalls
  /\ op \in {"restorePrg", "restoreChr"} => \A w \in 1 .. ChrWindows : cbank[w] # None

PrgInv == PrgTypes /\ PrgTags
ChrInv == ChrTypes /\ ChrTags

IInv ==
  /\ PrgInv /\ ChrInv /\ WindowTypes /\ ControlTypes /\ LoopInv
  /\ Running => PrgBehind /\ ChrBehind
-----------------------------------------------------------------------------
\* Division, in the form the steps use it.
LEMMA DivRem ==
  ASSUME NEW p \in Nat, NEW g \in Nat \ {0}
  PROVE  /\ p \div g \in Nat
         /\ p % g \in 0 .. g - 1
         /\ (p \div g) * g + (p % g) = p
OBVIOUS

LEMMA DivMonotone ==
  ASSUME NEW p \in Nat, NEW q \in Nat, NEW g \in Nat \ {0}, p <= q
  PROVE  p \div g <= q \div g
<1>1. SUFFICES ASSUME p \div g >= q \div g + 1  PROVE FALSE
  BY DivRem
<1>2. (p \div g) * g >= (q \div g + 1) * g
  BY <1>1, DivRem
<1>3. (q \div g + 1) * g = (q \div g) * g + g
  BY DivRem
<1> QED
  BY <1>2, <1>3, DivRem

\* The constants.
LEMMA Sizes ==
  /\ PrgWindows \in Nat /\ PrgWindows > 0 /\ PrgSlots \in Nat /\ PrgSlots >= PrgWindows
  /\ GroupPages \in Nat /\ GroupPages > 0 /\ PrgPages \in Nat /\ PrgPages > 0
  /\ ChrWindows \in Nat /\ ChrWindows > 0 /\ ChrSlots \in Nat /\ ChrSlots > ChrWindows
  /\ ChrPages \in Nat /\ ChrPages > 0 /\ ChrBanks \in Nat /\ ChrBanks >= ChrPages
  /\ MaxFailures \in Nat /\ RamBanks \subseteq 0 .. ChrBanks - 1
BY SizesOK

\* A page below the end of the ROM is in a group below the end of the table
\* (chislink_cache.c:91-98, 354-360).
LEMMA GroupInTable ==
  /\ PrgGroups \in Nat \ {0}
  /\ \A p \in 0 .. PrgPages - 1 : Group(p) \in 0 .. PrgGroups - 1
<1>1. Group(PrgPages - 1) \in Nat
  BY Sizes, DivRem DEF Group
<1>2. ASSUME NEW p \in 0 .. PrgPages - 1  PROVE Group(p) \in Nat /\ Group(p) <= Group(PrgPages - 1)
  BY Sizes, DivRem, DivMonotone DEF Group
<1> QED
  BY <1>1, <1>2 DEF PrgGroups

LEMMA GroupAndPage ==
  \A p \in Nat : /\ Group(p) \in Nat
                 /\ p % GroupPages \in 0 .. GroupPages - 1
                 /\ Group(p) * GroupPages \in Nat
                 /\ Group(p) * GroupPages + (p % GroupPages) = p
<1>1. ASSUME NEW p \in Nat
      PROVE  /\ Group(p) \in Nat
             /\ p % GroupPages \in 0 .. GroupPages - 1
             /\ Group(p) * GroupPages \in Nat
             /\ Group(p) * GroupPages + (p % GroupPages) = p
  BY Sizes DEF Group
<1> QED
  BY <1>1

LEMMA GroupMonotone ==
  ASSUME NEW p \in Nat, NEW q \in Nat, p <= q
  PROVE  Group(p) \in Nat /\ Group(q) \in Nat /\ Group(p) <= Group(q)
BY Sizes, DivRem, DivMonotone DEF Group

\* Every bank has a page in the file (chislink_cache.c:270).
LEMMA PageInFile == \A b \in 0 .. ChrBanks - 1 : ChrPage(b) \in 0 .. ChrPages - 1
BY Sizes, DivRem DEF ChrPage

\* The pages of a mapXX_ call lie in one group, one after the other (cart.s:1125-1140).
LEMMA CallInGroup ==
  ASSUME NEW c \in PrgCalls, NEW w \in 1 .. PrgWindows, Covers(c, w)
  PROVE  /\ c.page + (w - c.first) \in 0 .. PrgPages - 1
         /\ Group(c.page + (w - c.first)) = Group(c.page)
         /\ (c.page % GroupPages) + (w - c.first) = (c.page + (w - c.first)) % GroupPages
<1> DEFINE r == c.page
           p == c.page + (w - c.first)
           q == c.page + c.width - 1
<1>1. /\ c.first \in 1 .. PrgWindows /\ c.width \in 1 .. PrgWindows
      /\ c.page \in 0 .. PrgPages - 1 /\ c.page + c.width <= PrgPages
  BY CallsOK DEF Calls
<1>2. /\ p \in Nat /\ q \in Nat /\ r \in Nat /\ r <= p /\ p <= q /\ q <= PrgPages - 1
      /\ p - r = w - c.first
  BY <1>1, Sizes DEF Covers
<1>3. Group(r) = Group(q)
  BY CallsOK
<1> HIDE DEF p, q, r
<1>4. Group(p) = Group(r)
  <2>1. Group(r) \in Nat /\ Group(p) \in Nat /\ Group(r) <= Group(p)
    BY <1>2, GroupMonotone
  <2>2. Group(p) <= Group(q)
    BY <1>2, GroupMonotone
  <2> QED
    BY <1>3, <2>1, <2>2
<1>5. p % GroupPages = (r % GroupPages) + (p - r)
  <2>1. /\ Group(p) * GroupPages \in Nat /\ p % GroupPages \in 0 .. GroupPages - 1
        /\ Group(p) * GroupPages + (p % GroupPages) = p
    BY <1>2, GroupAndPage
  <2>2. /\ r % GroupPages \in 0 .. GroupPages - 1
        /\ Group(p) * GroupPages + (r % GroupPages) = r
    BY <1>2, <1>4, GroupAndPage
  <2> QED
    BY <1>2, <2>1, <2>2
<1> QED
  BY <1>2, <1>4, <1>5, Sizes DEF p, r
-----------------------------------------------------------------------------
\* Ranks stay ranks (chislink_cache.c:233, 250, 273, 289).
LEMMA TouchRanks ==
  ASSUME NEW n \in Nat, NEW age \in [0 .. n - 1 -> 0 .. n], NEW s \in 0 .. n - 1
  PROVE  Touch(age, s) \in [0 .. n - 1 -> 0 .. n]
<1>1. Cardinality(DOMAIN age) = n
  BY FS_Interval
<1>2. ASSUME NEW t \in 0 .. n - 1
      PROVE  (IF t = s THEN Cardinality(DOMAIN age)
              ELSE IF age[t] > age[s] THEN age[t] - 1 ELSE age[t]) \in 0 .. n
  <2>1. age[t] \in 0 .. n /\ age[s] \in 0 .. n
    OBVIOUS
  <2> QED
    BY <1>1, <2>1
<1> QED
  BY <1>2 DEF Touch

\* While some slot has no active tag, the slot chosen has none (chislink_cache.c:199-223).
LEMMA ChosenIsIdle ==
  ASSUME NEW tag, NEW age, NEW active, None \notin active,
         NEW t \in DOMAIN tag, tag[t] \notin active,
         NEW s \in ChosenSlot(tag, age, active)
  PROVE  tag[s] \notin active
BY DEF ChosenSlot

\* With fewer windows than slots, two slots are given the same window.
LEMMA FewerWindows ==
  ASSUME NEW n \in Nat, NEW W, IsFiniteSet(W), Cardinality(W) < n, NEW f \in [0 .. n - 1 -> W]
  PROVE  \E s, t \in 0 .. n - 1 : s # t /\ f[s] = f[t]
<1>1. 0 \in Int /\ n - 1 \in Int
  OBVIOUS
<1>2. IsFiniteSet(0 .. n - 1) /\ Cardinality(0 .. n - 1) = n
  BY <1>1, FS_Interval
<1> QED
  BY <1>2, FS_PigeonHole

\* A group that is asked for and on no slot leaves a slot without an active group.
LEMMA PrgVictimIdle ==
  ASSUME PrgTypes, NEW banks \in [1 .. PrgWindows -> 0 .. PrgPages - 1],
         NEW g \in ActiveGroups(banks), NEW s \in PrgVictim(banks, g)
  PROVE  s_prg_group[s] \notin ActiveGroups(banks)
<1> DEFINE active == ActiveGroups(banks)
<1>1. None \notin active
  BY GroupInTable, NamesOK DEF ActiveGroups
<1>2. s \in ChosenSlot(s_prg_group, s_prg_age, active) /\ \A t \in PrgSlot : s_prg_group[t] # g
  BY DEF PrgVictim
<1>3. \E t \in PrgSlot : s_prg_group[t] \notin active
  <2>1. SUFFICES ASSUME \A t \in PrgSlot : s_prg_group[t] \in active  PROVE FALSE
    OBVIOUS
  <2>2. PICK v \in 1 .. PrgWindows : Group(banks[v]) = g
    BY DEF ActiveGroups
  <2> DEFINE W == (1 .. PrgWindows) \ {v}
             f == [t \in 0 .. PrgSlots - 1 |-> CHOOSE w \in W : Group(banks[w]) = s_prg_group[t]]
  <2>3. IsFiniteSet(W) /\ Cardinality(W) < PrgSlots
    <3>1. IsFiniteSet(1 .. PrgWindows) /\ Cardinality(1 .. PrgWindows) = PrgWindows
      BY FS_Interval, Sizes
    <3>2. IsFiniteSet(W) /\ Cardinality(W) = PrgWindows - 1
      BY <3>1, FS_RemoveElement
    <3> QED
      BY <3>2, Sizes
  <2>4. \A t \in 0 .. PrgSlots - 1 : \E w \in W : Group(banks[w]) = s_prg_group[t]
    BY <1>2, <2>1, <2>2 DEF ActiveGroups, PrgSlot
  <2>5. /\ f \in [0 .. PrgSlots - 1 -> W]
        /\ \A t \in 0 .. PrgSlots - 1 : Group(banks[f[t]]) = s_prg_group[t]
    BY <2>4
  <2> HIDE DEF W, f
  <2>6. PICK t, u \in 0 .. PrgSlots - 1 : t # u /\ f[t] = f[u]
    <3>1. PrgSlots \in Nat
      BY Sizes
    <3> QED
      BY <2>3, <2>5, <3>1, FewerWindows
  <2>7. s_prg_group[t] = s_prg_group[u] /\ s_prg_group[t] # None
    BY <1>1, <2>1, <2>5, <2>6 DEF PrgSlot
  <2> QED
    BY <2>6, <2>7 DEF PrgTypes, PrgSlot
<1> QED
  BY <1>1, <1>2, <1>3, ChosenIsIdle DEF PrgTypes

\* There is a CHR slot more than windows: one has no active page.
LEMMA ChrVictimIdle ==
  ASSUME ChrTypes, cbank \in [1 .. ChrWindows -> 0 .. ChrBanks - 1 \cup {None}],
         NEW p, NEW s \in ChrVictim(p)
  PROVE  s_chr_page[s] \notin ActivePages
<1>1. None \notin ActivePages
  BY PageInFile, NamesOK DEF ActivePages
<1>2. s \in ChosenSlot(s_chr_page, s_chr_age, ActivePages)
  BY DEF ChrVictim
<1>3. \E t \in ChrSlot : s_chr_page[t] \notin ActivePages
  <2>1. SUFFICES ASSUME \A t \in ChrSlot : s_chr_page[t] \in ActivePages  PROVE FALSE
    OBVIOUS
  <2> DEFINE W == 1 .. ChrWindows
             f == [t \in 0 .. ChrSlots - 1 |-> CHOOSE w \in W : ChrPage(cbank[w]) = s_chr_page[t]]
  <2>2. IsFiniteSet(W) /\ Cardinality(W) < ChrSlots
    BY FS_Interval, Sizes
  <2>3. \A t \in 0 .. ChrSlots - 1 : \E w \in W : ChrPage(cbank[w]) = s_chr_page[t]
    BY <2>1 DEF ActivePages, ChrSlot
  <2>4. /\ f \in [0 .. ChrSlots - 1 -> W]
        /\ \A t \in 0 .. ChrSlots - 1 : ChrPage(cbank[f[t]]) = s_chr_page[t]
    BY <2>3
  <2> HIDE DEF W, f
  <2>5. PICK t, u \in 0 .. ChrSlots - 1 : t # u /\ f[t] = f[u]
    <3>1. ChrSlots \in Nat
      BY Sizes
    <3> QED
      BY <2>2, <2>4, <3>1, FewerWindows
  <2>6. s_chr_page[t] = s_chr_page[u] /\ s_chr_page[t] # None
    BY <1>1, <2>1, <2>4, <2>5 DEF ChrSlot
  <2> QED
    BY <2>5, <2>6 DEF ChrTypes, ChrSlot
<1> QED
  BY <1>1, <1>2, <1>3, ChosenIsIdle DEF ChrTypes
-----------------------------------------------------------------------------
\* Ensuring a group keeps the PRG cache in order, whether the read succeeds or fails
\* (chislink_cache.c:225-259).
LEMMA PrgEnsured ==
  ASSUME PrgInv, failures \in 0 .. MaxFailures, NEW banks,
         NEW g \in 0 .. PrgGroups - 1, NEW s \in PrgSlot,
         PrgFound(banks, g, s) \/ PrgReadFails(banks, g, s)
  PROVE  PrgInv' /\ failures' \in 0 .. MaxFailures
<1> USE DEF PrgInv
<1>1. Touch(s_prg_age, s) \in [PrgSlot -> 0 .. PrgSlots]
  BY TouchRanks, Sizes DEF PrgTypes, PrgSlot
<1>2. g # None /\ g # Bad
  BY GroupInTable, NamesOK
<1>3. UnmapPrg(s) \in [0 .. PrgGroups - 1 -> PrgSlot \cup {None}]
  BY DEF UnmapPrg, PrgTypes
<1>4. \A h \in 0 .. PrgGroups - 1 : UnmapPrg(s)[h] # None =>
        UnmapPrg(s)[h] = instant_prg[h] /\ instant_prg[h] # s
  BY DEF UnmapPrg, PrgTypes, PrgTags
<1>5. CASE PrgHit(g, s)
  BY <1>1, <1>5 DEF PrgHit, PrgTypes, PrgTags
<1>6. CASE PrgLoad(banks, g, s)
  <2>1. /\ s_prg_group' = [s_prg_group EXCEPT ![s] = g]
        /\ prg_cache' = [prg_cache EXCEPT ![s] = g]
        /\ instant_prg' = [UnmapPrg(s) EXCEPT ![g] = s]
        /\ s_prg_age' = Touch(s_prg_age, s) /\ failures' = failures
        /\ \A t \in PrgSlot : s_prg_group[t] # g
    BY <1>6 DEF PrgLoad, PrgVictim
  <2>2. PrgTypes'
    BY <1>1, <1>3, <2>1 DEF PrgTypes
  <2>3. PrgTags'
    <3>1. \A t \in PrgSlot : s_prg_group'[t] # None => prg_cache'[t] \in {s_prg_group'[t], Bad}
      BY <2>1 DEF PrgTypes, PrgTags
    <3>2. ASSUME NEW h \in 0 .. PrgGroups - 1, instant_prg'[h] # None
          PROVE  s_prg_group'[instant_prg'[h]] = h
      <4>1. CASE h = g
        BY <1>3, <2>1, <4>1 DEF PrgTypes
      <4>2. CASE h # g
        <5>1. instant_prg'[h] = instant_prg[h] /\ instant_prg[h] # s /\ instant_prg[h] # None
          BY <1>3, <1>4, <2>1, <3>2, <4>2
        <5> QED
          BY <2>1, <5>1 DEF PrgTypes, PrgTags
      <4> QED
        BY <4>1, <4>2
    <3> QED
      BY <3>1, <3>2 DEF PrgTags
  <2> QED
    BY <2>1, <2>2, <2>3
<1>7. CASE PrgReadFails(banks, g, s)
  <2>1. /\ s_prg_group' = s_prg_group /\ s_prg_age' = s_prg_age
        /\ prg_cache' = [prg_cache EXCEPT ![s] = Bad] /\ instant_prg' = UnmapPrg(s)
    BY <1>7 DEF PrgReadFails
  <2>2. failures' \in 0 .. MaxFailures
    BY <1>7, Sizes DEF PrgReadFails, ReadFails
  <2>3. PrgTypes'
    BY <1>3, <2>1 DEF PrgTypes
  <2>4. PrgTags'
    BY <1>4, <2>1 DEF PrgTypes, PrgTags
  <2> QED
    BY <2>2, <2>3, <2>4
<1> QED
  BY <1>5, <1>6, <1>7 DEF PrgFound

\* Ensuring a group that one of the banks needs leaves the slots of all of them alone
\* (chislink_cache.c:240-248).
LEMMA PrgKept ==
  ASSUME PrgTypes, NEW banks \in [1 .. PrgWindows -> 0 .. PrgPages - 1],
         NEW g \in ActiveGroups(banks), NEW s \in PrgSlot,
         PrgFound(banks, g, s) \/ PrgReadFails(banks, g, s),
         NEW t \in PrgSlot, s_prg_group[t] \in ActiveGroups(banks)
  PROVE  s_prg_group'[t] = s_prg_group[t] /\ prg_cache'[t] = prg_cache[t]
<1>1. CASE PrgHit(g, s)
  BY <1>1 DEF PrgHit
<1>2. CASE PrgLoad(banks, g, s)
  <2>1. t # s
    BY <1>2, PrgVictimIdle DEF PrgLoad
  <2> QED
    BY <1>2, <2>1 DEF PrgLoad, PrgTypes
<1>3. CASE PrgReadFails(banks, g, s)
  <2>1. t # s
    BY <1>3, PrgVictimIdle DEF PrgReadFails
  <2> QED
    BY <1>3, <2>1 DEF PrgReadFails, PrgTypes
<1> QED
  BY <1>1, <1>2, <1>3 DEF PrgFound

LEMMA PrgFoundIsTagged ==
  ASSUME PrgTypes, NEW banks, NEW g, NEW s \in PrgSlot, PrgFound(banks, g, s)
  PROVE  s_prg_group'[s] = g
BY DEF PrgFound, PrgHit, PrgLoad, PrgTypes
-----------------------------------------------------------------------------
\* The table after the slot's bank or page was taken out, and after aliases of p
\* were put in (chislink_cache.c:164-173, 188-197).
LEMMA UnmapChrTable ==
  ASSUME ChrInv, NEW s \in ChrSlot
  PROVE  /\ UnmapChr(s) \in [0 .. ChrBanks - 1 -> ChrSlot \cup {None, Ram}]
         /\ \A b \in 0 .. ChrBanks - 1 : UnmapChr(s)[b] \in ChrSlot =>
              UnmapChr(s)[b] = instant_chr[b] /\ instant_chr[b] # s
<1>1. UnmapChr(s) \in [0 .. ChrBanks - 1 -> ChrSlot \cup {None, Ram}]
  BY DEF UnmapChr, ChrInv, ChrTypes
<1>2. ASSUME NEW b \in 0 .. ChrBanks - 1, UnmapChr(s)[b] \in ChrSlot
      PROVE  UnmapChr(s)[b] = instant_chr[b] /\ instant_chr[b] # s
  <2>1. None \notin ChrSlot
    BY NamesOK DEF ChrSlot
  <2>2. UnmapChr(s)[b] = instant_chr[b] /\ ~(s_chr_page[s] # None /\ instant_chr[b] = s)
    BY <1>2, <2>1 DEF UnmapChr, ChrInv, ChrTypes
  <2>3. instant_chr[b] = s => s_chr_page[s] = ChrPage(b)
    BY DEF ChrInv, ChrTags
  <2>4. ChrPage(b) # None
    BY PageInFile, NamesOK
  <2> QED
    BY <2>2, <2>3, <2>4
<1> QED
  BY <1>1, <1>2

LEMMA AliasTable ==
  ASSUME NEW table \in [0 .. ChrBanks - 1 -> ChrSlot \cup {None, Ram}], NEW p, NEW s \in ChrSlot
  PROVE  /\ MapAliases(table, p, s) \in [0 .. ChrBanks - 1 -> ChrSlot \cup {None, Ram}]
         /\ \A b \in 0 .. ChrBanks - 1 :
              \/ MapAliases(table, p, s)[b] = s /\ ChrPage(b) = p /\ b \notin RamBanks
              \/ MapAliases(table, p, s)[b] = table[b]
BY DEF MapAliases

\* Ensuring a page keeps the CHR cache in order, whether the read succeeds or fails
\* (chislink_cache.c:261-293).
LEMMA ChrEnsured ==
  ASSUME ChrInv, failures \in 0 .. MaxFailures, NEW b \in 0 .. ChrBanks - 1,
         ChrFound(b) \/ \E s \in ChrSlot : ChrReadFails(b, s)
  PROVE  ChrInv' /\ failures' \in 0 .. MaxFailures
<1> DEFINE p == ChrPage(b)
<1>1. p \in 0 .. ChrPages - 1 /\ p # None
  BY PageInFile, NamesOK
<1>2. ASSUME NEW s \in ChrSlot  PROVE Touch(s_chr_age, s) \in [ChrSlot -> 0 .. ChrSlots]
  BY TouchRanks, Sizes DEF ChrInv, ChrTypes, ChrSlot
<1> HIDE DEF p
<1>3. CASE ChrRam(b)
  <2>1. Ram \notin ChrSlot
    BY NamesOK DEF ChrSlot
  <2> QED
    BY <1>3, <2>1 DEF ChrRam, ChrInv, ChrTypes, ChrTags
<1>4. ASSUME NEW s \in ChrSlot, ChrHit(b, s)  PROVE ChrInv' /\ failures' \in 0 .. MaxFailures
  <2>1. /\ s_chr_page' = s_chr_page /\ chr_cache' = chr_cache /\ failures' = failures
        /\ s_chr_age' = Touch(s_chr_age, s) /\ instant_chr' = MapAliases(instant_chr, p, s)
        /\ s_chr_page[s] = p
    BY <1>4 DEF ChrHit, p
  <2>2. instant_chr' \in [0 .. ChrBanks - 1 -> ChrSlot \cup {None, Ram}]
    BY <2>1, AliasTable DEF ChrInv, ChrTypes
  <2>3. \A c \in 0 .. ChrBanks - 1 :
          \/ instant_chr'[c] = s /\ ChrPage(c) = p /\ c \notin RamBanks
          \/ instant_chr'[c] = instant_chr[c]
    <3>1. instant_chr \in [0 .. ChrBanks - 1 -> ChrSlot \cup {None, Ram}]
      BY DEF ChrInv, ChrTypes
    <3>2. \A c \in 0 .. ChrBanks - 1 :
            \/ MapAliases(instant_chr, p, s)[c] = s /\ ChrPage(c) = p /\ c \notin RamBanks
            \/ MapAliases(instant_chr, p, s)[c] = instant_chr[c]
      BY <3>1, AliasTable
    <3> QED
      BY <2>1, <3>2
  <2>4. ChrTypes'
    BY <1>2, <2>1, <2>2 DEF ChrInv, ChrTypes
  <2>5. ChrTags'
    BY <2>1, <2>3 DEF ChrInv, ChrTags
  <2> QED
    BY <2>1, <2>4, <2>5 DEF ChrInv
<1>5. ASSUME NEW s \in ChrSlot, ChrLoad(b, s)  PROVE ChrInv' /\ failures' \in 0 .. MaxFailures
  <2>1. /\ s_chr_page' = [s_chr_page EXCEPT ![s] = p]
        /\ chr_cache' = [chr_cache EXCEPT ![s] = p] /\ failures' = failures
        /\ s_chr_age' = Touch(s_chr_age, s) /\ instant_chr' = MapAliases(UnmapChr(s), p, s)
        /\ \A t \in ChrSlot : s_chr_page[t] # p
    BY <1>5 DEF ChrLoad, ChrVictim, p
  <2>2. instant_chr' \in [0 .. ChrBanks - 1 -> ChrSlot \cup {None, Ram}]
    BY <2>1, AliasTable, UnmapChrTable
  <2>3. \A c \in 0 .. ChrBanks - 1 :
          \/ instant_chr'[c] = s /\ ChrPage(c) = p /\ c \notin RamBanks
          \/ instant_chr'[c] = UnmapChr(s)[c]
    BY <2>1, AliasTable, UnmapChrTable
  <2>4. ChrTypes'
    BY <1>1, <1>2, <2>1, <2>2 DEF ChrInv, ChrTypes
  <2>5. ChrTags'
    <3>1. \A t \in ChrSlot : s_chr_page'[t] # None => chr_cache'[t] \in {s_chr_page'[t], Bad}
      BY <2>1 DEF ChrInv, ChrTypes, ChrTags
    <3>2. ASSUME NEW c \in 0 .. ChrBanks - 1, instant_chr'[c] \in ChrSlot
          PROVE  c \notin RamBanks /\ s_chr_page'[instant_chr'[c]] = ChrPage(c)
      <4>1. CASE instant_chr'[c] = s /\ ChrPage(c) = p /\ c \notin RamBanks
        BY <2>1, <4>1 DEF ChrInv, ChrTypes
      <4>2. CASE instant_chr'[c] = UnmapChr(s)[c]
        <5>1. instant_chr'[c] = instant_chr[c] /\ instant_chr[c] # s /\ instant_chr[c] \in ChrSlot
          BY <3>2, <4>2, UnmapChrTable
        <5> QED
          BY <2>1, <5>1 DEF ChrInv, ChrTypes, ChrTags
      <4> QED
        BY <2>3, <4>1, <4>2
    <3> QED
      BY <3>1, <3>2 DEF ChrTags
  <2> QED
    BY <2>1, <2>4, <2>5 DEF ChrInv
<1>6. ASSUME NEW s \in ChrSlot, ChrReadFails(b, s)  PROVE ChrInv' /\ failures' \in 0 .. MaxFailures
  <2>1. /\ s_chr_page' = s_chr_page /\ s_chr_age' = s_chr_age
        /\ chr_cache' = [chr_cache EXCEPT ![s] = Bad] /\ instant_chr' = UnmapChr(s)
    BY <1>6 DEF ChrReadFails
  <2>2. failures' \in 0 .. MaxFailures
    BY <1>6, Sizes DEF ChrReadFails, ReadFails
  <2>3. ChrTypes'
    BY <2>1, UnmapChrTable DEF ChrInv, ChrTypes
  <2>4. ChrTags'
    BY <2>1, UnmapChrTable DEF ChrInv, ChrTypes, ChrTags
  <2> QED
    BY <2>2, <2>3, <2>4 DEF ChrInv
<1> QED
  BY <1>3, <1>4, <1>5, <1>6 DEF ChrFound

\* Ensuring a page leaves the slots of all mapped pages alone (chislink_cache.c:279-287).
LEMMA ChrKept ==
  ASSUME ChrTypes, cbank \in [1 .. ChrWindows -> 0 .. ChrBanks - 1 \cup {None}],
         NEW b, ChrFound(b) \/ \E s \in ChrSlot : ChrReadFails(b, s),
         NEW t \in ChrSlot, s_chr_page[t] \in ActivePages
  PROVE  s_chr_page'[t] = s_chr_page[t] /\ chr_cache'[t] = chr_cache[t]
<1>1. CASE ChrRam(b)
  BY <1>1 DEF ChrRam
<1>2. ASSUME NEW s \in ChrSlot, ChrHit(b, s)
      PROVE  s_chr_page'[t] = s_chr_page[t] /\ chr_cache'[t] = chr_cache[t]
  BY <1>2 DEF ChrHit
<1>3. ASSUME NEW s \in ChrSlot, ChrLoad(b, s)
      PROVE  s_chr_page'[t] = s_chr_page[t] /\ chr_cache'[t] = chr_cache[t]
  <2>1. t # s
    BY <1>3, ChrVictimIdle DEF ChrLoad
  <2> QED
    BY <1>3, <2>1 DEF ChrLoad, ChrTypes
<1>4. ASSUME NEW s \in ChrSlot, ChrReadFails(b, s)
      PROVE  s_chr_page'[t] = s_chr_page[t] /\ chr_cache'[t] = chr_cache[t]
  <2>1. t # s
    BY <1>4, ChrVictimIdle DEF ChrReadFails
  <2> QED
    BY <1>4, <2>1 DEF ChrReadFails, ChrTypes
<1> QED
  BY <1>1, <1>2, <1>3, <1>4 DEF ChrFound

\* The CHR windows still see their pages after a page was ensured for other windows.
LEMMA ChrStaysBehind ==
  ASSUME ChrTypes, WindowTypes, ChrBehind,
         NEW b, ChrFound(b) \/ \E s \in ChrSlot : ChrReadFails(b, s),
         UNCHANGED <<cbank, vram_map>>
  PROVE  /\ ChrBehind'
         /\ \A w \in 1 .. ChrWindows : vram_map[w] \in ChrSlot =>
              chr_cache'[vram_map[w]] = chr_cache[vram_map[w]]
<1>1. ASSUME NEW w \in 1 .. ChrWindows, vram_map[w] \in ChrSlot
      PROVE  /\ s_chr_page'[vram_map[w]] = s_chr_page[vram_map[w]]
             /\ chr_cache'[vram_map[w]] = chr_cache[vram_map[w]]
  <2>1. s_chr_page[vram_map[w]] \in ActivePages
    BY <1>1 DEF ChrBehind, ActivePages
  <2> QED
    BY <1>1, <2>1, ChrKept DEF WindowTypes
<1> QED
  BY <1>1 DEF ChrBehind
-----------------------------------------------------------------------------
LEMMA EmptyCache ==
  /\ EmptyPrg.tag \in [PrgSlot -> {None}] /\ EmptyPrg.age \in [PrgSlot -> 0 .. PrgSlots]
  /\ EmptyPrg.data \in [PrgSlot -> {Bad}] /\ EmptyPrg.table \in [0 .. PrgGroups - 1 -> {None}]
  /\ EmptyChr.tag \in [ChrSlot -> {None}] /\ EmptyChr.age \in [ChrSlot -> 0 .. ChrSlots]
  /\ EmptyChr.data \in [ChrSlot -> {Bad}] /\ EmptyChr.table \in [0 .. ChrBanks - 1 -> {None}]
BY Sizes DEF EmptyPrg, EmptyChr

LEMMA NoneIsNoSlot == None \notin PrgSlot /\ None \notin ChrSlot /\ Ram \notin ChrSlot
BY NamesOK DEF PrgSlot, ChrSlot

LEMMA InitIInv == BankInit => IInv
<1> SUFFICES ASSUME BankInit PROVE IInv
  OBVIOUS
<1> USE DEF BankInit
<1>1. PrgInv
  BY EmptyCache DEF PrgInv, PrgTypes, PrgTags
<1>2. ChrInv
  BY EmptyCache, NoneIsNoSlot DEF ChrInv, ChrTypes, ChrTags
<1>3. WindowTypes
  BY Sizes DEF WindowTypes, NoWindows
<1>4. ControlTypes
  <2>1. op = "fillPrg" /\ i = 0 /\ call = None /\ saved = None /\ failures = 0 /\ diverged = FALSE
    OBVIOUS
  <2>2. 0 \in 0 .. MaxFailures /\ 0 \in Nat
    BY Sizes
  <2> QED
    BY <2>1, <2>2 DEF ControlTypes
<1>5. LoopInv
  BY DEF LoopInv
<1>6. PrgBehind /\ ChrBehind
  BY NoneIsNoSlot DEF NoWindows, PrgBehind, ChrBehind
<1> QED
  BY <1>1, <1>2, <1>3, <1>4, <1>5, <1>6 DEF IInv

\* Nothing is mapped: no window can show the wrong bank.
LEMMA NothingBehind ==
  ASSUME memmap = NoWindows(PrgWindows), vram_map = NoWindows(ChrWindows)
  PROVE  PrgBehind /\ ChrBehind
BY NoneIsNoSlot DEF NoWindows, PrgBehind, ChrBehind

LEMMA FillPrgIInv == IInv /\ FillPrg => IInv'
<1> SUFFICES ASSUME IInv, FillPrg PROVE IInv'
  OBVIOUS
<1>1. /\ op = "fillPrg" /\ UNCHANGED <<bank, memmap, cbank, vram_map, chrVars, call, saved, diverged>>
      /\ memmap = NoWindows(PrgWindows) /\ vram_map = NoWindows(ChrWindows)
  BY DEF FillPrg, IInv, LoopInv
<1>2. ChrInv' /\ WindowTypes'
  BY <1>1 DEF IInv, ChrInv, ChrTypes, ChrTags, chrVars, WindowTypes
<1>3. PrgInv' /\ failures' \in 0 .. MaxFailures /\ i' \in Nat /\ op' \in {"fillPrg", "fillChr"}
  <2>1. CASE /\ i < PrgSlots /\ i < PrgGroups /\ i' = i + 1 /\ op' = op
             /\ \E s \in PrgSlot : PrgFound(bank, i, s) \/ PrgReadFails(bank, i, s)
    <3>1. i \in 0 .. PrgGroups - 1
      BY <2>1, GroupInTable DEF IInv, ControlTypes
    <3>2. PrgInv' /\ failures' \in 0 .. MaxFailures
      BY <2>1, <3>1, PrgEnsured DEF IInv, ControlTypes
    <3> QED
      BY <1>1, <2>1, <3>1, <3>2
  <2>2. CASE Goto("fillChr") /\ UNCHANGED <<prgVars, failures>>
    BY <2>2 DEF Goto, IInv, ControlTypes, PrgInv, PrgTypes, PrgTags, prgVars
  <2> QED
    BY <2>1, <2>2 DEF FillPrg
<1>4. ControlTypes' /\ LoopInv'
  BY <1>1, <1>3 DEF IInv, ControlTypes, LoopInv
<1>5. PrgBehind' /\ ChrBehind'
  BY <1>1, NothingBehind, NoneIsNoSlot DEF NoWindows, PrgBehind, ChrBehind
<1> QED
  BY <1>2, <1>3, <1>4, <1>5 DEF IInv

LEMMA FillChrIInv == IInv /\ FillChr => IInv'
<1> SUFFICES ASSUME IInv, FillChr PROVE IInv'
  OBVIOUS
<1>1. /\ op = "fillChr" /\ UNCHANGED <<bank, memmap, cbank, vram_map, prgVars, call, saved, diverged>>
      /\ memmap = NoWindows(PrgWindows) /\ vram_map = NoWindows(ChrWindows)
  BY DEF FillChr, IInv, LoopInv
<1>2. PrgInv' /\ WindowTypes'
  BY <1>1 DEF IInv, PrgInv, PrgTypes, PrgTags, prgVars, WindowTypes
<1>3. ChrInv' /\ failures' \in 0 .. MaxFailures /\ i' \in Nat /\ op' \in {"fillChr", "idle"}
  <2>1. CASE /\ i < ChrSlots /\ i < ChrPages /\ i' = i + 1 /\ op' = op
             /\ ChrFound(i) \/ \E s \in ChrSlot : ChrReadFails(i, s)
    <3>1. i \in 0 .. ChrBanks - 1
      BY <2>1, Sizes DEF IInv, ControlTypes
    <3>2. ChrInv' /\ failures' \in 0 .. MaxFailures
      BY <2>1, <3>1, ChrEnsured DEF IInv, ControlTypes
    <3> QED
      BY <1>1, <2>1, <3>1, <3>2
  <2>2. CASE /\ instant_chr' = [b \in DOMAIN instant_chr |->
                                  IF b \in RamBanks THEN Ram ELSE instant_chr[b]]
             /\ Goto("idle") /\ UNCHANGED <<s_chr_page, s_chr_age, chr_cache, failures>>
    BY <2>2, NoneIsNoSlot DEF Goto, IInv, ControlTypes, ChrInv, ChrTypes, ChrTags
  <2> QED
    BY <2>1, <2>2 DEF FillChr
<1>4. ControlTypes' /\ LoopInv'
  BY <1>1, <1>3 DEF IInv, ControlTypes, LoopInv
<1>5. PrgBehind' /\ ChrBehind'
  BY <1>1, NothingBehind, NoneIsNoSlot DEF NoWindows, PrgBehind, ChrBehind
<1> QED
  BY <1>2, <1>3, <1>4, <1>5 DEF IInv
-----------------------------------------------------------------------------
\* A mapXX_ call stores banks of the ROM, and the group it asks for is among theirs
\* (cart.s:1119-1124).
LEMMA BankedPages ==
  ASSUME WindowTypes, NEW c \in PrgCalls
  PROVE  /\ Banked(c) \in [1 .. PrgWindows -> 0 .. PrgPages - 1]
         /\ Group(c.page) \in ActiveGroups(Banked(c))
         /\ Group(c.page) \in 0 .. PrgGroups - 1
<1>1. ASSUME NEW w \in 1 .. PrgWindows
      PROVE (IF Covers(c, w) THEN c.page + (w - c.first) ELSE bank[w]) \in 0 .. PrgPages - 1
  BY CallInGroup DEF WindowTypes
<1>2. Banked(c) \in [1 .. PrgWindows -> 0 .. PrgPages - 1]
  BY <1>1 DEF Banked
<1>3. /\ c.first \in 1 .. PrgWindows /\ c.width \in 1 .. PrgWindows
      /\ c.page \in 0 .. PrgPages - 1
  BY CallsOK DEF Calls
<1>4. Covers(c, c.first)
  BY <1>3, Sizes DEF Covers
<1>5. Banked(c)[c.first] = c.page
  BY <1>3, <1>4, Sizes DEF Banked
<1> QED
  BY <1>2, <1>3, <1>5, GroupInTable DEF ActiveGroups

\* The slots behind windows whose bank a mapXX_ call leaves alone are left alone too.
LEMMA MapPrgKeeps ==
  ASSUME IInv, PrgBehind, NEW c \in PrgCalls, MapPrg(c),
         NEW w \in 1 .. PrgWindows, memmap[w] # None, bank'[w] = bank[w]
  PROVE  LET t == memmap[w].slot
         IN  s_prg_group'[t] = s_prg_group[t] /\ prg_cache'[t] = prg_cache[t]
<1> DEFINE t == memmap[w].slot
           banks == Banked(c)
           g == Group(c.page)
<1>1. t \in PrgSlot /\ PrgTypes
  BY DEF IInv, PrgInv, WindowTypes
<1>2. bank' = banks
  BY DEF MapPrg
<1>3. s_prg_group[t] = Group(banks[w])
  BY <1>2 DEF PrgBehind
<1>4. s_prg_group[t] \in ActiveGroups(banks)
  BY <1>3 DEF ActiveGroups
<1>5. banks \in [1 .. PrgWindows -> 0 .. PrgPages - 1] /\ g \in ActiveGroups(banks)
  BY BankedPages DEF IInv
<1>6. PICK s \in PrgSlot : PrgFound(banks, g, s) \/ PrgReadFails(banks, g, s)
  BY DEF MapPrg
<1> HIDE DEF t, banks, g
<1>7. s_prg_group'[t] = s_prg_group[t] /\ prg_cache'[t] = prg_cache[t]
  BY <1>1, <1>4, <1>5, <1>6, PrgKept
<1> QED
  BY <1>7 DEF t

LEMMA MapPrgIInv == ASSUME NEW c \in PrgCalls PROVE IInv /\ MapPrg(c) => IInv'
<1> SUFFICES ASSUME IInv, MapPrg(c) PROVE IInv'
  OBVIOUS
<1>1. /\ op = "idle" /\ bank' = Banked(c)
      /\ UNCHANGED <<cbank, vram_map, chrVars, op, i, call, saved, diverged>>
  BY DEF MapPrg
<1>2. PICK s \in PrgSlot :
        \/ PrgFound(Banked(c), Group(c.page), s) /\ memmap' = Mapped(c, s)
        \/ PrgReadFails(Banked(c), Group(c.page), s) /\ memmap' = Unmapped(c)
  BY DEF MapPrg
<1>3. PrgInv' /\ failures' \in 0 .. MaxFailures
  BY <1>2, BankedPages, PrgEnsured DEF IInv, ControlTypes
<1>4. ChrInv'
  BY <1>1 DEF IInv, ChrInv, ChrTypes, ChrTags, chrVars
<1>5. \A w \in 1 .. PrgWindows : Covers(c, w) =>
        (c.page % GroupPages) + (w - c.first) \in 0 .. GroupPages - 1
  BY CallInGroup, GroupAndPage
<1>6. memmap' \in [1 .. PrgWindows -> [slot : PrgSlot, page : 0 .. GroupPages - 1] \cup {None}]
  <2>1. memmap \in [1 .. PrgWindows -> [slot : PrgSlot, page : 0 .. GroupPages - 1] \cup {None}]
    BY DEF IInv, WindowTypes
  <2>2. CASE memmap' = Mapped(c, s)
    BY <1>5, <2>1, <2>2 DEF Mapped
  <2>3. CASE memmap' = Unmapped(c)
    BY <2>1, <2>3 DEF Unmapped
  <2> QED
    BY <1>2, <2>2, <2>3
<1>7. WindowTypes'
  BY <1>1, <1>6, BankedPages DEF IInv, WindowTypes
<1>8. ControlTypes' /\ LoopInv'
  BY <1>1, <1>3 DEF IInv, ControlTypes, LoopInv
<1>9. ASSUME Running'  PROVE PrgBehind' /\ ChrBehind'
  <2>1. PrgBehind /\ ChrBehind
    BY <1>1, <1>9 DEF Running, IInv
  <2>2. ChrBehind'
    BY <1>1, <2>1 DEF ChrBehind, chrVars
  <2>3. ASSUME NEW w \in 1 .. PrgWindows, memmap'[w] # None
        PROVE  s_prg_group'[memmap'[w].slot] = Group(bank'[w]) /\ memmap'[w].page = bank'[w] % GroupPages
    <3>1. CASE Covers(c, w)
      <4>1. /\ PrgFound(Banked(c), Group(c.page), s)
            /\ memmap'[w] = [slot |-> s, page |-> (c.page % GroupPages) + (w - c.first)]
        BY <1>2, <2>3, <3>1 DEF Mapped, Unmapped
      <4>2. s_prg_group'[s] = Group(c.page)
        BY <4>1, PrgFoundIsTagged DEF IInv, PrgInv
      <4>3. bank'[w] = c.page + (w - c.first)
        BY <1>1, <3>1 DEF Banked
      <4>4. Group(bank'[w]) = Group(c.page) /\ (c.page % GroupPages) + (w - c.first) = bank'[w] % GroupPages
        BY <3>1, <4>3, CallInGroup
      <4> QED
        BY <4>1, <4>2, <4>4
    <3>2. CASE ~Covers(c, w)
      <4>1. memmap'[w] = memmap[w] /\ bank'[w] = bank[w]
        BY <1>1, <1>2, <3>2 DEF Mapped, Unmapped, Banked
      <4>2. s_prg_group'[memmap[w].slot] = s_prg_group[memmap[w].slot]
        BY <2>1, <2>3, <4>1, MapPrgKeeps
      <4> QED
        BY <2>1, <2>3, <4>1, <4>2 DEF PrgBehind
    <3> QED
      BY <3>1, <3>2
  <2> QED
    BY <2>2, <2>3 DEF PrgBehind
<1> QED
  BY <1>3, <1>4, <1>7, <1>8, <1>9 DEF IInv
-----------------------------------------------------------------------------
LEMMA MapChrIInv == ASSUME NEW c \in ChrCalls PROVE IInv /\ MapChr(c) => IInv'
<1> SUFFICES ASSUME IInv, MapChr(c) PROVE IInv'
  OBVIOUS
<1>1. /\ op = "idle" /\ op' = "chr" /\ i' = 0 /\ call' = c
      /\ UNCHANGED <<bank, memmap, prgVars, cbank, vram_map, chrVars, saved, failures, diverged>>
  BY DEF MapChr, Goto
<1>2. PrgInv' /\ ChrInv' /\ WindowTypes'
  BY <1>1 DEF IInv, PrgInv, PrgTypes, PrgTags, ChrInv, ChrTypes, ChrTags, WindowTypes, prgVars,
    chrVars
<1>3. ControlTypes' /\ LoopInv'
  BY <1>1 DEF IInv, ControlTypes, LoopInv
<1>4. Running' => PrgBehind' /\ ChrBehind'
  BY <1>1 DEF IInv, Running, PrgBehind, ChrBehind, prgVars, chrVars
<1> QED
  BY <1>2, <1>3, <1>4 DEF IInv

\* Every bank of a chrXX_ call has an entry in the table (cart.s:139-166).
LEMMA ChrCallInTable ==
  ASSUME NEW c \in ChrCalls
  PROVE  /\ c.width \in Nat
         /\ \A k \in 0 .. c.width - 1 : c.page + k \in 0 .. ChrBanks - 1
         /\ \A w \in 1 .. ChrWindows : Covers(c, w) => c.page + (w - c.first) \in 0 .. ChrBanks - 1
<1>1. /\ c.first \in 1 .. ChrWindows /\ c.width \in 1 .. ChrWindows
      /\ c.page \in 0 .. ChrBanks - 1 /\ c.page + c.width <= ChrBanks
  BY CallsOK DEF Calls
<1> QED
  BY <1>1, Sizes DEF Covers

LEMMA EnsureChrIInv == IInv /\ EnsureChr => IInv'
<1> SUFFICES ASSUME IInv, EnsureChr PROVE IInv'
  OBVIOUS
<1>1. /\ op = "chr" /\ i < call.width /\ i' = i + 1
      /\ UNCHANGED <<bank, memmap, prgVars, cbank, vram_map, op, call, saved, diverged>>
  BY DEF EnsureChr
<1>2. call \in ChrCalls /\ i \in Nat
  BY <1>1 DEF IInv, LoopInv, ControlTypes
<1>3. call.page + i \in 0 .. ChrBanks - 1
  BY <1>1, <1>2, ChrCallInTable
<1>4. ChrFound(call.page + i) \/ \E s \in ChrSlot : ChrReadFails(call.page + i, s)
  BY DEF EnsureChr
<1>5. ChrInv' /\ failures' \in 0 .. MaxFailures
  BY <1>3, <1>4, ChrEnsured DEF IInv, ControlTypes
<1>6. PrgInv' /\ WindowTypes'
  BY <1>1 DEF IInv, PrgInv, PrgTypes, PrgTags, WindowTypes, prgVars
<1>7. ControlTypes' /\ LoopInv'
  BY <1>1, <1>2, <1>5 DEF IInv, ControlTypes, LoopInv
<1>8. ASSUME Running'  PROVE PrgBehind' /\ ChrBehind'
  <2>1. PrgBehind /\ ChrBehind
    BY <1>1, <1>8 DEF IInv, Running
  <2>2. PrgBehind'
    BY <1>1, <2>1 DEF PrgBehind, prgVars
  <2>3. ChrTypes /\ WindowTypes /\ UNCHANGED <<cbank, vram_map>>
    BY <1>1 DEF IInv, ChrInv
  <2>4. ChrBehind'
    BY <1>4, <2>1, <2>3, ChrStaysBehind
  <2> QED
    BY <2>2, <2>4
<1> QED
  BY <1>5, <1>6, <1>7, <1>8 DEF IInv

LEMMA StoreChrIInv == IInv /\ StoreChr => IInv'
<1> SUFFICES ASSUME IInv, StoreChr PROVE IInv'
  OBVIOUS
<1> DEFINE at(w) == call.page + (w - call.first)
<1>1. /\ op = "chr" /\ op' = "idle" /\ i' = 0 /\ call' = None
      /\ UNCHANGED <<bank, memmap, prgVars, chrVars, saved, failures, diverged>>
      /\ cbank' = [w \in 1 .. ChrWindows |-> IF Covers(call, w) THEN at(w) ELSE cbank[w]]
      /\ vram_map' = [w \in 1 .. ChrWindows |->
                        IF Covers(call, w) THEN instant_chr[at(w)] ELSE vram_map[w]]
  BY DEF StoreChr, Goto
<1>2. \A w \in 1 .. ChrWindows : Covers(call, w) => at(w) \in 0 .. ChrBanks - 1
  BY <1>1, ChrCallInTable DEF IInv, LoopInv
<1> HIDE DEF at
<1>3. PrgInv' /\ ChrInv'
  BY <1>1 DEF IInv, PrgInv, PrgTypes, PrgTags, ChrInv, ChrTypes, ChrTags, prgVars, chrVars
<1>4. WindowTypes'
  BY <1>1, <1>2 DEF IInv, WindowTypes, ChrInv, ChrTypes
<1>5. ControlTypes' /\ LoopInv'
  BY <1>1 DEF IInv, ControlTypes, LoopInv
<1>6. ASSUME Running'  PROVE PrgBehind' /\ ChrBehind'
  <2>1. PrgBehind /\ ChrBehind
    BY <1>1, <1>6 DEF IInv, Running
  <2>2. PrgBehind'
    BY <1>1, <2>1 DEF PrgBehind, prgVars
  <2>3. ASSUME NEW w \in 1 .. ChrWindows, vram_map'[w] \in ChrSlot
        PROVE  /\ cbank'[w] # None /\ cbank'[w] \notin RamBanks
               /\ s_chr_page'[vram_map'[w]] = ChrPage(cbank'[w])
    <3>1. CASE Covers(call, w)
      <4>1. cbank'[w] = at(w) /\ vram_map'[w] = instant_chr[at(w)] /\ at(w) \in 0 .. ChrBanks - 1
        BY <1>1, <1>2, <3>1
      <4> QED
        BY <1>1, <2>3, <4>1, NamesOK DEF IInv, ChrInv, ChrTags, chrVars
    <3>2. CASE ~Covers(call, w)
      BY <1>1, <2>1, <2>3, <3>2 DEF ChrBehind, chrVars
    <3> QED
      BY <3>1, <3>2
  <2> QED
    BY <2>2, <2>3 DEF ChrBehind
<1> QED
  BY <1>3, <1>4, <1>5, <1>6 DEF IInv
-----------------------------------------------------------------------------
LEMMA LoadStateIInv == IInv /\ LoadState => IInv'
<1> SUFFICES ASSUME IInv, LoadState PROVE IInv'
  OBVIOUS
<1>1. /\ saved' \in [prg : PrgSaved, chr : ChrSaved]
      /\ memmap' = NoWindows(PrgWindows) /\ vram_map' = NoWindows(ChrWindows)
      /\ cbank' = NoWindows(ChrWindows)
      /\ op' = "fillPrg" /\ i' = 0 /\ diverged' = FALSE
      /\ UNCHANGED <<bank, prg_cache, chr_cache, call, failures>>
  BY DEF LoadState, Goto
<1>2. PrgInv'
  BY EmptyCache, ZenonT(60) DEF LoadState, IInv, PrgInv, PrgTypes, PrgTags
<1>3. ChrInv'
  BY EmptyCache, NoneIsNoSlot DEF LoadState, IInv, ChrInv, ChrTypes, ChrTags
<1>4. WindowTypes'
  BY <1>1 DEF IInv, WindowTypes, NoWindows
<1>5. ControlTypes' /\ LoopInv'
  BY <1>1 DEF IInv, ControlTypes, LoopInv
<1>6. PrgBehind' /\ ChrBehind'
  BY <1>1, NoneIsNoSlot DEF NoWindows, PrgBehind, ChrBehind
<1> QED
  BY <1>2, <1>3, <1>4, <1>5, <1>6 DEF IInv

LEMMA LoadBanksIInv == IInv /\ LoadBanks => IInv'
<1> SUFFICES ASSUME IInv, LoadBanks PROVE IInv'
  OBVIOUS
<1>1. /\ saved # None /\ bank' = saved.prg /\ cbank' = saved.chr /\ saved' = None
      /\ op' = "restorePrg" /\ i' = 0
      /\ UNCHANGED <<memmap, prgVars, vram_map, chrVars, call, failures, diverged>>
  BY DEF LoadBanks, Goto
<1>2. saved.prg \in PrgSaved /\ saved.chr \in ChrSaved
  BY <1>1 DEF IInv, ControlTypes
<1>3. /\ bank' \in [1 .. PrgWindows -> 0 .. PrgPages - 1]
      /\ cbank' \in [1 .. ChrWindows -> 0 .. ChrBanks - 1]
  BY <1>1, <1>2, CallsOK
<1>4. PrgInv' /\ ChrInv'
  BY <1>1 DEF IInv, PrgInv, PrgTypes, PrgTags, ChrInv, ChrTypes, ChrTags, prgVars, chrVars
<1>5. WindowTypes'
  BY <1>1, <1>3 DEF IInv, WindowTypes
<1>6. ControlTypes'
  BY <1>1 DEF IInv, ControlTypes
<1>7. LoopInv'
  <2>1. \A w \in 1 .. ChrWindows : cbank'[w] # None
    BY <1>3, NamesOK
  <2> QED
    BY <1>1, <2>1 DEF LoopInv
<1>8. ~Running'
  BY <1>1 DEF Running
<1> QED
  BY <1>4, <1>5, <1>6, <1>7, <1>8 DEF IInv

LEMMA RestorePrgIInv == IInv /\ RestorePrg => IInv'
<1> SUFFICES ASSUME IInv, RestorePrg PROVE IInv'
  OBVIOUS
<1>1. /\ op = "restorePrg" /\ \A w \in 1 .. ChrWindows : cbank[w] # None
      /\ UNCHANGED <<bank, memmap, cbank, vram_map, chrVars, call, saved>>
  BY DEF RestorePrg, IInv, LoopInv
<1>2. ChrInv' /\ WindowTypes'
  BY <1>1 DEF IInv, ChrInv, ChrTypes, ChrTags, chrVars, WindowTypes
<1>3. /\ PrgInv' /\ failures' \in 0 .. MaxFailures /\ i' \in Nat /\ diverged' \in BOOLEAN
      /\ op' \in {"restorePrg", "restoreChr"} \/ (op' = "idle" /\ diverged' = TRUE)
  <2>1. ASSUME NEW s \in PrgSlot, i < PrgWindows,
               \/ PrgFound(bank, Group(bank[i + 1]), s) /\ Goes
               \/ PrgReadFails(bank, Group(bank[i + 1]), s) /\ RestoreFails
        PROVE  /\ PrgInv' /\ failures' \in 0 .. MaxFailures /\ i' \in Nat /\ diverged' \in BOOLEAN
               /\ op' \in {"restorePrg", "restoreChr"} \/ (op' = "idle" /\ diverged' = TRUE)
    <3>1. i \in Nat /\ i + 1 \in 1 .. PrgWindows
      BY <2>1, Sizes DEF IInv, ControlTypes
    <3>2. Group(bank[i + 1]) \in 0 .. PrgGroups - 1
      BY <3>1, GroupInTable DEF IInv, WindowTypes
    <3>3. PrgInv' /\ failures' \in 0 .. MaxFailures
      BY <2>1, <3>2, PrgEnsured DEF IInv, ControlTypes
    <3>4. /\ i' \in Nat /\ diverged' \in BOOLEAN
          /\ op' = "restorePrg" \/ (op' = "idle" /\ diverged' = TRUE)
      <4>1. CASE Goes
        <5>1. i' = i + 1 /\ op' = op /\ diverged' = diverged
          BY <4>1 DEF Goes
        <5>2. diverged \in BOOLEAN
          BY DEF IInv, ControlTypes
        <5>3. i' \in Nat
          BY <3>1, <5>1
        <5>4. diverged' \in BOOLEAN
          BY <5>1, <5>2
        <5>5. op' = "restorePrg"
          BY <1>1, <5>1
        <5> QED
          BY <5>3, <5>4, <5>5
      <4>2. CASE RestoreFails
        BY <4>2 DEF RestoreFails, Goto
      <4> QED
        BY <2>1, <4>1, <4>2
    <3> QED
      BY <3>3, <3>4
  <2>2. CASE Goto("restoreChr") /\ UNCHANGED <<prgVars, failures, diverged>>
    <3>1. op' = "restoreChr" /\ i' = 0 /\ UNCHANGED <<prgVars, failures, diverged>>
      BY <2>2 DEF Goto
    <3>2. failures \in 0 .. MaxFailures /\ diverged \in BOOLEAN
      BY DEF IInv, ControlTypes
    <3>3. PrgInv'
      BY <3>1 DEF IInv, PrgInv, PrgTypes, PrgTags, prgVars
    <3>4. diverged' \in BOOLEAN /\ failures' \in 0 .. MaxFailures
      BY <3>1, <3>2
    <3>5. i' \in Nat
      BY <3>1
    <3>6. op' \in {"restorePrg", "restoreChr"}
      BY <3>1
    <3> QED
      BY <3>3, <3>4, <3>5, <3>6
  <2> QED
    BY <2>1, <2>2 DEF RestorePrg
<1>4. ControlTypes' /\ LoopInv'
  BY <1>1, <1>3 DEF IInv, ControlTypes, LoopInv
<1>5. ~Running'
  BY <1>3 DEF Running
<1> QED
  BY <1>2, <1>3, <1>4, <1>5 DEF IInv

LEMMA RestoreChrIInv == IInv /\ RestoreChr => IInv'
<1> SUFFICES ASSUME IInv, RestoreChr PROVE IInv'
  OBVIOUS
<1>1. /\ op = "restoreChr" /\ i < ChrWindows /\ \A w \in 1 .. ChrWindows : cbank[w] # None
      /\ UNCHANGED <<bank, memmap, prgVars, cbank, vram_map, call, saved>>
  BY DEF RestoreChr, IInv, LoopInv
<1>2. PrgInv' /\ WindowTypes'
  BY <1>1 DEF IInv, PrgInv, PrgTypes, PrgTags, prgVars, WindowTypes
<1>3. i \in Nat /\ i + 1 \in 1 .. ChrWindows
  BY <1>1, Sizes DEF IInv, ControlTypes
<1>4. cbank[i + 1] \in 0 .. ChrBanks - 1
  BY <1>1, <1>3 DEF IInv, WindowTypes
<1>5. \/ ChrFound(cbank[i + 1]) /\ Goes
      \/ (\E s \in ChrSlot : ChrReadFails(cbank[i + 1], s)) /\ RestoreFails
  BY DEF RestoreChr
<1>6. ChrInv' /\ failures' \in 0 .. MaxFailures
  BY <1>4, <1>5, ChrEnsured DEF IInv, ControlTypes
<1>7. /\ i' \in Nat /\ diverged' \in BOOLEAN
      /\ op' = "restoreChr" \/ (op' = "idle" /\ diverged' = TRUE)
  <2>1. CASE Goes
    <3>1. i' = i + 1 /\ op' = op /\ diverged' = diverged
      BY <2>1 DEF Goes
    <3>2. diverged \in BOOLEAN
      BY DEF IInv, ControlTypes
    <3>3. i' \in Nat
      BY <1>3, <3>1
    <3>4. diverged' \in BOOLEAN
      BY <3>1, <3>2
    <3>5. op' = "restoreChr"
      BY <1>1, <3>1
    <3> QED
      BY <3>3, <3>4, <3>5
  <2>2. CASE RestoreFails
    BY <2>2 DEF RestoreFails, Goto
  <2> QED
    BY <1>5, <2>1, <2>2
<1>8. ControlTypes' /\ LoopInv'
  BY <1>1, <1>6, <1>7 DEF IInv, ControlTypes, LoopInv
<1>9. ~Running'
  BY <1>7 DEF Running
<1> QED
  BY <1>2, <1>6, <1>8, <1>9 DEF IInv

LEMMA RebankswitchIInv == IInv /\ Rebankswitch => IInv'
<1> SUFFICES ASSUME IInv, Rebankswitch PROVE IInv'
  OBVIOUS
<1>1. /\ op = "restoreChr" /\ op' = "idle" /\ i' = 0
      /\ UNCHANGED <<bank, prgVars, cbank, chrVars, call, saved, failures, diverged>>
      /\ vram_map' = [w \in 1 .. ChrWindows |-> instant_chr[cbank[w]]]
  BY DEF Rebankswitch, Goto
<1>2. \A w \in 1 .. ChrWindows : cbank[w] \in 0 .. ChrBanks - 1
  BY <1>1 DEF IInv, LoopInv, WindowTypes
<1> DEFINE entry(w) == instant_prg[Group(bank[w])]
           shown(w) == IF entry(w) = None THEN None
                        ELSE [slot |-> entry(w), page |-> bank[w] % GroupPages]
<1>3. memmap' = [w \in 1 .. PrgWindows |-> shown(w)]
  BY DEF Rebankswitch
<1>4. ASSUME NEW w \in 1 .. PrgWindows
      PROVE  /\ shown(w) \in [slot : PrgSlot, page : 0 .. GroupPages - 1] \cup {None}
             /\ shown(w) # None =>
                  /\ s_prg_group[shown(w).slot] = Group(bank[w])
                  /\ shown(w).page = bank[w] % GroupPages
  <2>1. bank[w] \in 0 .. PrgPages - 1 /\ bank[w] \in Nat
    BY Sizes DEF IInv, WindowTypes
  <2>2. Group(bank[w]) \in 0 .. PrgGroups - 1 /\ bank[w] % GroupPages \in 0 .. GroupPages - 1
    BY <2>1, GroupInTable, GroupAndPage
  <2>3. CASE entry(w) = None
    BY <2>3
  <2>4. CASE entry(w) # None
    <3>1. entry(w) \in PrgSlot /\ s_prg_group[entry(w)] = Group(bank[w])
      BY <2>2, <2>4 DEF IInv, PrgInv, PrgTypes, PrgTags
    <3>2. shown(w) = [slot |-> entry(w), page |-> bank[w] % GroupPages]
      BY <2>4
    <3> QED
      BY <2>2, <3>1, <3>2
  <2> QED
    BY <2>3, <2>4
<1> HIDE DEF entry, shown
<1>5. PrgInv' /\ ChrInv'
  BY <1>1 DEF IInv, PrgInv, PrgTypes, PrgTags, ChrInv, ChrTypes, ChrTags, prgVars, chrVars
<1>6. WindowTypes'
  <2>1. memmap' \in [1 .. PrgWindows -> [slot : PrgSlot, page : 0 .. GroupPages - 1] \cup {None}]
    BY <1>3, <1>4
  <2>2. vram_map' \in [1 .. ChrWindows -> ChrSlot \cup {None, Ram}]
    BY <1>1, <1>2 DEF IInv, ChrInv, ChrTypes
  <2> QED
    BY <1>1, <2>1, <2>2 DEF IInv, WindowTypes
<1>7. ControlTypes' /\ LoopInv'
  BY <1>1 DEF IInv, ControlTypes, LoopInv
<1>8. PrgBehind'
  BY <1>1, <1>3, <1>4 DEF PrgBehind, prgVars
<1>9. ChrBehind'
  BY <1>1, <1>2, NamesOK DEF IInv, ChrInv, ChrTags, ChrBehind, chrVars
<1> QED
  BY <1>5, <1>6, <1>7, <1>8, <1>9 DEF IInv
-----------------------------------------------------------------------------
LEMMA NextIInv == IInv /\ [BankNext]_bankVars => IInv'
<1> SUFFICES ASSUME IInv, [BankNext]_bankVars PROVE IInv'
  OBVIOUS
<1>1. CASE UNCHANGED bankVars
  BY <1>1 DEF IInv, PrgInv, PrgTypes, PrgTags, ChrInv, ChrTypes, ChrTags, WindowTypes,
              ControlTypes, LoopInv, Running, PrgBehind, ChrBehind, bankVars, prgVars, chrVars
<1>2. CASE BankNext
  BY <1>2, FillPrgIInv, FillChrIInv, MapPrgIInv, MapChrIInv, EnsureChrIInv, StoreChrIInv,
     LoadStateIInv, LoadBanksIInv, RestorePrgIInv, RestoreChrIInv, RebankswitchIInv DEF BankNext
<1> QED
  BY <1>1, <1>2

\* The invariant holds in every reachable state.
LEMMA SpecIInv == BankSpec => []IInv
BY InitIInv, NextIInv, PTL DEF BankSpec

\* Every variable keeps its type and no group or page gets onto two slots, for every game
\* and cache size (chislink_cache.c:231-239, 271-278).
THEOREM BanksTyped == BankSpec => []BankTypeOK
<1>1. IInv => BankTypeOK
  BY DEF IInv, PrgInv, PrgTypes, ChrInv, ChrTypes, WindowTypes, ControlTypes, BankTypeOK
<1> QED
  BY <1>1, SpecIInv, PTL

\* A mapped window shows the bank the mapper selected for it, or the remains of a failed read,
\* and never a bank that took its slot over (emulators/README.md:24-25).
THEOREM WindowsShowTheirBanks == BankSpec => []NoForeignContents
<1>1. IInv => NoForeignContents
  <2> SUFFICES ASSUME IInv, Running PROVE NoForeignContents
    BY DEF NoForeignContents
  <2>1. PrgBehind /\ ChrBehind
    BY DEF IInv
  <2>2. ASSUME NEW w \in 1 .. PrgWindows, memmap[w] # None,
               prg_cache[memmap[w].slot] # Bad
        PROVE  prg_cache[memmap[w].slot] * GroupPages + memmap[w].page = bank[w]
    <3>1. memmap[w].slot \in PrgSlot /\ bank[w] \in 0 .. PrgPages - 1
      BY <2>2 DEF IInv, WindowTypes
    <3>2. s_prg_group[memmap[w].slot] = Group(bank[w]) /\ memmap[w].page = bank[w] % GroupPages
      BY <2>1, <2>2 DEF PrgBehind
    <3>3. Group(bank[w]) # None
      BY <3>1, GroupInTable, NamesOK
    <3>4. prg_cache[memmap[w].slot] = Group(bank[w])
      BY <2>2, <3>1, <3>2, <3>3 DEF IInv, PrgInv, PrgTags
    <3>5. bank[w] \in Nat
      BY <3>1, Sizes
    <3> QED
      BY <3>2, <3>4, <3>5, GroupAndPage
  <2>3. ASSUME NEW w \in 1 .. ChrWindows, vram_map[w] \in ChrSlot
        PROVE  chr_cache[vram_map[w]] \in {ChrPage(cbank[w]), Bad}
    <3>1. cbank[w] \in 0 .. ChrBanks - 1 /\ s_chr_page[vram_map[w]] = ChrPage(cbank[w])
      BY <2>1, <2>3 DEF ChrBehind, IInv, WindowTypes
    <3>2. ChrPage(cbank[w]) # None
      BY <3>1, PageInFile, NamesOK
    <3> QED
      BY <2>3, <3>1, <3>2 DEF IInv, ChrInv, ChrTags
  <2> QED
    BY <2>2, <2>3 DEF NoForeignContents
<1> QED
  BY <1>1, SpecIInv, PTL

\* While a window keeps its bank and address, nothing overwrites the memory behind it: neither
\* a load for another window nor one that fails (chislink_cache.c:240-248, 279-287).
THEOREM NothingBehindAWindowIsOverwritten == BankSpec => BehindMappedStays
<1> DEFINE PrgStays ==
             \A w \in 1 .. PrgWindows :
               memmap[w] # None /\ memmap'[w] = memmap[w] /\ bank'[w] = bank[w] =>
                 prg_cache'[memmap[w].slot] = prg_cache[memmap[w].slot]
           ChrStays ==
             \A w \in 1 .. ChrWindows :
               vram_map[w] \in ChrSlot /\ vram_map'[w] = vram_map[w] /\ cbank'[w] = cbank[w] =>
                 chr_cache'[vram_map[w]] = chr_cache[vram_map[w]]
<1>1. ASSUME IInv, Running, BankNext  PROVE PrgStays /\ ChrStays
  <2>1. PrgBehind /\ ChrBehind
    BY <1>1 DEF IInv
  <2>2. CASE prg_cache' = prg_cache /\ chr_cache' = chr_cache
    BY <2>2
  <2>3. CASE FillPrg \/ FillChr
    <3>1. memmap = NoWindows(PrgWindows) /\ vram_map = NoWindows(ChrWindows)
      BY <1>1, <2>3 DEF FillPrg, FillChr, IInv, LoopInv
    <3> QED
      BY <3>1, NoneIsNoSlot DEF NoWindows
  <2>4. ASSUME NEW c \in PrgCalls, MapPrg(c)  PROVE PrgStays /\ ChrStays
    <3>1. PrgStays
      BY <1>1, <2>1, <2>4, MapPrgKeeps
    <3>2. chr_cache' = chr_cache
      BY <2>4 DEF MapPrg, chrVars
    <3> QED
      BY <3>1, <3>2
  <2>5. CASE EnsureChr
    <3>1. /\ ChrFound(call.page + i) \/ \E s \in ChrSlot : ChrReadFails(call.page + i, s)
          /\ UNCHANGED <<cbank, vram_map>> /\ prg_cache' = prg_cache
      BY <2>5 DEF EnsureChr, prgVars
    <3>2. ChrTypes /\ WindowTypes
      BY <1>1 DEF IInv, ChrInv
    <3> QED
      BY <2>1, <3>1, <3>2, ChrStaysBehind
  <2>6. CASE StoreChr \/ LoadState \/ LoadBanks \/ \E c \in ChrCalls : MapChr(c)
    BY <2>2, <2>6 DEF StoreChr, LoadState, LoadBanks, MapChr, prgVars, chrVars
  <2>7. CASE RestorePrg \/ RestoreChr \/ Rebankswitch
    BY <1>1, <2>7 DEF RestorePrg, RestoreChr, Rebankswitch, Running
  <2> QED
    BY <1>1, <2>3, <2>4, <2>5, <2>6, <2>7 DEF BankNext
<1>2. IInv /\ [BankNext]_bankVars => [Running => PrgStays /\ ChrStays]_bankVars
  BY <1>1
<1> QED
  BY <1>2, SpecIInv, PTL DEF BankSpec, BehindMappedStays

-----------------------------------------------------------------------------
(* Restoring a saved state.                                                  *)

\* While no read has failed, a tagged slot is whole, and the table leads to it.
PrgWhole ==
  \A s \in PrgSlot : s_prg_group[s] # None =>
    prg_cache[s] = s_prg_group[s] /\ instant_prg[s_prg_group[s]] = s

ChrWhole ==
  \A s \in ChrSlot : s_chr_page[s] # None =>
    /\ chr_cache[s] = s_chr_page[s]
    /\ \A b \in 0 .. ChrBanks - 1 :
         ChrPage(b) = s_chr_page[s] /\ b \notin RamBanks => instant_chr[b] = s

\* The first n windows' banks are on slots.
PrgBack(n) == \A w \in 1 .. n : \E s \in PrgSlot : s_prg_group[s] = Group(bank[w])
ChrBack(n) ==
  \A w \in 1 .. n : cbank[w] \notin RamBanks => \E s \in ChrSlot : s_chr_page[s] = ChrPage(cbank[w])

RestoreInv ==
  /\ IInv
  /\ failures = 0 => PrgWhole /\ ChrWhole
  /\ op = "restorePrg" => i <= PrgWindows /\ PrgBack(i)
  /\ op = "restoreChr" => i <= ChrWindows /\ PrgBack(PrgWindows) /\ ChrBack(i)

LEMMA PrgStaysWhole ==
  ASSUME PrgInv, PrgWhole, NEW banks, NEW g \in 0 .. PrgGroups - 1, NEW s \in PrgSlot,
         PrgFound(banks, g, s)
  PROVE  PrgWhole'
<1>1. CASE PrgHit(g, s)
  BY <1>1 DEF PrgHit, PrgWhole
<1>2. CASE PrgLoad(banks, g, s)
  <2>1. /\ s_prg_group' = [s_prg_group EXCEPT ![s] = g]
        /\ prg_cache' = [prg_cache EXCEPT ![s] = g]
        /\ instant_prg' = [UnmapPrg(s) EXCEPT ![g] = s]
        /\ \A t \in PrgSlot : s_prg_group[t] # g
    BY <1>2 DEF PrgLoad, PrgVictim
  <2>2. UnmapPrg(s) \in [0 .. PrgGroups - 1 -> PrgSlot \cup {None}]
    BY DEF UnmapPrg, PrgInv, PrgTypes
  <2>3. ASSUME NEW t \in PrgSlot, s_prg_group'[t] # None
        PROVE  prg_cache'[t] = s_prg_group'[t] /\ instant_prg'[s_prg_group'[t]] = t
    <3>1. CASE t = s
      BY <2>1, <2>2, <3>1 DEF PrgInv, PrgTypes
    <3>2. CASE t # s
      <4>1. /\ s_prg_group'[t] = s_prg_group[t] /\ prg_cache'[t] = prg_cache[t]
            /\ s_prg_group[t] \in 0 .. PrgGroups - 1 /\ s_prg_group[t] # g
            /\ s_prg_group[t] # s_prg_group[s]
        BY <2>1, <2>3, <3>2 DEF PrgInv, PrgTypes
      <4>2. instant_prg'[s_prg_group[t]] = instant_prg[s_prg_group[t]]
        BY <2>1, <2>2, <4>1 DEF UnmapPrg, PrgInv, PrgTypes
      <4> QED BY <2>3, <4>1, <4>2 DEF PrgWhole
    <3> QED BY <3>1, <3>2
  <2> QED BY <2>3 DEF PrgWhole
<1> QED
  BY <1>1, <1>2 DEF PrgFound

LEMMA ChrStaysWhole ==
  ASSUME ChrInv, ChrWhole, NEW b \in 0 .. ChrBanks - 1, ChrFound(b)
  PROVE  ChrWhole'
<1> DEFINE p == ChrPage(b)
<1>1. p \in 0 .. ChrPages - 1 /\ p # None
  BY PageInFile, NamesOK
<1> HIDE DEF p
<1>2. CASE ChrRam(b)
  BY <1>2 DEF ChrRam, ChrWhole, ChrInv, ChrTypes
<1>3. ASSUME NEW s \in ChrSlot, ChrHit(b, s) PROVE ChrWhole'
  <2>1. /\ s_chr_page' = s_chr_page /\ chr_cache' = chr_cache
        /\ instant_chr' = MapAliases(instant_chr, p, s) /\ s_chr_page[s] = p
    BY <1>3 DEF ChrHit, p
  <2>2. \A c \in 0 .. ChrBanks - 1 :
          instant_chr'[c] = IF ChrPage(c) = p /\ c \notin RamBanks THEN s ELSE instant_chr[c]
    BY <2>1 DEF MapAliases, ChrInv, ChrTypes
  <2>3. \A t \in ChrSlot : s_chr_page[t] = p => t = s
    BY <1>1, <2>1 DEF ChrInv, ChrTypes
  <2> QED BY <2>1, <2>2, <2>3 DEF ChrWhole
<1>4. ASSUME NEW s \in ChrSlot, ChrLoad(b, s) PROVE ChrWhole'
  <2>1. /\ s_chr_page' = [s_chr_page EXCEPT ![s] = p]
        /\ chr_cache' = [chr_cache EXCEPT ![s] = p]
        /\ instant_chr' = MapAliases(UnmapChr(s), p, s)
        /\ \A t \in ChrSlot : s_chr_page[t] # p
    BY <1>4 DEF ChrLoad, ChrVictim, p
  <2>2. \A c \in 0 .. ChrBanks - 1 :
          instant_chr'[c] = IF ChrPage(c) = p /\ c \notin RamBanks THEN s ELSE UnmapChr(s)[c]
    BY <2>1, UnmapChrTable DEF MapAliases
  <2>3. ASSUME NEW t \in ChrSlot, s_chr_page'[t] # None
        PROVE  /\ chr_cache'[t] = s_chr_page'[t]
               /\ \A c \in 0 .. ChrBanks - 1 :
                    ChrPage(c) = s_chr_page'[t] /\ c \notin RamBanks => instant_chr'[c] = t
    <3>1. CASE t = s
      BY <2>1, <2>2, <3>1 DEF ChrInv, ChrTypes
    <3>2. CASE t # s
      <4>1. /\ s_chr_page'[t] = s_chr_page[t] /\ chr_cache'[t] = chr_cache[t]
            /\ s_chr_page[t] # p /\ s_chr_page[t] # None
        BY <2>1, <2>3, <3>2 DEF ChrInv, ChrTypes
      <4>2. ASSUME NEW c \in 0 .. ChrBanks - 1, ChrPage(c) = s_chr_page[t], c \notin RamBanks
            PROVE  instant_chr'[c] = t
        <5>1. instant_chr[c] = t
          BY <4>1, <4>2 DEF ChrWhole
        <5>2. instant_chr'[c] = UnmapChr(s)[c]
          BY <2>2, <4>1, <4>2
        <5>3. UnmapChr(s)[c] = instant_chr[c]
          BY <3>2, <5>1 DEF UnmapChr, ChrInv, ChrTypes
        <5> QED BY <5>1, <5>2, <5>3
      <4> QED BY <4>1, <4>2 DEF ChrWhole
    <3> QED BY <3>1, <3>2
  <2> QED BY <2>3 DEF ChrWhole
<1> QED
  BY <1>2, <1>3, <1>4 DEF ChrFound

\* What a step does to the PRG cache, and to the CHR cache.
LEMMA PrgMoves ==
  ASSUME IInv, [BankNext]_bankVars
  PROVE  \/ UNCHANGED <<s_prg_group, prg_cache, instant_prg>>
         \/ failures' # 0
         \/ s_prg_group' = EmptyPrg.tag
         \/ \E banks : \E g \in 0 .. PrgGroups - 1, s \in PrgSlot : PrgFound(banks, g, s)
<1>1. \A banks, g, s : PrgReadFails(banks, g, s) => failures' # 0
  BY Sizes DEF PrgReadFails, ReadFails, IInv, ControlTypes
<1>2. CASE FillPrg
  <2>1. CASE i < PrgSlots /\ i < PrgGroups
             /\ \E s \in PrgSlot : PrgFound(bank, i, s) \/ PrgReadFails(bank, i, s)
    <3>1. i \in 0 .. PrgGroups - 1
      BY <2>1, GroupInTable DEF IInv, ControlTypes
    <3>2. \A s \in PrgSlot : PrgFound(bank, i, s) =>
            \E banks : \E g \in 0 .. PrgGroups - 1, t \in PrgSlot : PrgFound(banks, g, t)
      BY <3>1, Zenon
    <3> QED BY <1>1, <2>1, <3>2, Zenon
  <2>2. CASE UNCHANGED prgVars
    BY <2>2 DEF prgVars
  <2> QED BY <1>2, <2>1, <2>2 DEF FillPrg
<1>3. ASSUME NEW c \in PrgCalls, MapPrg(c)
      PROVE  failures' # 0 \/ \E banks : \E g \in 0 .. PrgGroups - 1, s \in PrgSlot : PrgFound(banks, g, s)
  <2>1. c.page \in 0 .. PrgPages - 1
    BY CallsOK DEF Calls
  <2>2. Group(c.page) \in 0 .. PrgGroups - 1
    BY <2>1, GroupInTable
  <2>3. PICK s \in PrgSlot : \/ PrgFound(Banked(c), Group(c.page), s)
                              \/ PrgReadFails(Banked(c), Group(c.page), s)
    BY <1>3 DEF MapPrg
  <2>4. PrgFound(Banked(c), Group(c.page), s) =>
          \E banks : \E g \in 0 .. PrgGroups - 1, t \in PrgSlot : PrgFound(banks, g, t)
    BY <2>2, Zenon
  <2> QED BY <1>1, <2>3, <2>4, Zenon
<1>4. CASE RestorePrg
  <2>1. CASE i < PrgWindows /\ \E s \in PrgSlot : \/ PrgFound(bank, Group(bank[i + 1]), s)
                                                 \/ PrgReadFails(bank, Group(bank[i + 1]), s)
    <3>1. i + 1 \in 1 .. PrgWindows
      BY <2>1, Sizes DEF IInv, ControlTypes
    <3>2. Group(bank[i + 1]) \in 0 .. PrgGroups - 1
      BY <3>1, GroupInTable DEF IInv, WindowTypes
    <3>3. \A s \in PrgSlot : PrgFound(bank, Group(bank[i + 1]), s) =>
            \E banks : \E g \in 0 .. PrgGroups - 1, t \in PrgSlot : PrgFound(banks, g, t)
      BY <3>2, Zenon
    <3> QED BY <1>1, <2>1, <3>3, Zenon
  <2>2. CASE UNCHANGED prgVars
    BY <2>2 DEF prgVars
  <2> QED BY <1>4, <2>1, <2>2 DEF RestorePrg
<1>5. CASE LoadState
  BY <1>5 DEF LoadState
<1>6. CASE UNCHANGED bankVars \/ FillChr \/ EnsureChr \/ StoreChr \/ LoadBanks \/ RestoreChr
           \/ Rebankswitch \/ \E c \in ChrCalls : MapChr(c)
  BY <1>6 DEF bankVars, FillChr, EnsureChr, StoreChr, LoadBanks, RestoreChr, Rebankswitch, MapChr,
              prgVars
<1> QED
  BY <1>2, <1>3, <1>4, <1>5, <1>6 DEF BankNext

LEMMA ChrMoves ==
  ASSUME IInv, [BankNext]_bankVars
  PROVE  \/ UNCHANGED <<s_chr_page, chr_cache, instant_chr>>
         \/ UNCHANGED <<s_chr_page, chr_cache>> /\ \A b \in 0 .. ChrBanks - 1 :
              b \notin RamBanks => instant_chr'[b] = instant_chr[b]
         \/ failures' # 0
         \/ s_chr_page' = EmptyChr.tag
         \/ \E b \in 0 .. ChrBanks - 1 : ChrFound(b)
<1>1. \A b, s : ChrReadFails(b, s) => failures' # 0
  BY Sizes DEF ChrReadFails, ReadFails, IInv, ControlTypes
<1>2. CASE FillChr
  <2>1. CASE i < ChrSlots /\ i < ChrPages /\ (ChrFound(i) \/ \E s \in ChrSlot : ChrReadFails(i, s))
    <3>1. i \in 0 .. ChrBanks - 1
      BY <2>1, Sizes DEF IInv, ControlTypes
    <3> QED BY <1>1, <2>1, <3>1
  <2>2. CASE /\ instant_chr' = [b \in DOMAIN instant_chr |->
                                 IF b \in RamBanks THEN Ram ELSE instant_chr[b]]
             /\ UNCHANGED <<s_chr_page, chr_cache>>
    BY <2>2 DEF IInv, ChrInv, ChrTypes
  <2> QED BY <1>2, <2>1, <2>2 DEF FillChr
<1>3. CASE EnsureChr
  <2>1. call \in ChrCalls /\ i \in Nat /\ i < call.width
    BY <1>3 DEF EnsureChr, IInv, LoopInv, ControlTypes
  <2>2. call.page + i \in 0 .. ChrBanks - 1
    BY <2>1, ChrCallInTable
  <2> QED BY <1>1, <1>3, <2>2 DEF EnsureChr
<1>4. CASE RestoreChr
  <2>1. /\ op = "restoreChr" /\ i < ChrWindows
        /\ ChrFound(cbank[i + 1]) \/ \E s \in ChrSlot : ChrReadFails(cbank[i + 1], s)
    BY <1>4 DEF RestoreChr
  <2>2. i + 1 \in 1 .. ChrWindows
    BY <2>1, Sizes DEF IInv, ControlTypes
  <2>3. cbank[i + 1] \in 0 .. ChrBanks - 1
    BY <2>1, <2>2 DEF IInv, WindowTypes, LoopInv
  <2> QED BY <1>1, <2>1, <2>3
<1>5. CASE LoadState
  BY <1>5 DEF LoadState
<1>6. CASE UNCHANGED bankVars \/ FillPrg \/ StoreChr \/ LoadBanks \/ RestorePrg
           \/ Rebankswitch \/ \E c \in ChrCalls : MapChr(c)
  BY <1>6 DEF bankVars, FillPrg, StoreChr, LoadBanks, RestorePrg, Rebankswitch, MapChr, chrVars
<1>7. CASE \E c \in PrgCalls : MapPrg(c)
  BY <1>7 DEF MapPrg, chrVars
<1> QED
  BY <1>2, <1>3, <1>4, <1>5, <1>6, <1>7 DEF BankNext

LEMMA FailuresStay == ASSUME IInv, [BankNext]_bankVars, failures' = 0 PROVE failures = 0
<1>1. failures' = failures \/ failures' = failures + 1
  <2>1. \A banks, g, s : PrgFound(banks, g, s) \/ PrgReadFails(banks, g, s) =>
          failures' = failures \/ failures' = failures + 1
    BY DEF PrgFound, PrgHit, PrgLoad, PrgReadFails, ReadFails
  <2>2. \A b : ChrFound(b) \/ (\E s \in ChrSlot : ChrReadFails(b, s)) =>
          failures' = failures \/ failures' = failures + 1
    BY DEF ChrFound, ChrRam, ChrHit, ChrLoad, ChrReadFails, ReadFails
  <2>3. CASE FillPrg \/ RestorePrg \/ \E c \in PrgCalls : MapPrg(c)
    BY <2>1, <2>3 DEF FillPrg, RestorePrg, MapPrg
  <2>4. CASE FillChr \/ EnsureChr \/ RestoreChr
    BY <2>2, <2>4 DEF FillChr, EnsureChr, RestoreChr
  <2>5. CASE UNCHANGED bankVars \/ StoreChr \/ LoadState \/ LoadBanks \/ Rebankswitch
             \/ \E c \in ChrCalls : MapChr(c)
    BY <2>5 DEF bankVars, StoreChr, LoadState, LoadBanks, Rebankswitch, MapChr
  <2> QED BY <2>3, <2>4, <2>5 DEF BankNext
<1> QED
  BY <1>1, Sizes DEF IInv, ControlTypes

LEMMA WholeNext ==
  ASSUME RestoreInv, [BankNext]_bankVars, failures' = 0
  PROVE  PrgWhole' /\ ChrWhole'
<1>1. IInv /\ PrgWhole /\ ChrWhole /\ PrgInv /\ ChrInv
  BY FailuresStay DEF RestoreInv, IInv
<1>2. PrgWhole'
  <2>1. CASE UNCHANGED <<s_prg_group, prg_cache, instant_prg>>
    BY <1>1, <2>1 DEF PrgWhole
  <2>2. CASE s_prg_group' = EmptyPrg.tag
    BY <2>2 DEF PrgWhole, EmptyPrg
  <2>3. CASE \E banks : \E g \in 0 .. PrgGroups - 1, s \in PrgSlot : PrgFound(banks, g, s)
    BY <1>1, <2>3, PrgStaysWhole
  <2> QED BY <1>1, <2>1, <2>2, <2>3, PrgMoves
<1>3. ChrWhole'
  <2>1. CASE UNCHANGED <<s_chr_page, chr_cache>> /\ \A b \in 0 .. ChrBanks - 1 :
               b \notin RamBanks => instant_chr'[b] = instant_chr[b]
    BY <1>1, <2>1 DEF ChrWhole
  <2>2. CASE s_chr_page' = EmptyChr.tag
    BY <2>2 DEF ChrWhole, EmptyChr
  <2>3. CASE \E b \in 0 .. ChrBanks - 1 : ChrFound(b)
    BY <1>1, <2>3, ChrStaysWhole
  <2> QED BY <1>1, <2>1, <2>2, <2>3, ChrMoves
<1> QED
  BY <1>2, <1>3

\* Nothing that was brought back is taken for the rest.
LEMMA BackNext ==
  ASSUME RestoreInv, [BankNext]_bankVars
  PROVE  /\ op' = "restorePrg" => i' <= PrgWindows /\ PrgBack(i)'
         /\ op' = "restoreChr" => i' <= ChrWindows /\ PrgBack(PrgWindows)' /\ ChrBack(i)'
<1>0. IInv /\ PrgTypes /\ ChrTypes /\ WindowTypes /\ i \in Nat
  BY DEF RestoreInv, IInv, PrgInv, ChrInv, ControlTypes
<1>1. CASE RestorePrg
  <2>1. op = "restorePrg" /\ i <= PrgWindows /\ PrgBack(i) /\ bank' = bank /\ cbank' = cbank
    BY <1>1 DEF RestorePrg, RestoreInv
  <2>2. ASSUME NEW s \in PrgSlot, i < PrgWindows, PrgFound(bank, Group(bank[i + 1]), s), Goes
        PROVE  op' = "restorePrg" /\ i' <= PrgWindows /\ PrgBack(i)'
    <3>1. i + 1 \in 1 .. PrgWindows /\ i' = i + 1 /\ op' = op
      BY <1>0, <2>2, Sizes DEF Goes
    <3>2. Group(bank[i + 1]) \in ActiveGroups(bank)
      BY <3>1 DEF ActiveGroups
    <3>3. ASSUME NEW w \in 1 .. i
          PROVE  \E t \in PrgSlot : s_prg_group'[t] = Group(bank[w])
      <4>1. PICK t \in PrgSlot : s_prg_group[t] = Group(bank[w])
        BY <2>1 DEF PrgBack
      <4>2. w \in 1 .. PrgWindows
        BY <1>0, <2>1, Sizes
      <4>3. s_prg_group[t] \in ActiveGroups(bank)
        BY <4>1, <4>2 DEF ActiveGroups
      <4>4. bank \in [1 .. PrgWindows -> 0 .. PrgPages - 1]
        BY <1>0 DEF WindowTypes
      <4>5. s_prg_group'[t] = s_prg_group[t]
        BY <1>0, <2>2, <3>2, <4>3, <4>4, PrgKept
      <4> QED BY <4>1, <4>5
    <3>4. s_prg_group'[s] = Group(bank[i + 1])
      BY <1>0, <2>2, PrgFoundIsTagged
    <3>5. \A w \in 1 .. i + 1 : w \in 1 .. i \/ w = i + 1
      BY <1>0
    <3>6. \A w \in 1 .. i' : \E t \in PrgSlot : s_prg_group'[t] = Group(bank'[w])
      BY <2>1, <3>1, <3>3, <3>4, <3>5
    <3>7. PrgBack(i)'
      BY <3>6 DEF PrgBack
    <3> QED BY <2>1, <2>2, <3>1, <3>7, Sizes, <1>0
  <2>3. ASSUME i = PrgWindows, Goto("restoreChr"), UNCHANGED prgVars
        PROVE  op' = "restoreChr" /\ i' <= ChrWindows /\ PrgBack(PrgWindows)' /\ ChrBack(i)'
    <3>1. op' = "restoreChr" /\ i' = 0 /\ s_prg_group' = s_prg_group
      BY <2>3 DEF Goto, prgVars
    <3>2. PrgBack(PrgWindows)'
      BY <2>1, <2>3, <3>1 DEF PrgBack
    <3>3. ChrBack(i)'
      BY <3>1 DEF ChrBack
    <3> QED BY <3>1, <3>2, <3>3, Sizes
  <2>4. RestoreFails => op' = "idle"
    BY DEF RestoreFails, Goto
  <2> QED BY <1>1, <2>2, <2>3, <2>4 DEF RestorePrg
<1>2. CASE RestoreChr
  <2>1. /\ op = "restoreChr" /\ i < ChrWindows /\ PrgBack(PrgWindows) /\ ChrBack(i)
        /\ bank' = bank /\ cbank' = cbank /\ s_prg_group' = s_prg_group
        /\ \/ ChrFound(cbank[i + 1]) /\ Goes
           \/ (\E s \in ChrSlot : ChrReadFails(cbank[i + 1], s)) /\ RestoreFails
    BY <1>2 DEF RestoreChr, RestoreInv, prgVars
  <2>2. PrgBack(PrgWindows)'
    BY <2>1 DEF PrgBack
  <2>3. ASSUME ChrFound(cbank[i + 1]), Goes
        PROVE  op' = "restoreChr" /\ i' <= ChrWindows /\ ChrBack(i)'
    <3>1. i + 1 \in 1 .. ChrWindows /\ i' = i + 1 /\ op' = op
      BY <1>0, <2>1, <2>3, Sizes DEF Goes
    <3>2. \A w \in 1 .. ChrWindows : cbank[w] # None
      BY <1>0, <2>1 DEF IInv, LoopInv
    <3>3. ASSUME NEW w \in 1 .. i, cbank[w] \notin RamBanks
          PROVE  \E t \in ChrSlot : s_chr_page'[t] = ChrPage(cbank[w])
      <4>1. PICK t \in ChrSlot : s_chr_page[t] = ChrPage(cbank[w])
        BY <2>1, <3>3 DEF ChrBack
      <4>2. w \in 1 .. ChrWindows
        BY <1>0, <2>1, Sizes
      <4>3. s_chr_page[t] \in ActivePages
        BY <3>2, <3>3, <4>1, <4>2 DEF ActivePages
      <4>4. cbank \in [1 .. ChrWindows -> 0 .. ChrBanks - 1 \cup {None}]
        BY <1>0 DEF WindowTypes
      <4>5. s_chr_page'[t] = s_chr_page[t]
        BY <1>0, <2>3, <4>3, <4>4, ChrKept
      <4> QED BY <4>1, <4>5
    <3>4. cbank[i + 1] \notin RamBanks => \E t \in ChrSlot : s_chr_page'[t] = ChrPage(cbank[i + 1])
      BY <1>0, <2>3 DEF ChrFound, ChrRam, ChrHit, ChrLoad, ChrTypes
    <3>5. \A w \in 1 .. i + 1 : w \in 1 .. i \/ w = i + 1
      BY <1>0
    <3>6. \A w \in 1 .. i' : cbank'[w] \notin RamBanks =>
            \E t \in ChrSlot : s_chr_page'[t] = ChrPage(cbank'[w])
      BY <2>1, <3>1, <3>3, <3>4, <3>5
    <3>7. ChrBack(i)'
      BY <3>6 DEF ChrBack
    <3> QED BY <2>1, <3>1, <3>7, Sizes, <1>0
  <2>4. RestoreFails => op' = "idle"
    BY DEF RestoreFails, Goto
  <2> QED BY <2>1, <2>2, <2>3, <2>4
<1>3. CASE LoadBanks
  <2>1. op' = "restorePrg" /\ i' = 0
    BY <1>3 DEF LoadBanks, Goto
  <2>2. PrgBack(i)'
    BY <2>1 DEF PrgBack
  <2> QED BY <2>1, <2>2, Sizes
<1>4. CASE UNCHANGED bankVars
  <2>1. /\ op' = op /\ i' = i /\ bank' = bank /\ cbank' = cbank /\ s_prg_group' = s_prg_group
        /\ s_chr_page' = s_chr_page
    BY <1>4 DEF bankVars, prgVars, chrVars
  <2> QED BY <2>1 DEF RestoreInv, PrgBack, ChrBack
<1>5. CASE FillPrg \/ FillChr \/ EnsureChr \/ StoreChr \/ LoadState \/ Rebankswitch
           \/ (\E c \in PrgCalls : MapPrg(c)) \/ (\E c \in ChrCalls : MapChr(c))
  <2>1. op' \in {"fillPrg", "fillChr", "idle", "chr"}
    BY <1>5 DEF FillPrg, FillChr, EnsureChr, StoreChr, LoadState, Rebankswitch, MapPrg, MapChr, Goto
  <2> QED BY <2>1
<1> QED
  BY <1>1, <1>2, <1>3, <1>4, <1>5 DEF BankNext

LEMMA RestoreAtFirst == BankInit => RestoreInv
<1> SUFFICES ASSUME BankInit PROVE RestoreInv
  OBVIOUS
<1>1. IInv
  BY InitIInv
<1>2. PrgWhole /\ ChrWhole
  BY DEF BankInit, PrgWhole, ChrWhole, EmptyPrg, EmptyChr
<1>3. op = "fillPrg"
  BY DEF BankInit
<1> QED
  BY <1>1, <1>2, <1>3 DEF RestoreInv

LEMMA RestoreNext == RestoreInv /\ [BankNext]_bankVars => RestoreInv'
<1> SUFFICES ASSUME RestoreInv, [BankNext]_bankVars PROVE RestoreInv'
  OBVIOUS
<1>1. IInv'
  BY NextIInv DEF RestoreInv
<1> QED
  BY <1>1, WholeNext, BackNext DEF RestoreInv

\* When the windows are set again from the tables, every bank of the saved state is found there,
\* none of them evicted for a later one, if no read failed: for every number of windows, as long
\* as there are no fewer slots (chislink_cache.c:302-304).
THEOREM SavedBanksReturn == BankSpec => []RestoreFindsBanks
<1>1. RestoreInv => RestoreFindsBanks
  <2> SUFFICES ASSUME RestoreInv, op = "restoreChr", i = ChrWindows, failures = 0
               PROVE  RestoreFindsBanks
    BY DEF RestoreFindsBanks
  <2>0. PrgWhole /\ ChrWhole /\ PrgBack(PrgWindows) /\ ChrBack(ChrWindows) /\ IInv /\ WindowTypes
    BY DEF RestoreInv, IInv
  <2>1. ASSUME NEW w \in 1 .. PrgWindows
        PROVE  \E s \in PrgSlot : instant_prg[Group(bank[w])] = s /\ prg_cache[s] = Group(bank[w])
    <3>1. PICK s \in PrgSlot : s_prg_group[s] = Group(bank[w])
      BY <2>0 DEF PrgBack
    <3>2. Group(bank[w]) # None
      BY <2>0, GroupInTable, NamesOK DEF WindowTypes
    <3> QED BY <2>0, <3>1, <3>2 DEF PrgWhole
  <2>2. ASSUME NEW w \in 1 .. ChrWindows, cbank[w] \notin RamBanks
        PROVE  \E s \in ChrSlot : instant_chr[cbank[w]] = s /\ chr_cache[s] = ChrPage(cbank[w])
    <3>1. PICK s \in ChrSlot : s_chr_page[s] = ChrPage(cbank[w])
      BY <2>0, <2>2 DEF ChrBack
    <3>2. cbank[w] \in 0 .. ChrBanks - 1
      BY <2>0 DEF WindowTypes, IInv, LoopInv
    <3>3. ChrPage(cbank[w]) # None
      BY <3>2, PageInFile, NamesOK
    <3> QED BY <2>0, <2>2, <3>1, <3>2, <3>3 DEF ChrWhole
  <2> QED BY <2>1, <2>2 DEF RestoreFindsBanks
<1> QED
  BY <1>1, RestoreAtFirst, RestoreNext, PTL DEF BankSpec

-----------------------------------------------------------------------------
(* Goomba Color's cache                                                     *)

\* A page is in at most one slot.
UniqueTags ==
  \A s, t \in CacheSlot : prgcache[s] = prgcache[t] /\ prgcache[s] # NoSlot => s = t

\* Until the game runs, a slot has its own page or none, and page 0 is in video memory once it
\* was looked for.
Filling ==
  stage \in {"find", "fill"} =>
    /\ states = 0 /\ \A p \in Pages : instant[p] = NoSlot
    /\ \A s \in CacheSlot : prgcache[s] # NoSlot =>
         stage = "fill" /\ prgcache[s] = s /\ s < FilePages
    /\ stage = "fill" => loaded[0] = 0

\* A tagged slot holds its page, unless the page is doubtful, or a state that is being loaded
\* has taken the slot for itself.
TrueTags ==
  stage # "restore" =>
    \A s \in CacheSlot : prgcache[s] \in Pages \ doubtful => loaded[s] = Content(prgcache[s])

\* The table leads to slots with the page.
InstantTrue == \A p \in Pages : instant[p] # NoSlot => prgcache[instant[p]] = p

\* While update_cache gets the two banks, those it has got stay.
Cached(p) == \E s \in CacheSlot : prgcache[s] = p
Getting ==
  stage = "update" =>
    \/ todo = <<0, bank1>>
    \/ todo = <<bank1>> /\ Cached(0)
    \/ todo = <<>> /\ Cached(0) /\ Cached(bank1)

\* The windows show slots with their banks.
Behind == stage = "run" => \A w \in 0 .. 1 : window[w] \in SlotsOf(Bank(w))

CacheInv ==
  /\ CacheTypeOK /\ UniqueTags /\ Filling /\ TrueTags
  /\ states = 0 => stage # "restore" /\ InstantTrue /\ Getting /\ Behind

-----------------------------------------------------------------------------
LEMMA CacheConstants ==
  /\ RomSize \in Nat /\ RomPages \in Nat /\ CacheSlots \in Nat /\ ScratchSlots \in Nat
  /\ CacheSlots > 2 /\ FilePages \in Nat /\ RomSize = 2 * FilePages /\ FilePages > 1
  /\ FilePages <= RomPages /\ 0 \in Pages /\ 1 \in Pages /\ 0 \in CacheSlot /\ 1 \in CacheSlot
  /\ MaxLost \in Nat /\ MaxStates \in Nat /\ ScratchSlots < CacheSlots
<1>1. RomSize = 2 * (RomSize \div 2) /\ RomSize \div 2 \in Nat
  BY CacheAssumption DEF CacheAssumption
<1> QED
  BY <1>1, CacheAssumption DEF CacheAssumption, FilePages, Pages, CacheSlot

LEMMA NoSlotIsNone ==
  /\ NoSlot \notin Pages /\ NoSlot \notin CacheSlot
  /\ Padding \notin Nat /\ Torn \notin Nat /\ Scratch \notin Nat /\ NoSlot \notin Nat
BY CacheAssumption DEF CacheAssumption, Pages, CacheSlot

LEMMA StreamsAre ==
  /\ NoStream \in Streams /\ \A s \in Streams : [s EXCEPT !.open = TRUE] \in Streams
  /\ \A s \in Streams : s.open \in BOOLEAN /\ s.mcu \in 0 .. RomSize /\ s.at \in 0 .. RomSize
  /\ \A s \in Streams, m, a \in 0 .. RomSize :
       /\ [s EXCEPT !.mcu = m] \in Streams /\ [s EXCEPT !.mcu = m].mcu = m
       /\ [s EXCEPT !.mcu = m, !.at = a] \in Streams /\ [s EXCEPT !.mcu = m, !.at = a].mcu = m
<1>1. NoStream \in Streams /\ \A s \in Streams : [s EXCEPT !.open = TRUE] \in Streams
  <2>1. NoStream \in Streams
    BY CacheConstants DEF NoStream, Streams
  <2>2. \A s \in Streams : [s EXCEPT !.open = TRUE] \in Streams
    BY DEF Streams
  <2> QED
    BY <2>1, <2>2
<1>2. \A s \in Streams : s.open \in BOOLEAN /\ s.mcu \in 0 .. RomSize /\ s.at \in 0 .. RomSize
  BY DEF Streams
<1>3. ASSUME NEW s \in Streams, NEW m \in 0 .. RomSize, NEW a \in 0 .. RomSize
      PROVE  /\ [s EXCEPT !.mcu = m] \in Streams /\ [s EXCEPT !.mcu = m].mcu = m
             /\ [s EXCEPT !.mcu = m, !.at = a] \in Streams
             /\ [s EXCEPT !.mcu = m, !.at = a].mcu = m
  BY DEF Streams
<1> QED
  BY <1>1, <1>2, <1>3

\* What a read from the stream gives, and where the stream is afterwards.
LEMMA Opened ==
  ASSUME NEW s \in Streams, NEW r \in OpenOutcomes(s)
  PROVE  /\ r.s \in Streams /\ r.ok \in BOOLEAN
         /\ r.ok /\ s.open => r.s = s
         /\ r.ok /\ ~s.open => r.s.at = 0 /\ r.s.mcu = 0
<1>1. [NoStream EXCEPT !.open = TRUE] \in Streams
  BY StreamsAre
<1>2. [NoStream EXCEPT !.open = TRUE].at = 0 /\ [NoStream EXCEPT !.open = TRUE].mcu = 0
  BY DEF NoStream
<1>3. CASE s.open
  <2>1. r = [ok |-> TRUE, s |-> s]
    BY <1>3 DEF OpenOutcomes
  <2> QED
    BY <2>1, <1>3
<1>4. CASE ~s.open
  <2>1. \/ r = [ok |-> TRUE, s |-> [NoStream EXCEPT !.open = TRUE]]
        \/ r = [ok |-> FALSE, s |-> s]
    BY <1>4 DEF OpenOutcomes
  <2>2. CASE r = [ok |-> TRUE, s |-> [NoStream EXCEPT !.open = TRUE]]
    <3>1. r.s = [NoStream EXCEPT !.open = TRUE] /\ r.ok = TRUE
      BY <2>2
    <3> QED
      BY <3>1, <1>1, <1>2, <1>4
  <2>3. CASE r = [ok |-> FALSE, s |-> s]
    <3>1. r.s = s /\ r.ok = FALSE
      BY <2>3
    <3> QED
      BY <3>1, <1>4
  <2> QED
    BY <2>1, <2>2, <2>3
<1> QED
  BY <1>3, <1>4

LEMMA Sought ==
  ASSUME NEW s \in Streams, NEW offset \in 0 .. RomSize, NEW r \in SeekOutcomes(s, offset)
  PROVE  /\ r.s \in Streams /\ r.ok \in BOOLEAN
         /\ r.ok => IF s.at = offset THEN r.s = s ELSE r.s.mcu = offset
<1>1. \/ s.at = offset /\ r = [ok |-> TRUE, s |-> s]
      \/ s.at # offset /\ r = [ok |-> TRUE, s |-> [s EXCEPT !.mcu = offset, !.at = offset]]
      \/ s.at # offset /\ r = [ok |-> FALSE, s |-> [s EXCEPT !.mcu = offset]]
      \/ s.at # offset /\ r = [ok |-> FALSE, s |-> s]
  BY DEF SeekOutcomes
<1> DEFINE moved == [s EXCEPT !.mcu = offset, !.at = offset]
           adrift == [s EXCEPT !.mcu = offset]
<1>2. moved \in Streams /\ moved.mcu = offset /\ adrift \in Streams
  BY DEF Streams
<1>3. \/ s.at = offset /\ r = [ok |-> TRUE, s |-> s]
      \/ s.at # offset /\ r = [ok |-> TRUE, s |-> moved]
      \/ s.at # offset /\ r = [ok |-> FALSE, s |-> adrift]
      \/ s.at # offset /\ r = [ok |-> FALSE, s |-> s]
  BY <1>1
<1> HIDE DEF moved, adrift
<1>4. CASE s.at = offset /\ r = [ok |-> TRUE, s |-> s]
  BY <1>4
<1>5. CASE s.at # offset /\ r = [ok |-> TRUE, s |-> moved]
  BY <1>5, <1>2
<1>6. CASE s.at # offset /\ (r = [ok |-> FALSE, s |-> adrift] \/ r = [ok |-> FALSE, s |-> s])
  <2>1. CASE r = [ok |-> FALSE, s |-> adrift]
    BY <2>1, <1>2
  <2>2. CASE r = [ok |-> FALSE, s |-> s]
    BY <2>2
  <2> QED
    BY <1>6, <2>1, <2>2
<1> QED
  BY <1>3, <1>4, <1>5, <1>6

Most(s, length) == IF length < RomSize - s.mcu THEN length ELSE RomSize - s.mcu

LEMMA Received ==
  ASSUME NEW s \in Streams, NEW length \in Nat, NEW r \in ReceiveOutcomes(s, length)
  PROVE  /\ r.s \in Streams /\ r.got \in Nat /\ r.ok \in BOOLEAN /\ r.from \in Nat
         /\ r.got + r.from <= RomSize
         /\ r.ok => r.got = length /\ r.from = s.mcu
<1> DEFINE on(n) == IF s.at + n < RomSize THEN s.at + n ELSE RomSize
           after(n) == [s EXCEPT !.mcu = @ + n,
                                 !.at = IF s.at + n < RomSize THEN s.at + n ELSE RomSize]
           astray(n) == [s EXCEPT !.mcu = @ + n]
<1>1. s.mcu \in 0 .. RomSize /\ s.at \in 0 .. RomSize /\ RomSize \in Nat
  BY StreamsAre, CacheConstants
<1>2. Most(s, length) \in Nat /\ s.mcu + Most(s, length) <= RomSize
  BY <1>1 DEF Most
<1>3. \/ \E n \in 0 .. Most(s, length) :
           r = [got |-> n, ok |-> n = length, from |-> s.mcu, s |-> after(n)]
      \/ \E m \in 0 .. Most(s, length) :
           r = [got |-> 0, ok |-> FALSE, from |-> s.mcu, s |-> astray(m)]
  BY Zenon DEF ReceiveOutcomes, Most
<1>4. ASSUME NEW n \in 0 .. Most(s, length)
      PROVE  after(n) \in Streams /\ astray(n) \in Streams
  <2>1. s.mcu + n \in 0 .. RomSize /\ on(n) \in 0 .. RomSize
    BY <1>1, <1>2
  <2>2. after(n) = [s EXCEPT !.mcu = s.mcu + n, !.at = on(n)]
    OBVIOUS
  <2>3. astray(n) = [s EXCEPT !.mcu = s.mcu + n]
    OBVIOUS
  <2> HIDE DEF after, astray, on
  <2>4. [s EXCEPT !.mcu = s.mcu + n, !.at = on(n)] \in Streams
    BY <2>1 DEF Streams
  <2>5. [s EXCEPT !.mcu = s.mcu + n] \in Streams
    BY <2>1 DEF Streams
  <2> QED
    BY <2>2, <2>3, <2>4, <2>5
<1> HIDE DEF after, astray
<1>5. CASE \E n \in 0 .. Most(s, length) :
             r = [got |-> n, ok |-> n = length, from |-> s.mcu, s |-> after(n)]
  <2> PICK n \in 0 .. Most(s, length) :
             r = [got |-> n, ok |-> n = length, from |-> s.mcu, s |-> after(n)]
    BY <1>5
  <2>1. r.got = n /\ r.ok = (n = length) /\ r.from = s.mcu /\ r.s = after(n)
    OBVIOUS
  <2>2. r.ok \in BOOLEAN /\ (r.ok => r.got = length)
    BY <2>1, Zenon
  <2>3. /\ r.got \in Nat /\ r.from \in Nat /\ r.s \in Streams
        /\ r.got + r.from <= RomSize
    BY <2>1, <1>1, <1>2, <1>4
  <2> QED
    BY <2>1, <2>2, <2>3
<1>6. CASE \E m \in 0 .. Most(s, length) :
             r = [got |-> 0, ok |-> FALSE, from |-> s.mcu, s |-> astray(m)]
  <2> PICK m \in 0 .. Most(s, length) :
             r = [got |-> 0, ok |-> FALSE, from |-> s.mcu, s |-> astray(m)]
    BY <1>6
  <2>1. r.got = 0 /\ r.ok = FALSE /\ r.from = s.mcu /\ r.s = astray(m)
    OBVIOUS
  <2> QED
    BY <2>1, <1>1, <1>4
<1> QED
  BY <1>3, <1>5, <1>6

LEMMA Read ==
  ASSUME NEW s \in Streams, NEW p \in Nat, p < FilePages, NEW r \in ReadOutcomes(s, 2 * p, 2)
  PROVE  /\ r.s \in Streams /\ r.got \in Nat /\ r.ok \in BOOLEAN /\ r.from \in Nat
         /\ r.got + r.from <= RomSize
         /\ r.ok /\ ~(s.open /\ s.at = 2 * p /\ s.mcu # s.at) => r.got = 2 /\ r.from = 2 * p
<1>1. 2 * p \in 0 .. RomSize
  BY CacheConstants
<1>2. PICK o \in OpenOutcomes(s) :
        r \in (IF ~o.ok THEN {Failed(o.s)}
               ELSE UNION {IF ~sought.ok THEN {Failed(sought.s)} ELSE ReceiveOutcomes(sought.s, 2)
                             : sought \in SeekOutcomes(o.s, 2 * p)})
  BY Zenon DEF ReadOutcomes
<1>3. /\ o.s \in Streams /\ o.ok \in BOOLEAN
      /\ o.ok /\ s.open => o.s = s
      /\ o.ok /\ ~s.open => o.s.at = 0 /\ o.s.mcu = 0
  BY Opened
<1>4. CASE ~o.ok
  <2>1. r = Failed(o.s)
    BY <1>2, <1>4
  <2> QED
    BY <2>1, <1>3, CacheConstants DEF Failed
<1>5. CASE o.ok
  <2>1. PICK k \in SeekOutcomes(o.s, 2 * p) :
          r \in (IF ~k.ok THEN {Failed(k.s)} ELSE ReceiveOutcomes(k.s, 2))
    BY <1>2, <1>5, Zenon
  <2>2. /\ k.s \in Streams /\ k.ok \in BOOLEAN
        /\ k.ok => IF o.s.at = 2 * p THEN k.s = o.s ELSE k.s.mcu = 2 * p
    BY <1>1, <1>3, <2>1, Sought
  <2>3. CASE ~k.ok
    <3>1. r = Failed(k.s)
      BY <2>1, <2>3
    <3> QED
      BY <3>1, <2>2, CacheConstants DEF Failed
  <2>4. CASE k.ok
    <3>1. r \in ReceiveOutcomes(k.s, 2)
      BY <2>1, <2>4
    <3>2. /\ r.s \in Streams /\ r.got \in Nat /\ r.ok \in BOOLEAN /\ r.from \in Nat
          /\ r.got + r.from <= RomSize
          /\ r.ok => r.got = 2 /\ r.from = k.s.mcu
      BY <3>1, <2>2, Received
    <3>3. ~(s.open /\ s.at = 2 * p /\ s.mcu # s.at) => k.s.mcu = 2 * p
      BY <2>2, <2>4, <1>3, <1>5
    <3> QED
      BY <3>2, <3>3
  <2> QED
    BY <2>2, <2>3, <2>4
<1> QED
  BY <1>3, <1>4, <1>5

-----------------------------------------------------------------------------
(* The steps of the cache                                                   *)

\* A load that is not doubtful afterwards has put its page into the slot.
LEMMA Loaded ==
  ASSUME CacheTypeOK, NEW s \in CacheSlot, NEW p \in Pages, Load(s, p)
  PROVE  /\ stream' \in Streams /\ lost' \in 0 .. MaxLost /\ doubtful' \subseteq Pages
         /\ loaded' \in [CacheSlot -> Pages \cup {Padding, Torn, Scratch}]
         /\ \A t \in CacheSlot \ {s} : loaded'[t] = loaded[t]
         /\ p \notin doubtful' => loaded'[s] = Content(p)
         /\ doubtful' \cup {p} = doubtful \cup {p}
<1>1. p \in Nat /\ loaded \in [CacheSlot -> Pages \cup {Padding, Torn, Scratch}]
  BY DEF CacheTypeOK, Pages
<1>2. CASE p >= FilePages
  <2>1. /\ loaded' = [loaded EXCEPT ![s] = Padding]
        /\ doubtful' = doubtful \ {p} /\ UNCHANGED <<stream, lost>>
    BY <1>2 DEF Load
  <2>2. Content(p) = Padding
    BY <1>1, <1>2, CacheConstants DEF Content
  <2> QED
    BY <1>1, <2>1, <2>2 DEF CacheTypeOK
<1>3. CASE ~(p >= FilePages)
  <2>1. p < FilePages
    BY <1>1, <1>3, CacheConstants
  <2>2. PICK r \in ReadOutcomes(stream, 2 * p, 2) :
          /\ lost' = IF r.ok THEN lost ELSE lost + 1
          /\ lost' <= MaxLost
          /\ stream' = r.s
          /\ doubtful' = IF r.ok /\ ~Astray(p) THEN doubtful \ {p} ELSE doubtful \cup {p}
          /\ loaded' = [loaded EXCEPT ![s] =
                          IF r.got = 0 THEN Padding
                          ELSE IF r.got = 1 \/ r.from % 2 = 1 THEN Torn
                          ELSE r.from \div 2]
    BY <1>3 DEF Load
  <2>3. /\ r.s \in Streams /\ r.got \in Nat /\ r.ok \in BOOLEAN /\ r.from \in Nat
        /\ r.got + r.from <= RomSize
        /\ r.ok /\ ~Astray(p) => r.got = 2 /\ r.from = 2 * p
    BY <1>1, <2>1, Read DEF CacheTypeOK, Astray
  <2> DEFINE v == IF r.got = 0 THEN Padding
                  ELSE IF r.got = 1 \/ r.from % 2 = 1 THEN Torn ELSE r.from \div 2
  <2>4. v \in Pages \cup {Padding, Torn, Scratch}
    <3>1. CASE r.got = 0 \/ r.got = 1 \/ r.from % 2 = 1
      BY <3>1
    <3>2. CASE ~(r.got = 0 \/ r.got = 1 \/ r.from % 2 = 1)
      <4>1. r.from = 2 * (r.from \div 2) /\ r.from \div 2 \in Nat
        BY <2>3, <3>2
      <4>2. r.from \div 2 \in Pages
        BY <4>1, <3>2, <2>3, CacheConstants DEF Pages
      <4> QED
        BY <4>2, <3>2
    <3> QED
      BY <3>1, <3>2
  <2>5. p \notin doubtful' => v = Content(p)
    <3> SUFFICES ASSUME p \notin doubtful' PROVE v = Content(p)
      OBVIOUS
    <3>1. r.got = 2 /\ r.from = 2 * p
      BY <2>2, <2>3
    <3>2. (2 * p) % 2 = 0 /\ (2 * p) \div 2 = p
      BY <1>1
    <3> QED
      BY <3>1, <3>2, <2>1 DEF Content
  <2> HIDE DEF v
  <2>6. loaded' = [loaded EXCEPT ![s] = v]
    BY <2>2 DEF v
  <2>7. lost' \in 0 .. MaxLost
    BY <2>2, CacheConstants DEF CacheTypeOK
  <2>8. doubtful' \subseteq Pages /\ doubtful' \cup {p} = doubtful \cup {p}
    BY <2>2 DEF CacheTypeOK
  <2> QED
    BY <1>1, <2>2, <2>3, <2>4, <2>5, <2>6, <2>7, <2>8
<1> QED
  BY <1>2, <1>3

LEMMA Aged ==
  ASSUME CacheTypeOK, NEW s \in CacheSlot
  PROVE  Used(s) \in [CacheSlot -> 0 .. CacheSlots]
<1>1. cache_age \in [CacheSlot -> 0 .. CacheSlots] /\ CacheSlots \in Nat
  BY CacheConstants DEF CacheTypeOK
<1>2. ASSUME NEW t \in CacheSlot
      PROVE  (IF t = s THEN CacheSlots
              ELSE IF cache_age[t] > cache_age[s] THEN cache_age[t] - 1 ELSE cache_age[t])
               \in 0 .. CacheSlots
  BY <1>1
<1> QED
  BY <1>2 DEF Used

\* What regenerate_instant_prg makes of the table.
LEMMA Regeneration ==
  ASSUME CacheTypeOK, UniqueTags
  PROVE  /\ Regenerated(instant, prgcache) \in [Pages -> CacheSlot \cup {NoSlot}]
         /\ \A p \in Pages :
              IF Cached(p) THEN Regenerated(instant, prgcache)[p] \in SlotsOf(p)
              ELSE Regenerated(instant, prgcache)[p] = instant[p]
<1> SUFFICES ASSUME NEW p \in Pages
             PROVE  /\ Regenerated(instant, prgcache)[p] \in CacheSlot \cup {NoSlot}
                    /\ IF Cached(p) THEN Regenerated(instant, prgcache)[p] \in SlotsOf(p)
                       ELSE Regenerated(instant, prgcache)[p] = instant[p]
  BY Zenon DEF Regenerated
<1>1. Regenerated(instant, prgcache)[p] =
        IF \E s \in CacheSlot : prgcache[s] = p
        THEN CHOOSE s \in CacheSlot : prgcache[s] = p ELSE instant[p]
  BY DEF Regenerated
<1>2. CASE \E s \in CacheSlot : prgcache[s] = p
  <2> DEFINE c == CHOOSE s \in CacheSlot : prgcache[s] = p
  <2>1. c \in CacheSlot /\ prgcache[c] = p
    BY <1>2
  <2>2. Regenerated(instant, prgcache)[p] = c
    BY <1>1, <1>2
  <2> QED
    BY <2>1, <2>2, <1>2 DEF Cached, SlotsOf
<1>3. CASE ~\E s \in CacheSlot : prgcache[s] = p
  BY <1>1, <1>3 DEF Cached, CacheTypeOK
<1> QED
  BY <1>2, <1>3

LEMMA CacheAtFirst == CacheInit => CacheInv
<1> SUFFICES ASSUME CacheInit PROVE CacheInv
  OBVIOUS
<1>1. CacheTypeOK
  <2>1. stream \in Streams /\ bank1 \in Pages /\ todo \in Seq(Pages)
    <3>1. <<>> \in Seq(Pages)
      OBVIOUS
    <3> QED
      BY <3>1, CacheConstants, StreamsAre DEF CacheInit
  <2>2. /\ prgcache \in [CacheSlot -> Pages \cup {NoSlot}]
        /\ instant \in [Pages -> CacheSlot \cup {NoSlot}]
        /\ window \in [0 .. 1 -> CacheSlot \cup {NoSlot}]
    BY DEF CacheInit
  <2>3. /\ cache_age \in [CacheSlot -> 0 .. CacheSlots]
        /\ loaded \in [CacheSlot -> Pages \cup {Padding, Torn, Scratch}]
    BY CacheConstants DEF CacheInit
  <2>4. lost \in 0 .. MaxLost /\ states \in 0 .. MaxStates /\ doubtful \subseteq Pages
    BY CacheConstants DEF CacheInit
  <2> QED
    BY <2>1, <2>2, <2>3, <2>4 DEF CacheTypeOK, CacheInit
<1>2. UniqueTags /\ Filling /\ TrueTags /\ InstantTrue /\ Getting /\ Behind
  BY NoSlotIsNone DEF CacheInit, UniqueTags, Filling, TrueTags, InstantTrue, Getting, Behind
<1> QED
  BY <1>1, <1>2 DEF CacheInv, CacheInit

LEMMA FindRomCache == CacheInv /\ FindRom => CacheInv'
<1> SUFFICES ASSUME CacheInv, FindRom PROVE CacheInv'
  OBVIOUS
<1> USE DEF CacheInv, FindRom
<1>1. CacheTypeOK'
  BY CacheConstants DEF CacheTypeOK
<1>2. (UniqueTags /\ Filling /\ TrueTags)'
  <2>1. loaded'[0] = 0 /\ \A s \in CacheSlot : prgcache[s] = NoSlot
    BY CacheConstants DEF CacheTypeOK, Filling
  <2>2. UniqueTags' /\ Filling'
    BY <2>1 DEF UniqueTags, Filling
  <2>3. TrueTags'
    BY <2>1, NoSlotIsNone DEF TrueTags
  <2> QED
    BY <2>2, <2>3
<1>3. (stage # "restore" /\ InstantTrue /\ Getting /\ Behind)'
  BY DEF Filling, InstantTrue, Getting, Behind
<1> QED
  BY <1>1, <1>2, <1>3

\* A slot that has no page yet gets p.
LEMMA Tags ==
  ASSUME CacheTypeOK, UniqueTags, NEW s \in CacheSlot, NEW p \in Pages, ~Cached(p),
         prgcache' = [prgcache EXCEPT ![s] = p]
  PROVE  /\ prgcache' \in [CacheSlot -> Pages \cup {NoSlot}] /\ UniqueTags'
         /\ prgcache'[s] = p /\ \A t \in CacheSlot \ {s} : prgcache'[t] = prgcache[t]
BY DEF CacheTypeOK, UniqueTags, Cached

LEMMA FillSlotCache == CacheInv /\ FillSlot => CacheInv'
<1> SUFFICES ASSUME CacheInv, FillSlot PROVE CacheInv'
  OBVIOUS
<1> USE DEF CacheInv
<1>1. stage = "fill" /\ UNCHANGED <<todo, states>> /\ states = 0
  BY DEF FillSlot, Filling
<1>2. ASSUME NEW s \in ToFill,
             IF s = 0 THEN UNCHANGED <<stream, loaded, lost, doubtful>> ELSE Load(s, s),
             prgcache' = [prgcache EXCEPT ![s] = s], cache_age' = Used(s),
             UNCHANGED <<instant, bank1, window, stage>>
      PROVE  CacheInv'
  <2>1. s \in CacheSlot /\ s \in Pages /\ s < FilePages /\ prgcache[s] = NoSlot
    BY CacheConstants DEF ToFill, CacheSlot, Pages
  <2>2. ~Cached(s)
    BY <1>1, <2>1, NoSlotIsNone DEF Filling, Cached
  <2>3. /\ prgcache' \in [CacheSlot -> Pages \cup {NoSlot}] /\ UniqueTags'
        /\ prgcache'[s] = s /\ \A t \in CacheSlot \ {s} : prgcache'[t] = prgcache[t]
    BY <1>2, <2>1, <2>2, Tags
  <2>4. /\ stream' \in Streams /\ lost' \in 0 .. MaxLost /\ doubtful' \subseteq Pages
        /\ loaded' \in [CacheSlot -> Pages \cup {Padding, Torn, Scratch}]
        /\ \A t \in CacheSlot \ {s} : loaded'[t] = loaded[t]
        /\ s \notin doubtful' => loaded'[s] = Content(s)
        /\ doubtful' \cup {s} = doubtful \cup {s}
        /\ loaded'[0] = 0
    <3>1. CASE s = 0
      BY <1>1, <1>2, <3>1, CacheConstants DEF CacheTypeOK, Filling, Content
    <3>2. CASE s # 0
      BY <1>1, <1>2, <2>1, <3>2, Loaded, CacheConstants DEF Filling
    <3> QED
      BY <3>1, <3>2
  <2>5. CacheTypeOK'
    BY <1>1, <1>2, <2>1, <2>3, <2>4, Aged DEF CacheTypeOK
  <2>6. Filling'
    BY <1>1, <1>2, <2>1, <2>3, <2>4 DEF Filling
  <2>7. TrueTags'
    BY <1>1, <1>2, <2>1, <2>2, <2>3, <2>4 DEF TrueTags, Cached
  <2>8. (stage # "restore" /\ InstantTrue /\ Getting /\ Behind)'
    BY <1>1, <1>2 DEF Filling, InstantTrue, Getting, Behind
  <2> QED
    BY <2>3, <2>5, <2>6, <2>7, <2>8
<1>3. ASSUME ToFill = {},
             instant' = Regenerated(instant, prgcache),
             bank1' = 1, window' = [w \in 0 .. 1 |-> w], stage' = "run",
             UNCHANGED <<stream, prgcache, cache_age, loaded, lost, doubtful>>
      PROVE  CacheInv'
  <2>1. /\ instant' \in [Pages -> CacheSlot \cup {NoSlot}]
        /\ \A p \in Pages : IF Cached(p) THEN instant'[p] \in SlotsOf(p)
                            ELSE instant'[p] = instant[p]
    BY <1>3, Regeneration
  <2>2. prgcache[0] = 0 /\ prgcache[1] = 1
    BY <1>1, <1>3, CacheConstants DEF ToFill, Filling
  <2>3. CacheTypeOK'
    BY <1>1, <1>3, <2>1, CacheConstants DEF CacheTypeOK
  <2>4. (UniqueTags /\ Filling /\ TrueTags)'
    BY <1>1, <1>3 DEF UniqueTags, Filling, TrueTags
  <2>5. (stage # "restore" /\ InstantTrue /\ Getting)'
    BY <1>1, <1>3, <2>1 DEF InstantTrue, Getting, Filling, SlotsOf
  <2>6. Behind'
    <3> SUFFICES ASSUME NEW w \in 0 .. 1 PROVE window'[w] \in SlotsOf(Bank(w))'
      BY DEF Behind
    <3>1. window'[w] = w /\ Bank(w)' = w
      BY <1>3 DEF Bank
    <3> QED
      BY <1>3, <2>2, <3>1, CacheConstants DEF SlotsOf
  <2> QED
    BY <2>3, <2>4, <2>5, <2>6
<1> QED
  BY <1>2, <1>3 DEF FillSlot

LEMMA MapBankCache == ASSUME NEW p \in Pages PROVE CacheInv /\ MapBank(p) => CacheInv'
<1> SUFFICES ASSUME CacheInv, MapBank(p) PROVE CacheInv'
  OBVIOUS
<1> USE DEF CacheInv
<1>1. /\ stage = "run" /\ bank1' = p
      /\ UNCHANGED <<stream, prgcache, cache_age, loaded, instant, lost, states, doubtful>>
      /\ stage' \in {"run", "update"}
  BY DEF MapBank
<1>2. /\ stage' = "run" => window' = [window EXCEPT ![1] = instant[p]] /\ instant[p] # NoSlot
                            /\ UNCHANGED todo
      /\ stage' = "update" => todo' = <<0, p>> /\ UNCHANGED window
  BY <1>1 DEF MapBank
<1>3. CacheTypeOK'
  <2>1. todo' \in Seq(Pages)
    <3>1. <<0, p>> \in Seq(Pages)
      BY CacheConstants
    <3> QED
      BY <1>1, <1>2, <3>1 DEF CacheTypeOK
  <2>2. window' \in [0 .. 1 -> CacheSlot \cup {NoSlot}]
    BY <1>1, <1>2 DEF CacheTypeOK
  <2> QED
    BY <1>1, <2>1, <2>2 DEF CacheTypeOK
<1>4. (UniqueTags /\ Filling /\ TrueTags)'
  BY <1>1 DEF UniqueTags, Filling, TrueTags
<1>5. states = 0 => (stage # "restore" /\ InstantTrue /\ Getting)'
  BY <1>1, <1>2 DEF InstantTrue, Getting
<1>6. states = 0 => Behind'
  <2> SUFFICES ASSUME states = 0, stage' = "run", NEW w \in 0 .. 1
               PROVE  window'[w] \in SlotsOf(Bank(w))'
    BY DEF Behind
  <2>1. CASE w = 0
    <3>1. window'[0] = window[0] /\ Bank(0)' = 0 /\ Bank(0) = 0
      BY <1>2 DEF CacheTypeOK, Bank
    <3> QED
      BY <1>1, <2>1, <3>1 DEF Behind, SlotsOf
  <2>2. CASE w = 1
    <3>1. window'[1] = instant[p] /\ Bank(1)' = p /\ instant[p] # NoSlot
      BY <1>1, <1>2 DEF CacheTypeOK, Bank
    <3>2. instant[p] \in CacheSlot /\ prgcache[instant[p]] = p
      BY <3>1 DEF CacheTypeOK, InstantTrue
    <3> QED
      BY <1>1, <2>2, <3>1, <3>2 DEF SlotsOf
  <2> QED
    BY <2>1, <2>2
<1> QED
  BY <1>1, <1>3, <1>4, <1>5, <1>6

\* A victim is not a slot with a mapped page.
LEMMA VictimIdle ==
  ASSUME CacheTypeOK, NEW s \in Victims
  PROVE  s \in CacheSlot /\ (prgcache[s] # NoSlot => prgcache[s] \notin {0, bank1})
<1> DEFINE free == {t \in CacheSlot : prgcache[t] = NoSlot}
           others == {t \in CacheSlot : prgcache[t] \notin {0, bank1}}
<1>1. s \in (IF free # {} THEN {u \in free : \A t \in free : u <= t}
             ELSE {u \in others : \A t \in others : cache_age[u] <= cache_age[t]})
  BY DEF Victims
<1> QED
  BY <1>1

LEMMA GetBankCache == CacheInv /\ GetBank => CacheInv'
<1> SUFFICES ASSUME CacheInv, GetBank PROVE CacheInv'
  OBVIOUS
<1> USE DEF CacheInv
<1>1. /\ stage \in {"update", "restore"} /\ todo # <<>> /\ todo' = Tail(todo)
      /\ UNCHANGED <<bank1, window, stage, states>>
  BY DEF GetBank
<1>2. Head(todo) \in Pages /\ todo' \in Seq(Pages)
  BY <1>1 DEF CacheTypeOK
<1> PICK p \in Pages : p = Head(todo)
  BY <1>2
<1>3. \/ \E s \in SlotsOf(p) :
            cache_age' = Used(s) /\ UNCHANGED <<stream, loaded, lost, doubtful, prgcache, instant>>
      \/ /\ SlotsOf(p) = {}
         /\ \E s \in Victims :
              /\ Load(s, p)
              /\ prgcache' = [prgcache EXCEPT ![s] = p] /\ cache_age' = Used(s)
              /\ instant' = [Evicted(s) EXCEPT ![p] = s]
  BY DEF GetBank
\* What was to be got is got, and what was there stays.
<1>4. ASSUME states = 0, Cached(p)',
             Cached(0) => Cached(0)', Cached(bank1) => Cached(bank1)'
      PROVE  Getting'
  <2>1. stage = "update"
    BY <1>1, <1>4
  <2>2. CASE todo = <<0, bank1>>
    <3>1. p = 0 /\ todo' = <<bank1>>
      BY <1>1, <2>2
    <3> QED
      BY <3>1, <1>1, <1>4 DEF Getting, Cached
  <2>3. CASE todo = <<bank1>> /\ Cached(0)
    <3>1. p = bank1 /\ todo' = <<>>
      BY <1>1, <2>3
    <3> QED
      BY <3>1, <2>3, <1>1, <1>4 DEF Getting, Cached
  <2> QED
    BY <1>1, <1>4, <2>1, <2>2, <2>3 DEF Getting
<1>5. ASSUME NEW s \in SlotsOf(p), cache_age' = Used(s),
             UNCHANGED <<stream, loaded, lost, doubtful, prgcache, instant>>
      PROVE  CacheInv'
  <2>1. s \in CacheSlot /\ Cached(p)
    BY DEF SlotsOf, Cached
  <2>2. CacheTypeOK'
    BY <1>1, <1>2, <1>5, <2>1, Aged DEF CacheTypeOK
  <2>3. (UniqueTags /\ Filling /\ TrueTags)'
    BY <1>1, <1>5 DEF UniqueTags, Filling, TrueTags
  <2>4. states = 0 => (stage # "restore" /\ InstantTrue /\ Behind)'
    BY <1>1, <1>5 DEF InstantTrue, Behind
  <2>5. states = 0 => Getting'
    <3>1. Cached(p)' /\ (Cached(0) => Cached(0)') /\ (Cached(bank1) => Cached(bank1)')
      BY <1>1, <1>5, <2>1 DEF Cached
    <3> QED
      BY <1>4, <3>1
  <2> QED
    BY <1>1, <2>2, <2>3, <2>4, <2>5
<1>6. ASSUME SlotsOf(p) = {}, NEW s \in Victims, Load(s, p),
             prgcache' = [prgcache EXCEPT ![s] = p], cache_age' = Used(s),
             instant' = [Evicted(s) EXCEPT ![p] = s]
      PROVE  CacheInv'
  <2>1. s \in CacheSlot /\ (prgcache[s] # NoSlot => prgcache[s] \notin {0, bank1})
    BY VictimIdle
  <2>2. ~Cached(p)
    BY <1>6 DEF SlotsOf, Cached
  <2>3. /\ prgcache' \in [CacheSlot -> Pages \cup {NoSlot}] /\ UniqueTags'
        /\ prgcache'[s] = p /\ \A t \in CacheSlot \ {s} : prgcache'[t] = prgcache[t]
    BY <1>2, <1>6, <2>1, <2>2, Tags
  <2>4. /\ stream' \in Streams /\ lost' \in 0 .. MaxLost /\ doubtful' \subseteq Pages
        /\ loaded' \in [CacheSlot -> Pages \cup {Padding, Torn, Scratch}]
        /\ \A t \in CacheSlot \ {s} : loaded'[t] = loaded[t]
        /\ p \notin doubtful' => loaded'[s] = Content(p)
        /\ doubtful' \cup {p} = doubtful \cup {p}
    BY <1>2, <1>6, <2>1, Loaded
  <2>5. Evicted(s) \in [Pages -> CacheSlot \cup {NoSlot}]
    BY DEF Evicted, CacheTypeOK
  <2>6. CacheTypeOK'
    BY <1>1, <1>2, <1>6, <2>1, <2>3, <2>4, <2>5, Aged DEF CacheTypeOK
  <2>7. TrueTags'
    BY <1>1, <2>1, <2>2, <2>3, <2>4 DEF TrueTags, Cached
  <2>8. Filling'
    BY <1>1 DEF Filling
  <2>9. states = 0 => InstantTrue'
    <3> SUFFICES ASSUME states = 0, NEW q \in Pages, instant'[q] # NoSlot
                 PROVE  prgcache'[instant'[q]] = q
      BY DEF InstantTrue
    <3>1. CASE q = p
      BY <1>2, <1>6, <2>3, <2>5, <3>1
    <3>2. CASE q # p
      <4>1. instant'[q] = Evicted(s)[q]
        BY <1>2, <1>6, <2>5, <3>2
      <4>2. instant'[q] = instant[q] /\ prgcache[instant[q]] = q /\ instant[q] \in CacheSlot
        BY <4>1, <2>1 DEF Evicted, InstantTrue, CacheTypeOK
      <4>3. instant[q] # s
        BY <4>1, <4>2, <2>1, NoSlotIsNone DEF Evicted, CacheTypeOK
      <4> QED
        BY <4>2, <4>3, <2>3
    <3> QED
      BY <3>1, <3>2
  <2>10. /\ Cached(p)' /\ (Cached(0) => Cached(0)')
         /\ (Cached(bank1) => Cached(bank1)')
    BY <1>1, <1>2, <2>1, <2>3, CacheConstants, NoSlotIsNone DEF Cached, CacheTypeOK
  <2>11. states = 0 => Getting'
    BY <1>4, <2>10, Zenon
  <2>12. (states = 0 => stage # "restore" /\ Behind)'
    BY <1>1 DEF Behind
  <2> QED
    BY <1>1, <2>3, <2>6, <2>7, <2>8, <2>9, <2>11, <2>12
<1> QED
  BY <1>3, <1>5, <1>6

LEMMA FlushedTypes ==
  ASSUME CacheTypeOK, NEW b \in Pages, Flushed(b)
  PROVE  /\ prgcache' \in [CacheSlot -> Pages \cup {NoSlot}]
         /\ cache_age' \in [CacheSlot -> 0 .. CacheSlots]
         /\ stage' = "update" /\ todo' \in Seq(Pages)
         /\ UniqueTags' /\ TrueTags'
<1>1. \A s \in CacheSlot : prgcache'[s] = NoSlot
  BY DEF Flushed
<1> QED
  BY <1>1, CacheConstants, NoSlotIsNone DEF Flushed, UniqueTags, TrueTags

LEMMA ShowBanksCache == CacheInv /\ ShowBanks => CacheInv'
<1> SUFFICES ASSUME CacheInv, ShowBanks PROVE CacheInv'
  OBVIOUS
<1> USE DEF CacheInv
<1>1. /\ stage \in {"update", "restore"} /\ todo = <<>>
      /\ instant' = Regenerated(instant, prgcache)
      /\ window' = [w \in 0 .. 1 |-> instant'[Bank(w)]]
      /\ UNCHANGED <<stream, loaded, bank1, lost, states, doubtful>>
  BY DEF ShowBanks
<1>2. /\ instant' \in [Pages -> CacheSlot \cup {NoSlot}]
      /\ \A p \in Pages : IF Cached(p) THEN instant'[p] \in SlotsOf(p)
                          ELSE instant'[p] = instant[p]
  BY <1>1, Regeneration
<1>3. \A w \in 0 .. 1 : Bank(w) \in Pages
  BY CacheConstants DEF Bank, CacheTypeOK
<1>4. window' \in [0 .. 1 -> CacheSlot \cup {NoSlot}]
  BY <1>1, <1>2, <1>3
<1>5. CASE stage = "update"
  <2>1. stage' = "run" /\ UNCHANGED <<prgcache, cache_age, todo>>
    BY <1>5 DEF ShowBanks
  <2>2. CacheTypeOK'
    BY <1>1, <1>2, <1>4, <2>1 DEF CacheTypeOK
  <2>3. (UniqueTags /\ Filling /\ TrueTags)'
    BY <1>1, <1>5, <2>1 DEF UniqueTags, Filling, TrueTags
  <2>4. states = 0 => (stage # "restore" /\ InstantTrue /\ Getting)'
    BY <1>1, <1>2, <2>1 DEF InstantTrue, Getting, SlotsOf
  <2>5. states = 0 => Behind'
    <3> SUFFICES ASSUME states = 0, NEW w \in 0 .. 1 PROVE window'[w] \in SlotsOf(Bank(w))'
      BY DEF Behind
    <3>1. Cached(Bank(w))
      BY <1>1, <1>5 DEF Getting, Bank
    <3>2. Bank(w)' = Bank(w) /\ window'[w] = instant'[Bank(w)]
      BY <1>1 DEF Bank
    <3> QED
      BY <1>2, <1>3, <2>1, <3>1, <3>2 DEF SlotsOf
  <2> QED
    BY <1>1, <2>2, <2>3, <2>4, <2>5
<1>6. CASE stage = "restore"
  <2>1. Flushed(bank1)
    BY <1>6 DEF ShowBanks
  <2>2. /\ prgcache' \in [CacheSlot -> Pages \cup {NoSlot}]
        /\ cache_age' \in [CacheSlot -> 0 .. CacheSlots]
        /\ stage' = "update" /\ todo' \in Seq(Pages)
        /\ UniqueTags' /\ TrueTags'
    BY <2>1, FlushedTypes DEF CacheTypeOK
  <2>3. CacheTypeOK'
    BY <1>1, <1>2, <1>4, <2>2 DEF CacheTypeOK
  <2>4. Filling' /\ states' # 0
    BY <1>1, <1>6, <2>2 DEF Filling
  <2> QED
    BY <2>2, <2>3, <2>4
<1> QED
  BY <1>1, <1>5, <1>6

\* What a saved state leaves in the slots.
LEMMA ScratchedTypes ==
  ASSUME CacheTypeOK, loaded' = Scratched
  PROVE  loaded' \in [CacheSlot -> Pages \cup {Padding, Torn, Scratch}]
BY DEF CacheTypeOK, Scratched

LEMMA SavesStateCache == CacheInv /\ SavesState => CacheInv'
<1> SUFFICES ASSUME CacheInv, SavesState PROVE CacheInv'
  OBVIOUS
<1> USE DEF CacheInv
<1>1. /\ stage = "run" /\ states < MaxStates /\ loaded' = Scratched /\ Flushed(bank1)
      /\ states' = states + 1
      /\ UNCHANGED <<stream, instant, bank1, window, lost, doubtful>>
  BY DEF SavesState
<1>2. /\ prgcache' \in [CacheSlot -> Pages \cup {NoSlot}]
      /\ cache_age' \in [CacheSlot -> 0 .. CacheSlots]
      /\ stage' = "update" /\ todo' \in Seq(Pages)
      /\ UniqueTags' /\ TrueTags'
  BY <1>1, FlushedTypes DEF CacheTypeOK
<1>3. states' \in 0 .. MaxStates /\ states' # 0
  BY <1>1, CacheConstants DEF CacheTypeOK
<1>4. CacheTypeOK'
  BY <1>1, <1>2, <1>3, ScratchedTypes DEF CacheTypeOK
<1> QED
  BY <1>2, <1>3, <1>4 DEF Filling

LEMMA LoadsStateCache == ASSUME NEW p \in Pages PROVE CacheInv /\ LoadsState(p) => CacheInv'
<1> SUFFICES ASSUME CacheInv, LoadsState(p) PROVE CacheInv'
  OBVIOUS
<1> USE DEF CacheInv
<1>1. /\ stage = "run" /\ states < MaxStates /\ loaded' = Scratched /\ bank1' = p
      /\ states' = states + 1 /\ UNCHANGED <<stream, instant, lost, doubtful>>
  BY DEF LoadsState
<1>2. states' \in 0 .. MaxStates /\ states' # 0
  BY <1>1, CacheConstants DEF CacheTypeOK
<1>3. loaded' \in [CacheSlot -> Pages \cup {Padding, Torn, Scratch}]
  BY <1>1, ScratchedTypes
<1>4. CASE instant[p] # NoSlot
  <2>1. window' = [window EXCEPT ![1] = instant[p]] /\ Flushed(p)
    BY <1>4 DEF LoadsState
  <2>2. /\ prgcache' \in [CacheSlot -> Pages \cup {NoSlot}]
        /\ cache_age' \in [CacheSlot -> 0 .. CacheSlots]
        /\ stage' = "update" /\ todo' \in Seq(Pages)
        /\ UniqueTags' /\ TrueTags'
    BY <2>1, FlushedTypes
  <2>3. window' \in [0 .. 1 -> CacheSlot \cup {NoSlot}]
    BY <2>1 DEF CacheTypeOK
  <2>4. CacheTypeOK'
    BY <1>1, <1>2, <1>3, <2>2, <2>3 DEF CacheTypeOK
  <2> QED
    BY <1>2, <2>2, <2>4 DEF Filling
<1>5. CASE instant[p] = NoSlot
  <2>1. stage' = "restore" /\ todo' = <<0, p>> /\ UNCHANGED <<window, prgcache, cache_age>>
    BY <1>5 DEF LoadsState
  <2>2. todo' \in Seq(Pages)
    BY <2>1, CacheConstants
  <2>3. CacheTypeOK'
    BY <1>1, <1>2, <1>3, <2>1, <2>2 DEF CacheTypeOK
  <2>4. UniqueTags' /\ Filling' /\ TrueTags'
    BY <2>1 DEF UniqueTags, Filling, TrueTags
  <2> QED
    BY <1>2, <2>3, <2>4
<1> QED
  BY <1>4, <1>5

LEMMA CacheStep == CacheInv /\ [CacheNext]_cacheVars => CacheInv'
<1> SUFFICES ASSUME CacheInv, [CacheNext]_cacheVars PROVE CacheInv'
  OBVIOUS
<1>1. CASE UNCHANGED cacheVars
  BY <1>1 DEF CacheInv, CacheTypeOK, UniqueTags, Filling, TrueTags, InstantTrue, Getting, Behind,
              Cached, SlotsOf, Bank, cacheVars
<1>2. CASE CacheNext
  BY <1>2, FindRomCache, FillSlotCache, MapBankCache, GetBankCache, ShowBanksCache,
     SavesStateCache, LoadsStateCache DEF CacheNext
<1> QED
  BY <1>1, <1>2

LEMMA CacheInvariant == CacheSpec => []CacheInv
BY CacheAtFirst, CacheStep, PTL DEF CacheSpec

\* cache.c:244-313, cart.s:616-627, sram.c: for ROMs and caches of any size, however reads fail and
\* whenever states are saved and loaded, a window shows the selected bank, as far as
\* BanksShown promises it.
THEOREM SelectedBanksShow == CacheSpec => []BanksShown
<1>1. CacheInv => BanksShown
  <2> SUFFICES ASSUME CacheInv, stage = "run", NEW w \in 0 .. 1,
                      states = 0 \/ (window[w] # NoSlot /\ prgcache[window[w]] = Bank(w))
               PROVE  ShowsBank(w)
    BY DEF BanksShown
  <2>1. window[w] \in CacheSlot /\ prgcache[window[w]] = Bank(w)
    BY DEF CacheInv, CacheTypeOK, Behind, SlotsOf
  <2>2. Bank(w) \in Pages
    BY CacheConstants DEF Bank, CacheInv, CacheTypeOK
  <2> QED
    BY <2>1, <2>2, NoSlotIsNone DEF CacheInv, TrueTags, ShowsBank
<1> QED
  BY <1>1, CacheInvariant, PTL

-----------------------------------------------------------------------------
(* Goomba Color's battery RAM and saved states                              *)

TaskOf == Moment \cup {[game |-> g] : g \in Games}

GoombaShape ==
  /\ game \in Games /\ state \in 0 .. GameStates /\ ram \in BatteryRam
  /\ dirty \subseteq RamPage /\ battery \in [Games -> BatteryRam]
  /\ moments \subseteq Moment /\ trouble \in 0 .. MaxTrouble
  /\ task \in [kind : {"none", "save", "load"}, done : 0 .. 3, of : TaskOf, ok : BOOLEAN]
  /\ slot \in Seq(Part) /\ Len(slot) <= 3

PartOf(k, moment) == [kind |-> Layout[k], of |-> moment]
Torn1 == [kind |-> "torn"]

\* The parts on the card are all of one moment, and each in its place.
OneMoment ==
  slot # <<>> => \E now \in moments : \A k \in 1 .. Len(slot) : slot[k] \in {Torn1, PartOf(k, now)}

\* A save that has not failed has written the parts before the next.
Saving ==
  task.kind = "save" /\ task.ok =>
    /\ task.of \in moments /\ Len(slot) = task.done
    /\ \A k \in 1 .. Len(slot) : slot[k] = PartOf(k, task.of)

\* A load that has not failed has seen that the file is whole and a state of this game, and in
\* the end has read the battery RAM.
Loading ==
  task.kind = "load" /\ task.ok /\ task.done # 0 =>
    GoodHeader /\ WholeFile /\ (task.done = 3 => ram = slot[3].of.ram)

GoombaInv == GoombaShape /\ NothingForgotten /\ OneMoment /\ Saving /\ Loading

LEMMA GoombaConstants ==
  /\ RamPages \in Nat \ {0} /\ MaxTrouble \in Nat /\ GameStates \in Nat
  /\ Layout[1] = "header" /\ Layout[2] = "state" /\ Layout[3] = "ram"
BY GoombaSaveAssumption DEF GoombaSaveAssumption, Layout

LEMMA TroubleCounted ==
  GoombaShape /\ (Fine \/ Trouble) => trouble' \in 0 .. MaxTrouble
BY GoombaConstants DEF GoombaShape, Fine, Trouble

LEMMA NoTaskTyped == GoombaShape => NoTask \in [kind : {"none", "save", "load"}, done : 0 .. 3,
                                                 of : TaskOf, ok : BOOLEAN]
BY DEF GoombaShape, NoTask, TaskOf

\* Part of a moment's battery RAM is a battery RAM.
LEMMA HalfTyped ==
  ASSUME NEW a \in BatteryRam, NEW b \in BatteryRam, NEW n \in Nat
  PROVE  /\ [p \in RamPage |-> IF p < n THEN a[p] ELSE b[p]] \in BatteryRam
         /\ [p \in RamPage |-> IF p < n THEN a[p] ELSE Fresh] \in BatteryRam
BY DEF BatteryRam

LEMMA GoombaAtFirst == GoombaInit => GoombaInv
<1> SUFFICES ASSUME GoombaInit PROVE GoombaInv
  OBVIOUS
<1>1. ram \in BatteryRam /\ battery \in [Games -> BatteryRam]
  BY DEF GoombaInit, NeverWritten, BatteryRam
<1>2. /\ task = NoTask /\ game \in Games /\ slot = <<>> /\ moments = {} /\ dirty = {}
      /\ state = 0 /\ trouble = 0
  BY DEF GoombaInit
<1>3. task \in [kind : {"none", "save", "load"}, done : 0 .. 3, of : TaskOf, ok : BOOLEAN]
  BY <1>2 DEF NoTask, TaskOf
<1>4. slot \in Seq(Part) /\ Len(slot) <= 3
  BY <1>2
<1>5. GoombaShape
  BY <1>1, <1>2, <1>3, <1>4, GoombaConstants DEF GoombaShape
<1>6. NothingForgotten
  BY DEF GoombaInit, NothingForgotten
<1>7. OneMoment /\ Saving /\ Loading
  BY <1>2 DEF OneMoment, Saving, Loading, NoTask
<1> QED
  BY <1>5, <1>6, <1>7 DEF GoombaInv

\* While the game plays, its card and its RAM are the only things that change.
LEMMA PlayingKeeps ==
  ASSUME GoombaInv, Playing, UNCHANGED <<game, slot, task, moments>>
  PROVE  OneMoment' /\ Saving' /\ Loading'
BY DEF GoombaInv, Playing, OneMoment, Saving, Loading

LEMMA RestartGoomba == ASSUME NEW g \in Games PROVE GoombaInv /\ Restart(g) => GoombaInv'
<1> SUFFICES ASSUME GoombaInv, Restart(g) PROVE GoombaInv'
  OBVIOUS
<1> USE DEF GoombaInv
<1>1. /\ game' = g /\ state' = 0 /\ dirty' = {}
      /\ task' = [NoTask EXCEPT !.of = [game |-> g]]
      /\ UNCHANGED <<battery, slot, moments>>
  BY DEF Restart, Starts
<1>2. \/ ram' = battery[g] /\ Fine
      \/ /\ Trouble /\ ready' = FALSE
         /\ \E n \in 0 .. RamPages :
              ram' = [p \in RamPage |-> IF p < n THEN battery[g][p] ELSE Fresh]
  BY DEF Restart, Starts
<1>3. battery[g] \in BatteryRam
  BY DEF GoombaShape
<1>4. ram' \in BatteryRam
  <2>1. \A n \in 0 .. RamPages :
          [p \in RamPage |-> IF p < n THEN battery[g][p] ELSE Fresh] \in BatteryRam
    BY <1>3 DEF BatteryRam
  <2> QED
    BY <1>2, <1>3, <2>1, Zenon
<1>5. /\ task' \in [kind : {"none", "save", "load"}, done : 0 .. 3, of : TaskOf, ok : BOOLEAN]
      /\ task'.kind = "none"
  <2>1. [game |-> g] \in TaskOf
    BY DEF TaskOf
  <2>2. /\ NoTask \in [kind : {"none", "save", "load"}, done : 0 .. 3, of : TaskOf, ok : BOOLEAN]
        /\ NoTask.kind = "none"
    BY NoTaskTyped DEF NoTask
  <2> HIDE DEF NoTask
  <2> QED
    BY <1>1, <2>1, <2>2
<1>6. trouble' \in 0 .. MaxTrouble
  BY <1>2, TroubleCounted
<1>7. GoombaShape'
  BY <1>1, <1>4, <1>5, <1>6, GoombaConstants DEF GoombaShape
<1>8. NothingForgotten'
  BY <1>1, <1>2 DEF NothingForgotten
<1>9. OneMoment' /\ Saving' /\ Loading'
  BY <1>1, <1>5 DEF OneMoment, Saving, Loading
<1> QED
  BY <1>7, <1>8, <1>9

LEMMA PlayGoomba == GoombaInv /\ (Play \/ Waits) => GoombaInv'
<1> SUFFICES ASSUME GoombaInv, Play \/ Waits PROVE GoombaInv'
  OBVIOUS
<1> USE DEF GoombaInv
<1>1. /\ Playing /\ state' \in 0 .. GameStates
      /\ UNCHANGED <<game, ram, dirty, ready, battery, slot, task, moments, replaced, trouble>>
  BY GoombaConstants DEF Play, Waits, GoombaShape
<1>2. GoombaShape' /\ NothingForgotten'
  BY <1>1 DEF GoombaShape, NothingForgotten
<1> QED
  BY <1>1, <1>2, PlayingKeeps

LEMMA WriteRamGoomba ==
  ASSUME NEW p \in RamPage, NEW v \in RamValues PROVE GoombaInv /\ WriteRam(p, v) => GoombaInv'
<1> SUFFICES ASSUME GoombaInv, WriteRam(p, v) PROVE GoombaInv'
  OBVIOUS
<1> USE DEF GoombaInv
<1>1. /\ Playing /\ ram' = [ram EXCEPT ![p] = v] /\ dirty' = dirty \cup {p}
      /\ UNCHANGED <<game, state, ready, battery, slot, task, moments, replaced, trouble>>
  BY DEF WriteRam
<1>2. GoombaShape'
  BY <1>1 DEF GoombaShape, BatteryRam
<1>3. NothingForgotten'
  BY <1>1 DEF NothingForgotten, GoombaShape, BatteryRam
<1> QED
  BY <1>1, <1>2, <1>3, PlayingKeeps

LEMMA WritesBackGoomba == GoombaInv /\ WritesBack => GoombaInv'
<1> SUFFICES ASSUME GoombaInv, WritesBack PROVE GoombaInv'
  OBVIOUS
<1> USE DEF GoombaInv
<1>1. /\ Playing /\ UNCHANGED <<game, state, ram, ready, slot, task, moments, replaced>>
  BY DEF WritesBack
<1>2. PICK d \in dirty :
        \/ battery' = [battery EXCEPT ![game][d] = ram[d]] /\ Fine /\ dirty' = dirty \ {d}
        \/ /\ Trouble /\ dirty' = dirty
           /\ \E v \in {battery[game][d], Broken, ram[d]} :
                battery' = [battery EXCEPT ![game][d] = v]
  BY DEF WritesBack, MarkAfter
<1>3. trouble' \in 0 .. MaxTrouble
  BY <1>2, TroubleCounted
<1>4. PICK v : /\ battery' = [battery EXCEPT ![game][d] = v]
               /\ v \in {battery[game][d], Broken, ram[d]}
               /\ \/ v = ram[d] /\ dirty' = dirty \ {d}
                  \/ dirty' = dirty
  BY <1>2
<1>5. battery[game] \in BatteryRam /\ ram \in BatteryRam
  BY DEF GoombaShape
<1>6. [battery[game] EXCEPT ![d] = v] \in BatteryRam
  BY <1>4, <1>5 DEF BatteryRam
<1>7. battery' = [battery EXCEPT ![game] = [battery[game] EXCEPT ![d] = v]]
  BY <1>4
<1>8. battery' \in [Games -> BatteryRam] /\ battery'[game] = [battery[game] EXCEPT ![d] = v]
  BY <1>6, <1>7 DEF GoombaShape
<1>9. GoombaShape'
  BY <1>1, <1>3, <1>4, <1>8 DEF GoombaShape
<1>10. NothingForgotten'
  <2> SUFFICES ASSUME ready /\ ~replaced, NEW p \in RamPage \ dirty'
               PROVE  battery'[game][p] = ram[p]
    BY <1>1 DEF NothingForgotten
  <2>1. CASE p = d
    BY <1>4, <1>5, <1>8, <2>1 DEF BatteryRam
  <2>2. CASE p # d
    BY <1>4, <1>5, <1>8, <2>2 DEF NothingForgotten, BatteryRam
  <2> QED
    BY <2>1, <2>2
<1> QED
  BY <1>1, <1>9, <1>10, PlayingKeeps

LEMMA NoParts == <<>> \in Seq(Part) /\ Len(<<>>) = 0
OBVIOUS

LEMMA FileOrNone ==
  ASSUME GoombaShape, slot' \in {slot, <<>>}
  PROVE  slot' \in Seq(Part) /\ Len(slot') <= 3
<1>1. CASE slot' = slot
  BY <1>1 DEF GoombaShape
<1>2. CASE slot' = <<>>
  <2>1. slot' \in Seq(Part) /\ Len(slot') = 0
    BY <1>2, NoParts, Zenon
  <2> QED
    BY <2>1
<1> QED
  BY <1>1, <1>2

LEMMA WholeIsThere == WholeFile => slot # <<>>
<1>1. slot = <<>> => Len(slot) = 0
  BY NoParts, Zenon
<1> QED
  BY <1>1 DEF WholeFile

LEMMA SaveBeginsGoomba == GoombaInv /\ SaveBegins => GoombaInv'
<1> SUFFICES ASSUME GoombaInv, SaveBegins PROVE GoombaInv'
  OBVIOUS
<1> USE DEF GoombaInv
<1>1. /\ Playing /\ moments' = moments \cup {Now}
      /\ UNCHANGED <<game, state, ram, dirty, ready, battery, replaced>>
      /\ \/ slot' = <<>> /\ Fine /\ task' = [kind |-> "save", done |-> 0, of |-> Now, ok |-> TRUE]
         \/ Trouble /\ slot' \in {slot, <<>>} /\ UNCHANGED task
  BY DEF SaveBegins, Truncated
<1>2. Now \in Moment
  BY DEF GoombaShape, Now, Moment
<1>3. trouble' \in 0 .. MaxTrouble
  BY <1>1, TroubleCounted
<1>4. slot' \in Seq(Part) /\ Len(slot') <= 3
  BY <1>1, FileOrNone
<1>5. task' \in [kind : {"none", "save", "load"}, done : 0 .. 3, of : TaskOf, ok : BOOLEAN]
  <2>1. Now \in TaskOf
    BY <1>2 DEF TaskOf
  <2>2. CASE task' = [kind |-> "save", done |-> 0, of |-> Now, ok |-> TRUE]
    <3> HIDE DEF TaskOf
    <3> QED
      BY <2>1, <2>2
  <2>3. CASE UNCHANGED task
    BY <2>3 DEF GoombaShape
  <2> QED
    BY <1>1, <2>2, <2>3
<1>6. GoombaShape' /\ NothingForgotten'
  BY <1>1, <1>2, <1>3, <1>4, <1>5 DEF GoombaShape, NothingForgotten
<1>7. OneMoment'
  <2> SUFFICES ASSUME slot' # <<>>
               PROVE  \E now \in moments' :
                        \A k \in 1 .. Len(slot') : slot'[k] \in {Torn1, PartOf(k, now)}
    BY DEF OneMoment
  <2>1. slot' = slot
    BY <1>1
  <2> QED
    BY <1>1, <2>1 DEF OneMoment
<1>8. Saving' /\ Loading'
  <2>1. CASE slot' = <<>> /\ task' = [kind |-> "save", done |-> 0, of |-> Now, ok |-> TRUE]
    BY <1>1, <2>1 DEF Saving, Loading
  <2>2. CASE UNCHANGED task
    BY <1>1, <2>2 DEF Playing, Saving, Loading
  <2> QED
    BY <1>1, <2>1, <2>2
<1> QED
  BY <1>6, <1>7, <1>8

\* The file with a part behind those that were written.
LEMMA WithPart ==
  ASSUME GoombaShape, task.done < 3, Len(slot) = task.done, NEW part \in Part
  PROVE  /\ With(part) \in Seq(Part) /\ Len(With(part)) = Len(slot) + 1
         /\ With(part)[Len(slot) + 1] = part
         /\ \A k \in 1 .. Len(slot) : With(part)[k] = slot[k]
<1>1. slot \in Seq(Part) /\ Len(slot) \in Nat
  BY DEF GoombaShape
<1>2. With(part) = [k \in 1 .. Len(slot) + 1 |-> IF k = Len(slot) + 1 THEN part ELSE slot[k]]
  BY <1>1 DEF With
<1>3. \A k \in 1 .. Len(slot) + 1 : (IF k = Len(slot) + 1 THEN part ELSE slot[k]) \in Part
  BY <1>1
<1>4. With(part) \in [1 .. Len(slot) + 1 -> Part]
  BY <1>2, <1>3
<1>5. With(part) \in Seq(Part) /\ Len(With(part)) = Len(slot) + 1
  BY <1>1, <1>4
<1> QED
  BY <1>1, <1>2, <1>5

LEMMA SavePartGoomba == GoombaInv /\ SavePart => GoombaInv'
<1> SUFFICES ASSUME GoombaInv, SavePart PROVE GoombaInv'
  OBVIOUS
<1> USE DEF GoombaInv
<1>1. /\ task.kind = "save" /\ task.ok /\ task.done < 3
      /\ UNCHANGED <<game, state, ram, dirty, ready, battery, moments, replaced>>
      /\ \/ Fine /\ slot' = With(ThisPart) /\ task' = [task EXCEPT !.done = @ + 1]
         \/ /\ Trouble /\ slot' \in {slot, With(Torn1), With(ThisPart)}
            /\ task' = [task EXCEPT !.ok = FALSE]
  BY DEF SavePart, Torn1
<1>2. /\ task.of \in moments /\ Len(slot) = task.done
      /\ \A k \in 1 .. Len(slot) : slot[k] = PartOf(k, task.of)
      /\ task.done \in 0 .. 2 /\ task.of \in Moment
  BY <1>1 DEF Saving, GoombaShape
<1>3. ThisPart = PartOf(Len(slot) + 1, task.of)
  BY <1>2 DEF ThisPart, PartOf
<1>4. ThisPart \in Part /\ Torn1 \in Part
  <2>1. Layout[task.done + 1] \in {"header", "state", "ram"}
    BY <1>2, GoombaConstants
  <2> QED
    BY <1>2, <2>1 DEF ThisPart, Part, Torn1
<1>5. /\ With(ThisPart) \in Seq(Part) /\ Len(With(ThisPart)) = Len(slot) + 1
      /\ With(ThisPart)[Len(slot) + 1] = ThisPart
      /\ \A k \in 1 .. Len(slot) : With(ThisPart)[k] = slot[k]
  BY <1>1, <1>2, <1>4, WithPart
<1>6. /\ With(Torn1) \in Seq(Part) /\ Len(With(Torn1)) = Len(slot) + 1
      /\ With(Torn1)[Len(slot) + 1] = Torn1
      /\ \A k \in 1 .. Len(slot) : With(Torn1)[k] = slot[k]
  BY <1>1, <1>2, <1>4, WithPart
<1>7. slot' \in Seq(Part) /\ Len(slot') <= 3
  BY <1>1, <1>2, <1>5, <1>6 DEF GoombaShape
<1>8. /\ task' \in [kind : {"none", "save", "load"}, done : 0 .. 3, of : TaskOf, ok : BOOLEAN]
      /\ task'.kind = "save" /\ task'.of = task.of
      /\ task'.ok => task'.done = task.done + 1 /\ slot' = With(ThisPart)
  <2>1. CASE slot' = With(ThisPart) /\ task' = [task EXCEPT !.done = @ + 1]
    BY <1>1, <1>2, <2>1 DEF GoombaShape
  <2>2. CASE task' = [task EXCEPT !.ok = FALSE]
    BY <1>1, <1>2, <2>2 DEF GoombaShape
  <2> QED
    BY <1>1, <2>1, <2>2
<1>9. trouble' \in 0 .. MaxTrouble
  BY <1>1, TroubleCounted
<1>10. GoombaShape' /\ NothingForgotten'
  BY <1>1, <1>7, <1>8, <1>9 DEF GoombaShape, NothingForgotten
<1>11. \A k \in 1 .. Len(slot') : slot'[k] \in {Torn1, PartOf(k, task.of)}
  <2>1. CASE slot' = slot
    BY <1>2, <2>1
  <2>2. CASE slot' = With(ThisPart)
    <3>1. Len(slot') = Len(slot) + 1 /\ slot'[Len(slot) + 1] = PartOf(Len(slot) + 1, task.of)
      BY <1>3, <1>5, <2>2
    <3>2. \A k \in 1 .. Len(slot) : slot'[k] = PartOf(k, task.of)
      BY <1>2, <1>5, <2>2
    <3>3. \A k \in 1 .. Len(slot') : k \in 1 .. Len(slot) \/ k = Len(slot) + 1
      BY <1>2, <3>1
    <3> QED BY <3>1, <3>2, <3>3
  <2>3. CASE slot' = With(Torn1)
    BY <1>2, <1>6, <2>3
  <2> QED
    BY <1>1, <2>1, <2>2, <2>3
<1>12. OneMoment'
  BY <1>1, <1>2, <1>11 DEF OneMoment
<1>13. Saving' /\ Loading'
  BY <1>1, <1>2, <1>3, <1>5, <1>8 DEF Saving, Loading
<1> QED
  BY <1>10, <1>12, <1>13

LEMMA EndsGoomba == GoombaInv /\ (SaveEnds \/ LoadBegins \/ Removes) => GoombaInv'
<1> SUFFICES ASSUME GoombaInv, SaveEnds \/ LoadBegins \/ Removes PROVE GoombaInv'
  OBVIOUS
<1> USE DEF GoombaInv
<1>1. /\ UNCHANGED <<game, state, ram, dirty, ready, battery, moments, replaced>>
      /\ slot' \in {slot, <<>>} /\ trouble' \in 0 .. MaxTrouble
  BY TroubleCounted DEF SaveEnds, LoadBegins, Removes, Fine
<1>2. /\ task' \in [kind : {"none", "save", "load"}, done : 0 .. 3, of : TaskOf, ok : BOOLEAN]
      /\ task'.kind = "none" \/ (task'.kind = "load" /\ task'.done = 0)
  <2>1. CASE SaveEnds
    BY <2>1, NoTaskTyped DEF SaveEnds, NoTask
  <2>2. CASE LoadBegins
    <3>1. [game |-> game] \in TaskOf
      BY DEF GoombaShape, TaskOf
    <3> QED
      BY <2>2, <3>1 DEF LoadBegins
  <2>3. CASE Removes
    BY <2>3 DEF Removes, Playing, GoombaShape
  <2> QED
    BY <2>1, <2>2, <2>3
<1>3. slot' \in Seq(Part) /\ Len(slot') <= 3
  BY <1>1, FileOrNone
<1>4. GoombaShape' /\ NothingForgotten'
  BY <1>1, <1>2, <1>3 DEF GoombaShape, NothingForgotten
<1>5. OneMoment' /\ Saving' /\ Loading'
  BY <1>1, <1>2 DEF OneMoment, Saving, Loading
<1> QED
  BY <1>4, <1>5

\* A file that a load has found good is a whole one, of one moment of this game.
LEMMA GoodFile ==
  ASSUME GoombaShape, OneMoment, slot # <<>>, GoodHeader, WholeFile
  PROVE  \E now \in moments :
           /\ now \in Moment /\ now.game = game /\ Len(slot) = 3
           /\ \A k \in 1 .. 3 : slot[k].of = now
<1>1. PICK now \in moments : \A k \in 1 .. Len(slot) : slot[k] \in {Torn1, PartOf(k, now)}
  BY DEF OneMoment
<1>2. Len(slot) = 3 /\ slot[1].kind = "header" /\ slot[2].kind = "state" /\ slot[3].kind = "ram"
  BY GoombaConstants DEF GoodHeader, WholeFile
<1>3. \A k \in 1 .. 3 : slot[k] \in {Torn1, PartOf(k, now)}
  BY <1>1, <1>2
<1>4. Torn1.kind = "torn"
  BY DEF Torn1
<1>5. \A k \in 1 .. 3 : slot[k] # Torn1
  BY <1>2, <1>4
<1>6. \A k \in 1 .. 3 : slot[k].of = now
  BY <1>3, <1>5 DEF PartOf
<1>7. now \in Moment /\ now.game = game
  BY <1>6 DEF GoombaShape, GoodHeader
<1> QED
  BY <1>2, <1>6, <1>7

LEMMA LoadPartGoomba == GoombaInv /\ LoadPart => GoombaInv'
<1> SUFFICES ASSUME GoombaInv, LoadPart PROVE GoombaInv'
  OBVIOUS
<1> USE DEF GoombaInv
<1> DEFINE k == task.done + 1
           good == k = 1 => GoodHeader /\ WholeFile
<1>1. /\ task.kind = "load" /\ task.ok /\ k <= 3
      /\ \/ /\ good /\ Fine
            /\ task' = [task EXCEPT !.done = k, !.of = slot[k].of]
            /\ IF k = 3 THEN ram' = slot[3].of.ram /\ replaced' = TRUE
               ELSE UNCHANGED <<ram, replaced>>
         \/ /\ IF good THEN Trouble ELSE Fine
            /\ task' = [task EXCEPT !.ok = FALSE]
            /\ IF k = 3 THEN ram' \in Half(slot[3].of.ram) /\ replaced' = TRUE
               ELSE UNCHANGED <<ram, replaced>>
      /\ UNCHANGED <<game, state, dirty, ready, battery, slot, moments>>
  BY DEF LoadPart
<1>2. task.done \in 0 .. 2 /\ k \in 1 .. 3
  BY <1>1 DEF GoombaShape
<1>3. good => GoodHeader /\ WholeFile
  BY <1>1, <1>2 DEF Loading
<1>4. ASSUME good
      PROVE  /\ slot[k].of \in Moment /\ slot[3].of.ram \in BatteryRam
  <2>1. slot # <<>>
    BY <1>3, <1>4, WholeIsThere
  <2>2. PICK now \in moments : /\ now \in Moment /\ now.game = game /\ Len(slot) = 3
                               /\ \A j \in 1 .. 3 : slot[j].of = now
    BY <1>3, <1>4, <2>1, GoodFile
  <2>3. now.ram \in BatteryRam
    BY <2>2 DEF Moment
  <2> QED
    BY <1>2, <2>2, <2>3
<1>5. k = 3 => good
  OBVIOUS
<1>6. trouble' \in 0 .. MaxTrouble
  BY <1>1, TroubleCounted
<1>7. ram' \in BatteryRam
  <2>1. CASE k = 3
    <3>1. \A n \in RamPage :
            [p \in RamPage |-> IF p < n THEN slot[3].of.ram[p] ELSE ram[p]] \in BatteryRam
      BY <1>4, <1>5, <2>1 DEF BatteryRam, GoombaShape
    <3>2. ram' = slot[3].of.ram \/ ram' \in Half(slot[3].of.ram)
      BY <1>1, <2>1
    <3> QED
      BY <1>4, <1>5, <2>1, <3>1, <3>2 DEF Half
  <2>2. CASE k # 3
    BY <1>1, <2>2 DEF GoombaShape
  <2> QED
    BY <2>1, <2>2
<1>8. NothingForgotten'
  BY <1>1 DEF NothingForgotten
<1>9. CASE /\ good /\ task' = [task EXCEPT !.done = k, !.of = slot[k].of]
           /\ k = 3 => ram' = slot[3].of.ram
  <2>1. /\ task' \in [kind : {"none", "save", "load"}, done : 0 .. 3, of : TaskOf, ok : BOOLEAN]
        /\ task'.kind = "load" /\ task'.done = k
    <3>1. slot[k].of \in TaskOf
      BY <1>4, <1>9 DEF TaskOf
    <3> DEFINE o == slot[k].of
    <3> HIDE DEF k, good, o
    <3>2. task' = [task EXCEPT !.done = k, !.of = o] /\ o \in TaskOf
      BY <1>9, <3>1 DEF o
    <3>3. task \in [kind : {"none", "save", "load"}, done : 0 .. 3, of : TaskOf, ok : BOOLEAN]
      BY DEF GoombaShape
    <3>4. k \in 0 .. 3
      BY <1>2
    <3>5. [task EXCEPT !.done = k, !.of = o]
            \in [kind : {"none", "save", "load"}, done : 0 .. 3, of : TaskOf, ok : BOOLEAN]
      BY <3>2, <3>3, <3>4
    <3>6. /\ [task EXCEPT !.done = k, !.of = o].kind = task.kind
          /\ [task EXCEPT !.done = k, !.of = o].done = k
      BY <3>3
    <3> QED
      BY <1>1, <3>2, <3>5, <3>6, Zenon
  <2>2. GoombaShape'
    BY <1>1, <1>6, <1>7, <2>1 DEF GoombaShape
  <2>3. OneMoment' /\ Saving'
    BY <1>1, <2>1 DEF OneMoment, Saving
  <2>4. Loading'
    BY <1>1, <1>3, <1>9, <2>1 DEF Loading, GoodHeader, WholeFile
  <2> QED
    BY <1>8, <2>2, <2>3, <2>4
<1>10. CASE task' = [task EXCEPT !.ok = FALSE]
  <2>1. /\ task' \in [kind : {"none", "save", "load"}, done : 0 .. 3, of : TaskOf, ok : BOOLEAN]
        /\ task'.kind = "load" /\ ~task'.ok
    BY <1>1, <1>10 DEF GoombaShape
  <2>2. GoombaShape'
    BY <1>1, <1>6, <1>7, <2>1 DEF GoombaShape
  <2>3. OneMoment' /\ Saving' /\ Loading'
    BY <1>1, <2>1 DEF OneMoment, Saving, Loading
  <2> QED
    BY <1>8, <2>2, <2>3
<1> QED
  BY <1>1, <1>9, <1>10

\* What a load that succeeds leaves is a moment that was begun to be saved.
LEMMA LoadEndsAsSaved ==
  ASSUME GoombaInv, LoadEnds
  PROVE  /\ state' \in 0 .. GameStates
         /\ task.ok /\ Fine => Now' \in moments
<1> USE DEF GoombaInv
<1>1. /\ task.kind = "load" /\ (task.ok => task.done = 3)
      /\ \/ Fine /\ state' = IF task.ok THEN slot[2].of.state ELSE state
         \/ Trouble /\ UNCHANGED state
      /\ UNCHANGED <<game, ram, slot, moments>>
  BY DEF LoadEnds
<1>2. CASE task.ok
  <2>1. GoodHeader /\ WholeFile /\ ram = slot[3].of.ram
    BY <1>1, <1>2 DEF Loading
  <2>2. slot # <<>>
    BY <2>1, WholeIsThere
  <2>3. PICK now \in moments : /\ now \in Moment /\ now.game = game /\ Len(slot) = 3
                               /\ \A j \in 1 .. 3 : slot[j].of = now
    BY <2>1, <2>2, GoodFile
  <2>4. /\ now.state \in 0 .. GameStates
        /\ now = [game |-> now.game, state |-> now.state, ram |-> now.ram]
    BY <2>3 DEF Moment
  <2>5. ~(Fine /\ Trouble)
    BY DEF Fine, Trouble, GoombaShape
  <2>6. Fine => state' = now.state
    BY <1>1, <1>2, <2>3, <2>5
  <2>7. Fine => Now' = now
    BY <1>1, <2>1, <2>3, <2>4, <2>6 DEF Now
  <2> QED
    BY <1>1, <2>3, <2>4, <2>6, <2>7 DEF GoombaShape
<1>3. CASE ~task.ok
  BY <1>1, <1>3 DEF GoombaShape
<1> QED
  BY <1>2, <1>3 DEF GoombaShape

LEMMA LoadEndsGoomba == GoombaInv /\ LoadEnds => GoombaInv'
<1> SUFFICES ASSUME GoombaInv, LoadEnds PROVE GoombaInv'
  OBVIOUS
<1> USE DEF GoombaInv
<1>1. /\ task' = NoTask /\ trouble' \in 0 .. MaxTrouble
      /\ UNCHANGED <<game, ram, dirty, ready, battery, slot, moments, replaced>>
  BY TroubleCounted DEF LoadEnds
<1>2. state' \in 0 .. GameStates
  BY LoadEndsAsSaved
<1>3. /\ task' \in [kind : {"none", "save", "load"}, done : 0 .. 3, of : TaskOf, ok : BOOLEAN]
      /\ task'.kind = "none"
  BY <1>1, NoTaskTyped DEF NoTask
<1>4. GoombaShape' /\ NothingForgotten'
  BY <1>1, <1>2, <1>3 DEF GoombaShape, NothingForgotten
<1>5. OneMoment' /\ Saving' /\ Loading'
  BY <1>1, <1>3 DEF OneMoment, Saving, Loading
<1> QED
  BY <1>4, <1>5

LEMMA GoombaStep == GoombaInv /\ [GoombaNext]_goombaVars => GoombaInv'
<1> SUFFICES ASSUME GoombaInv, [GoombaNext]_goombaVars PROVE GoombaInv'
  OBVIOUS
<1>1. CASE UNCHANGED goombaVars
  BY <1>1 DEF GoombaInv, GoombaShape, NothingForgotten, OneMoment, Saving, Loading, GoodHeader,
              WholeFile, goombaVars
<1>2. CASE GoombaNext
  BY <1>2, PlayGoomba, WritesBackGoomba, SaveBeginsGoomba, SavePartGoomba, EndsGoomba,
     LoadPartGoomba, LoadEndsGoomba, RestartGoomba, WriteRamGoomba DEF GoombaNext
<1> QED
  BY <1>1, <1>2

LEMMA GoombaInvariant == GoombaSpec => []GoombaInv
BY GoombaAtFirst, GoombaStep, PTL DEF GoombaSpec

\* memory.s:114-135, sram.c:239-271: for any games and sizes of battery RAM, whichever
\* requests fail and whenever the console is switched off, what a game wrote is on the card or
\* marked to be written, until a state brings other RAM along.
THEOREM RamIsKept == GoombaSpec => []NothingForgotten
BY GoombaInvariant, PTL DEF GoombaInv

\* sram.c:68-132, chislink_bridge.c:395-451: for any games that share a file name and any number of
\* states, failures and restarts, a state that loads is a moment of this game, with its
\* battery RAM.
THEOREM StatesLoadWhole == GoombaSpec => LoadsAMoment
<1>1. GoombaInv /\ [GoombaNext]_goombaVars => (LoadEnds /\ task.ok /\ Fine => Now' \in moments)
  BY LoadEndsAsSaved
<1> QED
  BY <1>1, GoombaInvariant, PTL DEF GoombaSpec, LoadsAMoment

-----------------------------------------------------------------------------
(* The line counter.                                                        *)

LineTimes == Int \cup {NotSet}
LineTypes ==
  /\ dot \in Nat /\ drawing \in BOOLEAN /\ source \in {"spr", "bg", "none"}
  /\ irq_counter \in 0 .. 255 /\ irq_latch \in 0 .. 255 /\ irq_enable \in BOOLEAN
  /\ last_mmc3_timestamp \in Nat /\ last_mmc3_timestamp <= dot
  /\ mapper_timeout \in LineTimes /\ mapper_irq_timeout \in LineTimes
  /\ wantirq \in BOOLEAN /\ asked \in BOOLEAN

\* The chip counts; so many rises the code has still to count; so many are left before the
\* counter is loaded or reaches 0.
Counting == drawing /\ source # "none"
Uncounted == IF Counting THEN Rises(last_mmc3_timestamp, dot) ELSE 0
Left == IF irq_counter = 0 THEN 1 ELSE irq_counter

\* The time-out is where the next rise that matters is, and has not passed by a line.
InTime ==
  /\ ~Counting => mapper_timeout = NotSet
  /\ Counting /\ mapper_timeout = NotSet => irq_counter = 0 /\ irq_latch = 0 /\ ~irq_enable
  /\ Counting /\ mapper_timeout # NotSet =>
       /\ mapper_timeout = Line * (LineOf(last_mmc3_timestamp) + Left) - Lead(source)
       /\ dot < mapper_timeout + Line

LinesInv == LineTypes /\ CountsEachLine /\ (strays = {} => InTime)

LEMMA FactorsCompare ==
  ASSUME NEW a \in Nat \ {0}, NEW x \in Int, NEW y \in Int, a * x < a * y
  PROVE  x < y
<1>1. SUFFICES ASSUME y <= x PROVE a * y <= a * x
  BY <1>1
<1>2. a * (x - y) >= 0
  <2>1. x - y >= 0
    BY <1>1
  <2> QED BY <2>1
<1>3. a * (x - y) = a * x - a * y
  OBVIOUS
<1>4. a * x \in Int /\ a * y \in Int
  OBVIOUS
<1> QED BY <1>2, <1>3, <1>4

LEMMA LeadIs == Line \in Nat \ {0} /\ Lead(source) \in Nat /\ Lead(source) < Line
BY Mmc3Assumption DEF Lead

\* The line a time is in.
LEMMA LineOfIs ==
  ASSUME NEW t \in Nat
  PROVE  /\ LineOf(t) \in Nat
         /\ Line * LineOf(t) <= t + Lead(source)
         /\ t + Lead(source) < Line * LineOf(t) + Line
<1>1. \A x \in Nat, w \in Nat \ {0} : /\ x \div w \in Nat /\ x % w \in 0 .. w - 1
                                        /\ x = w * (x \div w) + (x % w)
  OBVIOUS
<1> DEFINE x == t + Lead(source)
<1>2. x \in Nat
  BY LeadIs
<1>3. LineOf(t) = x \div Line
  BY DEF LineOf
<1> HIDE DEF x
<1>4. LineOf(t) \in Nat /\ x % Line \in 0 .. Line - 1 /\ x = Line * LineOf(t) + (x % Line)
  BY <1>1, <1>2, <1>3, LeadIs
<1>5. Line * LineOf(t) \in Nat
  BY <1>4, LeadIs
<1>6. Line * LineOf(t) <= x /\ x < Line * LineOf(t) + Line
  BY <1>2, <1>4, <1>5, LeadIs
<1> QED
  BY <1>4, <1>6 DEF x

LEMMA LineAgainst ==
  ASSUME NEW t \in Nat, NEW q \in Int
  PROVE  /\ t + Lead(source) < Line * q => LineOf(t) < q
         /\ t + Lead(source) >= Line * q => LineOf(t) >= q
<1> DEFINE l == LineOf(t)
<1>1. l \in Nat /\ Line * l <= t + Lead(source) /\ t + Lead(source) < Line * l + Line
  BY LineOfIs
<1> HIDE DEF l
<1>2. Line * l \in Int /\ Line * q \in Int /\ Line * (l + 1) = Line * l + Line /\ l + 1 \in Int
      /\ Line \in Nat \ {0} /\ Lead(source) \in Nat
  BY <1>1, LeadIs
<1>3. ASSUME t + Lead(source) < Line * q PROVE l < q
  <2>1. Line * l < Line * q
    BY <1>1, <1>2, <1>3
  <2> QED BY <1>1, <1>2, <2>1, FactorsCompare
<1>4. ASSUME t + Lead(source) >= Line * q PROVE l >= q
  <2>1. Line * q < Line * (l + 1)
    BY <1>1, <1>2, <1>4
  <2>2. q < l + 1
    BY <1>1, <1>2, <2>1, FactorsCompare
  <2> QED BY <1>1, <2>2
<1> QED
  BY <1>3, <1>4 DEF l

LEMMA LinesFollow ==
  ASSUME NEW t \in Nat, NEW u \in Nat, t <= u
  PROVE  LineOf(t) <= LineOf(u)
<1>1. LineOf(t) \in Nat /\ Line * LineOf(t) <= t + Lead(source)
  BY LineOfIs
<1>2. u + Lead(source) >= Line * LineOf(t)
  BY <1>1, LeadIs
<1>3. LineOf(t) \in Int /\ LineOf(u) \in Nat
  BY <1>1, LineOfIs
<1>4. LineOf(u) >= LineOf(t)
  BY <1>2, <1>3, LineAgainst
<1> QED
  BY <1>3, <1>4

\* No more rises go uncounted than are left to the time-out, and all of them when it is due.
LEMMA RisesLeft ==
  ASSUME LineTypes, InTime, Counting, mapper_timeout # NotSet,
         NEW t \in Nat, last_mmc3_timestamp <= t, t < mapper_timeout + Line
  PROVE  /\ Rises(last_mmc3_timestamp, t) \in 0 .. Left
         /\ Rises(last_mmc3_timestamp, t) = Left <=> t >= mapper_timeout
<1> DEFINE p == LineOf(last_mmc3_timestamp)
           q == LineOf(t)
<1>1. p \in Nat /\ q \in Nat /\ p <= q /\ Left \in Nat /\ Left >= 1
  BY LineOfIs, LinesFollow DEF LineTypes, Left
<1>2. mapper_timeout = Line * (p + Left) - Lead(source)
  BY DEF InTime
<1>3. /\ t + Lead(source) < Line * (p + Left) => q < p + Left
      /\ t + Lead(source) >= Line * (p + Left) => q >= p + Left
      /\ t + Lead(source) < Line * (p + Left + 1) => q < p + Left + 1
  <2>1. p + Left \in Int /\ p + Left + 1 \in Int
    BY <1>1
  <2> QED BY <2>1, LineAgainst
<1>4. Rises(last_mmc3_timestamp, t) = q - p
  BY DEF Rises
<1> HIDE DEF p, q
<1> DEFINE z == Line * (p + Left)
<1>5. z \in Int /\ Line * (p + Left + 1) = z + Line /\ Lead(source) \in Nat /\ Line \in Nat
  BY <1>1, LeadIs
<1>6. mapper_timeout = z - Lead(source)
  BY <1>2
<1>7. /\ t + Lead(source) < z => q < p + Left
      /\ t + Lead(source) >= z => q >= p + Left
      /\ t + Lead(source) < z + Line => q < p + Left + 1
  BY <1>3, <1>5
<1> HIDE DEF z
<1>8. q < p + Left + 1
  BY <1>5, <1>6, <1>7
<1>9. t >= mapper_timeout <=> q >= p + Left
  BY <1>1, <1>5, <1>6, <1>7
<1> QED
  BY <1>1, <1>4, <1>8, <1>9

\* Counting up to the time-out.
LEMMA ClockedIs ==
  ASSUME NEW c \in 0 .. 255, NEW n \in Nat, n <= IF c = 0 THEN 1 ELSE c
  PROVE  /\ Clocked(c, n).counter = IF n = 0 THEN c ELSE IF c = 0 THEN irq_latch ELSE c - n
         /\ Clocked(c, n).asks <=> /\ n # 0 /\ irq_enable
                                   /\ IF c = 0 THEN irq_latch = 0 ELSE c = n
<1>1. CASE n = 0
  BY <1>1 DEF Clocked
<1>2. CASE n # 0 /\ c = 0
  BY <1>2 DEF Clocked
<1>3. CASE n # 0 /\ c # 0
  <2>1. Clocked(c, n) = [counter |-> (c - n) % 256, asks |-> c = n /\ irq_enable]
    BY <1>3 DEF Clocked
  <2>2. (c - n) % 256 = c - n
    BY <1>3
  <2>3. Clocked(c, n).counter = c - n
    BY <2>1, <2>2
  <2>4. Clocked(c, n).asks <=> c = n /\ irq_enable
    <3> DEFINE b == c = n /\ irq_enable
    <3>1. b \in BOOLEAN
      OBVIOUS
    <3> HIDE DEF b
    <3>2. [counter |-> (c - n) % 256, asks |-> b].asks = b
      OBVIOUS
    <3>3. Clocked(c, n).asks = b
      BY <2>1, <3>2, Zenon DEF b
    <3> QED BY <3>3, Zenon DEF b
  <2> QED BY <1>3, <2>3, <2>4
<1> QED
  BY <1>1, <1>2, <1>3

\* Counting in two goes is counting at once.
LEMMA ClockedTwice ==
  ASSUME NEW c \in 0 .. 255, NEW m \in Nat, NEW n \in Nat, irq_latch \in 0 .. 255,
         m <= n, n <= IF c = 0 THEN 1 ELSE c
  PROVE  /\ Clocked(Clocked(c, m).counter, n - m).counter = Clocked(c, n).counter
         /\ Clocked(c, n).asks <=>
              Clocked(c, m).asks \/ Clocked(Clocked(c, m).counter, n - m).asks
<1>1. /\ Clocked(c, m).counter = IF m = 0 THEN c ELSE IF c = 0 THEN irq_latch ELSE c - m
      /\ Clocked(c, m).asks <=> m # 0 /\ irq_enable /\ IF c = 0 THEN irq_latch = 0 ELSE c = m
      /\ Clocked(c, n).counter = IF n = 0 THEN c ELSE IF c = 0 THEN irq_latch ELSE c - n
      /\ Clocked(c, n).asks <=> n # 0 /\ irq_enable /\ IF c = 0 THEN irq_latch = 0 ELSE c = n
  <2>1. m <= IF c = 0 THEN 1 ELSE c
    OBVIOUS
  <2>2. /\ Clocked(c, m).counter = IF m = 0 THEN c ELSE IF c = 0 THEN irq_latch ELSE c - m
        /\ Clocked(c, m).asks <=> m # 0 /\ irq_enable /\ IF c = 0 THEN irq_latch = 0 ELSE c = m
    <3>1. \A k \in Nat :
            k <= (IF c = 0 THEN 1 ELSE c) =>
              /\ Clocked(c, k).counter = IF k = 0 THEN c ELSE IF c = 0 THEN irq_latch ELSE c - k
              /\ Clocked(c, k).asks <=>
                   k # 0 /\ irq_enable /\ IF c = 0 THEN irq_latch = 0 ELSE c = k
      BY ClockedIs, Zenon
    <3> QED BY <2>1, <3>1, Zenon
  <2>3. /\ Clocked(c, n).counter = IF n = 0 THEN c ELSE IF c = 0 THEN irq_latch ELSE c - n
        /\ Clocked(c, n).asks <=> n # 0 /\ irq_enable /\ IF c = 0 THEN irq_latch = 0 ELSE c = n
    BY ClockedIs
  <2> QED BY <2>2, <2>3
<1> DEFINE d == Clocked(c, m).counter
<1>2. d \in 0 .. 255
  BY <1>1
<1>3. CASE m = n
  <2>1. n - m \in Nat /\ n - m = 0
    BY <1>3
  <2>2. Clocked(d, n - m).counter = d /\ ~Clocked(d, n - m).asks
    BY <2>1 DEF Clocked
  <2> QED BY <1>3, <2>2
<1>4. CASE m = 0 /\ n # 0
  <2>1. d = c /\ n - m = n /\ ~Clocked(c, m).asks
    BY <1>1, <1>4
  <2> QED BY <2>1
<1>5. CASE m # 0 /\ m # n
  <2>1. c # 0 /\ m < c /\ d = c - m /\ n - m \in Nat /\ n - m # 0 /\ n - m <= d /\ d # 0
    BY <1>1, <1>5
  <2> HIDE DEF d
  <2>2. /\ Clocked(d, n - m).counter = d - (n - m)
        /\ Clocked(d, n - m).asks <=> irq_enable /\ d = n - m
    <3>1. PICK k, e : k = n - m /\ e = d
      OBVIOUS
    <3>2. e \in 0 .. 255 /\ k \in Nat /\ k # 0 /\ k <= e /\ e # 0
      BY <1>2, <2>1, <3>1
    <3>3. Clocked(e, k).counter = e - k /\ (Clocked(e, k).asks <=> irq_enable /\ e = k)
      BY <3>2, ClockedIs
    <3> QED BY <3>1, <3>3
  <2>3. d - (n - m) = c - n /\ (d = n - m <=> c = n) /\ n # 0
    BY <2>1
  <2> QED BY <1>1, <1>5, <2>1, <2>2, <2>3 DEF d
<1> QED
  BY <1>3, <1>4, <1>5

\* The counter of a chip that counts whatever comes stays a byte.
LEMMA ClockedByte ==
  ASSUME NEW c \in 0 .. 255, NEW n \in Int, irq_latch \in 0 .. 255, irq_enable \in BOOLEAN
  PROVE  Clocked(c, n).counter \in 0 .. 255 /\ Clocked(c, n).asks \in BOOLEAN
<1>1. CASE n = 0
  BY <1>1 DEF Clocked
<1>2. CASE n # 0 /\ c = 0
  BY <1>2 DEF Clocked
<1>3. CASE n # 0 /\ c # 0
  <2>1. Clocked(c, n) = [counter |-> (c - n) % 256, asks |-> c = n /\ irq_enable]
    BY <1>3 DEF Clocked
  <2>2. (c - n) % 256 \in 0 .. 255
    OBVIOUS
  <2>3. Clocked(c, n).asks \in BOOLEAN
    <3> DEFINE b == c = n /\ irq_enable
    <3>1. b \in BOOLEAN
      BY Zenon
    <3> HIDE DEF b
    <3>2. [counter |-> (c - n) % 256, asks |-> b].asks = b
      OBVIOUS
    <3>3. Clocked(c, n).asks = b
      BY <2>1, <3>2, Zenon DEF b
    <3> QED BY <3>1, <3>3
  <2> QED BY <2>1, <2>2, <2>3
<1> QED
  BY <1>1, <1>2, <1>3

\* A counter, latch and enable of 0: nothing ever comes of counting.
LEMMA ClockedIdle ==
  ASSUME NEW n \in Int, irq_latch = 0, ~irq_enable
  PROVE  Clocked(0, n).counter = 0 /\ ~Clocked(0, n).asks
<1>1. CASE n = 0
  BY <1>1 DEF Clocked
<1>2. CASE n # 0
  BY <1>2 DEF Clocked
<1> QED
  BY <1>1, <1>2

\* Where mmc3_set_next_timeout puts a time-out, the next rise is ahead.
LEMMA TimeoutSet ==
  ASSUME irq_latch \in 0 .. 255, NEW c \in 0 .. 255, NEW t \in Nat, NEW draws \in BOOLEAN
  PROVE  LET to == mmc3_set_next_timeout(draws, c, t) IN
         /\ to \in LineTimes
         /\ ~(draws /\ source # "none") => to = NotSet
         /\ draws /\ source # "none" /\ to = NotSet => c = 0 /\ irq_latch = 0 /\ ~irq_enable
         /\ draws /\ source # "none" /\ to # NotSet =>
              /\ to = Line * (LineOf(t) + IF c = 0 THEN 1 ELSE c) - Lead(source)
              /\ t < to + Line
<1> DEFINE left == IF c = 0 THEN 1 ELSE c
           z == Line * (LineOf(t) + left) - Lead(source)
<1>1. LineOf(t) \in Nat /\ t + Lead(source) < Line * LineOf(t) + Line
      /\ left \in Nat /\ left >= 1 /\ Lead(source) \in Nat /\ Line \in Nat /\ Line >= 1
  BY LineOfIs, LeadIs
<1>2. z \in Int /\ t < z + Line
  <2> DEFINE l == LineOf(t)
  <2>0. l \in Nat /\ t + Lead(source) < Line * l + Line
    BY <1>1
  <2> HIDE DEF left, l
  <2>1. Line * (l + left) = Line * l + Line * left /\ Line * l \in Int /\ Line * left \in Nat
    BY <1>1, <2>0
  <2>2. Line * left >= Line
    BY <1>1
  <2>3. z = Line * l + Line * left - Lead(source)
    <3>1. z = Line * (l + left) - Lead(source)
      BY DEF l
    <3> HIDE DEF z
    <3> QED BY <1>1, <2>0, <2>1, <3>1
  <2> HIDE DEF z
  <2> QED BY <1>1, <2>0, <2>1, <2>2, <2>3
<1> HIDE DEF z
<1>3. mmc3_set_next_timeout(draws, c, t) =
        IF ~draws \/ source = "none" \/ (c = 0 /\ irq_latch = 0 /\ ~irq_enable) THEN NotSet ELSE z
  BY DEF mmc3_set_next_timeout, z
<1>4. z # NotSet /\ z \in LineTimes /\ NotSet \in LineTimes
  BY <1>2, Mmc3Assumption DEF LineTimes
<1> QED
  BY <1>2, <1>3, <1>4, Zenon DEF z

\* What run_mmc3 makes of the counter.
LEMMA RunIs ==
  ASSUME LineTypes
  PROVE  /\ Uncounted \in Nat /\ run_mmc3 = Clocked(irq_counter, Uncounted)
         /\ run_mmc3.counter \in 0 .. 255 /\ run_mmc3.asks \in BOOLEAN
<1>1. Rises(last_mmc3_timestamp, dot) \in Nat
  <2>1. LineOf(dot) \in Nat /\ LineOf(last_mmc3_timestamp) \in Nat
        /\ LineOf(last_mmc3_timestamp) <= LineOf(dot)
    BY LineOfIs, LinesFollow DEF LineTypes
  <2> QED BY <2>1 DEF Rises
<1>2. Uncounted \in Nat
  BY <1>1 DEF Uncounted
<1>3. run_mmc3 = Clocked(irq_counter, Uncounted)
  BY DEF run_mmc3, Uncounted, Counting
<1>4. /\ Clocked(irq_counter, Uncounted).counter \in 0 .. 255
      /\ Clocked(irq_counter, Uncounted).asks \in BOOLEAN
  <2>1. irq_counter \in 0 .. 255 /\ irq_latch \in 0 .. 255 /\ irq_enable \in BOOLEAN
    BY DEF LineTypes
  <2>2. Uncounted \in Int
    BY <1>2
  <2> HIDE DEF Uncounted
  <2> QED BY <2>1, <2>2, ClockedByte
<1> QED
  BY <1>2, <1>3, <1>4

\* Before a time-out is due nothing has been asked for that was not yet seen to.
LEMMA NothingDue ==
  ASSUME LineTypes, InTime, ~Overdue(mapper_timeout), mapper_timeout # dot
  PROVE  ~run_mmc3.asks /\ (irq_counter = 0 /\ mapper_timeout # NotSet => Uncounted = 0)
<1>1. Uncounted \in Nat /\ run_mmc3 = Clocked(irq_counter, Uncounted)
  BY RunIs
<1>2. CASE ~Counting
  BY <1>1, <1>2 DEF Uncounted, Clocked
<1>3. CASE Counting /\ mapper_timeout = NotSet
  <2>1. irq_counter = 0 /\ irq_latch = 0 /\ ~irq_enable
    BY <1>3 DEF InTime
  <2>2. Uncounted \in Int
    BY <1>1
  <2> HIDE DEF Uncounted
  <2> QED BY <1>1, <1>3, <2>1, <2>2, ClockedIdle
<1>4. CASE Counting /\ mapper_timeout # NotSet
  <2>1. dot < mapper_timeout /\ dot \in Nat /\ last_mmc3_timestamp <= dot
        /\ mapper_timeout \in Int /\ Line \in Nat /\ Line > 0 /\ dot < mapper_timeout + Line
    BY <1>4, LeadIs DEF Overdue, LineTypes, LineTimes
  <2>2. /\ Rises(last_mmc3_timestamp, dot) \in 0 .. Left
        /\ Rises(last_mmc3_timestamp, dot) = Left <=> dot >= mapper_timeout
    BY <1>4, <2>1, RisesLeft
  <2>3. Uncounted \in 0 .. Left /\ Uncounted # Left
    BY <1>4, <2>1, <2>2 DEF Uncounted
  <2>4. irq_counter \in 0 .. 255
    BY DEF LineTypes
  <2> HIDE DEF Uncounted
  <2>5. Clocked(irq_counter, Uncounted).asks <=>
          /\ Uncounted # 0 /\ irq_enable
          /\ IF irq_counter = 0 THEN irq_latch = 0 ELSE irq_counter = Uncounted
    <3>1. Uncounted \in Nat /\ Uncounted <= IF irq_counter = 0 THEN 1 ELSE irq_counter
      BY <1>1, <2>3, <2>4 DEF Left
    <3> QED BY <2>4, <3>1, ClockedIs
  <2> QED BY <1>1, <2>3, <2>4, <2>5 DEF Left
<1> QED
  BY <1>2, <1>3, <1>4

\* After the code has counted, nothing is uncounted ...
LEMMA FreshRun ==
  ASSUME dot' \in Nat, last_mmc3_timestamp' = dot'
  PROVE  run_mmc3'.counter = irq_counter' /\ ~run_mmc3'.asks
<1>1. \A x \in Nat, w \in Nat \ {0} : x \div w \in Nat
  OBVIOUS
<1>2. dot' + Lead(source)' \in Nat /\ Line \in Nat \ {0}
  <2>1. Lead(source)' = SprLead \/ Lead(source)' = BgLead
    BY DEF Lead
  <2>2. SprLead \in Nat /\ BgLead \in Nat /\ Line \in Nat \ {0}
    BY Mmc3Assumption
  <2> HIDE DEF Lead
  <2> QED BY <2>1, <2>2
<1>3. LineOf(dot)' \in Nat
  BY <1>1, <1>2 DEF LineOf
<1>4. Rises(last_mmc3_timestamp, dot)' = 0
  <2>1. Rises(last_mmc3_timestamp, dot)' = LineOf(dot)' - LineOf(last_mmc3_timestamp)'
    BY DEF Rises
  <2>2. LineOf(last_mmc3_timestamp)' = LineOf(dot)'
    BY DEF LineOf
  <2> QED BY <1>3, <2>1, <2>2
<1>5. (IF drawing /\ source # "none" THEN Rises(last_mmc3_timestamp, dot) ELSE 0)' = 0
  BY <1>4
<1>6. run_mmc3' = [counter |-> irq_counter', asks |-> FALSE]
  BY <1>5 DEF run_mmc3, Clocked
<1> QED
  BY <1>6

\* ... and the time-out it sets is in time.
LEMMA FreshTime ==
  ASSUME LineTypes, irq_counter' \in 0 .. 255, drawing' \in BOOLEAN,
         UNCHANGED <<dot, source, irq_latch, irq_enable>>, last_mmc3_timestamp' = dot,
         mapper_timeout' = mmc3_set_next_timeout(drawing', irq_counter', dot)
  PROVE  mapper_timeout' \in LineTimes /\ InTime'
<1>1. PICK c \in 0 .. 255, d \in BOOLEAN, t \in Nat : c = irq_counter' /\ d = drawing' /\ t = dot
  BY DEF LineTypes
<1> DEFINE to == mmc3_set_next_timeout(d, c, t)
<1>2. /\ to \in LineTimes
      /\ ~(d /\ source # "none") => to = NotSet
      /\ d /\ source # "none" /\ to = NotSet => c = 0 /\ irq_latch = 0 /\ ~irq_enable
      /\ d /\ source # "none" /\ to # NotSet =>
            to = Line * (LineOf(t) + IF c = 0 THEN 1 ELSE c) - Lead(source) /\ t < to + Line
  <2>1. irq_latch \in 0 .. 255
    BY DEF LineTypes
  <2> QED BY <2>1, TimeoutSet
<1>3. to = mapper_timeout'
  BY <1>1
<1> HIDE DEF to
<1>4. /\ Counting' <=> d /\ source # "none"
      /\ Left' = IF c = 0 THEN 1 ELSE c
      /\ LineOf(last_mmc3_timestamp)' = LineOf(t) /\ Lead(source)' = Lead(source)
  BY <1>1 DEF Counting, Left, LineOf, Lead
<1>5. /\ ~Counting' => mapper_timeout' = NotSet
      /\ Counting' /\ mapper_timeout' = NotSet => irq_counter' = 0 /\ irq_latch' = 0 /\ ~irq_enable'
      /\ Counting' /\ mapper_timeout' # NotSet =>
           /\ mapper_timeout' = Line * (LineOf(last_mmc3_timestamp)' + Left') - Lead(source)'
           /\ dot' < mapper_timeout' + Line
  BY <1>1, <1>2, <1>3, <1>4
<1> QED
  BY <1>2, <1>3, <1>5 DEF InTime

-----------------------------------------------------------------------------
LEMMA LinesAtFirst == Mmc3IrqInit => LinesInv
<1> SUFFICES ASSUME Mmc3IrqInit PROVE LinesInv
  OBVIOUS
<1> USE DEF Mmc3IrqInit
<1>1. LineTypes
  <2>1. drawing \in BOOLEAN /\ irq_enable \in BOOLEAN /\ wantirq \in BOOLEAN /\ asked \in BOOLEAN
    BY Zenon
  <2>2. dot \in Nat /\ irq_counter \in 0 .. 255 /\ irq_latch \in 0 .. 255
        /\ last_mmc3_timestamp \in Nat /\ last_mmc3_timestamp <= dot
    OBVIOUS
  <2>3. NotSet \in LineTimes
    BY DEF LineTimes
  <2> QED BY <2>1, <2>2, <2>3, Zenon DEF LineTypes
<1>2. InTime
  BY DEF InTime, Counting
<1>3. run_mmc3.counter = 0 /\ ~run_mmc3.asks
  BY DEF run_mmc3, Clocked
<1>4. CountsEachLine
  BY <1>3, Mmc3Assumption DEF CountsEachLine
<1> QED
  BY <1>1, <1>2, <1>4 DEF LinesInv

\* What the invariant says while nothing strayed.
Faithful ==
  /\ run_mmc3.counter = real
  /\ wantirq \/ mapper_irq_timeout # NotSet \/ run_mmc3.asks <=> asked

LEMMA FaithfulIs == LineTypes => (CountsEachLine <=> (strays = {} => Faithful))
<1> SUFFICES ASSUME LineTypes PROVE CountsEachLine <=> (strays = {} => Faithful)
  OBVIOUS
<1>1. asked \in BOOLEAN
  BY DEF LineTypes
<1>2. (wantirq \/ mapper_irq_timeout # NotSet \/ run_mmc3.asks) \in BOOLEAN
  OBVIOUS
<1> QED
  BY <1>1, <1>2, Zenon DEF CountsEachLine, Faithful

LEMMA ElapseLines == ASSUME NEW k \in 1 .. Line - 1, LinesInv, Elapse(k) PROVE LinesInv'
<1> DEFINE rises == IF Counting THEN Rises(dot, dot + k) ELSE 0
           after == IF Counting THEN Rises(last_mmc3_timestamp, dot + k) ELSE 0
<1>1. /\ strays = {} /\ ~Overdue(mapper_timeout) /\ ~Overdue(mapper_irq_timeout)
      /\ dot' = dot + k
      /\ real' = Clocked(real, rises).counter /\ asked' = (asked \/ Clocked(real, rises).asks)
      /\ UNCHANGED <<drawing, source, wantirq, strays, counterVars>>
  BY DEF Elapse, Ready, Counting
<1>2. LineTypes /\ Faithful /\ InTime /\ k \in Nat /\ Line \in Nat /\ k < Line
  BY <1>1, FaithfulIs, LeadIs DEF LinesInv
<1>3. LineTypes'
  <2>1. dot + k \in Nat /\ last_mmc3_timestamp <= dot + k
    BY <1>2 DEF LineTypes
  <2>2. asked' \in BOOLEAN
    BY <1>1, Zenon
  <2> QED BY <1>1, <1>2, <2>1, <2>2 DEF LineTypes, counterVars
<1>4. /\ Uncounted \in Nat /\ run_mmc3 = Clocked(irq_counter, Uncounted)
      /\ irq_counter \in 0 .. 255 /\ irq_latch \in 0 .. 255
  BY <1>2, RunIs DEF LineTypes
<1>5. run_mmc3' = Clocked(irq_counter, after)
  <2>1. run_mmc3' = Clocked(irq_counter, IF drawing /\ source # "none"
                                         THEN Rises(last_mmc3_timestamp, dot + k) ELSE 0)
    BY <1>1 DEF run_mmc3, Clocked, Rises, LineOf, Lead, counterVars
  <2> QED BY <2>1 DEF Counting
<1>6. rises \in Nat /\ after = Uncounted + rises
  <2>1. LineOf(last_mmc3_timestamp) \in Nat /\ LineOf(dot) \in Nat /\ LineOf(dot + k) \in Nat
        /\ LineOf(dot) <= LineOf(dot + k)
    <3>1. last_mmc3_timestamp \in Nat /\ dot \in Nat /\ dot + k \in Nat /\ dot <= dot + k
      BY <1>2 DEF LineTypes
    <3> QED BY <3>1, LineOfIs, LinesFollow
  <2> QED BY <2>1 DEF Rises, Uncounted
<1> HIDE DEF rises, after
<1>7. after \in Nat /\ after - Uncounted = rises /\ Uncounted <= after
  BY <1>4, <1>6
<1>8. InTime'
  <2>1. Counting' = Counting /\ Left' = Left /\ Lead(source)' = Lead(source)
        /\ LineOf(last_mmc3_timestamp)' = LineOf(last_mmc3_timestamp)
    BY <1>1 DEF Counting, Left, Lead, LineOf, counterVars
  <2>2. Counting /\ mapper_timeout # NotSet => dot + k < mapper_timeout + Line
    BY <1>1, <1>2 DEF Overdue, LineTypes, LineTimes
  <2> QED BY <1>1, <1>2, <2>1, <2>2 DEF InTime, counterVars
<1>9. /\ Clocked(real, rises).counter = Clocked(irq_counter, after).counter
      /\ Clocked(irq_counter, after).asks <=>
            Clocked(irq_counter, Uncounted).asks \/ Clocked(real, rises).asks
  <2>1. real = Clocked(irq_counter, Uncounted).counter
    BY <1>2, <1>4 DEF Faithful
  <2>2. CASE ~Counting
    <3>1. rises = 0 /\ Uncounted = 0 /\ after = 0
      BY <2>2 DEF rises, Uncounted, after
    <3> QED BY <2>1, <3>1 DEF Clocked
  <2>3. CASE Counting /\ mapper_timeout = NotSet
    <3>1. irq_counter = 0 /\ irq_latch = 0 /\ ~irq_enable
      BY <1>2, <2>3 DEF InTime
    <3>2. Uncounted \in Int /\ rises \in Int /\ after \in Int
      BY <1>4, <1>6, <1>7
    <3> HIDE DEF Uncounted
    <3> QED BY <2>1, <3>1, <3>2, ClockedIdle
  <2>4. CASE Counting /\ mapper_timeout # NotSet
    <3>1. dot + k \in Nat /\ last_mmc3_timestamp <= dot + k /\ dot + k < mapper_timeout + Line
      BY <1>1, <1>2, <2>4 DEF Overdue, LineTypes, LineTimes
    <3>2. after <= Left
      <4>1. Rises(last_mmc3_timestamp, dot + k) \in 0 .. Left
        BY <1>2, <2>4, <3>1, RisesLeft
      <4>2. Left \in Nat
        BY <1>4 DEF Left
      <4> QED BY <2>4, <4>1, <4>2 DEF after
    <3>3. Left = IF irq_counter = 0 THEN 1 ELSE irq_counter
      BY DEF Left
    <3> DEFINE u == Uncounted
    <3>4. u \in Nat /\ u <= after /\ after - u = rises /\ real = Clocked(irq_counter, u).counter
      BY <1>4, <1>7, <2>1
    <3> HIDE DEF u
    <3>5. /\ Clocked(Clocked(irq_counter, u).counter, after - u).counter
               = Clocked(irq_counter, after).counter
          /\ Clocked(irq_counter, after).asks <=>
               Clocked(irq_counter, u).asks \/ Clocked(Clocked(irq_counter, u).counter, after - u).asks
      BY <1>4, <1>7, <3>2, <3>3, <3>4, ClockedTwice
    <3> QED BY <3>4, <3>5 DEF u
  <2> QED BY <2>2, <2>3, <2>4
<1>10. Faithful'
  <2>1. run_mmc3'.counter = real'
    BY <1>1, <1>5, <1>9
  <2>2. run_mmc3'.asks <=> run_mmc3.asks \/ Clocked(real, rises).asks
    BY <1>4, <1>5, <1>9
  <2>3. wantirq' = wantirq /\ mapper_irq_timeout' = mapper_irq_timeout
    BY <1>1 DEF counterVars
  <2> DEFINE a == Clocked(real, rises).asks
             b == run_mmc3.asks
             c == run_mmc3'.asks
  <2>4. /\ wantirq \/ mapper_irq_timeout # NotSet \/ b <=> asked
        /\ asked' = (asked \/ a) /\ (c <=> b \/ a)
    BY <1>1, <1>2, <2>2 DEF Faithful
  <2> HIDE DEF a, b, c
  <2>5. wantirq' \/ mapper_irq_timeout' # NotSet \/ c <=> asked'
    BY <2>3, <2>4, Zenon
  <2> QED BY <2>1, <2>5 DEF Faithful, c
<1> QED
  BY <1>3, <1>8, <1>10, FaithfulIs, PTL DEF LinesInv

\* Counting and setting the next time-out.
LEMMA CountsAnew ==
  ASSUME LineTypes, NEW c, c.counter \in 0 .. 255, Counts(c), drawing' \in BOOLEAN,
         mapper_timeout' = mmc3_set_next_timeout(drawing', c.counter, dot),
         UNCHANGED <<dot, source, irq_latch, irq_enable>>
  PROVE  /\ irq_counter' \in 0 .. 255 /\ last_mmc3_timestamp' = dot
         /\ mapper_timeout' \in LineTimes /\ mapper_irq_timeout' \in LineTimes /\ InTime'
         /\ run_mmc3'.counter = c.counter /\ ~run_mmc3'.asks
         /\ mapper_irq_timeout' # NotSet <=> mapper_irq_timeout # NotSet \/ c.asks
<1>1. /\ irq_counter' = c.counter /\ last_mmc3_timestamp' = dot
      /\ mapper_irq_timeout' = IF c.asks THEN dot + IrqDelay ELSE mapper_irq_timeout
  BY DEF Counts
<1>2. dot + IrqDelay \in Int /\ dot + IrqDelay # NotSet /\ dot' \in Nat /\ dot' = dot
  BY Mmc3Assumption DEF LineTypes
<1>3. mapper_irq_timeout' \in LineTimes
      /\ (mapper_irq_timeout' # NotSet <=> mapper_irq_timeout # NotSet \/ c.asks)
  BY <1>1, <1>2 DEF LineTypes, LineTimes
<1>4. mapper_timeout' \in LineTimes /\ InTime'
  <2>1. irq_counter' \in 0 .. 255 /\ mapper_timeout' = mmc3_set_next_timeout(drawing', irq_counter', dot)
    BY <1>1
  <2> QED BY <1>1, <2>1, FreshTime
<1>5. run_mmc3'.counter = c.counter /\ ~run_mmc3'.asks
  BY <1>1, <1>2, FreshRun
<1> QED
  BY <1>1, <1>3, <1>4, <1>5

LEMMA TimeoutLines == LinesInv /\ mmc3_timeout_handler => LinesInv'
<1> SUFFICES ASSUME LinesInv, mmc3_timeout_handler PROVE LinesInv'
  OBVIOUS
<1> DEFINE c == run_mmc3
<1>1. /\ Counts(c) /\ mapper_timeout' = mmc3_set_next_timeout(drawing, c.counter, dot)
      /\ UNCHANGED <<dot, drawing, source, irq_latch, irq_enable, wantirq, real, asked, strays>>
  BY DEF mmc3_timeout_handler
<1>2. LineTypes /\ c.counter \in 0 .. 255 /\ drawing' = drawing /\ drawing' \in BOOLEAN
  BY <1>1, RunIs DEF LinesInv, LineTypes
<1>3. mapper_timeout' = mmc3_set_next_timeout(drawing', c.counter, dot)
  BY <1>1, <1>2
<1> HIDE DEF c
<1>4. /\ irq_counter' \in 0 .. 255 /\ last_mmc3_timestamp' = dot
      /\ mapper_timeout' \in LineTimes /\ mapper_irq_timeout' \in LineTimes /\ InTime'
      /\ run_mmc3'.counter = c.counter /\ ~run_mmc3'.asks
      /\ mapper_irq_timeout' # NotSet <=> mapper_irq_timeout # NotSet \/ c.asks
  BY <1>1, <1>2, <1>3, CountsAnew
<1>5. LineTypes'
  <2>1. dot' \in Nat /\ last_mmc3_timestamp' \in Nat /\ last_mmc3_timestamp' <= dot'
    BY <1>1, <1>2, <1>4 DEF LineTypes
  <2> QED BY <1>1, <1>2, <1>4, <2>1, Zenon DEF LineTypes
<1>6. (strays = {} => Faithful)'
  <2>1. strays = {} => Faithful
    BY <1>2, FaithfulIs DEF LinesInv
  <2> QED BY <1>1, <1>4, <2>1 DEF Faithful, c
<1> QED
  BY <1>4, <1>5, <1>6, FaithfulIs, PTL DEF LinesInv

LEMMA ScreenOffLines == LinesInv /\ ScreenOff => LinesInv'
<1> SUFFICES ASSUME LinesInv, ScreenOff PROVE LinesInv'
  OBVIOUS
<1> DEFINE c == run_mmc3
<1>1. /\ Counts(c) /\ drawing' = FALSE /\ mapper_timeout' = mmc3_set_next_timeout(FALSE, c.counter, dot)
      /\ UNCHANGED <<dot, source, irq_latch, irq_enable, wantirq, real, asked, strays>>
  BY DEF ScreenOff
<1>2. LineTypes /\ c.counter \in 0 .. 255 /\ drawing' \in BOOLEAN
  BY <1>1, RunIs DEF LinesInv, LineTypes
<1>3. mapper_timeout' = mmc3_set_next_timeout(drawing', c.counter, dot)
  BY <1>1, Zenon
<1> HIDE DEF c
<1>4. /\ irq_counter' \in 0 .. 255 /\ last_mmc3_timestamp' = dot
      /\ mapper_timeout' \in LineTimes /\ mapper_irq_timeout' \in LineTimes /\ InTime'
      /\ run_mmc3'.counter = c.counter /\ ~run_mmc3'.asks
      /\ mapper_irq_timeout' # NotSet <=> mapper_irq_timeout # NotSet \/ c.asks
  BY <1>1, <1>2, <1>3, CountsAnew
<1>5. LineTypes'
  <2>1. dot' \in Nat /\ last_mmc3_timestamp' \in Nat /\ last_mmc3_timestamp' <= dot'
    BY <1>1, <1>2, <1>4 DEF LineTypes
  <2> QED BY <1>1, <1>2, <1>4, <2>1, Zenon DEF LineTypes
<1>6. (strays = {} => Faithful)'
  <2>1. strays = {} => Faithful
    BY <1>2, FaithfulIs DEF LinesInv
  <2> QED BY <1>1, <1>4, <2>1 DEF Faithful, c
<1> QED
  BY <1>4, <1>5, <1>6, FaithfulIs, PTL DEF LinesInv

LEMMA ScreenOnLines == ASSUME NEW raises \in BOOLEAN, LinesInv, ScreenOn(raises) PROVE LinesInv'
<1> DEFINE n == IF raises THEN 1 ELSE 0
           c == Clocked(irq_counter, n)
           counts == Clocked(real, n)
<1>1. /\ strays = {} /\ ~drawing /\ drawing' = TRUE
      /\ Counts(c) /\ mapper_timeout' = mmc3_set_next_timeout(TRUE, c.counter, dot)
      /\ real' = counts.counter /\ asked' = (asked \/ counts.asks)
      /\ UNCHANGED <<dot, source, irq_latch, irq_enable, wantirq, strays>>
  BY DEF ScreenOn, Ready
<1>2. LineTypes /\ Faithful /\ drawing' \in BOOLEAN
  BY <1>1, FaithfulIs DEF LinesInv
<1>3. run_mmc3.counter = irq_counter /\ ~run_mmc3.asks
  BY <1>1 DEF run_mmc3, Clocked
<1>4. c = counts
  BY <1>2, <1>3 DEF Faithful
<1>5. c.counter \in 0 .. 255 /\ c.asks \in BOOLEAN
  <2>1. n \in Int
    OBVIOUS
  <2> HIDE DEF n
  <2> QED BY <1>2, <2>1, ClockedByte DEF LineTypes
<1> HIDE DEF c, counts
<1>6. mapper_timeout' = mmc3_set_next_timeout(drawing', c.counter, dot)
  BY <1>1, Zenon
<1>7. /\ irq_counter' \in 0 .. 255 /\ last_mmc3_timestamp' = dot
      /\ mapper_timeout' \in LineTimes /\ mapper_irq_timeout' \in LineTimes /\ InTime'
      /\ run_mmc3'.counter = c.counter /\ ~run_mmc3'.asks
      /\ mapper_irq_timeout' # NotSet <=> mapper_irq_timeout # NotSet \/ c.asks
  BY <1>1, <1>2, <1>5, <1>6, CountsAnew
<1>8. LineTypes'
  <2>1. asked' \in BOOLEAN
    BY <1>1, Zenon
  <2>2. dot' \in Nat /\ last_mmc3_timestamp' \in Nat /\ last_mmc3_timestamp' <= dot'
    BY <1>1, <1>2, <1>7 DEF LineTypes
  <2> QED BY <1>1, <1>2, <1>7, <2>1, <2>2, Zenon DEF LineTypes
<1>9. Faithful'
  BY <1>1, <1>2, <1>3, <1>4, <1>7, Zenon DEF Faithful
<1> QED
  BY <1>7, <1>8, <1>9, FaithfulIs, PTL DEF LinesInv

\* A step that leaves the time, what is counted and the counter.
LEMMA RunStays ==
  ASSUME UNCHANGED <<dot, drawing, source, irq_counter, last_mmc3_timestamp>>
  PROVE  /\ Uncounted' = Uncounted /\ Counting' = Counting /\ Left' = Left
         /\ Lead(source)' = Lead(source)
         /\ LineOf(last_mmc3_timestamp)' = LineOf(last_mmc3_timestamp)
         /\ UNCHANGED <<irq_latch, irq_enable>> => run_mmc3' = run_mmc3
BY DEF Uncounted, Counting, Left, Lead, LineOf, Rises, run_mmc3, Clocked

LEMMA IrqLines == LinesInv /\ mapper_irq_handler => LinesInv'
<1> SUFFICES ASSUME LinesInv, mapper_irq_handler PROVE LinesInv'
  OBVIOUS
<1>1. /\ Overdue(mapper_irq_timeout) /\ mapper_irq_timeout' = NotSet /\ wantirq' = TRUE
      /\ UNCHANGED <<dot, drawing, source, irq_counter, irq_latch, irq_enable,
                     last_mmc3_timestamp, mapper_timeout, real, asked, strays>>
  BY DEF mapper_irq_handler
<1>2. LineTypes /\ run_mmc3' = run_mmc3 /\ Uncounted' = Uncounted /\ Counting' = Counting
      /\ Left' = Left /\ Lead(source)' = Lead(source)
      /\ LineOf(last_mmc3_timestamp)' = LineOf(last_mmc3_timestamp)
  BY <1>1, RunStays DEF LinesInv
<1>3. LineTypes'
  BY <1>1, <1>2 DEF LineTypes, LineTimes
<1>4. (strays = {} => InTime)'
  BY <1>1, <1>2 DEF LinesInv, InTime
<1>5. (strays = {} => Faithful)'
  <2>1. strays = {} => Faithful
    BY <1>2, FaithfulIs DEF LinesInv
  <2> QED BY <1>1, <1>2, <2>1, Zenon DEF Faithful, Overdue
<1> QED
  BY <1>3, <1>4, <1>5, FaithfulIs, PTL DEF LinesInv

LEMMA NothingAsked ==
  LineTypes /\ InTime /\ ~Overdue(mapper_timeout) /\ mapper_timeout # dot => ~run_mmc3.asks
BY NothingDue

\* A write to latch or enable before anything is due makes no difference to what was counted.
LEMMA RunKept ==
  ASSUME LineTypes, InTime, ~Overdue(mapper_timeout), mapper_timeout # dot,
         Counting => mapper_timeout # NotSet, LineTypes',
         UNCHANGED <<dot, drawing, source, irq_counter, last_mmc3_timestamp, mapper_timeout>>
  PROVE  run_mmc3'.counter = run_mmc3.counter /\ ~run_mmc3'.asks /\ InTime'
<1>1. /\ Uncounted' = Uncounted /\ Counting' = Counting /\ Left' = Left
      /\ Lead(source)' = Lead(source)
      /\ LineOf(last_mmc3_timestamp)' = LineOf(last_mmc3_timestamp)
  BY RunStays
<1>2. InTime'
  BY <1>1 DEF InTime
<1>3. ~Overdue(mapper_timeout)' /\ mapper_timeout' # dot'
  BY DEF Overdue
<1>4. ~run_mmc3'.asks
  <2>1. (LineTypes /\ InTime /\ ~Overdue(mapper_timeout) /\ mapper_timeout # dot => ~run_mmc3.asks)'
    BY NothingAsked, PTL
  <2> QED BY <1>2, <1>3, <2>1
<1>5. Uncounted \in Nat /\ run_mmc3 = Clocked(irq_counter, Uncounted)
  BY RunIs
<1>6. run_mmc3' = Clocked(irq_counter, Uncounted)'
  BY <1>1 DEF run_mmc3, Uncounted, Counting
<1>7. irq_counter = 0 => Uncounted = 0
  <2>1. CASE Counting
    BY <2>1, NothingDue
  <2>2. CASE ~Counting
    BY <2>2 DEF Uncounted
  <2> QED BY <2>1, <2>2
<1>8. run_mmc3'.counter = run_mmc3.counter
  <2> HIDE DEF Uncounted
  <2> QED BY <1>1, <1>5, <1>6, <1>7 DEF Clocked
<1> QED
  BY <1>2, <1>4, <1>8

LEMMA LatchLines == ASSUME NEW v \in LatchValues, LinesInv, WriteLatch(v) PROVE LinesInv'
<1>1. /\ strays = {} /\ ~Overdue(mapper_timeout) /\ irq_latch' = v
      /\ strays' = (strays \cup (IF mapper_timeout = dot THEN {"tie"} ELSE {}))
                      \cup (IF drawing /\ mapper_timeout = NotSet THEN {"unset"} ELSE {})
      /\ UNCHANGED <<dot, drawing, source, irq_counter, irq_enable, last_mmc3_timestamp,
                     mapper_timeout, mapper_irq_timeout, wantirq, real, asked>>
  BY DEF WriteLatch, Ready
<1>2. LineTypes /\ Faithful /\ InTime
  BY <1>1, FaithfulIs DEF LinesInv
<1>3. LineTypes'
  <2>1. v \in 0 .. 255
    BY Mmc3Assumption
  <2> QED BY <1>1, <1>2, <2>1 DEF LineTypes
<1>4. CASE strays' = {}
  <2>1. mapper_timeout # dot /\ (Counting => mapper_timeout # NotSet)
    BY <1>1, <1>4 DEF Counting
  <2>2. run_mmc3'.counter = run_mmc3.counter /\ ~run_mmc3'.asks /\ InTime' /\ ~run_mmc3.asks
    BY <1>1, <1>2, <1>3, <2>1, RunKept, NothingDue
  <2>3. Faithful'
    BY <1>1, <1>2, <2>2, Zenon DEF Faithful
  <2> QED BY <1>3, <2>2, <2>3, FaithfulIs, PTL DEF LinesInv
<1>5. CASE strays' # {}
  <2>1. (~(strays = {}))'
    BY <1>5
  <2> QED BY <1>3, <2>1, FaithfulIs, PTL DEF LinesInv
<1> QED
  BY <1>4, <1>5

LEMMA EnableLines == LinesInv /\ WriteEnable => LinesInv'
<1> SUFFICES ASSUME LinesInv, WriteEnable PROVE LinesInv'
  OBVIOUS
<1>1. /\ strays = {} /\ ~Overdue(mapper_timeout) /\ irq_enable' = TRUE
      /\ strays' = (strays \cup (IF mapper_timeout = dot THEN {"tie"} ELSE {}))
                      \cup (IF drawing /\ mapper_timeout = NotSet THEN {"unset"} ELSE {})
      /\ UNCHANGED <<dot, drawing, source, irq_counter, irq_latch, last_mmc3_timestamp,
                     mapper_timeout, mapper_irq_timeout, wantirq, real, asked>>
  BY DEF WriteEnable, Ready
<1>2. LineTypes /\ Faithful /\ InTime
  BY <1>1, FaithfulIs DEF LinesInv
<1>3. LineTypes'
  BY <1>1, <1>2 DEF LineTypes
<1>4. CASE strays' = {}
  <2>1. mapper_timeout # dot /\ (Counting => mapper_timeout # NotSet)
    BY <1>1, <1>4 DEF Counting
  <2>2. run_mmc3'.counter = run_mmc3.counter /\ ~run_mmc3'.asks /\ InTime' /\ ~run_mmc3.asks
    BY <1>1, <1>2, <1>3, <2>1, RunKept, NothingDue
  <2>3. Faithful'
    BY <1>1, <1>2, <2>2, Zenon DEF Faithful
  <2> QED BY <1>3, <2>2, <2>3, FaithfulIs, PTL DEF LinesInv
<1>5. CASE strays' # {}
  <2>1. (~(strays = {}))'
    BY <1>5
  <2> QED BY <1>3, <2>1, FaithfulIs, PTL DEF LinesInv
<1> QED
  BY <1>4, <1>5

LEMMA ReloadLines == LinesInv /\ WriteReload => LinesInv'
<1> SUFFICES ASSUME LinesInv, WriteReload PROVE LinesInv'
  OBVIOUS
<1>1. /\ strays = {} /\ ~Overdue(mapper_timeout) /\ irq_counter' = 0 /\ last_mmc3_timestamp' = dot
      /\ mapper_timeout' = mmc3_set_next_timeout(drawing, 0, dot) /\ real' = 0
      /\ strays' = IF mapper_timeout = dot THEN strays \cup {"tie"} ELSE strays
      /\ UNCHANGED <<dot, drawing, source, irq_latch, irq_enable, mapper_irq_timeout, wantirq, asked>>
  BY DEF WriteReload, Ready, ClearCounter, ClearedAt, Strays
<1>2. LineTypes /\ Faithful /\ InTime
  BY <1>1, FaithfulIs DEF LinesInv
<1>3. mapper_timeout' \in LineTimes /\ InTime'
  <2>1. irq_counter' \in 0 .. 255 /\ drawing' \in BOOLEAN
        /\ mapper_timeout' = mmc3_set_next_timeout(drawing', irq_counter', dot)
    BY <1>1, <1>2 DEF LineTypes
  <2> QED BY <1>1, <1>2, <2>1, FreshTime
<1>4. LineTypes'
  BY <1>1, <1>2, <1>3 DEF LineTypes
<1>5. CASE strays' = {}
  <2>1. mapper_timeout # dot
    BY <1>1, <1>5
  <2>2. ~run_mmc3.asks
    BY <1>1, <1>2, <2>1, NothingDue
  <2>3. dot' \in Nat /\ last_mmc3_timestamp' = dot'
    BY <1>1, <1>2 DEF LineTypes
  <2>4. run_mmc3'.counter = 0 /\ ~run_mmc3'.asks
    BY <1>1, <2>3, FreshRun
  <2>5. Faithful'
    BY <1>1, <1>2, <2>2, <2>4, Zenon DEF Faithful
  <2> QED BY <1>3, <1>4, <2>5, FaithfulIs, PTL DEF LinesInv
<1>6. CASE strays' # {}
  <2>1. (~(strays = {}))'
    BY <1>6
  <2> QED BY <1>4, <2>1, FaithfulIs, PTL DEF LinesInv
<1> QED
  BY <1>5, <1>6

LEMMA DisableLines == LinesInv /\ WriteDisable => LinesInv'
<1> SUFFICES ASSUME LinesInv, WriteDisable PROVE LinesInv'
  OBVIOUS
<1>1. /\ strays = {} /\ ~Overdue(mapper_timeout)
      /\ irq_enable' = FALSE /\ wantirq' = FALSE /\ asked' = FALSE
      /\ strays' = IF mapper_irq_timeout # NotSet THEN strays \cup {"late"} ELSE strays
      /\ UNCHANGED <<dot, drawing, source, irq_counter, irq_latch, last_mmc3_timestamp,
                     mapper_timeout, mapper_irq_timeout, real>>
  BY DEF WriteDisable, Ready, Strays
<1>2. LineTypes /\ Faithful /\ InTime
  BY <1>1, FaithfulIs DEF LinesInv
<1>3. LineTypes'
  BY <1>1, <1>2 DEF LineTypes
<1>4. /\ Uncounted' = Uncounted /\ Counting' = Counting /\ Left' = Left
      /\ Lead(source)' = Lead(source)
      /\ LineOf(last_mmc3_timestamp)' = LineOf(last_mmc3_timestamp)
  BY <1>1, RunStays
<1>5. InTime'
  BY <1>1, <1>2, <1>4 DEF InTime
<1>6. Uncounted \in Nat /\ run_mmc3 = Clocked(irq_counter, Uncounted)
  BY <1>2, RunIs
<1>7. run_mmc3' = Clocked(irq_counter, Uncounted)'
  BY <1>4 DEF run_mmc3, Uncounted, Counting
<1>8. run_mmc3'.counter = run_mmc3.counter /\ ~run_mmc3'.asks
  <2> HIDE DEF Uncounted
  <2>1. Clocked(irq_counter, Uncounted)' =
          CASE Uncounted = 0 -> [counter |-> irq_counter, asks |-> FALSE]
            [] Uncounted # 0 /\ irq_counter = 0 -> [counter |-> irq_latch, asks |-> FALSE]
            [] OTHER -> [counter |-> (irq_counter - Uncounted) % 256, asks |-> FALSE]
    BY <1>1, <1>4, Zenon DEF Clocked
  <2> QED BY <1>6, <1>7, <2>1 DEF Clocked
<1>9. (strays = {} => Faithful)'
  BY <1>1, <1>2, <1>8 DEF Faithful
<1> QED
  BY <1>3, <1>5, <1>9, FaithfulIs, PTL DEF LinesInv

LEMMA TablesLines == ASSUME NEW s \in {"spr", "bg", "none"}, LinesInv, WriteTables(s) PROVE LinesInv'
<1>1. /\ strays = {} /\ source' = s
      /\ strays' = IF drawing THEN strays \cup {"table"} ELSE strays
      /\ UNCHANGED <<dot, drawing, wantirq, real, asked, counterVars>>
  BY DEF WriteTables, Ready, Strays
<1>2. LineTypes /\ Faithful /\ InTime
  BY <1>1, FaithfulIs DEF LinesInv
<1>3. LineTypes'
  BY <1>1, <1>2 DEF LineTypes, counterVars
<1>4. CASE ~drawing
  <2>1. InTime'
    BY <1>1, <1>2, <1>4 DEF InTime, Counting, counterVars
  <2>2. run_mmc3' = run_mmc3
    BY <1>1, <1>4 DEF run_mmc3, Clocked, counterVars
  <2>3. Faithful'
    BY <1>1, <1>2, <2>2 DEF Faithful, counterVars
  <2> QED BY <1>3, <2>1, <2>3, FaithfulIs, PTL DEF LinesInv
<1>5. CASE drawing
  <2>1. (~(strays = {}))'
    BY <1>1, <1>5
  <2> QED BY <1>3, <2>1, FaithfulIs, PTL DEF LinesInv
<1> QED
  BY <1>4, <1>5

LEMMA LinesStay == LinesInv /\ UNCHANGED mmcIrqVars => LinesInv'
BY DEF mmcIrqVars, LinesInv, LineTypes, CountsEachLine, InTime, Counting, Left, LineOf, Lead,
       run_mmc3, Rises, Clocked

LEMMA LinesNext == LinesInv /\ [Mmc3IrqNext]_mmcIrqVars => LinesInv'
BY ElapseLines, TimeoutLines, IrqLines, LatchLines, ReloadLines, EnableLines, DisableLines,
   TablesLines, ScreenOnLines, ScreenOffLines, LinesStay DEF Mmc3IrqNext

-----------------------------------------------------------------------------
(* The bank registers.                                                      *)

BankTypes ==
  /\ board \in {4, 118, 206, 245, 249} /\ behind \in BOOLEAN /\ R \in [0 .. 7 -> Nat]
  /\ mmc \in [cmd : Nat, bank0 : Nat, bank1 : Nat, bankadd : {0, 1}, usescramble : BOOLEAN,
              lastchr : Nat]

\* What the windows at 8 to E show in either mode.
PrgLow == <<Prg(R[6]), Prg(R[7]), Prg(-2), Prg(-1)>>
PrgHigh == <<Prg(-2), Prg(R[7]), Prg(R[6]), Prg(-1)>>

\* PRG is in the mode of the command or, while it is behind, in the other one.
PrgInMode ==
  IF board = 245
  THEN /\ mmc.bank0 = R[6] /\ mmc.bank1 = R[7] /\ mmc.bankadd = (R[0] \div 2) % 2
       /\ ~behind => prg = romswitch_245(mmc)
  ELSE /\ mmc.bank0 = R[6]
       /\ prg = IF SwapsPrg(mmc.cmd) = behind THEN PrgLow ELSE PrgHigh

BoardsInv == BankTypes /\ PrgInMode /\ (board # 245 => chr = ChrShown)

LEMMA Shown245 ==
  ASSUME BankTypes, board = 245, mmc.bank0 = R[6], mmc.bank1 = R[7],
         mmc.bankadd = (R[0] \div 2) % 2
  PROVE  romswitch_245(mmc) = PrgShown
<1>1. ~Bit(62, 64) /\ ~Bit(63, 64)
  BY DEF Bit
<1>2. Bit(R[0], 2) <=> mmc.bankadd = 1
  BY DEF Bit
<1> DEFINE add == IF board = 245 /\ Bit(R[0], 2) THEN 64 ELSE 0
<1>3. R[6] \in Nat /\ R[7] \in Nat /\ R[0] \in Nat
  BY DEF BankTypes
<1>4. ASSUME NEW v \in Nat
      PROVE  HalfOf(mmc, v) = Prg(IF Bit(v, 64) THEN v ELSE v + add)
  <2>1. CASE mmc.bankadd = 1
    BY <1>2, <2>1 DEF HalfOf
  <2>2. CASE mmc.bankadd # 1
    <3>1. v + add = v
      BY <1>2, <2>2
    <3> QED BY <2>2, <3>1 DEF HalfOf
  <2> QED BY <2>1, <2>2
<1>5. HalfOf(mmc, 62) = Prg(62 + add) /\ HalfOf(mmc, 63) = Prg(63 + add)
  BY <1>1, <1>4
<1>6. HalfOf(mmc, R[6]) = Prg(IF Bit(R[6], 64) THEN R[6] ELSE R[6] + add)
      /\ HalfOf(mmc, R[7]) = Prg(IF Bit(R[7], 64) THEN R[7] ELSE R[7] + add)
  BY <1>3, <1>4
<1>7. PrgShown =
        IF SwapsPrg(mmc.cmd)
        THEN <<Prg(62 + add), Prg(IF Bit(R[7], 64) THEN R[7] ELSE R[7] + add),
               Prg(IF Bit(R[6], 64) THEN R[6] ELSE R[6] + add), Prg(63 + add)>>
        ELSE <<Prg(IF Bit(R[6], 64) THEN R[6] ELSE R[6] + add),
               Prg(IF Bit(R[7], 64) THEN R[7] ELSE R[7] + add), Prg(62 + add), Prg(63 + add)>>
  BY DEF PrgShown
<1> HIDE DEF add
<1>8. romswitch_245(mmc) =
        IF SwapsPrg(mmc.cmd)
        THEN <<HalfOf(mmc, 62), HalfOf(mmc, R[7]), HalfOf(mmc, R[6]), HalfOf(mmc, 63)>>
        ELSE <<HalfOf(mmc, R[6]), HalfOf(mmc, R[7]), HalfOf(mmc, 62), HalfOf(mmc, 63)>>
  BY Zenon DEF romswitch_245
<1> QED
  BY <1>5, <1>6, <1>7, <1>8

LEMMA ShownElse ==
  ASSUME BankTypes, board # 245
  PROVE  PrgShown = IF SwapsPrg(mmc.cmd) THEN PrgHigh ELSE PrgLow
<1>1. R[6] \in Nat /\ R[7] \in Nat
  BY DEF BankTypes
<1>2. \A v \in Nat : (IF Bit(v, 64) THEN v ELSE v + 0) = v
  OBVIOUS
<1>3. Prg(IF Bit(R[6], 64) THEN R[6] ELSE R[6] + 0) = Prg(R[6])
      /\ Prg(IF Bit(R[7], 64) THEN R[7] ELSE R[7] + 0) = Prg(R[7])
  BY <1>1, <1>2
<1> QED
  BY <1>3 DEF PrgShown, PrgHigh, PrgLow

LEMMA BanksAreShown == BoardsInv => BanksFollow
<1> SUFFICES ASSUME BoardsInv PROVE BanksFollow
  OBVIOUS
<1>1. CASE board = 245
  BY <1>1, Shown245 DEF BoardsInv, PrgInMode, BanksFollow
<1>2. CASE board # 245
  <2>1. ~behind => SwapsPrg(mmc.cmd) # behind \/ ~SwapsPrg(mmc.cmd)
    BY DEF BoardsInv, BankTypes
  <2> QED BY <1>2, ShownElse DEF BoardsInv, BankTypes, PrgInMode, BanksFollow, SwapsPrg, Bit
<1> QED
  BY <1>1, <1>2

LEMMA TwoAndTwo ==
  ASSUME NEW S, NEW a \in S, NEW b \in S, NEW c \in S, NEW d \in S
  PROVE  <<a, b>> \o <<c, d>> = <<a, b, c, d>>
<1> DEFINE s == <<a, b>>
           t == <<c, d>>
           u == <<a, b, c, d>>
<1>1. s \in Seq(S) /\ t \in Seq(S) /\ u \in Seq(S) /\ Len(s) = 2 /\ Len(t) = 2 /\ Len(u) = 4
  OBVIOUS
<1>2. \A n \in 1 .. 2 : u[n] = s[n]
  OBVIOUS
<1>3. \A n \in 1 .. 2 : u[2 + n] = t[n]
  OBVIOUS
<1> HIDE DEF s, t, u
<1>4. /\ s \o t \in Seq(S) /\ Len(s \o t) = Len(s) + Len(t)
      /\ \A n \in 1 .. Len(s) + Len(t) : (s \o t)[n] = IF n <= Len(s) THEN s[n] ELSE t[n - Len(s)]
  BY <1>1, ConcatProperties
<1>5. \A n \in 1 .. Len(s \o t) : (s \o t)[n] = u[n]
  <2> TAKE n \in 1 .. Len(s \o t)
  <2>1. CASE n <= 2
    BY <1>1, <1>2, <1>4, <2>1
  <2>2. CASE ~(n <= 2)
    <3>1. n - 2 \in 1 .. 2 /\ 2 + (n - 2) = n
      BY <1>1, <1>4, <2>2
    <3> QED BY <1>1, <1>3, <1>4, <2>2, <3>1
  <2> QED BY <2>1, <2>2
<1>6. s \o t = u
  BY <1>1, <1>4, <1>5, SeqEqual
<1> QED
  BY <1>6 DEF s, t, u

LEMMA FourAndFour ==
  ASSUME NEW S, NEW a \in S, NEW b \in S, NEW c \in S, NEW d \in S, NEW e \in S, NEW f \in S, NEW g \in S, NEW h \in S
  PROVE  <<a, b, c, d>> \o <<e, f, g, h>> = <<a, b, c, d, e, f, g, h>>
<1> DEFINE s == <<a, b, c, d>>
           t == <<e, f, g, h>>
           u == <<a, b, c, d, e, f, g, h>>
<1>1. s \in Seq(S) /\ t \in Seq(S) /\ u \in Seq(S) /\ Len(s) = 4 /\ Len(t) = 4 /\ Len(u) = 8
  OBVIOUS
<1>2. \A n \in 1 .. 4 : u[n] = s[n]
  OBVIOUS
<1>3. \A n \in 1 .. 4 : u[4 + n] = t[n]
  OBVIOUS
<1> HIDE DEF s, t, u
<1>4. /\ s \o t \in Seq(S) /\ Len(s \o t) = Len(s) + Len(t)
      /\ \A n \in 1 .. Len(s) + Len(t) : (s \o t)[n] = IF n <= Len(s) THEN s[n] ELSE t[n - Len(s)]
  BY <1>1, ConcatProperties
<1>5. \A n \in 1 .. Len(s \o t) : (s \o t)[n] = u[n]
  <2> TAKE n \in 1 .. Len(s \o t)
  <2>1. CASE n <= 4
    BY <1>1, <1>2, <1>4, <2>1
  <2>2. CASE ~(n <= 4)
    <3>1. n - 4 \in 1 .. 4 /\ 4 + (n - 4) = n
      BY <1>1, <1>4, <2>2
    <3> QED BY <1>1, <1>3, <1>4, <2>2, <3>1
  <2> QED BY <2>1, <2>2
<1>6. s \o t = u
  BY <1>1, <1>4, <1>5, SeqEqual
<1> QED
  BY <1>6 DEF s, t, u

\* What CHR shows, window by window.
LEMMA ChrIs ==
  ASSUME BankTypes
  PROVE  ChrShown =
           LET a == Pair(R[0])
               b == Pair(R[1])
           IN  IF SwapsChr(mmc.cmd)
               THEN <<R[2] % VromBanks, R[3] % VromBanks, R[4] % VromBanks, R[5] % VromBanks,
                      a[1], a[2], b[1], b[2]>>
               ELSE <<a[1], a[2], b[1], b[2],
                      R[2] % VromBanks, R[3] % VromBanks, R[4] % VromBanks, R[5] % VromBanks>>
<1> DEFINE a == Pair(R[0])
           b == Pair(R[1])
           high == <<R[2] % VromBanks, R[3] % VromBanks, R[4] % VromBanks, R[5] % VromBanks>>
<1>1. PICK p, q, r, t : a = <<p, q>> /\ b = <<r, t>>
  BY DEF Pair
<1>2. PICK n, j, k, l : /\ n = R[2] % VromBanks /\ j = R[3] % VromBanks
                        /\ k = R[4] % VromBanks /\ l = R[5] % VromBanks
  OBVIOUS
<1>3. high = <<n, j, k, l>>
  BY <1>2
<1>4. ChrShown = IF SwapsChr(mmc.cmd) THEN high \o (a \o b) ELSE (a \o b) \o high
  BY DEF ChrShown
<1> HIDE DEF a, b, high
<1> DEFINE S == {p, q, r, t, n, j, k, l}
<1>5. p \in S /\ q \in S /\ r \in S /\ t \in S /\ n \in S /\ j \in S /\ k \in S /\ l \in S
  OBVIOUS
<1> HIDE DEF S
<1>6. <<p, q>> \o <<r, t>> = <<p, q, r, t>>
  BY <1>5, TwoAndTwo
<1>7. /\ <<p, q, r, t>> \o <<n, j, k, l>> = <<p, q, r, t, n, j, k, l>>
      /\ <<n, j, k, l>> \o <<p, q, r, t>> = <<n, j, k, l, p, q, r, t>>
  BY <1>5, FourAndFour
<1>8. ChrShown = IF SwapsChr(mmc.cmd) THEN <<n, j, k, l, p, q, r, t>> ELSE <<p, q, r, t, n, j, k, l>>
  BY <1>1, <1>3, <1>4, <1>6, <1>7
<1>9. a[1] = p /\ a[2] = q /\ b[1] = r /\ b[2] = t
  BY <1>1
<1> QED
  BY <1>2, <1>8, <1>9 DEF a, b

LEMMA ChrAlways ==
  BankTypes => ChrShown =
    IF SwapsChr(mmc.cmd)
    THEN <<R[2] % VromBanks, R[3] % VromBanks, R[4] % VromBanks, R[5] % VromBanks,
           Pair(R[0])[1], Pair(R[0])[2], Pair(R[1])[1], Pair(R[1])[2]>>
    ELSE <<Pair(R[0])[1], Pair(R[0])[2], Pair(R[1])[1], Pair(R[1])[2],
           R[2] % VromBanks, R[3] % VromBanks, R[4] % VromBanks, R[5] % VromBanks>>
BY ChrIs

\* Every value a game can write is a number, however a board moves its bits.
LEMMA TakenIs == ASSUME NEW v \in Nat PROVE Taken(v) \in Nat
<1>1. ASSUME NEW u, NEW places \in [Bits -> Nat]
      PROVE  Moved(u, places) \in Nat
  <2> DEFINE bit(k) == IF Bit(u, k) THEN places[k] ELSE 0
  <2>1. \A k \in Bits : bit(k) \in Nat
    OBVIOUS
  <2>2. bit(1) \in Nat /\ bit(2) \in Nat /\ bit(4) \in Nat /\ bit(8) \in Nat
        /\ bit(16) \in Nat /\ bit(32) \in Nat /\ bit(64) \in Nat /\ bit(128) \in Nat
    BY <2>1 DEF Bits
  <2>3. Moved(u, places) = bit(1) + bit(2) + bit(4) + bit(8) + bit(16) + bit(32) + bit(64) + bit(128)
    BY DEF Moved
  <2> HIDE DEF bit
  <2> QED BY <2>2, <2>3
<1>2. \A u : unscramble1(u) \in Nat
  <2> TAKE u
  <2> DEFINE places == [k \in Bits |-> CASE k < 4 -> k [] k = 4 -> 32 [] k = 8 -> 4 [] k = 16 -> 64
                                         [] k = 32 -> 128 [] k = 64 -> 16 [] k = 128 -> 8]
  <2>1. places \in [Bits -> Nat]
    BY DEF Bits
  <2> HIDE DEF places
  <2>2. Moved(u, places) \in Nat
    BY <1>1, <2>1
  <2> QED BY <2>2 DEF unscramble1, places
<1>3. \A u : unscramble2(u) \in Nat
  <2> TAKE u
  <2> DEFINE places == [k \in Bits |-> CASE k = 1 -> 1 [] k = 2 -> 8 [] k = 4 -> 16 [] k = 8 -> 4
                                         [] k = 16 -> 2 [] OTHER -> 0]
  <2>1. places \in [Bits -> Nat]
    BY DEF Bits
  <2> HIDE DEF places
  <2>2. Moved(u, places) \in Nat
    BY <1>1, <2>1
  <2> QED BY <2>2 DEF unscramble2, places
<1>4. unscramble3(v) \in Nat
  BY <1>2, <1>3 DEF unscramble3
<1> QED
  BY <1>2, <1>4 DEF Taken

LEMMA BoardsAtFirst == Mmc3BanksInit => BoardsInv
<1> SUFFICES ASSUME Mmc3BanksInit PROVE BoardsInv
  OBVIOUS
<1>1. /\ board \in {4, 118, 206, 245, 249} /\ behind = (board = 245)
      /\ mmc = [cmd |-> 0, bank0 |-> 0, bank1 |-> 0, bankadd |-> 0, usescramble |-> FALSE,
                lastchr |-> 0]
      /\ prg = <<Prg(0), Prg(1), Prg(-2), Prg(-1)>> /\ chr = [w \in 1 .. 8 |-> w - 1]
      /\ R = [r \in 0 .. 7 |-> CASE r = 0 -> 0 [] r \in 1 .. 5 -> IF r = 1 THEN 2 ELSE r + 2
                                 [] r = 6 -> 0 [] r = 7 -> IF board = 245 THEN 0 ELSE 1]
  BY Mmc3BanksAssumption DEF Mmc3BanksInit
<1>2. /\ R[0] = 0 /\ R[1] = 2 /\ R[2] = 4 /\ R[3] = 5 /\ R[4] = 6 /\ R[5] = 7 /\ R[6] = 0
      /\ R[7] = IF board = 245 THEN 0 ELSE 1
  BY <1>1
<1>3. BankTypes
  <2>1. R \in [0 .. 7 -> Nat]
    <3>1. \A r \in 0 .. 7 : r \in {0, 1, 2, 3, 4, 5, 6, 7}
      OBVIOUS
    <3>2. \A r \in 0 .. 7 : R[r] \in Nat
      BY <1>2, <3>1
    <3> QED BY <1>1, <3>2
  <2>2. mmc \in [cmd : Nat, bank0 : Nat, bank1 : Nat, bankadd : {0, 1}, usescramble : BOOLEAN,
                 lastchr : Nat]
    BY <1>1
  <2>3. behind \in BOOLEAN
    BY <1>1, Zenon
  <2> QED BY <1>1, <2>1, <2>2, <2>3 DEF BankTypes
<1>4. ~SwapsPrg(mmc.cmd) /\ ~SwapsChr(mmc.cmd)
  <2>1. mmc.cmd = 0
    BY <1>1
  <2> QED BY <2>1 DEF SwapsPrg, SwapsChr, Bit
<1>5. PrgInMode
  <2>1. CASE board = 245
    <3>1. mmc.bank0 = R[6] /\ mmc.bank1 = R[7] /\ mmc.bankadd = 0 /\ behind
      BY <1>1, <1>2, <2>1
    <3>2. (R[0] \div 2) % 2 = 0
      BY <1>2
    <3> QED BY <2>1, <3>1, <3>2 DEF PrgInMode
  <2>2. CASE board # 245
    <3>1. ~behind
      BY <1>1, <2>2, Zenon
    <3>2. mmc.bank0 = R[6]
      BY <1>1, <1>2
    <3>3. prg = PrgLow
      BY <1>1, <1>2, <2>2 DEF PrgLow
    <3> DEFINE swaps == SwapsPrg(mmc.cmd)
    <3>4. ~swaps /\ swaps \in BOOLEAN /\ behind \in BOOLEAN
      BY <1>3, <1>4 DEF BankTypes, SwapsPrg, Bit
    <3> HIDE DEF swaps
    <3>5. swaps = behind
      BY <3>1, <3>4
    <3> QED BY <2>2, <3>2, <3>3, <3>5 DEF PrgInMode, swaps
  <2> QED BY <2>1, <2>2
<1>6. chr = ChrShown
  <2> DEFINE a == Pair(R[0])
             b == Pair(R[1])
  <2>1. VromBanks \in Nat /\ VromBanks >= 8
    BY Mmc3BanksAssumption
  <2>2. \A n \in 0 .. 7 : n % VromBanks = n
    BY <2>1
  <2>3. a = <<0, 1>>
    <3>1. 2 * (0 \div 2) = 0
      OBVIOUS
    <3> QED BY <1>2, <2>2, <3>1 DEF Pair
  <2>4. b = <<2, 3>>
    <3>1. 2 * (2 \div 2) = 2
      OBVIOUS
    <3> QED BY <1>2, <2>2, <3>1 DEF Pair
  <2> HIDE DEF a, b
  <2>5. ChrShown = <<a[1], a[2], b[1], b[2],
                     R[2] % VromBanks, R[3] % VromBanks, R[4] % VromBanks, R[5] % VromBanks>>
    BY <1>3, <1>4, ChrIs DEF a, b
  <2>6. R[2] % VromBanks = 4 /\ R[3] % VromBanks = 5 /\ R[4] % VromBanks = 6 /\ R[5] % VromBanks = 7
    BY <1>2, <2>2
  <2>7. ChrShown = <<0, 1, 2, 3, 4, 5, 6, 7>>
    BY <2>3, <2>4, <2>5, <2>6
  <2> QED BY <1>1, <2>7
<1> QED
  BY <1>3, <1>5, <1>6 DEF BoardsInv

\* Swapping the maps is what the chip shows in the other mode.
LEMMA ChrSwaps ==
  ASSUME NEW a, NEW b, NEW c, NEW d, NEW e, NEW f, NEW g, NEW h, chr = <<a, b, c, d, e, f, g, h>>
  PROVE  ChrSwapped = <<e, f, g, h, a, b, c, d>>
BY DEF ChrSwapped

\* The halves of what CHR shows.
Half1 == <<Pair(R[0])[1], Pair(R[0])[2], Pair(R[1])[1], Pair(R[1])[2]>>
Half2 == <<R[2] % VromBanks, R[3] % VromBanks, R[4] % VromBanks, R[5] % VromBanks>>

LEMMA CommandBoards == ASSUME NEW v \in Commands, BoardsInv, WriteCommand(v) PROVE BoardsInv'
<1>0. v \in Nat /\ v % 64 \in Nat
  BY Mmc3BanksAssumption
<1>1. BankTypes /\ UNCHANGED <<board, mirroring, R>>
  BY DEF BoardsInv, WriteCommand
<1>2. CASE board = 245
  <2> DEFINE m == [mmc EXCEPT !.cmd = v]
             mode == SwapsPrg(v) # SwapsPrg(mmc.cmd)
  <2>1. /\ mmc' = m /\ behind' = (behind /\ ~mode)
        /\ prg' = IF mode THEN romswitch_245(m) ELSE prg
    BY <1>2 DEF WriteCommand, CommandSet245
  <2>2. /\ m \in [cmd : Nat, bank0 : Nat, bank1 : Nat, bankadd : {0, 1}, usescramble : BOOLEAN,
                   lastchr : Nat]
        /\ m.cmd = v /\ m.bank0 = mmc.bank0 /\ m.bank1 = mmc.bank1 /\ m.bankadd = mmc.bankadd
    BY <1>0, <1>1 DEF BankTypes
  <2>3. behind' \in BOOLEAN
    BY <2>1, Zenon
  <2>4. BankTypes'
    BY <1>1, <2>1, <2>2, <2>3 DEF BankTypes
  <2>5. ~behind' => prg' = romswitch_245(m)
    <3>1. CASE mode
      BY <2>1, <3>1
    <3>2. CASE ~mode /\ ~behind
      <4>1. prg' = romswitch_245(mmc)
        BY <1>2, <2>1, <3>2 DEF BoardsInv, PrgInMode
      <4>2. SwapsPrg(m.cmd) = SwapsPrg(mmc.cmd)
        BY <2>2, <3>2
      <4> HIDE DEF m
      <4>3. \A n : HalfOf(m, n) = HalfOf(mmc, n)
        BY <2>2 DEF HalfOf
      <4>4. romswitch_245(m) = romswitch_245(mmc)
        BY <2>2, <4>2, <4>3 DEF romswitch_245
      <4> QED BY <4>1, <4>4
    <3>3. CASE ~mode /\ behind
      BY <2>1, <3>3, Zenon
    <3> QED BY <3>1, <3>2, <3>3
  <2>6. PrgInMode'
    <3>1. romswitch_245(mmc)' = romswitch_245(m)
      BY <1>1, <2>1 DEF romswitch_245, HalfOf, Prg
    <3> HIDE DEF m, mode
    <3> QED BY <1>1, <1>2, <2>1, <2>2, <2>5, <3>1 DEF BoardsInv, PrgInMode
  <2> QED BY <1>1, <1>2, <2>4, <2>6 DEF BoardsInv
<1>3. CASE board # 245
  <2>1. PICK cmd \in Nat : CommandSet(cmd)
    BY <1>0, <1>3 DEF WriteCommand
  <2> DEFINE m == [mmc EXCEPT !.cmd = cmd]
             prgMode == SwapsPrg(cmd) # SwapsPrg(mmc.cmd)
             chrMode == SwapsChr(cmd) # SwapsChr(mmc.cmd)
  <2>2. /\ mmc' = m
        /\ chr' = IF chrMode THEN ChrSwapped ELSE chr
        /\ prg' = IF prgMode /\ ~chrMode THEN romswitch(m) ELSE prg
        /\ behind' = IF prgMode THEN chrMode /\ ~behind ELSE behind
    BY <2>1 DEF CommandSet
  <2>3. /\ m \in [cmd : Nat, bank0 : Nat, bank1 : Nat, bankadd : {0, 1}, usescramble : BOOLEAN,
                   lastchr : Nat]
        /\ m.cmd = cmd /\ m.bank0 = mmc.bank0
    BY <1>1 DEF BankTypes
  <2> DEFINE was == SwapsPrg(mmc.cmd)
             is == SwapsPrg(cmd)
  <2>4. was \in BOOLEAN /\ is \in BOOLEAN /\ behind \in BOOLEAN /\ chrMode \in BOOLEAN
    BY <1>1 DEF BankTypes, SwapsPrg, SwapsChr, Bit
  <2>5. /\ mmc.bank0 = R[6] /\ prg = IF was = behind THEN PrgLow ELSE PrgHigh
    BY <1>3 DEF BoardsInv, PrgInMode
  <2>6. romswitch(m) = IF is THEN PrgHigh ELSE PrgLow
    <3>1. PICK a, b, c, d : a = Prg(R[6]) /\ b = Prg(R[7]) /\ c = Prg(-2) /\ d = Prg(-1)
      OBVIOUS
    <3>2. prg = <<a, b, c, d>> \/ prg = <<c, b, a, d>>
      BY <2>5, <3>1 DEF PrgLow, PrgHigh
    <3>3. romswitch(m) = IF is THEN [prg EXCEPT ![1] = c, ![3] = a] ELSE [prg EXCEPT ![3] = c, ![1] = a]
      BY <2>3, <2>5, <3>1 DEF romswitch
    <3> HIDE DEF is, m
    <3>a. /\ [<<a, b, c, d>> EXCEPT ![1] = c, ![3] = a] = <<c, b, a, d>>
          /\ [<<c, b, a, d>> EXCEPT ![1] = c, ![3] = a] = <<c, b, a, d>>
          /\ [<<a, b, c, d>> EXCEPT ![3] = c, ![1] = a] = <<a, b, c, d>>
          /\ [<<c, b, a, d>> EXCEPT ![3] = c, ![1] = a] = <<a, b, c, d>>
      OBVIOUS
    <3>4. romswitch(m) = IF is THEN <<c, b, a, d>> ELSE <<a, b, c, d>>
      BY <3>2, <3>3, <3>a, Zenon
    <3> QED BY <3>1, <3>4 DEF PrgLow, PrgHigh
  <2>7. behind' \in BOOLEAN
    BY <2>2, <2>4, Zenon
  <2>8. BankTypes'
    BY <1>1, <2>2, <2>3, <2>7 DEF BankTypes
  <2>9. PrgInMode'
    <3>1. mmc'.bank0 = R'[6] /\ SwapsPrg(mmc.cmd)' = is /\ PrgLow' = PrgLow /\ PrgHigh' = PrgHigh
      BY <1>1, <2>2, <2>3, <2>5 DEF PrgLow, PrgHigh, Prg, SwapsPrg, Bit
    <3>2. prg' = IF is = behind' THEN PrgLow ELSE PrgHigh
      <4> HIDE DEF was, is, chrMode, m
      <4>1. /\ prg' = IF is # was /\ ~chrMode THEN romswitch(m) ELSE prg
            /\ behind' = IF is # was THEN chrMode /\ ~behind ELSE behind
        BY <2>2 DEF was, is, chrMode, m
      <4>2. CASE is = was
        BY <2>5, <4>1, <4>2
      <4>3. CASE is # was /\ chrMode
        <5>1. prg' = prg /\ behind' = (~behind)
          BY <4>1, <4>3, Zenon
        <5>2. (is = behind') <=> (was = behind)
          BY <2>4, <4>3, <5>1
        <5> QED BY <2>5, <5>1, <5>2
      <4>4. CASE is # was /\ ~chrMode
        <5>1. prg' = romswitch(m) /\ ~behind'
          BY <4>1, <4>4, Zenon
        <5>2. (is = behind') <=> ~is
          BY <2>4, <2>7, <5>1
        <5> QED BY <2>6, <5>1, <5>2
      <4> QED BY <4>2, <4>3, <4>4
    <3> QED BY <1>1, <1>3, <3>1, <3>2 DEF PrgInMode
  <2>10. chr' = ChrShown'
    <3>1. PICK a, b, c, d, e, f, g, h :
            /\ <<a, b, c, d>> = Half1 /\ <<e, f, g, h>> = Half2
      BY DEF Half1, Half2
    <3>2. /\ ChrShown = IF SwapsChr(mmc.cmd) THEN <<e, f, g, h, a, b, c, d>> ELSE <<a, b, c, d, e, f, g, h>>
      BY <1>1, <3>1, ChrIs DEF Half1, Half2
    <3>3. ChrShown' = IF SwapsChr(cmd) THEN <<e, f, g, h, a, b, c, d>> ELSE <<a, b, c, d, e, f, g, h>>
      <4>1. (BankTypes => ChrShown = IF SwapsChr(mmc.cmd)
                    THEN <<R[2] % VromBanks, R[3] % VromBanks, R[4] % VromBanks, R[5] % VromBanks,
                           Pair(R[0])[1], Pair(R[0])[2], Pair(R[1])[1], Pair(R[1])[2]>>
                    ELSE <<Pair(R[0])[1], Pair(R[0])[2], Pair(R[1])[1], Pair(R[1])[2],
                           R[2] % VromBanks, R[3] % VromBanks, R[4] % VromBanks, R[5] % VromBanks>>)'
        BY ChrAlways, PTL
      <4>2. mmc'.cmd = cmd /\ R' = R
        BY <1>1, <2>2, <2>3
      <4> QED BY <2>8, <3>1, <4>1, <4>2 DEF Half1, Half2, Pair, SwapsChr, Bit
    <3>4. chr = ChrShown
      BY <1>3 DEF BoardsInv
    <3>5. CASE chrMode
      <4>1. CASE SwapsChr(mmc.cmd)
        <5>1. ~SwapsChr(cmd) /\ chr = <<e, f, g, h, a, b, c, d>>
          BY <3>2, <3>4, <3>5, <4>1
        <5>2. ChrSwapped = <<a, b, c, d, e, f, g, h>>
          BY <5>1, ChrSwaps
        <5> QED BY <2>2, <3>3, <3>5, <5>1, <5>2
      <4>2. CASE ~SwapsChr(mmc.cmd)
        <5>1. SwapsChr(cmd) /\ chr = <<a, b, c, d, e, f, g, h>>
          BY <3>2, <3>4, <3>5, <4>2 DEF SwapsChr, Bit
        <5>2. ChrSwapped = <<e, f, g, h, a, b, c, d>>
          BY <5>1, ChrSwaps
        <5> QED BY <2>2, <3>3, <3>5, <5>1, <5>2
      <4> QED BY <4>1, <4>2
    <3>6. CASE ~chrMode
      BY <2>2, <3>2, <3>3, <3>4, <3>6
    <3> QED BY <3>5, <3>6
  <2> QED BY <1>1, <1>3, <2>8, <2>9, <2>10 DEF BoardsInv
<1> QED
  BY <1>2, <1>3

\* A value in register r shows in its windows.
LEMMA ChrTakes ==
  ASSUME BankTypes, chr = ChrShown, NEW t, NEW r \in 0 .. 5, Reg = r,
         BankTypes', mmc'.cmd = mmc.cmd, R' = [R EXCEPT ![r] = t]
  PROVE  ChrWith(r, t) = ChrShown'
<1>1. PICK a, b, c, d, e, f, g, h : <<a, b, c, d>> = Half1 /\ <<e, f, g, h>> = Half2
  BY DEF Half1, Half2
<1>2. /\ a = Pair(R[0])[1] /\ b = Pair(R[0])[2] /\ c = Pair(R[1])[1] /\ d = Pair(R[1])[2]
      /\ e = R[2] % VromBanks /\ f = R[3] % VromBanks /\ g = R[4] % VromBanks /\ h = R[5] % VromBanks
  BY <1>1 DEF Half1, Half2
<1>3. PICK x, y, z : x = Pair(t)[1] /\ y = Pair(t)[2] /\ z = t % VromBanks
  OBVIOUS
<1>4. chr = IF SwapsChr(mmc.cmd) THEN <<e, f, g, h, a, b, c, d>> ELSE <<a, b, c, d, e, f, g, h>>
  BY <1>2, ChrIs
<1>5. ChrShown' =
        IF SwapsChr(mmc.cmd)
        THEN <<R'[2] % VromBanks, R'[3] % VromBanks, R'[4] % VromBanks, R'[5] % VromBanks,
               Pair(R'[0])[1], Pair(R'[0])[2], Pair(R'[1])[1], Pair(R'[1])[2]>>
        ELSE <<Pair(R'[0])[1], Pair(R'[0])[2], Pair(R'[1])[1], Pair(R'[1])[2],
               R'[2] % VromBanks, R'[3] % VromBanks, R'[4] % VromBanks, R'[5] % VromBanks>>
  <2>1. (BankTypes => ChrShown =
           IF SwapsChr(mmc.cmd)
           THEN <<R[2] % VromBanks, R[3] % VromBanks, R[4] % VromBanks, R[5] % VromBanks,
                  Pair(R[0])[1], Pair(R[0])[2], Pair(R[1])[1], Pair(R[1])[2]>>
           ELSE <<Pair(R[0])[1], Pair(R[0])[2], Pair(R[1])[1], Pair(R[1])[2],
                  R[2] % VromBanks, R[3] % VromBanks, R[4] % VromBanks, R[5] % VromBanks>>)'
    BY ChrAlways, PTL
  <2> QED BY <2>1 DEF SwapsChr, Bit, Pair
<1>6. \A n \in 0 .. 7 : R'[n] = IF n = r THEN t ELSE R[n]
  BY DEF BankTypes
<1>7. PICK w, v : w = WindowOf(r, SwapsChr(mmc.cmd)) /\ v = w + 1
  OBVIOUS
<1>10. ChrWith(r, t) = IF r < 2 THEN [chr EXCEPT ![w] = x, ![v] = y] ELSE [chr EXCEPT ![w] = z]
  BY <1>3, <1>7 DEF ChrWith
<1>8. CASE SwapsChr(mmc.cmd)
  <2>0. chr = <<e, f, g, h, a, b, c, d>>
    BY <1>4, <1>8
  <2>1. CASE r = 0
    <3>1. ChrWith(r, t) = <<e, f, g, h, x, y, c, d>>
      <4>1. w = 5 /\ v = 6
        BY <1>7, <1>8, <2>1 DEF WindowOf
      <4>2. ChrWith(r, t) = [chr EXCEPT ![5] = x, ![6] = y]
        BY <1>10, <2>1, <4>1
      <4>3. [<<e, f, g, h, a, b, c, d>> EXCEPT ![5] = x, ![6] = y] = <<e, f, g, h, x, y, c, d>>
        OBVIOUS
      <4> QED BY <2>0, <4>2, <4>3
    <3>2. ChrShown' = <<e, f, g, h, x, y, c, d>>
      BY <1>2, <1>3, <1>5, <1>6, <1>8, <2>1
    <3> QED BY <3>1, <3>2
  <2>2. CASE r = 1
    <3>1. ChrWith(r, t) = <<e, f, g, h, a, b, x, y>>
      <4>1. w = 7 /\ v = 8
        BY <1>7, <1>8, <2>2 DEF WindowOf
      <4>2. ChrWith(r, t) = [chr EXCEPT ![7] = x, ![8] = y]
        BY <1>10, <2>2, <4>1
      <4>3. [<<e, f, g, h, a, b, c, d>> EXCEPT ![7] = x, ![8] = y] = <<e, f, g, h, a, b, x, y>>
        OBVIOUS
      <4> QED BY <2>0, <4>2, <4>3
    <3>2. ChrShown' = <<e, f, g, h, a, b, x, y>>
      BY <1>2, <1>3, <1>5, <1>6, <1>8, <2>2
    <3> QED BY <3>1, <3>2
  <2>3. CASE r = 2
    <3>1. ChrWith(r, t) = <<z, f, g, h, a, b, c, d>>
      <4>1. w = 1
        BY <1>7, <1>8, <2>3 DEF WindowOf
      <4>2. ChrWith(r, t) = [chr EXCEPT ![1] = z]
        BY <1>10, <2>3, <4>1
      <4>3. [<<e, f, g, h, a, b, c, d>> EXCEPT ![1] = z] = <<z, f, g, h, a, b, c, d>>
        OBVIOUS
      <4> QED BY <2>0, <4>2, <4>3
    <3>2. ChrShown' = <<z, f, g, h, a, b, c, d>>
      BY <1>2, <1>3, <1>5, <1>6, <1>8, <2>3
    <3> QED BY <3>1, <3>2
  <2>4. CASE r = 3
    <3>1. ChrWith(r, t) = <<e, z, g, h, a, b, c, d>>
      <4>1. w = 2
        BY <1>7, <1>8, <2>4 DEF WindowOf
      <4>2. ChrWith(r, t) = [chr EXCEPT ![2] = z]
        BY <1>10, <2>4, <4>1
      <4>3. [<<e, f, g, h, a, b, c, d>> EXCEPT ![2] = z] = <<e, z, g, h, a, b, c, d>>
        OBVIOUS
      <4> QED BY <2>0, <4>2, <4>3
    <3>2. ChrShown' = <<e, z, g, h, a, b, c, d>>
      BY <1>2, <1>3, <1>5, <1>6, <1>8, <2>4
    <3> QED BY <3>1, <3>2
  <2>5. CASE r = 4
    <3>1. ChrWith(r, t) = <<e, f, z, h, a, b, c, d>>
      <4>1. w = 3
        BY <1>7, <1>8, <2>5 DEF WindowOf
      <4>2. ChrWith(r, t) = [chr EXCEPT ![3] = z]
        BY <1>10, <2>5, <4>1
      <4>3. [<<e, f, g, h, a, b, c, d>> EXCEPT ![3] = z] = <<e, f, z, h, a, b, c, d>>
        OBVIOUS
      <4> QED BY <2>0, <4>2, <4>3
    <3>2. ChrShown' = <<e, f, z, h, a, b, c, d>>
      BY <1>2, <1>3, <1>5, <1>6, <1>8, <2>5
    <3> QED BY <3>1, <3>2
  <2>6. CASE r = 5
    <3>1. ChrWith(r, t) = <<e, f, g, z, a, b, c, d>>
      <4>1. w = 4
        BY <1>7, <1>8, <2>6 DEF WindowOf
      <4>2. ChrWith(r, t) = [chr EXCEPT ![4] = z]
        BY <1>10, <2>6, <4>1
      <4>3. [<<e, f, g, h, a, b, c, d>> EXCEPT ![4] = z] = <<e, f, g, z, a, b, c, d>>
        OBVIOUS
      <4> QED BY <2>0, <4>2, <4>3
    <3>2. ChrShown' = <<e, f, g, z, a, b, c, d>>
      BY <1>2, <1>3, <1>5, <1>6, <1>8, <2>6
    <3> QED BY <3>1, <3>2
  <2>7. r \in {0, 1, 2, 3, 4, 5}
    OBVIOUS
  <2> QED BY <2>1, <2>2, <2>3, <2>4, <2>5, <2>6, <2>7
<1>9. CASE ~SwapsChr(mmc.cmd)
  <2>0. chr = <<a, b, c, d, e, f, g, h>>
    BY <1>4, <1>9
  <2>1. CASE r = 0
    <3>1. ChrWith(r, t) = <<x, y, c, d, e, f, g, h>>
      <4>1. w = 1 /\ v = 2
        BY <1>7, <1>9, <2>1 DEF WindowOf
      <4>2. ChrWith(r, t) = [chr EXCEPT ![1] = x, ![2] = y]
        BY <1>10, <2>1, <4>1
      <4>3. [<<a, b, c, d, e, f, g, h>> EXCEPT ![1] = x, ![2] = y] = <<x, y, c, d, e, f, g, h>>
        OBVIOUS
      <4> QED BY <2>0, <4>2, <4>3
    <3>2. ChrShown' = <<x, y, c, d, e, f, g, h>>
      BY <1>2, <1>3, <1>5, <1>6, <1>9, <2>1
    <3> QED BY <3>1, <3>2
  <2>2. CASE r = 1
    <3>1. ChrWith(r, t) = <<a, b, x, y, e, f, g, h>>
      <4>1. w = 3 /\ v = 4
        BY <1>7, <1>9, <2>2 DEF WindowOf
      <4>2. ChrWith(r, t) = [chr EXCEPT ![3] = x, ![4] = y]
        BY <1>10, <2>2, <4>1
      <4>3. [<<a, b, c, d, e, f, g, h>> EXCEPT ![3] = x, ![4] = y] = <<a, b, x, y, e, f, g, h>>
        OBVIOUS
      <4> QED BY <2>0, <4>2, <4>3
    <3>2. ChrShown' = <<a, b, x, y, e, f, g, h>>
      BY <1>2, <1>3, <1>5, <1>6, <1>9, <2>2
    <3> QED BY <3>1, <3>2
  <2>3. CASE r = 2
    <3>1. ChrWith(r, t) = <<a, b, c, d, z, f, g, h>>
      <4>1. w = 5
        BY <1>7, <1>9, <2>3 DEF WindowOf
      <4>2. ChrWith(r, t) = [chr EXCEPT ![5] = z]
        BY <1>10, <2>3, <4>1
      <4>3. [<<a, b, c, d, e, f, g, h>> EXCEPT ![5] = z] = <<a, b, c, d, z, f, g, h>>
        OBVIOUS
      <4> QED BY <2>0, <4>2, <4>3
    <3>2. ChrShown' = <<a, b, c, d, z, f, g, h>>
      BY <1>2, <1>3, <1>5, <1>6, <1>9, <2>3
    <3> QED BY <3>1, <3>2
  <2>4. CASE r = 3
    <3>1. ChrWith(r, t) = <<a, b, c, d, e, z, g, h>>
      <4>1. w = 6
        BY <1>7, <1>9, <2>4 DEF WindowOf
      <4>2. ChrWith(r, t) = [chr EXCEPT ![6] = z]
        BY <1>10, <2>4, <4>1
      <4>3. [<<a, b, c, d, e, f, g, h>> EXCEPT ![6] = z] = <<a, b, c, d, e, z, g, h>>
        OBVIOUS
      <4> QED BY <2>0, <4>2, <4>3
    <3>2. ChrShown' = <<a, b, c, d, e, z, g, h>>
      BY <1>2, <1>3, <1>5, <1>6, <1>9, <2>4
    <3> QED BY <3>1, <3>2
  <2>5. CASE r = 4
    <3>1. ChrWith(r, t) = <<a, b, c, d, e, f, z, h>>
      <4>1. w = 7
        BY <1>7, <1>9, <2>5 DEF WindowOf
      <4>2. ChrWith(r, t) = [chr EXCEPT ![7] = z]
        BY <1>10, <2>5, <4>1
      <4>3. [<<a, b, c, d, e, f, g, h>> EXCEPT ![7] = z] = <<a, b, c, d, e, f, z, h>>
        OBVIOUS
      <4> QED BY <2>0, <4>2, <4>3
    <3>2. ChrShown' = <<a, b, c, d, e, f, z, h>>
      BY <1>2, <1>3, <1>5, <1>6, <1>9, <2>5
    <3> QED BY <3>1, <3>2
  <2>6. CASE r = 5
    <3>1. ChrWith(r, t) = <<a, b, c, d, e, f, g, z>>
      <4>1. w = 8
        BY <1>7, <1>9, <2>6 DEF WindowOf
      <4>2. ChrWith(r, t) = [chr EXCEPT ![8] = z]
        BY <1>10, <2>6, <4>1
      <4>3. [<<a, b, c, d, e, f, g, h>> EXCEPT ![8] = z] = <<a, b, c, d, e, f, g, z>>
        OBVIOUS
      <4> QED BY <2>0, <4>2, <4>3
    <3>2. ChrShown' = <<a, b, c, d, e, f, g, z>>
      BY <1>2, <1>3, <1>5, <1>6, <1>9, <2>6
    <3> QED BY <3>1, <3>2
  <2>7. r \in {0, 1, 2, 3, 4, 5}
    OBVIOUS
  <2> QED BY <2>1, <2>2, <2>3, <2>4, <2>5, <2>6, <2>7
<1> QED
  BY <1>8, <1>9

LEMMA BankBoards == ASSUME NEW v \in BankValues, BoardsInv, WriteBank(v) PROVE BoardsInv'
<1> DEFINE t == Taken(v)
           m == CASE board = 245 /\ Reg = 0 -> [mmc EXCEPT !.bankadd = (t \div 2) % 2]
                  [] Reg = 6 -> [mmc EXCEPT !.bank0 = t]
                  [] board = 245 /\ Reg = 7 -> [mmc EXCEPT !.bank1 = t]
                  [] Mirrors -> [mmc EXCEPT !.lastchr = t]
                  [] OTHER -> mmc
<1>1. t \in Nat
  BY TakenIs, Mmc3BanksAssumption
<1>2. BankTypes /\ board' = board /\ R' = [R EXCEPT ![Reg] = t]
  BY DEF BoardsInv, WriteBank
<1>3. /\ mmc' = m
      /\ prg' = CASE board = 245 /\ Reg \in {0, 6, 7} -> romswitch_245(m)
                  [] board # 245 /\ Reg = 6 -> romswitch(m)
                  [] board # 245 /\ Reg = 7 -> [prg EXCEPT ![2] = Prg(t)]
                  [] OTHER -> prg
      /\ chr' = IF board # 245 /\ Reg < 6 THEN ChrWith(Reg, t) ELSE chr
      /\ behind' = (behind /\ Reg # 6 /\ (board = 245 => Reg \notin {0, 7}))
  BY DEF WriteBank, BankSet
<1> HIDE DEF t
<1>4. PICK r \in 0 .. 7 : r = Reg
  BY <1>2 DEF Reg, BankTypes
<1>5. (t \div 2) % 2 \in {0, 1}
  BY <1>1
<1>6. /\ m \in [cmd : Nat, bank0 : Nat, bank1 : Nat, bankadd : {0, 1}, usescramble : BOOLEAN,
                 lastchr : Nat]
      /\ m.cmd = mmc.cmd
      /\ m.bankadd = IF board = 245 /\ r = 0 THEN (t \div 2) % 2 ELSE mmc.bankadd
      /\ m.bank0 = IF r = 6 THEN t ELSE mmc.bank0
      /\ board = 245 => m.bank1 = IF r = 7 THEN t ELSE mmc.bank1
      /\ board = 245 /\ r \notin {0, 6, 7} => m = mmc
  <2>0. mmc \in [cmd : Nat, bank0 : Nat, bank1 : Nat, bankadd : {0, 1}, usescramble : BOOLEAN,
                 lastchr : Nat]
    BY <1>2 DEF BankTypes
  <2>1. CASE board = 245 /\ r = 0
    <3>1. m = [mmc EXCEPT !.bankadd = (t \div 2) % 2]
      BY <1>4, <2>1 DEF Mirrors
    <3> HIDE DEF m
    <3> QED BY <1>5, <2>0, <2>1, <3>1
  <2>2. CASE r = 6
    <3>1. m = [mmc EXCEPT !.bank0 = t]
      BY <1>4, <2>2 DEF Mirrors
    <3> HIDE DEF m
    <3> QED BY <1>1, <2>0, <2>2, <3>1
  <2>3. CASE board = 245 /\ r = 7
    <3>1. m = [mmc EXCEPT !.bank1 = t]
      BY <1>4, <2>3 DEF Mirrors
    <3> HIDE DEF m
    <3> QED BY <1>1, <2>0, <2>3, <3>1
  <2>4. CASE ~(board = 245 /\ r = 0) /\ r # 6 /\ ~(board = 245 /\ r = 7)
    <3>1. m = IF Mirrors THEN [mmc EXCEPT !.lastchr = t] ELSE mmc
      BY <1>4, <2>4
    <3>2. Mirrors => board = 118
      BY DEF Mirrors
    <3> HIDE DEF m
    <3>3. CASE Mirrors
      BY <1>1, <2>0, <2>4, <3>1, <3>2, <3>3
    <3>4. CASE ~Mirrors
      BY <2>0, <2>4, <3>1, <3>4
    <3> QED BY <3>3, <3>4
  <2> QED BY <2>1, <2>2, <2>3, <2>4
<1> HIDE DEF m
<1>7. behind' \in BOOLEAN
  BY <1>3, Zenon
<1>8. R' \in [0 .. 7 -> Nat] /\ \A n \in 0 .. 7 : R'[n] = IF n = r THEN t ELSE R[n]
  BY <1>1, <1>2, <1>4 DEF BankTypes
<1>9. BankTypes'
  BY <1>2, <1>3, <1>6, <1>7, <1>8 DEF BankTypes
<1>10. CASE board = 245
  <2>1. romswitch_245(mmc)' = romswitch_245(m)
    BY <1>2, <1>3 DEF romswitch_245, HalfOf, Prg
  <2>2. ~behind' => prg' = romswitch_245(m)
    <3>1. CASE r \in {0, 6, 7}
      BY <1>3, <1>4, <1>10, <3>1
    <3>2. CASE r \notin {0, 6, 7}
      <4>1. prg' = prg /\ m = mmc
        BY <1>3, <1>4, <1>6, <1>10, <3>2
      <4>2. behind' = behind
        <5>1. behind \in BOOLEAN
          BY <1>2 DEF BankTypes
        <5> QED BY <1>3, <1>4, <1>10, <3>2, <5>1, Zenon
      <4> QED BY <1>10, <4>1, <4>2 DEF BoardsInv, PrgInMode
    <3> QED BY <3>1, <3>2
  <2>3. mmc'.bank0 = R'[6] /\ mmc'.bank1 = R'[7] /\ mmc'.bankadd = (R'[0] \div 2) % 2
    BY <1>3, <1>6, <1>8, <1>10 DEF BoardsInv, PrgInMode
  <2>4. PrgInMode'
    BY <1>2, <1>3, <1>10, <2>1, <2>2, <2>3 DEF PrgInMode
  <2> QED BY <1>2, <1>9, <1>10, <2>4 DEF BoardsInv
<1>11. CASE board # 245
  <2>0. /\ mmc.bank0 = R[6] /\ prg = IF SwapsPrg(mmc.cmd) = behind THEN PrgLow ELSE PrgHigh
        /\ chr = ChrShown
    BY <1>11 DEF BoardsInv, PrgInMode
  <2>1. mmc'.bank0 = R'[6] /\ mmc'.cmd = mmc.cmd /\ SwapsPrg(mmc.cmd)' = SwapsPrg(mmc.cmd)
    BY <1>3, <1>6, <1>8, <2>0 DEF SwapsPrg, Bit
  <2>2. behind' = (behind /\ r # 6)
    BY <1>3, <1>4, <1>11, Zenon
  <2>3. prg' = IF SwapsPrg(mmc.cmd) = behind' THEN PrgLow' ELSE PrgHigh'
    <3> DEFINE swaps == SwapsPrg(mmc.cmd)
    <3>0. swaps \in BOOLEAN /\ behind \in BOOLEAN
      BY <1>2 DEF BankTypes, SwapsPrg, Bit
    <3>1. PICK a, b, c, d, x : a = Prg(R[6]) /\ b = Prg(R[7]) /\ c = Prg(-2) /\ d = Prg(-1) /\ x = Prg(t)
      OBVIOUS
    <3>2. prg = IF swaps = behind THEN <<a, b, c, d>> ELSE <<c, b, a, d>>
      BY <2>0, <3>1 DEF PrgLow, PrgHigh
    <3>3. PrgLow' = <<Prg(R'[6]), Prg(R'[7]), c, d>> /\ PrgHigh' = <<c, Prg(R'[7]), Prg(R'[6]), d>>
      BY <3>1 DEF PrgLow, PrgHigh, Prg
    <3>4. CASE r = 6
      <4>1. prg' = romswitch(m) /\ m.bank0 = t /\ m.cmd = mmc.cmd
        BY <1>3, <1>4, <1>6, <1>11, <3>4
      <4>2. prg' = IF swaps THEN [prg EXCEPT ![1] = c, ![3] = x] ELSE [prg EXCEPT ![3] = c, ![1] = x]
        BY <3>1, <4>1 DEF romswitch
      <4> HIDE DEF swaps
      <4>3. /\ [<<a, b, c, d>> EXCEPT ![1] = c, ![3] = x] = <<c, b, x, d>>
            /\ [<<c, b, a, d>> EXCEPT ![1] = c, ![3] = x] = <<c, b, x, d>>
            /\ [<<a, b, c, d>> EXCEPT ![3] = c, ![1] = x] = <<x, b, c, d>>
            /\ [<<c, b, a, d>> EXCEPT ![3] = c, ![1] = x] = <<x, b, c, d>>
        OBVIOUS
      <4>4. prg' = IF swaps THEN <<c, b, x, d>> ELSE <<x, b, c, d>>
        BY <3>2, <4>2, <4>3, Zenon
      <4>5. PrgLow' = <<x, b, c, d>> /\ PrgHigh' = <<c, b, x, d>>
        BY <1>8, <3>1, <3>3, <3>4
      <4>6. (swaps = behind') <=> ~swaps
        BY <2>2, <3>0, <3>4
      <4> QED BY <4>4, <4>5, <4>6 DEF swaps
    <3>5. CASE r = 7
      <4>1. prg' = [prg EXCEPT ![2] = x]
        BY <1>3, <1>4, <1>11, <3>1, <3>5
      <4> HIDE DEF swaps
      <4>3. /\ [<<a, b, c, d>> EXCEPT ![2] = x] = <<a, x, c, d>>
            /\ [<<c, b, a, d>> EXCEPT ![2] = x] = <<c, x, a, d>>
        OBVIOUS
      <4>4. prg' = IF swaps = behind THEN <<a, x, c, d>> ELSE <<c, x, a, d>>
        BY <3>2, <4>1, <4>3, Zenon
      <4>5. PrgLow' = <<a, x, c, d>> /\ PrgHigh' = <<c, x, a, d>>
        BY <1>8, <3>1, <3>3, <3>5
      <4>6. behind' = behind
        BY <2>2, <3>0, <3>5
      <4> QED BY <4>4, <4>5, <4>6 DEF swaps
    <3>6. CASE r \notin {6, 7}
      <4>1. prg' = prg
        BY <1>3, <1>4, <1>11, <3>6
      <4>2. PrgLow' = <<a, b, c, d>> /\ PrgHigh' = <<c, b, a, d>>
        BY <1>8, <3>1, <3>3, <3>6
      <4>3. behind' = behind
        BY <2>2, <3>0, <3>6
      <4> HIDE DEF swaps
      <4> QED BY <3>2, <4>1, <4>2, <4>3 DEF swaps
    <3> QED BY <3>4, <3>5, <3>6
  <2>4. PrgInMode'
    BY <1>2, <1>11, <2>1, <2>3 DEF PrgInMode
  <2>5. chr' = ChrShown'
    <3>1. CASE r \in 0 .. 5
      <4>1. chr' = ChrWith(r, t)
        BY <1>3, <1>4, <1>11, <3>1
      <4>2. Reg = r /\ R' = [R EXCEPT ![r] = t]
        BY <1>2, <1>4
      <4> QED BY <1>2, <1>9, <2>0, <2>1, <3>1, <4>1, <4>2, ChrTakes
    <3>2. CASE r \in {6, 7}
      <4>1. chr' = chr
        BY <1>3, <1>4, <3>2
      <4>2. \A n \in 0 .. 5 : R'[n] = R[n]
        BY <1>8, <3>2
      <4>3. ChrShown' = ChrShown
        BY <2>1, <4>2 DEF ChrShown, SwapsChr, Bit, Pair
      <4> QED BY <2>0, <4>1, <4>3
    <3> QED BY <3>1, <3>2
  <2> QED BY <1>2, <1>9, <1>11, <2>4, <2>5 DEF BoardsInv
<1> QED
  BY <1>10, <1>11

LEMMA BoardsKept ==
  ASSUME BoardsInv, UNCHANGED <<board, prg, chr, R, behind>>, mmc'.cmd = mmc.cmd,
         mmc' \in [cmd : Nat, bank0 : Nat, bank1 : Nat, bankadd : {0, 1}, usescramble : BOOLEAN,
                   lastchr : Nat],
         mmc'.bank0 = mmc.bank0, mmc'.bank1 = mmc.bank1, mmc'.bankadd = mmc.bankadd
  PROVE  BoardsInv'
<1>1. BankTypes'
  BY DEF BoardsInv, BankTypes
<1>2. PrgLow' = PrgLow /\ PrgHigh' = PrgHigh /\ SwapsPrg(mmc.cmd)' = SwapsPrg(mmc.cmd)
      /\ ChrShown' = ChrShown /\ romswitch_245(mmc)' = romswitch_245(mmc)
  BY DEF PrgLow, PrgHigh, Prg, SwapsPrg, Bit, ChrShown, SwapsChr, Pair, romswitch_245, HalfOf
<1> QED
  BY <1>1, <1>2 DEF BoardsInv, PrgInMode

LEMMA MirroringBoards == ASSUME NEW v, BoardsInv, WriteMirroring(v) PROVE BoardsInv'
<1>1. UNCHANGED <<board, mmc, prg, chr, R, behind, bankWrites>>
  BY DEF WriteMirroring
<1> QED
  BY <1>1, BoardsKept DEF BoardsInv, BankTypes

LEMMA ScrambleBoards == ASSUME NEW v, BoardsInv, WriteScramble(v) PROVE BoardsInv'
<1>1. mmc' = [mmc EXCEPT !.usescramble = Bit(v, 2)] /\ UNCHANGED <<board, prg, chr, mirroring, R, behind>>
  BY DEF WriteScramble
<1>2. Bit(v, 2) \in BOOLEAN
  BY DEF Bit
<1>3. /\ mmc' \in [cmd : Nat, bank0 : Nat, bank1 : Nat, bankadd : {0, 1}, usescramble : BOOLEAN,
                    lastchr : Nat]
      /\ mmc'.cmd = mmc.cmd /\ mmc'.bank0 = mmc.bank0 /\ mmc'.bank1 = mmc.bank1
      /\ mmc'.bankadd = mmc.bankadd
  BY <1>1, <1>2 DEF BoardsInv, BankTypes
<1> QED
  BY <1>1, <1>3, BoardsKept

LEMMA BoardsNext == BoardsInv /\ [Mmc3BanksNext]_mmcBankVars => BoardsInv'
<1> SUFFICES ASSUME BoardsInv, [Mmc3BanksNext]_mmcBankVars PROVE BoardsInv'
  OBVIOUS
<1>1. CASE UNCHANGED mmcBankVars
  BY <1>1, BoardsKept DEF mmcBankVars, BoardsInv, BankTypes
<1> QED
  BY <1>1, CommandBoards, BankBoards, MirroringBoards, ScrambleBoards DEF Mmc3BanksNext

\* map4.s: for lines, lead times and ROMs of any size, whenever a game writes which register,
\* PocketNES's MMC3 counts lines and shows banks as the chip does.
THEOREM CountsAndShows == Mmc3Spec => []AsAnMmc3
<1> DEFINE Inv == LinesInv /\ BoardsInv
<1>1. Mmc3Init => Inv
  BY LinesAtFirst, BoardsAtFirst DEF Mmc3Init
<1>2. Inv /\ [Mmc3Next]_<<mmcIrqVars, mmcBankVars>> => Inv'
  BY LinesNext, BoardsNext DEF Mmc3Next
<1>3. Inv => AsAnMmc3
  BY BanksAreShown DEF LinesInv, AsAnMmc3
<1> QED
  BY <1>1, <1>2, <1>3, PTL DEF Mmc3Spec

-----------------------------------------------------------------------------
(* The list of time-outs.                                                    *)

\* A set of natural numbers has a smallest element.
LEMMA SmallestOf ==
  ASSUME NEW S \in SUBSET Nat, S # {}
  PROVE  \E x \in S : \A y \in S : x <= y
<1> DEFINE upto(x) == {y \in S : y <= x}
           family == {upto(x) : x \in S}
<1>1. family \subseteq FiniteSubsetsOf(Nat) /\ family # {}
  <2>1. ASSUME NEW x \in S PROVE upto(x) \in SUBSET Nat /\ IsFiniteSet(upto(x))
    <3>1. x \in Nat /\ 0 \in Int /\ x \in Int
      BY <2>1
    <3>2. IsFiniteSet(0 .. x)
      BY <3>1, FS_Interval, Zenon
    <3>3. \A y \in upto(x) : y \in Nat /\ y <= x
      OBVIOUS
    <3>4. upto(x) \in SUBSET (0 .. x) /\ upto(x) \in SUBSET Nat
      <4> HIDE DEF upto
      <4> QED
        BY <3>1, <3>3
    <3> QED
      BY <3>2, <3>4, FS_Subset
  <2> QED
    BY <2>1 DEF FiniteSubsetsOf
<1>2. PICK T \in family : \A U \in family : ~(<<U, T>> \in StrictSubsetOrdering(Nat))
  BY <1>1, WFMin, FS_StrictSubsetOrderingWellFounded
<1>3. PICK x \in S : T = upto(x)
  BY <1>2
<1>4. ASSUME NEW y \in S, ~(x <= y) PROVE FALSE
  <2>0. x \in Nat /\ y \in Nat /\ y <= x /\ x <= x
    BY <1>3, <1>4
  <2>1. upto(y) \subseteq T /\ x \in T /\ x \notin upto(y)
    <3>1. \A z \in S : z <= y => z <= x
      BY <2>0
    <3>2. ~(x <= y)
      BY <1>4
    <3> QED
      BY <1>3, <2>0, <3>1, <3>2, Zenon
  <2>2. upto(y) \in family /\ upto(y) \in SUBSET Nat /\ T \in SUBSET Nat
    BY <1>3
  <2>3. <<upto(y), T>> \in StrictSubsetOrdering(Nat)
    BY <2>1, <2>2 DEF StrictSubsetOrdering
  <2> QED
    BY <1>2, <2>2, <2>3
<1> QED
  BY <1>4

\* A list of time-outs: where its nodes are, and what the routines take and leave.
Spot(base, n) == base + 4 + 12 * n

TimeoutList == [time : Int, run : Int, left : Int, first : Int,
                node : [Node -> [handler : Int, due : Int, next : Int]]]

\* The nodes in the order of the list: those that are queued, each once, by their times, with
\* the countdown to the first.
Listed(q, base, L, c) ==
  /\ L \in 1 .. Timers + 1 /\ c \in [1 .. L -> Node]
  /\ \A v, j \in 1 .. L : c[v] = c[j] => v = j
  /\ q.first = Spot(base, c[1])
  /\ \A v \in 1 .. L : q.node[c[v]].next = IF v = L THEN Null ELSE Spot(base, c[v + 1])
  /\ \A n \in Node : Queued(q.node, n) <=> \E v \in 1 .. L : c[v] = n
  /\ \A v, j \in 1 .. L : v <= j => q.node[c[v]].due <= q.node[c[j]].due
  /\ q.time + q.run = q.node[c[1]].due

\* r is q but for node n.
SameBut(q, r, n) ==
  /\ r \in TimeoutList /\ TimeNow(r) = TimeNow(q)
  /\ \A m \in Node \ {n} : /\ r.node[m].handler = q.node[m].handler
                           /\ r.node[m].due = q.node[m].due
                           /\ Queued(r.node, m) <=> Queued(q.node, m)

LEMMA TimerNumbers == Timers \in Nat /\ Timers >= 1 /\ 0 \in Node /\ 1 \in Node
  BY TimeoutsAssumption DEF Node

LEMMA Spots ==
  \A b \in Nat : \A n \in Node :
    /\ NodeAt(n, b) = Spot(Base(b), n) /\ Base(b) \in Nat /\ Base(b) % 2 = 0
    /\ NodeOf(Spot(Base(b), n), b) = n
<1> TAKE b \in Nat
<1> TAKE n \in Node
<1>1. n \in Nat
  BY TimerNumbers DEF Node
<1>2. Base(b) \in Nat /\ Base(b) % 2 = 0
  BY DEF Base
<1>3. NodeAt(n, b) = Spot(Base(b), n)
  BY DEF NodeAt, Spot
<1>4. (12 * n) \div 12 = n
  BY <1>1
<1>5. Spot(Base(b), n) - Base(b) - 4 = 12 * n
  BY <1>1, <1>2 DEF Spot
<1> QED
  BY <1>2, <1>3, <1>4, <1>5 DEF NodeOf

LEMMA SpotIsEven ==
  \A base \in Nat : \A n \in Node :
    base % 2 = 0 => /\ Spot(base, n) \in Nat /\ Spot(base, n) % 2 = 0 /\ Spot(base, n) # Null
                    /\ \A m \in Node : Spot(base, n) = Spot(base, m) => n = m
<1> SUFFICES ASSUME NEW base \in Nat, NEW n \in Node, base % 2 = 0
             PROVE  /\ Spot(base, n) \in Nat /\ Spot(base, n) % 2 = 0 /\ Spot(base, n) # Null
                    /\ \A m \in Node : Spot(base, n) = Spot(base, m) => n = m
  OBVIOUS
<1>1. n \in Nat /\ \A m \in Node : m \in Nat
  BY TimerNumbers DEF Node
<1> QED
  BY <1>1 DEF Spot, Null

\* Of and AddressOf of the build that runs.
LEMMA Places ==
  build \in Nat =>
    \A n \in Node : /\ AddressOf(n) = Spot(Base(build), n) /\ Of(Spot(Base(build), n)) = n
                    /\ Spot(Base(build), n) \in Nat /\ Spot(Base(build), n) % 2 = 0
                    /\ Spot(Base(build), n) # Null
                    /\ \A m \in Node : Spot(Base(build), n) = Spot(Base(build), m) => n = m
<1> SUFFICES ASSUME build \in Nat, NEW n \in Node
             PROVE  /\ AddressOf(n) = Spot(Base(build), n) /\ Of(Spot(Base(build), n)) = n
                    /\ Spot(Base(build), n) \in Nat /\ Spot(Base(build), n) % 2 = 0
                    /\ Spot(Base(build), n) # Null
                    /\ \A m \in Node : Spot(Base(build), n) = Spot(Base(build), m) => n = m
  OBVIOUS
<1>1. PICK b \in Nat : b = build
  OBVIOUS
<1>2. NodeAt(n, b) = Spot(Base(b), n) /\ Base(b) \in Nat /\ Base(b) % 2 = 0
        /\ NodeOf(Spot(Base(b), n), b) = n
  BY Spots
<1>3. PICK base \in Nat : base = Base(b)
  BY <1>2
<1>4. /\ Spot(base, n) \in Nat /\ Spot(base, n) % 2 = 0 /\ Spot(base, n) # Null
      /\ \A m \in Node : Spot(base, n) = Spot(base, m) => n = m
  BY <1>2, <1>3, SpotIsEven
<1> QED
  BY <1>1, <1>2, <1>3, <1>4 DEF AddressOf, Of

\* Not all nodes are in the list while one is not.
LEMMA OneMore ==
  ASSUME NEW q, NEW base, NEW L, NEW c, Listed(q, base, L, c), NEW n \in Node, ~Queued(q.node, n)
  PROVE  L + 1 \in 1 .. Timers + 1
<1>1. Timers \in Nat /\ L \in Nat
  BY TimerNumbers DEF Listed
<1> DEFINE T == Node \ {n}
<1>2. c \in [1 .. L -> Node] /\ \A v \in 1 .. L : c[v] # n
  BY DEF Listed
<1>3. c \in Injection(1 .. L, T)
  BY <1>2 DEF Listed, Injection, IsInjective
<1>4. IsFiniteSet(Node) /\ Cardinality(Node) = Timers + 1
  <2>1. 0 \in Int /\ Timers \in Int /\ Timers - 0 + 1 = Timers + 1
    BY <1>1
  <2> QED BY <1>1, <2>1, FS_Interval DEF Node
<1>5. IsFiniteSet(T) /\ Cardinality(T) = Timers
  <2>1. IsFiniteSet(T) /\ Cardinality(T) = Cardinality(Node) - 1
    BY <1>4, FS_RemoveElement
  <2> QED BY <1>1, <1>4, <2>1
<1>6. IsFiniteSet(1 .. L) /\ Cardinality(1 .. L) = L
  <2>1. 1 \in Int /\ L \in Int /\ L - 1 + 1 = L
    BY <1>1
  <2> QED BY <1>1, <2>1, FS_Interval
<1> HIDE DEF T
<1>7. Cardinality(1 .. L) <= Cardinality(T)
  BY <1>3, <1>5, <1>6, FS_Injection
<1> QED
  BY <1>1, <1>5, <1>6, <1>7

\* Along the list (timeout.s:643-652): its nodes one after the other, then nothing.
LEMMA AlongIs ==
  ASSUME NEW q, NEW L, NEW c, build \in Nat, Listed(q, Base(build), L, c)
  PROVE  \A k \in Node : Along(q)[k] = IF k + 1 <= L THEN Spot(Base(build), c[k + 1]) ELSE Null
<1>1. PICK base : base = Base(build)
  OBVIOUS
<1>2. /\ L \in Nat /\ L >= 1 /\ L <= Timers + 1 /\ Timers \in Nat /\ 1 \in 1 .. L
      /\ q.first = Spot(base, c[1]) /\ c \in [1 .. L -> Node]
      /\ \A v \in 1 .. L : q.node[c[v]].next = IF v = L THEN Null ELSE Spot(base, c[v + 1])
  BY <1>1, TimerNumbers DEF Listed
<1>3. \A n \in Node : Of(Spot(base, n)) = n /\ Spot(base, n) # Null
  BY <1>1, Places
<1> DEFINE Rule(g, k) == IF k = 0 THEN q.first
                         ELSE IF g[k - 1] = Null THEN Null ELSE q.node[Of(g[k - 1])].next
           Want(k) == IF k + 1 <= L THEN Spot(base, c[k + 1]) ELSE Null
           Is(g) == g = [k \in Node |-> Rule(g, k)]
           h == [k \in Node |-> Want(k)]
<1>4. ASSUME NEW k \in Node, k # 0, NEW g, g[k - 1] = Want(k - 1) PROVE Rule(g, k) = Want(k)
  <2>1. k \in 1 .. Timers /\ k \in Nat
    BY <1>2, <1>4 DEF Node
  <2>2. CASE k <= L
    <3>1. k \in 1 .. L /\ k - 1 + 1 = k /\ c[k] \in Node
      BY <1>2, <2>1, <2>2
    <3>2. g[k - 1] = Spot(base, c[k])
      BY <1>4, <2>2, <3>1
    <3>3. Rule(g, k) = q.node[c[k]].next
      BY <1>3, <1>4, <3>1, <3>2
    <3>4. q.node[c[k]].next = IF k = L THEN Null ELSE Spot(base, c[k + 1])
      BY <1>2, <3>1
    <3>5. k = L <=> ~(k + 1 <= L)
      BY <1>2, <2>1, <2>2
    <3> QED BY <3>3, <3>4, <3>5
  <2>3. CASE ~(k <= L)
    <3>1. ~(k - 1 + 1 <= L) /\ ~(k + 1 <= L)
      BY <1>2, <2>1, <2>3
    <3> QED BY <1>4, <3>1
  <2> QED BY <2>2, <2>3
<1>5. ASSUME NEW g PROVE Rule(g, 0) = Want(0)
  BY <1>2
<1>6. Is(h)
  <2>1. ASSUME NEW k \in Node PROVE h[k] = Rule(h, k)
    <3>1. CASE k = 0
      <4>1. h[k] = Want(k) /\ Rule(h, 0) = Want(0)
        BY <1>5
      <4> QED BY <3>1, <4>1
    <3>2. CASE k # 0
      <4>1. k - 1 \in Node
        BY <1>2, <3>2 DEF Node
      <4>2. h[k - 1] = Want(k - 1) /\ h[k] = Want(k)
        BY <4>1
      <4> HIDE DEF h
      <4>3. Rule(h, k) = Want(k)
        BY <1>4, <3>2, <4>2
      <4> QED BY <4>2, <4>3
    <3> QED BY <3>1, <3>2
  <2> DEFINE r == [k \in Node |-> Rule(h, k)]
  <2>2. \A k \in Node : h[k] = r[k]
    BY <2>1
  <2>3. h = r
    BY <2>2
  <2> QED BY <2>3
<1> DEFINE at == CHOOSE g : Is(g)
<1>7. Is(at)
  BY <1>6
<1>8. Along(q) = at
  BY DEF Along
<1> HIDE DEF at, h
<1>9. \A k \in Node : at[k] = Rule(at, k)
  BY <1>7
<1> HIDE DEF Rule, Want
<1>10. \A k \in Node : at[k] = Want(k)
  <2> DEFINE Wrong == {k \in Nat : k \in Node /\ at[k] # Want(k)}
  <2>1. ASSUME Wrong # {} PROVE FALSE
    <3>1. Wrong \in SUBSET Nat
      OBVIOUS
    <3>2. PICK k \in Wrong : \A m \in Wrong : k <= m
      BY <2>1, <3>1, SmallestOf
    <3>3. k # 0
      BY <1>5, <1>9, <3>2
    <3>4. k - 1 \in Nat /\ k - 1 \in Node /\ ~(k <= k - 1)
      BY <1>2, <3>2, <3>3 DEF Node
    <3>5. at[k - 1] = Want(k - 1)
      BY <3>2, <3>4
    <3>6. at[k] = Want(k)
      BY <1>4, <1>9, <3>2, <3>3, <3>5
    <3> QED BY <3>2, <3>6
  <2> HIDE DEF Wrong
  <2>2. Wrong = {}
    BY <2>1
  <2>3. \A k \in Node : k \in Nat
    BY <1>2 DEF Node
  <2> QED BY <2>2, <2>3 DEF Wrong
<1> QED
  BY <1>1, <1>8, <1>10 DEF Want

\* A node goes: the first, whose place the second takes, or another (timeout.s:663-715).
LEMMA NodeGoes ==
  ASSUME NEW base \in Nat, base % 2 = 0, NEW L, NEW c, NEW q \in TimeoutList,
         Listed(q, base, L, c), L >= 2, NEW p \in 1 .. L, NEW r \in TimeoutList,
         \A m \in Node : r.node[m].handler = q.node[m].handler /\ r.node[m].due = q.node[m].due,
         \A m \in Node : m # c[p] /\ (p > 1 => m # c[p - 1]) => r.node[m].next = q.node[m].next,
         p > 1 => r.node[c[p - 1]].next = q.node[c[p]].next,
         r.node[c[p]].next % 2 = 1,
         r.first = IF p = 1 THEN q.node[c[1]].next ELSE q.first,
         r.time + r.run = IF p = 1 THEN q.node[c[2]].due ELSE q.time + q.run,
         TimeNow(r) = TimeNow(q)
  PROVE  /\ SameBut(q, r, c[p]) /\ ~Queued(r.node, c[p])
         /\ \E M, d : Listed(r, base, M, d)
<1>1. /\ L \in Nat /\ L <= Timers + 1 /\ Timers \in Nat /\ c \in [1 .. L -> Node]
      /\ \A v, j \in 1 .. L : c[v] = c[j] => v = j
      /\ q.first = Spot(base, c[1])
      /\ \A v \in 1 .. L : q.node[c[v]].next = IF v = L THEN Null ELSE Spot(base, c[v + 1])
      /\ \A n \in Node : Queued(q.node, n) <=> \E v \in 1 .. L : c[v] = n
      /\ \A v, j \in 1 .. L : v <= j => q.node[c[v]].due <= q.node[c[j]].due
      /\ q.time + q.run = q.node[c[1]].due
  BY TimerNumbers DEF Listed
<1>2. \A n \in Node : Spot(base, n) \in Nat /\ Spot(base, n) % 2 = 0 /\ Spot(base, n) # Null
  BY SpotIsEven
<1>3. p \in Nat /\ p >= 1 /\ p <= L /\ (p > 1 => p - 1 \in 1 .. L)
  BY <1>1
<1> DEFINE K(v) == IF v < p THEN v ELSE v + 1
           M == L - 1
           d == [v \in 1 .. M |-> c[K(v)]]
<1>4. \A v \in 1 .. M : K(v) \in 1 .. L /\ K(v) # p /\ d[v] = c[K(v)] /\ d[v] # c[p] /\ d[v] \in Node
  <2> TAKE v \in 1 .. M
  <2>1. K(v) \in 1 .. L /\ K(v) # p
    BY <1>1, <1>3
  <2>2. d[v] = c[K(v)]
    OBVIOUS
  <2> HIDE DEF K, d
  <2> QED BY <1>1, <2>1, <2>2
<1>5. M \in 1 .. Timers + 1 /\ M \in Nat /\ 1 \in 1 .. M
  BY <1>1
<1>6. c[p] \in Node /\ ~Queued(r.node, c[p])
  BY <1>1 DEF Queued
<1>7. \A m \in Node \ {c[p]} : Queued(r.node, m) <=> Queued(q.node, m)
  <2> TAKE m \in Node \ {c[p]}
  <2>1. CASE p > 1 /\ m = c[p - 1]
    <3>1. p - 1 \in 1 .. L /\ p - 1 # L
      BY <1>1, <1>3, <2>1
    <3>2. Queued(q.node, m)
      BY <1>1, <2>1, <3>1
    <3>3. \/ q.node[c[p]].next = Null
          \/ p + 1 \in 1 .. L /\ q.node[c[p]].next = Spot(base, c[p + 1])
      <4>1. p # L => p + 1 \in 1 .. L
        BY <1>1, <1>3
      <4>2. q.node[c[p]].next = IF p = L THEN Null ELSE Spot(base, c[p + 1])
        BY <1>1
      <4> QED BY <4>1, <4>2
    <3>4. q.node[c[p]].next % 2 = 0
      <4>1. p + 1 \in 1 .. L => c[p + 1] \in Node
        BY <1>1
      <4>2. Null % 2 = 0
        BY DEF Null
      <4> QED BY <1>2, <3>3, <4>1, <4>2
    <3>5. r.node[m].next = q.node[c[p]].next
      BY <2>1
    <3> QED BY <3>2, <3>4, <3>5 DEF Queued
  <2>2. CASE ~(p > 1 /\ m = c[p - 1])
    BY <2>2 DEF Queued
  <2> QED BY <2>1, <2>2
<1>8. SameBut(q, r, c[p])
  BY <1>7 DEF SameBut
<1>9. d \in [1 .. M -> Node] /\ \A v, j \in 1 .. M : d[v] = d[j] => v = j
  <2>1. d \in [1 .. M -> Node]
    <3>1. d = [v \in 1 .. M |-> d[v]]
      OBVIOUS
    <3> HIDE DEF d, M
    <3> QED BY <1>4, <3>1
  <2>2. \A v, j \in 1 .. M : K(v) = K(j) => v = j
    BY <1>1, <1>3
  <2> HIDE DEF d, K, M
  <2>3. \A v, j \in 1 .. M : d[v] = d[j] => v = j
    BY <1>1, <1>4, <2>2
  <2> QED BY <2>1, <2>3
<1>10. r.first = Spot(base, d[1])
  <2>1. d[1] = c[K(1)]
    BY <1>4, <1>5
  <2>2. CASE p = 1
    <3>1. K(1) = 2 /\ q.node[c[1]].next = Spot(base, c[2])
      <4>1. 1 \in 1 .. L /\ 1 # L /\ 1 + 1 = 2
        BY <1>1
      <4>2. K(1) = 2
        BY <2>2
      <4>3. PICK o \in 1 .. L : o = 1
        BY <4>1
      <4>4. q.node[c[o]].next = Spot(base, c[o + 1])
        BY <1>1, <4>1, <4>3
      <4> QED BY <4>1, <4>2, <4>3, <4>4
    <3> HIDE DEF K, d
    <3> QED BY <2>1, <2>2, <3>1
  <2>3. CASE p # 1
    <3>1. K(1) = 1
      BY <1>3, <2>3
    <3> HIDE DEF K, d
    <3> QED BY <1>1, <2>1, <2>3, <3>1
  <2> QED BY <2>2, <2>3
<1>11. ASSUME NEW v \in 1 .. M
       PROVE  r.node[d[v]].next = IF v = M THEN Null ELSE Spot(base, d[v + 1])
  <2>0. v \in Nat /\ v >= 1 /\ v <= L - 1
    BY <1>5
  <2>1. CASE p > 1 /\ v = p - 1
    <3>1. d[v] = c[p - 1] /\ r.node[d[v]].next = q.node[c[p]].next
      <4>1. K(v) = p - 1
        BY <1>3, <2>0, <2>1
      <4> HIDE DEF K, d
      <4> QED BY <1>4, <2>1, <4>1
    <3>2. p = L <=> v = M
      BY <1>1, <1>3, <2>1
    <3>3. v # M => d[v + 1] = c[p + 1]
      <4>1. ASSUME v # M PROVE v + 1 \in 1 .. M /\ K(v + 1) = p + 1
        BY <1>1, <1>3, <2>0, <2>1, <4>1
      <4> HIDE DEF K, d
      <4> QED BY <1>4, <4>1
    <3> HIDE DEF d, M
    <3> QED BY <1>1, <3>1, <3>2, <3>3
  <2>2. CASE ~(p > 1 /\ v = p - 1)
    <3>1. K(v) # p /\ (p > 1 => K(v) # p - 1) /\ K(v) \in 1 .. L
      BY <1>1, <1>3, <2>0, <2>2
    <3>2. d[v] # c[p] /\ (p > 1 => d[v] # c[p - 1]) /\ d[v] = c[K(v)]
      <4> HIDE DEF K, d, M
      <4> QED BY <1>1, <1>3, <1>4, <3>1
    <3>3. r.node[d[v]].next = q.node[d[v]].next
      <4> HIDE DEF K, d, M
      <4> QED BY <1>4, <3>2
    <3>4. q.node[c[K(v)]].next = IF K(v) = L THEN Null ELSE Spot(base, c[K(v) + 1])
      <4> HIDE DEF K
      <4> QED BY <1>1, <3>1
    <3>5. K(v) = L <=> v = M
      BY <1>1, <1>3, <2>0, <2>2
    <3>6. v # M => v + 1 \in 1 .. M /\ K(v + 1) = K(v) + 1
      BY <1>1, <1>3, <2>0, <2>2
    <3>7. v # M => d[v + 1] = c[K(v) + 1]
      <4> HIDE DEF K, d, M
      <4> QED BY <1>4, <3>6
    <3> HIDE DEF K, d, M
    <3> QED BY <3>2, <3>3, <3>4, <3>5, <3>7
  <2> QED BY <2>1, <2>2
<1>12. \A n \in Node : Queued(r.node, n) <=> \E v \in 1 .. M : d[v] = n
  <2> TAKE n \in Node
  <2>1. CASE n = c[p]
    <3> HIDE DEF d, M
    <3> QED BY <1>4, <1>6, <2>1
  <2>2. CASE n # c[p]
    <3>1. Queued(r.node, n) <=> \E j \in 1 .. L : c[j] = n
      BY <1>1, <1>7, <2>2
    <3>2. ASSUME NEW j \in 1 .. L, c[j] = n PROVE \E v \in 1 .. M : d[v] = n
      <4>1. j # p
        BY <2>2, <3>2
      <4>2. \E v \in 1 .. M : K(v) = j
        <5>1. CASE j < p
          <6>1. j \in 1 .. M /\ K(j) = j
            BY <1>1, <1>3, <5>1
          <6> QED BY <6>1
        <5>2. CASE ~(j < p)
          <6>1. j - 1 \in 1 .. M /\ K(j - 1) = j
            BY <1>1, <1>3, <4>1, <5>2
          <6> QED BY <6>1
        <5> QED BY <5>1, <5>2
      <4> HIDE DEF K, d, M
      <4> QED BY <1>4, <3>2, <4>2
    <3> HIDE DEF K, d, M
    <3> QED BY <1>4, <3>1, <3>2
  <2> QED BY <2>1, <2>2
<1>13. \A v, j \in 1 .. M : v <= j => r.node[d[v]].due <= r.node[d[j]].due
  <2>1. \A v, j \in 1 .. M : v <= j => K(v) <= K(j)
    BY <1>1, <1>3
  <2> HIDE DEF K, d, M
  <2>2. ASSUME NEW v \in 1 .. M, NEW j \in 1 .. M, v <= j
        PROVE  r.node[d[v]].due <= r.node[d[j]].due
    <3>1. K(v) \in 1 .. L /\ K(j) \in 1 .. L /\ K(v) <= K(j)
      BY <1>4, <2>1, <2>2
    <3>2. q.node[c[K(v)]].due <= q.node[c[K(j)]].due
      BY <1>1, <3>1
    <3>3. d[v] = c[K(v)] /\ d[j] = c[K(j)] /\ d[v] \in Node /\ d[j] \in Node
      BY <1>4
    <3>4. /\ r.node[d[v]].due = q.node[d[v]].due
          /\ r.node[d[j]].due = q.node[d[j]].due
      BY <3>3
    <3> QED BY <3>2, <3>3, <3>4
  <2> QED BY <2>2
<1>14. r.time + r.run = r.node[d[1]].due
  <2>1. d[1] = c[K(1)] /\ d[1] \in Node /\ K(1) = IF p = 1 THEN 2 ELSE 1
    <3>1. K(1) = IF p = 1 THEN 2 ELSE 1
      BY <1>3
    <3> HIDE DEF K, d, M
    <3> QED BY <1>4, <1>5, <3>1
  <2> HIDE DEF K, d, M
  <2> QED BY <1>1, <2>1
<1> HIDE DEF K, d, M
<1>15. Listed(r, base, M, d)
  BY <1>5, <1>9, <1>10, <1>11, <1>12, <1>13, <1>14 DEF Listed
<1> QED
  BY <1>6, <1>8, <1>15

\* A node comes, behind the p-th (timeout.s:609-657).
LEMMA NodeComes ==
  ASSUME NEW base \in Nat, base % 2 = 0, NEW L, NEW c, NEW q \in TimeoutList,
         Listed(q, base, L, c), NEW n \in Node, ~Queued(q.node, n),
         NEW p \in 0 .. L, NEW r \in TimeoutList,
         \A m \in Node \ {n} : r.node[m].handler = q.node[m].handler /\ r.node[m].due = q.node[m].due,
         \A m \in Node \ {n} : (p > 0 => m # c[p]) => r.node[m].next = q.node[m].next,
         r.node[n].next = IF p = 0 THEN q.first ELSE q.node[c[p]].next,
         p > 0 => r.node[c[p]].next = Spot(base, n),
         r.first = IF p = 0 THEN Spot(base, n) ELSE q.first,
         p > 0 => q.node[c[p]].due <= r.node[n].due,
         p < L => r.node[n].due <= q.node[c[p + 1]].due,
         r.time + r.run = IF p = 0 THEN r.node[n].due ELSE q.time + q.run,
         TimeNow(r) = TimeNow(q)
  PROVE  /\ SameBut(q, r, n) /\ Queued(r.node, n)
         /\ \E M, d : Listed(r, base, M, d)
<1>1. /\ L \in Nat /\ L >= 1 /\ L <= Timers + 1 /\ Timers \in Nat /\ c \in [1 .. L -> Node]
      /\ \A v, j \in 1 .. L : c[v] = c[j] => v = j
      /\ q.first = Spot(base, c[1])
      /\ \A v \in 1 .. L : q.node[c[v]].next = IF v = L THEN Null ELSE Spot(base, c[v + 1])
      /\ \A m \in Node : Queued(q.node, m) <=> \E v \in 1 .. L : c[v] = m
      /\ \A v, j \in 1 .. L : v <= j => q.node[c[v]].due <= q.node[c[j]].due
      /\ q.time + q.run = q.node[c[1]].due
  BY TimerNumbers DEF Listed
<1>2. \A m \in Node : Spot(base, m) \in Nat /\ Spot(base, m) % 2 = 0 /\ Spot(base, m) # Null
  BY SpotIsEven
<1>3. /\ p \in Nat /\ p <= L /\ (p > 0 => p \in 1 .. L /\ c[p] \in Node /\ c[p] # n)
      /\ \A v \in 1 .. L : c[v] \in Node /\ c[v] # n
  BY <1>1
<1> DEFINE M == L + 1
           K(v) == IF v <= p THEN v ELSE v - 1
           d == [v \in 1 .. M |-> IF v = p + 1 THEN n ELSE c[K(v)]]
<1>4. /\ \A v \in 1 .. M : v # p + 1 => K(v) \in 1 .. L /\ d[v] = c[K(v)] /\ d[v] \in Node /\ d[v] # n
      /\ p + 1 \in 1 .. M /\ d[p + 1] = n
  <2>1. p + 1 \in 1 .. M
    BY <1>1, <1>3
  <2>2. d[p + 1] = n
    BY <2>1
  <2>3. ASSUME NEW v \in 1 .. M, v # p + 1 PROVE K(v) \in 1 .. L /\ d[v] = c[K(v)]
    <3>1. K(v) \in 1 .. L
      BY <1>1, <1>3, <2>3
    <3>2. d[v] = c[K(v)]
      BY <2>3
    <3> QED BY <3>1, <3>2
  <2> HIDE DEF d, K, M
  <2> QED BY <1>3, <2>1, <2>2, <2>3
<1>5. M \in 1 .. Timers + 1 /\ M \in Nat /\ 1 \in 1 .. M
  BY <1>1, OneMore
<1>6. \A v \in 1 .. M : d[v] \in Node
  <2> HIDE DEF K, d, M
  <2> QED BY <1>4
<1>7. Queued(r.node, n)
  <2>1. CASE p = 0
    <3>1. 1 \in 1 .. L
      BY <1>1
    <3> QED BY <1>1, <1>2, <2>1, <3>1 DEF Queued
  <2>2. CASE p # 0
    <3>1. p \in 1 .. L /\ (p # L => p + 1 \in 1 .. L)
      BY <1>1, <1>3, <2>2
    <3>2. Null % 2 = 0
      BY DEF Null
    <3>3. q.node[c[p]].next % 2 = 0
      BY <1>1, <1>2, <3>1, <3>2
    <3> QED BY <2>2, <3>3 DEF Queued
  <2> QED BY <2>1, <2>2
<1>8. \A m \in Node \ {n} : Queued(r.node, m) <=> Queued(q.node, m)
  <2> TAKE m \in Node \ {n}
  <2>1. CASE p > 0 /\ m = c[p]
    <3>1. Queued(q.node, m)
      BY <1>1, <1>3, <2>1
    <3>2. Queued(r.node, m)
      BY <1>2, <2>1 DEF Queued
    <3> QED BY <3>1, <3>2
  <2>2. CASE ~(p > 0 /\ m = c[p])
    BY <2>2 DEF Queued
  <2> QED BY <2>1, <2>2
<1>9. SameBut(q, r, n)
  BY <1>8 DEF SameBut
<1>10. d \in [1 .. M -> Node] /\ \A v, j \in 1 .. M : d[v] = d[j] => v = j
  <2>1. d \in [1 .. M -> Node]
    <3>1. d = [v \in 1 .. M |-> d[v]]
      OBVIOUS
    <3> HIDE DEF d, M
    <3> QED BY <1>6, <3>1
  <2>2. \A v, j \in 1 .. M : v # p + 1 /\ j # p + 1 /\ K(v) = K(j) => v = j
    BY <1>1, <1>3
  <2> HIDE DEF d, K, M
  <2>3. \A v, j \in 1 .. M : d[v] = d[j] => v = j
    BY <1>1, <1>4, <2>2
  <2> QED BY <2>1, <2>3
<1>11. r.first = Spot(base, d[1])
  <2>1. CASE p = 0
    <3>1. p + 1 = 1
      BY <2>1
    <3> HIDE DEF d, K, M
    <3> QED BY <1>4, <2>1, <3>1
  <2>2. CASE p # 0
    <3>1. K(1) = 1 /\ p + 1 # 1
      BY <1>3, <2>2
    <3> HIDE DEF d, K, M
    <3> QED BY <1>1, <1>4, <1>5, <2>2, <3>1
  <2> QED BY <2>1, <2>2
<1>12. ASSUME NEW v \in 1 .. M
       PROVE  r.node[d[v]].next = IF v = M THEN Null ELSE Spot(base, d[v + 1])
  <2>0. v \in Nat /\ v >= 1 /\ v <= L + 1
    BY <1>5
  <2>1. CASE v = p
    <3>1. v # p + 1 /\ K(v) = p /\ p > 0 /\ v # M /\ v + 1 = p + 1
      BY <1>1, <1>3, <2>0, <2>1
    <3> HIDE DEF d, K, M
    <3> QED BY <1>4, <2>1, <3>1
  <2>2. CASE v = p + 1
    <3>1. r.node[d[v]].next = IF p = 0 THEN q.first ELSE q.node[c[p]].next
      <4> HIDE DEF d, K, M
      <4> QED BY <1>4, <2>2
    <3>2. p = L <=> v = M
      BY <1>1, <1>3, <2>2
    <3>3. v # M => v + 1 \in 1 .. M /\ v + 1 # p + 1 /\ K(v + 1) = p + 1
      BY <1>1, <1>3, <2>0, <2>2
    <3>4. v # M => d[v + 1] = c[p + 1]
      <4> HIDE DEF d, K, M
      <4> QED BY <1>4, <3>3
    <3>5. CASE p = 0
      <4>1. v # M /\ p + 1 = 1
        BY <1>1, <3>2, <3>5
      <4> HIDE DEF d, K, M
      <4> QED BY <1>1, <3>1, <3>4, <3>5, <4>1
    <3>6. CASE p # 0
      <4>1. p \in 1 .. L
        BY <1>3, <3>6
      <4> HIDE DEF d, K, M
      <4> QED BY <1>1, <3>1, <3>2, <3>4, <3>6, <4>1
    <3> QED BY <3>5, <3>6
  <2>3. CASE v # p /\ v # p + 1
    <3>1. K(v) \in 1 .. L /\ K(v) # p /\ d[v] = c[K(v)] /\ d[v] \in Node /\ d[v] # n
      <4>1. K(v) # p
        BY <1>1, <1>3, <2>0, <2>3
      <4> HIDE DEF d, K, M
      <4> QED BY <1>4, <2>3, <4>1
    <3>2. p > 0 => d[v] # c[p]
      <4> HIDE DEF d, K, M
      <4> QED BY <1>1, <1>3, <3>1
    <3>3. r.node[d[v]].next = q.node[c[K(v)]].next
      <4> HIDE DEF d, K, M
      <4> QED BY <3>1, <3>2
    <3>4. q.node[c[K(v)]].next = IF K(v) = L THEN Null ELSE Spot(base, c[K(v) + 1])
      <4> HIDE DEF K
      <4> QED BY <1>1, <3>1
    <3>5. K(v) = L <=> v = M
      BY <1>1, <1>3, <2>0, <2>3
    <3>6. v # M => v + 1 \in 1 .. M /\ v + 1 # p + 1 /\ K(v + 1) = K(v) + 1
      BY <1>1, <1>3, <2>0, <2>3
    <3>7. v # M => d[v + 1] = c[K(v) + 1]
      <4> HIDE DEF K, d, M
      <4> QED BY <1>4, <3>6
    <3> HIDE DEF K, d, M
    <3> QED BY <3>3, <3>4, <3>5, <3>7
  <2> QED BY <2>1, <2>2, <2>3
<1>13. \A m \in Node : Queued(r.node, m) <=> \E v \in 1 .. M : d[v] = m
  <2> TAKE m \in Node
  <2>1. CASE m = n
    <3> HIDE DEF d, M
    <3> QED BY <1>4, <1>7, <2>1
  <2>2. CASE m # n
    <3>1. Queued(r.node, m) <=> \E j \in 1 .. L : c[j] = m
      BY <1>1, <1>8, <2>2
    <3>2. ASSUME NEW j \in 1 .. L, c[j] = m PROVE \E v \in 1 .. M : d[v] = m
      <4>1. \E v \in 1 .. M : v # p + 1 /\ K(v) = j
        <5>1. CASE j <= p
          <6>1. j \in 1 .. M /\ K(j) = j /\ j # p + 1
            BY <1>1, <1>3, <5>1
          <6> QED BY <6>1
        <5>2. CASE ~(j <= p)
          <6>1. j + 1 \in 1 .. M /\ K(j + 1) = j /\ j + 1 # p + 1
            BY <1>1, <1>3, <5>2
          <6> QED BY <6>1
        <5> QED BY <5>1, <5>2
      <4> HIDE DEF K, d, M
      <4> QED BY <1>4, <3>2, <4>1
    <3> HIDE DEF K, d, M
    <3> QED BY <1>4, <2>2, <3>1, <3>2
  <2> QED BY <2>1, <2>2
<1>14. \A v, j \in 1 .. M : v <= j => r.node[d[v]].due <= r.node[d[j]].due
  <2> TAKE v, j \in 1 .. M
  <2> HAVE v <= j
  <2>0. /\ \A m \in Node : q.node[m].due \in Int /\ r.node[m].due \in Int
        /\ \A k \in 1 .. M : k # p + 1 => r.node[d[k]].due = q.node[c[K(k)]].due
    <3>1. \A m \in Node : q.node[m].due \in Int /\ r.node[m].due \in Int
      BY DEF TimeoutList
    <3> HIDE DEF K, d, M
    <3> QED BY <1>4, <3>1
  <2>1. CASE v = p + 1 /\ j = p + 1
    <3> HIDE DEF K, d, M
    <3> QED BY <1>4, <2>0, <2>1
  <2>2. CASE v = p + 1 /\ j # p + 1
    <3>1. p < L /\ p + 1 \in 1 .. L /\ K(j) \in 1 .. L /\ p + 1 <= K(j)
      BY <1>1, <1>3, <2>2
    <3>2. q.node[c[p + 1]].due <= q.node[c[K(j)]].due
      <4> HIDE DEF K
      <4> QED BY <1>1, <3>1
    <3>3. r.node[n].due <= q.node[c[p + 1]].due
      BY <3>1
    <3>4. r.node[d[v]].due = r.node[n].due /\ r.node[d[j]].due = q.node[c[K(j)]].due
      <4> HIDE DEF K, d, M
      <4> QED BY <1>4, <2>0, <2>2
    <3>5. c[p + 1] \in Node /\ c[K(j)] \in Node
      <4> HIDE DEF K
      <4> QED BY <1>1, <3>1
    <3> HIDE DEF K, d, M
    <3> QED BY <2>0, <3>2, <3>3, <3>4, <3>5
  <2>3. CASE v # p + 1 /\ j = p + 1
    <3>1. p > 0 /\ p \in 1 .. L /\ K(v) \in 1 .. L /\ K(v) <= p
      BY <1>1, <1>3, <2>3
    <3>2. q.node[c[K(v)]].due <= q.node[c[p]].due
      <4> HIDE DEF K
      <4> QED BY <1>1, <3>1
    <3>3. q.node[c[p]].due <= r.node[n].due
      BY <3>1
    <3>4. r.node[d[j]].due = r.node[n].due /\ r.node[d[v]].due = q.node[c[K(v)]].due
      <4> HIDE DEF K, d, M
      <4> QED BY <1>4, <2>0, <2>3
    <3>5. c[p] \in Node /\ c[K(v)] \in Node
      <4> HIDE DEF K
      <4> QED BY <1>1, <3>1
    <3> HIDE DEF K, d, M
    <3> QED BY <2>0, <3>2, <3>3, <3>4, <3>5
  <2>4. CASE v # p + 1 /\ j # p + 1
    <3>1. K(v) \in 1 .. L /\ K(j) \in 1 .. L /\ K(v) <= K(j)
      BY <1>1, <1>3, <2>4
    <3>2. q.node[c[K(v)]].due <= q.node[c[K(j)]].due
      <4> HIDE DEF K
      <4> QED BY <1>1, <3>1
    <3>3. r.node[d[v]].due = q.node[c[K(v)]].due /\ r.node[d[j]].due = q.node[c[K(j)]].due
      <4> HIDE DEF K, d, M
      <4> QED BY <2>0, <2>4
    <3> HIDE DEF K, d, M
    <3> QED BY <3>2, <3>3
  <2> QED BY <2>1, <2>2, <2>3, <2>4
<1>15. r.time + r.run = r.node[d[1]].due
  <2>1. CASE p = 0
    <3>1. p + 1 = 1
      BY <2>1
    <3> HIDE DEF d, K, M
    <3> QED BY <1>4, <2>1, <3>1
  <2>2. CASE p # 0
    <3>1. K(1) = 1 /\ p + 1 # 1
      BY <1>3, <2>2
    <3>2. d[1] = c[1] /\ d[1] \in Node /\ d[1] # n
      <4> HIDE DEF d, K, M
      <4> QED BY <1>4, <1>5, <3>1
    <3> HIDE DEF d, K, M
    <3> QED BY <1>1, <2>2, <3>2
  <2> QED BY <2>1, <2>2
<1> HIDE DEF K, d, M
<1>16. Listed(r, base, M, d)
  BY <1>5, <1>10, <1>11, <1>12, <1>13, <1>14, <1>15 DEF Listed
<1> QED
  BY <1>7, <1>9, <1>16

-----------------------------------------------------------------------------
(* The routines.                                                             *)

\* A list with one node changed and the countdown, the first node and the time set.
Rewired(q, r, n, tm, rn, lf, ft, nx) ==
  /\ r \in TimeoutList /\ r.time = tm /\ r.run = rn /\ r.left = lf /\ r.first = ft
  /\ \A m \in Node : r.node[m].handler = q.node[m].handler /\ r.node[m].due = q.node[m].due
  /\ \A m \in Node : m # n => r.node[m].next = q.node[m].next
  /\ r.node[n].next = nx

LEMMA NodeSet ==
  ASSUME NEW q \in TimeoutList, NEW n \in Node, NEW nx \in Int,
         NEW nodes, nodes = [q.node EXCEPT ![n].next = nx]
  PROVE  /\ \A m \in Node : nodes[m].handler = q.node[m].handler /\ nodes[m].due = q.node[m].due
         /\ \A m \in Node : m # n => nodes[m].next = q.node[m].next
         /\ nodes[n].next = nx
  BY DEF TimeoutList

LEMMA HeadOff ==
  ASSUME NEW q \in TimeoutList, NEW n \in Node, NEW tm \in Int, NEW rn \in Int, NEW lf \in Int,
         NEW ft \in Int, NEW nx \in Int, NEW r,
         r = [q EXCEPT !.time = tm, !.first = ft, !.node[n].next = nx, !.run = rn, !.left = lf]
  PROVE  Rewired(q, r, n, tm, rn, lf, ft, nx)
<1>1. /\ r.time = tm /\ r.run = rn /\ r.left = lf /\ r.first = ft
      /\ r.node = [q.node EXCEPT ![n].next = nx]
  BY DEF TimeoutList
<1> DEFINE s == [q EXCEPT !.time = tm, !.first = ft]
           t == [s EXCEPT !.node[n].next = nx]
           u == [t EXCEPT !.run = rn, !.left = lf]
<1>2. r = u
  OBVIOUS
<1>3. s \in TimeoutList
  BY DEF TimeoutList
<1> HIDE DEF s
<1>4. t \in TimeoutList
  BY <1>3 DEF TimeoutList
<1> HIDE DEF t
<1>5. u \in TimeoutList
  BY <1>4 DEF TimeoutList
<1> HIDE DEF u
<1>6. /\ \A m \in Node : r.node[m].handler = q.node[m].handler /\ r.node[m].due = q.node[m].due
      /\ \A m \in Node : m # n => r.node[m].next = q.node[m].next
      /\ r.node[n].next = nx
  <2>1. PICK nodes : nodes = r.node
    OBVIOUS
  <2>2. nodes = [q.node EXCEPT ![n].next = nx]
    BY <1>1, <2>1
  <2>3. /\ \A m \in Node : nodes[m].handler = q.node[m].handler /\ nodes[m].due = q.node[m].due
        /\ \A m \in Node : m # n => nodes[m].next = q.node[m].next
        /\ nodes[n].next = nx
    BY <2>2, NodeSet
  <2> QED BY <2>1, <2>3
<1> QED
  BY <1>1, <1>2, <1>5, <1>6 DEF Rewired

LEMMA HeadGone ==
  ASSUME NEW q \in TimeoutList, NEW n \in Node, NEW tm \in Int, NEW rn \in Int, NEW lf \in Int,
         NEW ft \in Int, NEW nx \in Int, NEW r,
         r = [q EXCEPT !.time = tm, !.run = rn, !.left = lf, !.first = ft, !.node[n].next = nx]
  PROVE  Rewired(q, r, n, tm, rn, lf, ft, nx)
<1>1. /\ r.time = tm /\ r.run = rn /\ r.left = lf /\ r.first = ft
      /\ r.node = [q.node EXCEPT ![n].next = nx]
  BY DEF TimeoutList
<1> DEFINE s == [q EXCEPT !.time = tm, !.run = rn, !.left = lf, !.first = ft]
           t == [s EXCEPT !.node[n].next = nx]
<1>2. r = t
  OBVIOUS
<1>3. s \in TimeoutList
  BY DEF TimeoutList
<1> HIDE DEF s
<1>4. t \in TimeoutList
  BY <1>3 DEF TimeoutList
<1> HIDE DEF t
<1>6. /\ \A m \in Node : r.node[m].handler = q.node[m].handler /\ r.node[m].due = q.node[m].due
      /\ \A m \in Node : m # n => r.node[m].next = q.node[m].next
      /\ r.node[n].next = nx
  <2>1. PICK nodes : nodes = r.node
    OBVIOUS
  <2>2. nodes = [q.node EXCEPT ![n].next = nx]
    BY <1>1, <2>1
  <2>3. /\ \A m \in Node : nodes[m].handler = q.node[m].handler /\ nodes[m].due = q.node[m].due
        /\ \A m \in Node : m # n => nodes[m].next = q.node[m].next
        /\ nodes[n].next = nx
    BY <2>2, NodeSet
  <2> QED BY <2>1, <2>3
<1> QED
  BY <1>1, <1>2, <1>4, <1>6 DEF Rewired

LEMMA HeadOn ==
  ASSUME NEW q \in TimeoutList, NEW n \in Node, NEW tm \in Int, NEW rn \in Int, NEW lf \in Int,
         NEW ft \in Int, NEW nx \in Int, NEW r,
         r = [q EXCEPT !.time = tm, !.run = rn, !.left = lf, !.node[n].next = nx, !.first = ft]
  PROVE  Rewired(q, r, n, tm, rn, lf, ft, nx)
<1>1. /\ r.time = tm /\ r.run = rn /\ r.left = lf /\ r.first = ft
      /\ r.node = [q.node EXCEPT ![n].next = nx]
  BY DEF TimeoutList
<1> DEFINE s == [q EXCEPT !.time = tm, !.run = rn, !.left = lf]
           t == [s EXCEPT !.node[n].next = nx]
           u == [t EXCEPT !.first = ft]
<1>2. r = u
  OBVIOUS
<1>3. s \in TimeoutList
  BY DEF TimeoutList
<1> HIDE DEF s
<1>4. t \in TimeoutList
  BY <1>3 DEF TimeoutList
<1> HIDE DEF t
<1>5. u \in TimeoutList
  BY <1>4 DEF TimeoutList
<1> HIDE DEF u
<1>6. /\ \A m \in Node : r.node[m].handler = q.node[m].handler /\ r.node[m].due = q.node[m].due
      /\ \A m \in Node : m # n => r.node[m].next = q.node[m].next
      /\ r.node[n].next = nx
  <2>1. PICK nodes : nodes = r.node
    OBVIOUS
  <2>2. nodes = [q.node EXCEPT ![n].next = nx]
    BY <1>1, <2>1
  <2>3. /\ \A m \in Node : nodes[m].handler = q.node[m].handler /\ nodes[m].due = q.node[m].due
        /\ \A m \in Node : m # n => nodes[m].next = q.node[m].next
        /\ nodes[n].next = nx
    BY <2>2, NodeSet
  <2> QED BY <2>1, <2>3
<1> QED
  BY <1>1, <1>2, <1>5, <1>6 DEF Rewired

\* r_t_remove_first_timeout (timeout.s:690-715)
LEMMA HeadRemoved ==
  ASSUME build \in Nat, NEW L, NEW c, NEW q \in TimeoutList, Listed(q, Base(build), L, c),
         L >= 2, NEW n \in Node, n = c[1]
  PROVE  LET r == RemoveHead(q, n)
         IN  SameBut(q, r, n) /\ ~Queued(r.node, n) /\ \E M, d : Listed(r, Base(build), M, d)
               /\ r.node[n].handler = q.node[n].handler
<1>1. PICK base \in Nat : base = Base(build) /\ base % 2 = 0
  <2>1. PICK b \in Nat : b = build
    OBVIOUS
  <2> QED BY <2>1, Spots, TimerNumbers
<1>2. PICK second : second = q.node[n].next
  OBVIOUS
<1>3. /\ 1 \in 1 .. L /\ 2 \in 1 .. L /\ c \in [1 .. L -> Node] /\ L \in Nat
      /\ q.first = Spot(base, c[1])
      /\ \A v \in 1 .. L : q.node[c[v]].next = IF v = L THEN Null ELSE Spot(base, c[v + 1])
  BY <1>1, TimerNumbers DEF Listed
<1>4. c[2] \in Node /\ second = Spot(base, c[2]) /\ Of(second) = c[2] /\ second \in Nat
        /\ second % 2 = 0
  <2>1. c[2] \in Node
    BY <1>3
  <2>2. second = Spot(base, c[2])
    <3>1. PICK v \in 1 .. L : v = 1
      BY <1>3
    <3>2. v # L /\ v + 1 = 2
      BY <3>1
    <3>3. q.node[c[v]].next = Spot(base, c[v + 1])
      BY <1>3, <3>2
    <3> QED BY <1>2, <3>1, <3>2, <3>3
  <2> QED BY <1>1, <2>1, <2>2, Places
<1>5. PICK left \in Int : left = q.node[Of(second)].due - TimeNow(q)
  BY <1>4 DEF TimeNow, TimeoutList
<1>10. TimeNow(q) \in Int /\ second + 1 \in Int /\ second \in Int
  BY <1>4 DEF TimeNow, TimeoutList
<1>6. PICK r : r = RemoveHead(q, n)
  OBVIOUS
<1>7. r = [q EXCEPT !.time = TimeNow(q), !.first = second, !.node[n].next = second + 1,
                    !.run = left, !.left = left]
  BY <1>2, <1>5, <1>6, Zenon DEF RemoveHead
<1>8. Rewired(q, r, n, TimeNow(q), left, left, second, second + 1)
  BY <1>7, <1>10, HeadOff
<1>9. /\ r.time = TimeNow(q) /\ r.run = left /\ r.left = left /\ r.first = second
      /\ r \in TimeoutList
  BY <1>8 DEF Rewired
<1>12. TimeNow(r) = TimeNow(q) /\ r.time + r.run = q.node[c[2]].due
  <2>1. q.node[c[2]].due \in Int
    BY <1>4 DEF TimeoutList
  <2>2. TimeNow(r) = TimeNow(q) + left - left
    BY <1>9 DEF TimeNow
  <2> QED BY <1>4, <1>5, <1>9, <1>10, <2>1, <2>2
<1>13. (second + 1) % 2 = 1
  BY <1>4
<1>14. PICK p \in 1 .. L : p = 1
  BY <1>3
<1>15. /\ \A m \in Node : m # c[p] => r.node[m].next = q.node[m].next
       /\ ~(p > 1) /\ r.node[c[p]].next % 2 = 1
       /\ r.first = q.node[c[1]].next
  BY <1>2, <1>8, <1>9, <1>13, <1>14 DEF Rewired
<1>16. Listed(q, base, L, c)
  BY <1>1
<1>17. \A m \in Node : r.node[m].handler = q.node[m].handler /\ r.node[m].due = q.node[m].due
  BY <1>8 DEF Rewired
<1>18. SameBut(q, r, c[p]) /\ ~Queued(r.node, c[p]) /\ \E M, d : Listed(r, base, M, d)
  BY <1>1, <1>9, <1>12, <1>14, <1>15, <1>16, <1>17, NodeGoes
<1> QED
  BY <1>1, <1>6, <1>14, <1>17, <1>18

\* timeout_handler, addcycles (timeout.s:772-799)
LEMMA HeadPopped ==
  ASSUME build \in Nat, NEW L, NEW c, NEW q \in TimeoutList, Listed(q, Base(build), L, c),
         L >= 2, NEW n \in Node, n = c[1]
  PROVE  LET r == Pop(q, n)
         IN  SameBut(q, r, n) /\ ~Queued(r.node, n) /\ \E M, d : Listed(r, Base(build), M, d)
               /\ r.node[n].handler = q.node[n].handler
<1>1. PICK base \in Nat : base = Base(build) /\ base % 2 = 0
  <2>1. PICK b \in Nat : b = build
    OBVIOUS
  <2> QED BY <2>1, Spots, TimerNumbers
<1>2. PICK second : second = q.node[n].next
  OBVIOUS
<1>3. /\ 1 \in 1 .. L /\ 2 \in 1 .. L /\ c \in [1 .. L -> Node] /\ L \in Nat
      /\ q.first = Spot(base, c[1]) /\ q.time + q.run = q.node[n].due
      /\ \A v \in 1 .. L : q.node[c[v]].next = IF v = L THEN Null ELSE Spot(base, c[v + 1])
  BY <1>1, TimerNumbers DEF Listed
<1>4. c[2] \in Node /\ second = Spot(base, c[2]) /\ Of(second) = c[2] /\ second \in Nat
  <2>1. c[2] \in Node
    BY <1>3
  <2>2. second = Spot(base, c[2])
    <3>1. PICK v \in 1 .. L : v = 1
      BY <1>3
    <3>2. v # L /\ v + 1 = 2
      BY <3>1
    <3>3. q.node[c[v]].next = Spot(base, c[v + 1])
      BY <1>3, <3>2
    <3> QED BY <1>2, <3>1, <3>2, <3>3
  <2> QED BY <1>1, <2>1, <2>2, Places
<1>5. PICK left \in Int : left = q.left + q.node[Of(second)].due - q.node[n].due
  BY <1>4 DEF TimeoutList
<1>10. TimeNow(q) \in Int /\ 1 \in Int /\ second \in Int
  BY <1>4 DEF TimeNow, TimeoutList
<1>6. PICK r : r = Pop(q, n)
  OBVIOUS
<1>7. r = [q EXCEPT !.time = TimeNow(q), !.run = left, !.left = left, !.first = second,
                    !.node[n].next = 1]
  BY <1>2, <1>5, <1>6, Zenon DEF Pop
<1>8. Rewired(q, r, n, TimeNow(q), left, left, second, 1)
  BY <1>7, <1>10, HeadGone
<1>9. /\ r.time = TimeNow(q) /\ r.run = left /\ r.left = left /\ r.first = second
      /\ r \in TimeoutList
  BY <1>8 DEF Rewired
<1>12. TimeNow(r) = TimeNow(q) /\ r.time + r.run = q.node[c[2]].due
  <2>1. /\ q.node[c[2]].due \in Int /\ q.node[n].due \in Int
        /\ q.time \in Int /\ q.run \in Int /\ q.left \in Int
    BY <1>4 DEF TimeoutList
  <2>2. TimeNow(r) = TimeNow(q) + left - left /\ TimeNow(q) = q.time + q.run - q.left
    BY <1>9 DEF TimeNow
  <2>3. TimeNow(q) + left = q.node[c[2]].due
    <3>1. left = q.left + q.node[c[2]].due - q.node[n].due /\ q.time + q.run = q.node[n].due
      BY <1>3, <1>4, <1>5
    <3> QED BY <2>1, <2>2, <3>1
  <2> QED BY <1>9, <1>10, <2>2, <2>3
<1>14. PICK p \in 1 .. L : p = 1
  BY <1>3
<1>15. /\ \A m \in Node : m # c[p] => r.node[m].next = q.node[m].next
       /\ ~(p > 1) /\ r.node[c[p]].next % 2 = 1
       /\ r.first = q.node[c[1]].next
  BY <1>2, <1>8, <1>9, <1>14 DEF Rewired
<1>16. Listed(q, base, L, c)
  BY <1>1
<1>17. \A m \in Node : r.node[m].handler = q.node[m].handler /\ r.node[m].due = q.node[m].due
  BY <1>8 DEF Rewired
<1>18. SameBut(q, r, c[p]) /\ ~Queued(r.node, c[p]) /\ \E M, d : Listed(r, base, M, d)
  BY <1>1, <1>9, <1>12, <1>14, <1>15, <1>16, <1>17, NodeGoes
<1> QED
  BY <1>1, <1>6, <1>14, <1>17, <1>18

\* remove_timeout_2 of a node that is in the list
LEMMA NodeRemoved ==
  ASSUME build \in Nat, NEW L, NEW c, NEW q \in TimeoutList, Listed(q, Base(build), L, c),
         L >= 2, NEW n \in Node, Queued(q.node, n)
  PROVE  LET r == remove_timeout_2(q, n)
         IN  SameBut(q, r, n) /\ ~Queued(r.node, n) /\ \E M, d : Listed(r, Base(build), M, d)
               /\ r.node[n].handler = q.node[n].handler
<1>1. PICK base \in Nat : base = Base(build) /\ base % 2 = 0
  <2>1. PICK b \in Nat : b = build
    OBVIOUS
  <2> QED BY <2>1, Spots, TimerNumbers
<1>2. /\ 1 \in 1 .. L /\ c \in [1 .. L -> Node] /\ L \in Nat /\ L <= Timers + 1 /\ Timers \in Nat
      /\ \A v, j \in 1 .. L : c[v] = c[j] => v = j
      /\ q.first = Spot(base, c[1]) /\ Listed(q, base, L, c)
      /\ \A m \in Node : Queued(q.node, m) <=> \E v \in 1 .. L : c[v] = m
  <2>1. Listed(q, base, L, c)
    BY <1>1
  <2>2. L \in 1 .. Timers + 1 /\ Timers \in Nat
    BY <2>1, TimerNumbers DEF Listed
  <2>3. 1 \in 1 .. L /\ L \in Nat /\ L <= Timers + 1
    BY <2>2
  <2>4. /\ c \in [1 .. L -> Node]
        /\ \A v, j \in 1 .. L : c[v] = c[j] => v = j
        /\ q.first = Spot(base, c[1])
        /\ \A m \in Node : Queued(q.node, m) <=> \E v \in 1 .. L : c[v] = m
    BY <2>1 DEF Listed
  <2> QED BY <2>1, <2>2, <2>3, <2>4
<1>3. \A m \in Node : /\ AddressOf(m) = Spot(base, m) /\ Of(Spot(base, m)) = m
                      /\ Spot(base, m) # Null
                      /\ \A o \in Node : Spot(base, m) = Spot(base, o) => m = o
  BY <1>1, Places
<1>4. PICK p \in 1 .. L : c[p] = n
  BY <1>2
<1>5. CASE p = 1
  <2>1. q.first = AddressOf(n) /\ n = c[1]
    BY <1>2, <1>3, <1>4, <1>5
  <2>2. remove_timeout_2(q, n) = RemoveHead(q, n)
    BY <2>1 DEF remove_timeout_2
  <2> QED BY <2>1, <2>2, HeadRemoved
<1>6. CASE p # 1
  <2>1. p - 1 \in 1 .. L /\ p - 1 \in Node /\ p - 1 + 1 = p /\ p > 1 /\ p - 2 \in Node
          /\ p - 2 + 1 = p - 1
    BY <1>2, <1>6 DEF Node
  <2>2. q.first # AddressOf(n)
    <3>1. c[1] # n /\ c[1] \in Node
      BY <1>2, <1>4, <1>6
    <3> QED BY <1>2, <1>3, <3>1
  <2> DEFINE at == Along(q)
  <2>3. \A k \in Node : at[k] = IF k + 1 <= L THEN Spot(base, c[k + 1]) ELSE Null
    BY <1>1, <1>2, AlongIs
  <2>4. (CHOOSE k \in Node : at[k] = AddressOf(n)) = p - 1
    <3> HIDE DEF at
    <3>1. at[p - 1] = AddressOf(n)
      <4>1. PICK k \in Node : k = p - 1
        BY <2>1
      <4>2. at[k] = Spot(base, c[p])
        BY <1>2, <2>1, <2>3, <4>1
      <4> QED BY <1>3, <1>4, <4>1, <4>2
    <3>2. ASSUME NEW k \in Node, at[k] = AddressOf(n) PROVE k = p - 1
      <4>1. AddressOf(n) = Spot(base, n) /\ Spot(base, n) # Null
        BY <1>3
      <4>2. k + 1 <= L /\ at[k] = Spot(base, c[k + 1])
        BY <2>3, <3>2, <4>1
      <4>3. k + 1 \in 1 .. L /\ k \in Nat
        BY <1>2, <4>2 DEF Node
      <4>4. c[k + 1] \in Node
        BY <1>2, <4>3
      <4>5. c[k + 1] = n
        BY <1>3, <3>2, <4>1, <4>2, <4>4
      <4>6. k + 1 = p
        BY <1>2, <1>4, <4>3, <4>5
      <4> QED BY <4>3, <4>6
    <3> QED BY <2>1, <3>1, <3>2
  <2>5. Of(at[p - 1 - 1]) = c[p - 1] /\ c[p - 1] \in Node /\ c[p - 1] # n
    <3> HIDE DEF at
    <3>1. PICK k \in Node : k = p - 2
      BY <2>1
    <3>2. at[k] = Spot(base, c[p - 1])
      BY <1>2, <2>1, <2>3, <3>1
    <3>3. p - 1 - 1 = k
      BY <1>2, <3>1
    <3>4. c[p - 1] \in Node /\ c[p - 1] # n
      BY <1>2, <1>4, <2>1
    <3> QED BY <1>3, <3>2, <3>3, <3>4
  <2> DEFINE nodes == [[q.node EXCEPT ![c[p - 1]].next = q.node[n].next] EXCEPT ![n].next = 1]
             r == [q EXCEPT !.node = nodes]
  <2>6. remove_timeout_2(q, n) = r
    <3>1. remove_timeout_2(q, n) = [q EXCEPT !.node[c[p - 1]].next = q.node[n].next,
                                             !.node[n].next = 1]
      <4> HIDE DEF r
      <4> QED BY <2>2, <2>4, <2>5 DEF remove_timeout_2
    <3> QED BY <3>1 DEF TimeoutList
  <2>7. /\ \A m \in Node : nodes[m].handler = q.node[m].handler /\ nodes[m].due = q.node[m].due
        /\ \A m \in Node : m # n /\ m # c[p - 1] => nodes[m].next = q.node[m].next
        /\ nodes[c[p - 1]].next = q.node[n].next /\ nodes[n].next = 1
        /\ nodes \in [Node -> [handler : Int, due : Int, next : Int]]
    <3>1. q.node \in [Node -> [handler : Int, due : Int, next : Int]]
      BY DEF TimeoutList
    <3>2. PICK nd \in [Node -> [handler : Int, due : Int, next : Int]], x \in Int, y \in Node :
             nd = q.node /\ x = q.node[n].next /\ y = c[p - 1] /\ y # n
      BY <2>5, <3>1
    <3>3. nodes = [[nd EXCEPT ![y].next = x] EXCEPT ![n].next = 1]
      BY <3>2
    <3> HIDE DEF nodes
    <3>4. /\ \A m \in Node : nodes[m].handler = nd[m].handler /\ nodes[m].due = nd[m].due
          /\ \A m \in Node : m # n /\ m # y => nodes[m].next = nd[m].next
          /\ nodes[y].next = x /\ nodes[n].next = 1
      <4>1. PICK md : md = [nd EXCEPT ![y].next = x]
        OBVIOUS
      <4>2. /\ md \in [Node -> [handler : Int, due : Int, next : Int]]
            /\ \A m \in Node : md[m].handler = nd[m].handler /\ md[m].due = nd[m].due
            /\ \A m \in Node : m # y => md[m].next = nd[m].next
            /\ md[y].next = x
        BY <3>2, <4>1
      <4>3. nodes = [md EXCEPT ![n].next = 1]
        BY <3>3, <4>1
      <4>4. /\ \A m \in Node : nodes[m].handler = md[m].handler /\ nodes[m].due = md[m].due
            /\ \A m \in Node : m # n => nodes[m].next = md[m].next
            /\ nodes[n].next = 1
        BY <4>2, <4>3
      <4> QED BY <3>2, <4>2, <4>4
    <3>5. nodes \in [Node -> [handler : Int, due : Int, next : Int]]
      BY <3>3
    <3> QED BY <3>2, <3>4, <3>5
  <2> HIDE DEF nodes
  <2>8. /\ r.time = q.time /\ r.run = q.run /\ r.left = q.left /\ r.first = q.first
        /\ r.node = nodes /\ r \in TimeoutList
    BY <2>7 DEF TimeoutList
  <2> HIDE DEF r
  <2>9. TimeNow(r) = TimeNow(q)
    BY <2>8 DEF TimeNow
  <2>10. /\ \A m \in Node : r.node[m].handler = q.node[m].handler /\ r.node[m].due = q.node[m].due
         /\ \A m \in Node : m # c[p] /\ (p > 1 => m # c[p - 1]) => r.node[m].next = q.node[m].next
         /\ r.node[c[p - 1]].next = q.node[c[p]].next
         /\ r.node[c[p]].next % 2 = 1
         /\ r.first = IF p = 1 THEN q.node[c[1]].next ELSE q.first
         /\ r.time + r.run = IF p = 1 THEN q.node[c[2]].due ELSE q.time + q.run
    BY <1>4, <1>6, <2>1, <2>7, <2>8
  <2>11. SameBut(q, r, c[p]) /\ ~Queued(r.node, c[p]) /\ \E M, d : Listed(r, base, M, d)
    <3>1. p > 1 => r.node[c[p - 1]].next = q.node[c[p]].next
      BY <2>10
    <3>2. base % 2 = 0 /\ Listed(q, base, L, c) /\ r \in TimeoutList
      BY <1>1, <1>2, <2>8
    <3> QED BY <2>9, <2>10, <3>1, <3>2, NodeGoes
  <2> QED BY <1>1, <1>4, <2>6, <2>10, <2>11
<1> QED
  BY <1>5, <1>6

\* What setting a node leaves.
Placed(q, r, n, handler, due) ==
  /\ SameBut(q, r, n) /\ Queued(r.node, n)
  /\ r.node[n].handler = handler /\ r.node[n].due = due
  /\ \E M, d : Listed(r, Base(build), M, d)

\* i_t_replace_first (timeout.s:609-638)
LEMMA FirstReplaced ==
  ASSUME build \in Nat, NEW L, NEW c, NEW q \in TimeoutList, Listed(q, Base(build), L, c),
         NEW n \in Node, ~Queued(q.node, n), NEW due \in Int, q.node[n].due = due,
         due - q.time - q.run < 0
  PROVE  Placed(q, ReplaceFirst(q, n, due), n, q.node[n].handler, due)
<1>1. PICK base \in Nat : base = Base(build) /\ base % 2 = 0
  <2>1. PICK b \in Nat : b = build
    OBVIOUS
  <2> QED BY <2>1, Spots, TimerNumbers
<1>2. /\ 1 \in 1 .. L /\ c \in [1 .. L -> Node] /\ L \in Nat
      /\ q.time + q.run = q.node[c[1]].due /\ Listed(q, base, L, c)
  <2>1. Listed(q, base, L, c)
    BY <1>1
  <2>2. L \in 1 .. Timers + 1 /\ Timers \in Nat
    BY <2>1, TimerNumbers DEF Listed
  <2>3. c \in [1 .. L -> Node] /\ q.time + q.run = q.node[c[1]].due
    BY <2>1 DEF Listed
  <2> QED BY <2>1, <2>2, <2>3
<1>3. q.time \in Int /\ q.run \in Int /\ q.left \in Int /\ q.first \in Int
  BY DEF TimeoutList
<1>4. AddressOf(n) = Spot(base, n) /\ Spot(base, n) \in Int
  BY <1>1, Places
<1>50. TimeNow(q) \in Int /\ due - q.time - q.run \in Int
  BY <1>3 DEF TimeNow
<1>5. PICK tm \in Int, rn \in Int, lf \in Int, ft \in Int, nx \in Int, sooner \in Int :
        /\ sooner = due - q.time - q.run /\ tm = TimeNow(q) /\ rn = sooner + q.left
        /\ lf = q.left + sooner /\ ft = AddressOf(n) /\ nx = q.first
  <2>1. PICK sooner \in Int : sooner = due - q.time - q.run
    BY <1>50
  <2>2. sooner + q.left \in Int /\ q.left + sooner \in Int /\ AddressOf(n) \in Int
    BY <1>3, <1>4
  <2> QED BY <1>3, <1>50, <2>1, <2>2
<1>6. PICK r : r = ReplaceFirst(q, n, due)
  OBVIOUS
<1>7. r = [q EXCEPT !.time = tm, !.run = rn, !.left = lf, !.node[n].next = nx, !.first = ft]
  BY <1>5, <1>6, Zenon DEF ReplaceFirst
<1>8. Rewired(q, r, n, tm, rn, lf, ft, nx)
  BY <1>7, HeadOn
<1>9. /\ r.time = tm /\ r.run = rn /\ r.left = lf /\ r.first = ft /\ r \in TimeoutList
      /\ \A m \in Node : r.node[m].handler = q.node[m].handler /\ r.node[m].due = q.node[m].due
      /\ \A m \in Node : m # n => r.node[m].next = q.node[m].next
      /\ r.node[n].next = nx
  BY <1>8 DEF Rewired
<1>10. TimeNow(r) = TimeNow(q) /\ r.time + r.run = due
  <2>1. TimeNow(r) = tm + rn - lf /\ TimeNow(q) = q.time + q.run - q.left
    BY <1>9 DEF TimeNow
  <2> QED BY <1>3, <1>5, <1>9, <2>1
<1>11. q.node[c[1]].due \in Int /\ due <= q.node[c[1]].due
  <2>1. q.node[c[1]].due \in Int
    BY <1>2 DEF TimeoutList
  <2> QED BY <1>2, <1>3, <2>1
<1>12. PICK p \in 0 .. L : p = 0
  BY <1>2
<1>13. /\ r.node[n].next = q.first /\ r.first = Spot(base, n)
       /\ r.time + r.run = r.node[n].due /\ ~(p > 0) /\ p + 1 = 1
  BY <1>4, <1>5, <1>9, <1>10, <1>12
<1>14. r.node[n].due <= q.node[c[p + 1]].due
  BY <1>9, <1>11, <1>13
<1>15. SameBut(q, r, n) /\ Queued(r.node, n) /\ \E M, d : Listed(r, base, M, d)
  <2>1. Listed(q, base, L, c) /\ base % 2 = 0 /\ ~Queued(q.node, n) /\ r \in TimeoutList
    BY <1>1, <1>2, <1>9
  <2>2. \A m \in Node \ {n} : /\ r.node[m].handler = q.node[m].handler
                             /\ r.node[m].due = q.node[m].due
    BY <1>9
  <2>3. \A m \in Node \ {n} : (p > 0 => m # c[p]) => r.node[m].next = q.node[m].next
    BY <1>9
  <2>4. /\ r.node[n].next = IF p = 0 THEN q.first ELSE q.node[c[p]].next
        /\ p > 0 => r.node[c[p]].next = Spot(base, n)
        /\ r.first = IF p = 0 THEN Spot(base, n) ELSE q.first
        /\ p > 0 => q.node[c[p]].due <= r.node[n].due
        /\ p < L => r.node[n].due <= q.node[c[p + 1]].due
        /\ r.time + r.run = IF p = 0 THEN r.node[n].due ELSE q.time + q.run
        /\ TimeNow(r) = TimeNow(q)
    BY <1>10, <1>12, <1>13, <1>14
  <2> QED BY <2>1, <2>2, <2>3, <2>4, NodeComes
<1> QED
  BY <1>1, <1>6, <1>9, <1>15 DEF Placed

\* Two nodes' links changed.
Relinked(q, r, n, x, o, y) ==
  /\ r \in TimeoutList /\ r.time = q.time /\ r.run = q.run /\ r.left = q.left
  /\ r.first = q.first
  /\ \A m \in Node : r.node[m].handler = q.node[m].handler /\ r.node[m].due = q.node[m].due
  /\ \A m \in Node : m # n /\ m # o => r.node[m].next = q.node[m].next
  /\ r.node[n].next = x /\ r.node[o].next = y

LEMMA TwoLinks ==
  ASSUME NEW q \in TimeoutList, NEW n \in Node, NEW o \in Node, n # o, NEW x \in Int, NEW y \in Int,
         NEW r, r = [q EXCEPT !.node[n].next = x, !.node[o].next = y]
  PROVE  Relinked(q, r, n, x, o, y)
<1> DEFINE nodes == [[q.node EXCEPT ![n].next = x] EXCEPT ![o].next = y]
           s == [q EXCEPT !.node = nodes]
<1>1. r = s
  BY DEF TimeoutList
<1>2. /\ \A m \in Node : nodes[m].handler = q.node[m].handler /\ nodes[m].due = q.node[m].due
      /\ \A m \in Node : m # n /\ m # o => nodes[m].next = q.node[m].next
      /\ nodes[n].next = x /\ nodes[o].next = y
      /\ nodes \in [Node -> [handler : Int, due : Int, next : Int]]
  <2>1. q.node \in [Node -> [handler : Int, due : Int, next : Int]]
    BY DEF TimeoutList
  <2>2. PICK nd \in [Node -> [handler : Int, due : Int, next : Int]] : nd = q.node
    BY <2>1
  <2>3. nodes = [[nd EXCEPT ![n].next = x] EXCEPT ![o].next = y]
    BY <2>2
  <2> HIDE DEF nodes
  <2>4. /\ \A m \in Node : nodes[m].handler = nd[m].handler /\ nodes[m].due = nd[m].due
        /\ \A m \in Node : m # n /\ m # o => nodes[m].next = nd[m].next
        /\ nodes[n].next = x /\ nodes[o].next = y
    BY <2>2, <2>3
  <2>5. nodes \in [Node -> [handler : Int, due : Int, next : Int]]
    BY <2>3
  <2> QED BY <2>2, <2>4, <2>5
<1> HIDE DEF nodes
<1>3. /\ s.time = q.time /\ s.run = q.run /\ s.left = q.left /\ s.first = q.first
      /\ s.node = nodes /\ s \in TimeoutList
  BY <1>2 DEF TimeoutList
<1> HIDE DEF s
<1> QED
  BY <1>1, <1>2, <1>3 DEF Relinked

\* i_t_insert_before_next_next (timeout.s:639-657)
LEMMA InsertedLater ==
  ASSUME build \in Nat, NEW L, NEW c, NEW q \in TimeoutList, Listed(q, Base(build), L, c),
         NEW n \in Node, ~Queued(q.node, n), NEW due \in Int, q.node[n].due = due,
         ~(due - q.time - q.run < 0)
  PROVE  Placed(q, InsertLater(q, n, due), n, q.node[n].handler, due)
<1>1. PICK base \in Nat : base = Base(build) /\ base % 2 = 0
  <2>1. PICK b \in Nat : b = build
    OBVIOUS
  <2> QED BY <2>1, Spots, TimerNumbers
<1>2. /\ 1 \in 1 .. L /\ c \in [1 .. L -> Node] /\ L \in Nat /\ L >= 1 /\ L <= Timers + 1
      /\ Timers \in Nat /\ Listed(q, base, L, c)
      /\ q.first = Spot(base, c[1]) /\ q.time + q.run = q.node[c[1]].due
      /\ \A v \in 1 .. L : q.node[c[v]].next = IF v = L THEN Null ELSE Spot(base, c[v + 1])
      /\ \A m \in Node : Queued(q.node, m) <=> \E v \in 1 .. L : c[v] = m
  BY <1>1, TimerNumbers DEF Listed
<1>3. \A m \in Node : /\ AddressOf(m) = Spot(base, m) /\ Of(Spot(base, m)) = m
                      /\ Spot(base, m) # Null /\ Spot(base, m) \in Int
  BY <1>1, Places
<1>4. /\ q.time \in Int /\ q.run \in Int /\ \A m \in Node : q.node[m].due \in Int
      /\ \A m \in Node : q.node[m].next \in Int
  BY DEF TimeoutList
<1> DEFINE at == Along(q)
           Stops(next) == next = Null \/ due - q.time < q.node[Of(next)].due - q.time
           stops == {k \in Node : at[k] # Null /\ Stops(q.node[Of(at[k])].next)}
           Later(v) == v = L \/ due < q.node[c[v + 1]].due
<1>5. \A k \in Node : at[k] = IF k + 1 <= L THEN Spot(base, c[k + 1]) ELSE Null
  BY <1>1, <1>2, AlongIs
<1>6. \A k \in Node : k \in stops <=> (k + 1 \in 1 .. L /\ Later(k + 1))
  <2> TAKE k \in Node
  <2>0. k \in Nat /\ (k + 1 <= L <=> k + 1 \in 1 .. L)
    BY <1>2 DEF Node
  <2>1. CASE k + 1 \in 1 .. L
    <3>1. PICK v \in 1 .. L : v = k + 1
      BY <2>1
    <3>2. at[k] = Spot(base, c[v]) /\ c[v] \in Node
      BY <1>2, <1>5, <2>0, <3>1
    <3>3. Of(at[k]) = c[v] /\ at[k] # Null
      BY <1>3, <3>2
    <3>4. q.node[c[v]].next = IF v = L THEN Null ELSE Spot(base, c[v + 1])
      BY <1>2
    <3>5. v # L => v + 1 \in 1 .. L /\ c[v + 1] \in Node
      <4>1. v # L => v + 1 \in 1 .. L
        BY <1>2
      <4> QED BY <1>2, <4>1
    <3>6. v # L => /\ Of(Spot(base, c[v + 1])) = c[v + 1] /\ Spot(base, c[v + 1]) # Null
                   /\ q.node[c[v + 1]].due \in Int
      BY <1>3, <1>4, <3>5
    <3>7. Stops(q.node[c[v]].next) <=> Later(v)
      <4>1. CASE v = L
        BY <3>4, <4>1
      <4>2. CASE v # L
        <5>1. PICK x \in Int : x = q.node[c[v + 1]].due
          BY <3>6, <4>2
        <5>2. Stops(q.node[c[v]].next) <=> due - q.time < x - q.time
          BY <3>4, <3>6, <4>2, <5>1
        <5>3. due - q.time < x - q.time <=> due < x
          BY <1>4
        <5> QED BY <4>2, <5>1, <5>2, <5>3
      <4> QED BY <4>1, <4>2
    <3> HIDE DEF at, Stops, Later
    <3> QED BY <3>1, <3>3, <3>7
  <2>2. CASE ~(k + 1 \in 1 .. L)
    <3>1. at[k] = Null
      BY <1>5, <2>0, <2>2
    <3> HIDE DEF at, Stops, Later
    <3> QED BY <2>2, <3>1
  <2> QED BY <2>1, <2>2
<1> DEFINE j == CHOOSE v \in stops : \A k \in stops : v <= k
           before == Of(at[j])
<1>7. InsertLater(q, n, due) = [q EXCEPT !.node[n].next = q.node[before].next,
                                         !.node[before].next = AddressOf(n)]
  BY Zenon DEF InsertLater
<1> HIDE DEF at
<1>8. j \in stops /\ \A k \in stops : j <= k
  <2>1. L - 1 \in Node /\ L - 1 + 1 = L /\ L \in 1 .. L
    BY <1>2 DEF Node
  <2>2. L - 1 \in stops
    <3> HIDE DEF stops
    <3>1. PICK k \in Node : k = L - 1
      BY <2>1
    <3> QED BY <1>6, <2>1, <3>1
  <2>3. stops \in SUBSET Nat
    BY DEF Node
  <2> HIDE DEF stops
  <2>4. \E v \in stops : \A k \in stops : v <= k
    BY <2>2, <2>3, SmallestOf
  <2> QED BY <2>4
<1>9. stops \in SUBSET Node
  OBVIOUS
<1> HIDE DEF stops, j
<1>10. PICK p \in 1 .. L : p = j + 1 /\ Later(p) /\ j \in Node /\ j \in Nat
  <2>1. j \in Node
    BY <1>8, <1>9
  <2>2. j \in Nat
    BY <2>1 DEF Node
  <2> HIDE DEF Later
  <2> QED BY <1>6, <1>8, <2>1, <2>2
<1>11. before = c[p] /\ c[p] \in Node /\ c[p] # n
  <2>1. at[j] = Spot(base, c[p])
    BY <1>2, <1>5, <1>10
  <2>2. c[p] \in Node /\ c[p] # n
    BY <1>2
  <2> QED BY <1>3, <2>1, <2>2
<1>12. q.node[c[p]].due <= due
  <2>1. CASE p = 1
    BY <1>2, <1>4, <2>1
  <2>2. CASE p # 1
    <3>1. p - 1 \in 1 .. L /\ j - 1 \in Node /\ j - 1 + 1 = p - 1 /\ ~(j <= j - 1) /\ p - 1 # L
            /\ p - 1 + 1 = p
      BY <1>2, <1>10, <2>2 DEF Node
    <3>2. j - 1 \notin stops
      BY <1>8, <3>1
    <3>3. ~Later(p - 1)
      <4> HIDE DEF Later
      <4> QED BY <1>6, <3>1, <3>2
    <3>4. ~(due < q.node[c[p]].due)
      BY <3>1, <3>3
    <3> QED BY <1>4, <1>11, <3>4
  <2> QED BY <2>1, <2>2
<1>13. p < L => due <= q.node[c[p + 1]].due
  <2>1. ASSUME p < L PROVE due <= q.node[c[p + 1]].due
    <3>1. p # L /\ p + 1 \in 1 .. L
      BY <1>2, <2>1
    <3>2. due < q.node[c[p + 1]].due /\ c[p + 1] \in Node
      BY <1>2, <1>10, <3>1
    <3> QED BY <1>4, <3>2
  <2> QED BY <2>1
<1> HIDE DEF before, Later
<1>14. PICK o \in Node, x \in Int, y \in Int :
         o = c[p] /\ x = q.node[c[p]].next /\ y = Spot(base, n) /\ o # n
  BY <1>3, <1>4, <1>11
<1>15. PICK r : r = InsertLater(q, n, due)
  OBVIOUS
<1>16. r = [q EXCEPT !.node[n].next = x, !.node[o].next = y]
  BY <1>3, <1>7, <1>11, <1>14, <1>15, Zenon
<1>17. /\ r \in TimeoutList /\ r.time = q.time /\ r.run = q.run /\ r.left = q.left
       /\ r.first = q.first
       /\ \A m \in Node : r.node[m].handler = q.node[m].handler /\ r.node[m].due = q.node[m].due
       /\ \A m \in Node : m # n /\ m # o => r.node[m].next = q.node[m].next
       /\ r.node[n].next = x /\ r.node[o].next = y
  <2>1. Relinked(q, r, n, x, o, y)
    BY <1>14, <1>16, TwoLinks
  <2> QED BY <2>1 DEF Relinked
<1>18. TimeNow(r) = TimeNow(q) /\ r.time + r.run = q.time + q.run
  BY <1>17 DEF TimeNow
<1>19. PICK e \in 0 .. L : e = p
  BY <1>2
<1>20. e # 0 /\ e > 0 /\ (e < L => p < L)
  BY <1>2, <1>19
<1>21. /\ \A m \in Node \ {n} : (e > 0 => m # c[e]) => r.node[m].next = q.node[m].next
       /\ r.node[n].next = IF e = 0 THEN q.first ELSE q.node[c[e]].next
       /\ e > 0 => r.node[c[e]].next = Spot(base, n)
       /\ r.first = IF e = 0 THEN Spot(base, n) ELSE q.first
       /\ e > 0 => q.node[c[e]].due <= r.node[n].due
       /\ e < L => r.node[n].due <= q.node[c[e + 1]].due
       /\ r.time + r.run = IF e = 0 THEN r.node[n].due ELSE q.time + q.run
  BY <1>12, <1>13, <1>14, <1>17, <1>18, <1>19, <1>20
<1>22. SameBut(q, r, n) /\ Queued(r.node, n) /\ \E M, d : Listed(r, base, M, d)
  <2>1. base % 2 = 0 /\ Listed(q, base, L, c) /\ ~Queued(q.node, n) /\ r \in TimeoutList
    BY <1>1, <1>2, <1>17
  <2>2. \A m \in Node \ {n} : /\ r.node[m].handler = q.node[m].handler
                             /\ r.node[m].due = q.node[m].due
    BY <1>17
  <2> QED BY <2>1, <2>2, <1>18, <1>21, NodeComes
<1> QED
  BY <1>1, <1>15, <1>17, <1>22 DEF Placed

\* A node's handler and time changed that is not in the list.
Restored(q, r, n, handler, due) ==
  /\ r \in TimeoutList /\ r.time = q.time /\ r.run = q.run /\ r.left = q.left
  /\ r.first = q.first
  /\ \A m \in Node : m # n => r.node[m] = q.node[m]
  /\ r.node[n].handler = handler /\ r.node[n].due = due /\ r.node[n].next = q.node[n].next

LEMMA NodeStored ==
  ASSUME NEW q \in TimeoutList, NEW n \in Node, NEW handler \in Int, NEW due \in Int,
         NEW r, r = [q EXCEPT !.node[n].handler = handler, !.node[n].due = due]
  PROVE  Restored(q, r, n, handler, due)
<1> DEFINE nodes == [[q.node EXCEPT ![n].handler = handler] EXCEPT ![n].due = due]
           s == [q EXCEPT !.node = nodes]
<1>1. r = s
  BY DEF TimeoutList
<1>2. /\ \A m \in Node : m # n => nodes[m] = q.node[m]
      /\ nodes[n].handler = handler /\ nodes[n].due = due /\ nodes[n].next = q.node[n].next
      /\ nodes \in [Node -> [handler : Int, due : Int, next : Int]]
  <2>1. q.node \in [Node -> [handler : Int, due : Int, next : Int]]
    BY DEF TimeoutList
  <2>2. PICK nd \in [Node -> [handler : Int, due : Int, next : Int]] : nd = q.node
    BY <2>1
  <2>3. nodes = [[nd EXCEPT ![n].handler = handler] EXCEPT ![n].due = due]
    BY <2>2
  <2> HIDE DEF nodes
  <2>4. /\ \A m \in Node : m # n => nodes[m] = nd[m]
        /\ nodes[n].handler = handler /\ nodes[n].due = due /\ nodes[n].next = nd[n].next
    BY <2>2, <2>3
  <2>5. nodes \in [Node -> [handler : Int, due : Int, next : Int]]
    BY <2>3
  <2> QED BY <2>2, <2>4, <2>5
<1> HIDE DEF nodes
<1>3. /\ s.time = q.time /\ s.run = q.run /\ s.left = q.left /\ s.first = q.first
      /\ s.node = nodes /\ s \in TimeoutList
  BY <1>2 DEF TimeoutList
<1> HIDE DEF s
<1> QED
  BY <1>1, <1>2, <1>3 DEF Restored

\* install_timeout_2, install_timeout (timeout.s:562-608)
LEMMA Installed ==
  ASSUME build \in Nat, NEW L, NEW c, NEW q \in TimeoutList, Listed(q, Base(build), L, c),
         NEW n \in Node, ~Queued(q.node, n), NEW handler \in Int, NEW due \in Int
  PROVE  Placed(q, install_timeout_2(q, n, handler, due), n, handler, due)
<1>1. PICK s : s = [q EXCEPT !.node[n].handler = handler, !.node[n].due = due]
  OBVIOUS
<1>2. /\ s \in TimeoutList /\ s.time = q.time /\ s.run = q.run /\ s.left = q.left
      /\ s.first = q.first
      /\ \A m \in Node : m # n => s.node[m] = q.node[m]
      /\ s.node[n].handler = handler /\ s.node[n].due = due /\ s.node[n].next = q.node[n].next
  <2>1. Restored(q, s, n, handler, due)
    BY <1>1, NodeStored
  <2> QED BY <2>1 DEF Restored
<1>3. PICK base : base = Base(build)
  OBVIOUS
<1>4. /\ \A m \in Node : s.node[m].next = q.node[m].next
      /\ \A m \in Node : Queued(s.node, m) <=> Queued(q.node, m)
  BY <1>2 DEF Queued
<1>5. Listed(s, base, L, c)
  <2>1. Listed(q, base, L, c)
    BY <1>3
  <2>2. c \in [1 .. L -> Node] /\ \A v \in 1 .. L : c[v] # n /\ c[v] \in Node
    BY <2>1 DEF Listed
  <2>3. \A v \in 1 .. L : s.node[c[v]] = q.node[c[v]]
    BY <1>2, <2>2
  <2>4. 1 \in 1 .. L
    BY <2>1, TimerNumbers DEF Listed
  <2> QED BY <1>2, <1>4, <2>1, <2>3, <2>4 DEF Listed
<1>6. install_timeout_2(q, n, handler, due)
        = IF due - q.time - q.run < 0 THEN ReplaceFirst(s, n, due) ELSE InsertLater(s, n, due)
  BY <1>1 DEF install_timeout_2
<1>7. PICK r : r = install_timeout_2(q, n, handler, due)
  OBVIOUS
<1>8. Placed(s, r, n, handler, due)
  <2>1. Listed(s, Base(build), L, c) /\ ~Queued(s.node, n) /\ s.node[n].due = due
          /\ s.node[n].handler = handler
    BY <1>2, <1>3, <1>4, <1>5
  <2>2. CASE due - q.time - q.run < 0
    <3>1. due - s.time - s.run < 0 /\ r = ReplaceFirst(s, n, due)
      BY <1>2, <1>6, <1>7, <2>2
    <3> QED BY <1>2, <2>1, <3>1, FirstReplaced
  <2>3. CASE ~(due - q.time - q.run < 0)
    <3>1. ~(due - s.time - s.run < 0) /\ r = InsertLater(s, n, due)
      BY <1>2, <1>6, <1>7, <2>3
    <3> QED BY <1>2, <2>1, <3>1, InsertedLater
  <2> QED BY <2>2, <2>3
<1>9. TimeNow(s) = TimeNow(q)
  BY <1>2 DEF TimeNow
<1>10. SameBut(q, r, n)
  BY <1>2, <1>4, <1>8, <1>9 DEF Placed, SameBut
<1> QED
  BY <1>7, <1>8, <1>10 DEF Placed

\* Two nodes that are queued are two nodes of the list.
LEMMA AtLeastTwo ==
  ASSUME NEW q, NEW base, NEW L, NEW c, Listed(q, base, L, c), NEW m \in Node, NEW n \in Node,
         m # n, Queued(q.node, m), Queued(q.node, n)
  PROVE  L >= 2
<1>1. L \in Nat /\ L >= 1
  BY TimerNumbers DEF Listed
<1>2. PICK v \in 1 .. L : c[v] = m
  BY DEF Listed
<1>3. PICK j \in 1 .. L : c[j] = n
  BY DEF Listed
<1> QED
  BY <1>1, <1>2, <1>3

\* replace_timeout_2 (timeout.s:548-561)
LEMMA Replaced ==
  ASSUME build \in Nat, NEW L, NEW c, NEW q \in TimeoutList, Listed(q, Base(build), L, c),
         L >= 2, NEW n \in Node, NEW handler \in Int, NEW due \in Int
  PROVE  Placed(q, replace_timeout_2(q, n, handler, due), n, handler, due)
<1>1. PICK r : r = replace_timeout_2(q, n, handler, due)
  OBVIOUS
<1>2. CASE ~Queued(q.node, n)
  <2>1. r = install_timeout_2(q, n, handler, due)
    BY <1>1, <1>2 DEF replace_timeout_2
  <2> QED BY <1>1, <1>2, <2>1, Installed
<1>3. CASE Queued(q.node, n) /\ q.node[n].due = due
  <2>1. r = [q EXCEPT !.node[n].handler = handler]
    BY <1>1, <1>3 DEF replace_timeout_2
  <2>2. q.node[n].due \in Int /\ q.node \in [Node -> [handler : Int, due : Int, next : Int]]
    BY DEF TimeoutList
  <2> DEFINE s == [q EXCEPT !.node[n].handler = handler, !.node[n].due = due]
  <2>3. r = s
    <3> DEFINE nodes == [[q.node EXCEPT ![n].handler = handler] EXCEPT ![n].due = due]
    <3>1. nodes = [q.node EXCEPT ![n].handler = handler]
      <4>1. PICK nd \in [Node -> [handler : Int, due : Int, next : Int]] :
               nd = [q.node EXCEPT ![n].handler = handler]
        BY <2>2
      <4>2. nd[n].due = due
        BY <1>3, <2>2, <4>1
      <4>3. nodes = [nd EXCEPT ![n].due = due]
        BY <4>1
      <4> HIDE DEF nodes
      <4>4. nd = [nd EXCEPT ![n].due = due]
        BY <4>2
      <4> QED BY <4>1, <4>3, <4>4
    <3>2. r = [q EXCEPT !.node = [q.node EXCEPT ![n].handler = handler]]
      BY <2>1 DEF TimeoutList
    <3>3. s = [q EXCEPT !.node = nodes]
      BY DEF TimeoutList
    <3> HIDE DEF s, nodes
    <3> QED BY <3>1, <3>2, <3>3
  <2>4. /\ r \in TimeoutList /\ r.time = q.time /\ r.run = q.run /\ r.left = q.left
        /\ r.first = q.first
        /\ \A m \in Node : m # n => r.node[m] = q.node[m]
        /\ r.node[n].handler = handler /\ r.node[n].due = due
        /\ r.node[n].next = q.node[n].next
    <3>1. Restored(q, r, n, handler, due)
      <4>1. PICK t : t = s
        OBVIOUS
      <4>2. Restored(q, t, n, handler, due)
        BY <4>1, NodeStored
      <4> QED BY <2>3, <4>1, <4>2
    <3> QED BY <3>1 DEF Restored
  <2>5. /\ \A m \in Node : r.node[m].next = q.node[m].next /\ r.node[m].due = q.node[m].due
        /\ \A m \in Node : Queued(r.node, m) <=> Queued(q.node, m)
    BY <1>3, <2>4 DEF Queued
  <2>6. PICK base : base = Base(build)
    OBVIOUS
  <2>7. Listed(r, base, L, c)
    <3>1. Listed(q, base, L, c)
      BY <2>6
    <3>2. c \in [1 .. L -> Node] /\ 1 \in 1 .. L
      BY <3>1, TimerNumbers DEF Listed
    <3>3. \A v \in 1 .. L : /\ r.node[c[v]].next = q.node[c[v]].next
                            /\ r.node[c[v]].due = q.node[c[v]].due
      BY <2>5, <3>2
    <3> QED BY <2>4, <2>5, <3>1, <3>2, <3>3 DEF Listed
  <2>8. TimeNow(r) = TimeNow(q)
    BY <2>4 DEF TimeNow
  <2>9. SameBut(q, r, n)
    BY <2>4, <2>5, <2>8 DEF SameBut
  <2> QED BY <1>1, <1>3, <2>4, <2>5, <2>6, <2>7, <2>9 DEF Placed
<1>4. CASE Queued(q.node, n) /\ q.node[n].due # due
  <2>1. PICK s : s = remove_timeout_2(q, n)
    OBVIOUS
  <2>2. SameBut(q, s, n) /\ ~Queued(s.node, n)
    BY <1>4, <2>1, NodeRemoved
  <2>3. PICK M, d : Listed(s, Base(build), M, d)
    BY <1>4, <2>1, NodeRemoved
  <2>4. r = install_timeout_2(s, n, handler, due)
    BY <1>1, <1>4, <2>1 DEF replace_timeout_2
  <2>5. s \in TimeoutList
    BY <2>2 DEF SameBut
  <2>6. Placed(s, r, n, handler, due)
    BY <2>2, <2>3, <2>4, <2>5, Installed
  <2>7. SameBut(q, r, n)
    BY <2>2, <2>6 DEF Placed, SameBut
  <2> QED BY <1>1, <2>6, <2>7 DEF Placed
<1> QED
  BY <1>2, <1>3, <1>4

\* remove_timeout (timeout.s:659-662)
LEMMA Removed ==
  ASSUME build \in Nat, NEW L, NEW c, NEW q \in TimeoutList, Listed(q, Base(build), L, c),
         L >= 2, NEW n \in Node
  PROVE  LET r == remove_timeout(q, n)
         IN  SameBut(q, r, n) /\ ~Queued(r.node, n) /\ \E M, d : Listed(r, Base(build), M, d)
               /\ r.node[n].handler = q.node[n].handler
<1>1. CASE Queued(q.node, n)
  <2>1. remove_timeout(q, n) = remove_timeout_2(q, n)
    BY <1>1 DEF remove_timeout
  <2> QED BY <1>1, <2>1, NodeRemoved
<1>2. CASE ~Queued(q.node, n)
  <2>1. remove_timeout(q, n) = q
    BY <1>2 DEF remove_timeout
  <2> QED BY <1>2, <2>1 DEF SameBut
<1> QED
  BY <1>1, <1>2

-----------------------------------------------------------------------------
(* Saved states.                                                             *)

\* Every handler has an address of its own and its number in the table (timeout.s:1055-1071, 1121-1160).
LEMMA HandlerNumbers ==
  \A b \in Nat : \A h \in 1 .. Timers + 2 :
    /\ HandlerAt(h, b) \in Int /\ HandlerAt(h, b) # -1 /\ HandlerAt(h, b) # -2
    /\ \A v \in 1 .. Timers + 2 : HandlerAt(v, b) = HandlerAt(h, b) => v = h
    /\ lookup_timeout(HandlerAt(h, b), b) = h + 1
    /\ HandlerOf(h + 1, b) = HandlerAt(h, b)
<1>1. Timers \in Nat
  BY TimerNumbers
<1> TAKE b \in Nat
<1> TAKE h \in 1 .. Timers + 2
<1>2. /\ HandlerAt(h, b) \in Int /\ HandlerAt(h, b) # -1 /\ HandlerAt(h, b) # -2
      /\ \A v \in 1 .. Timers + 2 : HandlerAt(v, b) = HandlerAt(h, b) => v = h
  BY <1>1 DEF HandlerAt
<1>3. lookup_timeout(HandlerAt(h, b), b) = h + 1
  <2> DEFINE found == {v \in 1 .. Timers + 2 : HandlerAt(HandlersTable[v], b) = HandlerAt(h, b)}
  <2>1. \A v \in 1 .. Timers + 2 : HandlersTable[v] = v
    BY DEF HandlersTable
  <2>2. found = {h}
    BY <1>2, <2>1
  <2>3. lookup_timeout(HandlerAt(h, b), b)
          = CASE HandlerAt(h, b) = -1 -> 1
              [] found # {} -> 1 + CHOOSE v \in found : TRUE
              [] OTHER -> HandlerAt(h, b)
    BY Zenon DEF lookup_timeout
  <2> HIDE DEF found
  <2>4. found # {} /\ (CHOOSE v \in found : TRUE) = h
    BY <2>2
  <2>5. lookup_timeout(HandlerAt(h, b), b) = 1 + h
    <3>1. HandlerAt(h, b) # -1
      BY <1>2
    <3> QED BY <2>3, <2>4, <3>1, Zenon
  <2> QED BY <1>1, <2>5
<1>4. HandlerOf(h + 1, b) = HandlerAt(h, b)
  <2>1. h + 1 < HandlersTableSize /\ h + 1 # 1 /\ h + 1 - 1 = h /\ HandlersTable[h] = h
    BY <1>1 DEF HandlersTableSize, HandlersTable
  <2> QED BY <2>1 DEF HandlerOf
<1> QED
  BY <1>2, <1>3, <1>4

\* The same list at another place.
LEMMA ListMoved ==
  ASSUME NEW base \in Nat, base % 2 = 0, NEW other \in Nat, other % 2 = 0,
         NEW L, NEW c, NEW q, Listed(q, base, L, c), NEW r,
         r.time = q.time, r.run = q.run, \A n \in Node : r.node[n].due = q.node[n].due,
         \A m \in Node : q.first = Spot(base, m) => r.first = Spot(other, m),
         \A n \in Node : /\ q.node[n].next = Null => r.node[n].next = Null
                         /\ ~Queued(q.node, n) => ~Queued(r.node, n)
                         /\ \A m \in Node : q.node[n].next = Spot(base, m)
                                              => r.node[n].next = Spot(other, m)
  PROVE  Listed(r, other, L, c) /\ \A n \in Node : Queued(r.node, n) <=> Queued(q.node, n)
<1>1. /\ 1 \in 1 .. L /\ c \in [1 .. L -> Node] /\ L \in Nat
      /\ q.first = Spot(base, c[1])
      /\ \A v \in 1 .. L : q.node[c[v]].next = IF v = L THEN Null ELSE Spot(base, c[v + 1])
      /\ \A n \in Node : Queued(q.node, n) <=> \E v \in 1 .. L : c[v] = n
  BY TimerNumbers DEF Listed
<1>2. ASSUME NEW v \in 1 .. L
      PROVE  /\ c[v] \in Node /\ r.node[c[v]].next = IF v = L THEN Null ELSE Spot(other, c[v + 1])
             /\ Queued(r.node, c[v])
  <2>1. c[v] \in Node
    BY <1>1
  <2>2. CASE v = L
    <3>1. r.node[c[v]].next = Null
      BY <1>1, <2>1, <2>2
    <3> QED BY <2>1, <2>2, <3>1 DEF Queued, Null
  <2>3. CASE v # L
    <3>1. v + 1 \in 1 .. L /\ c[v + 1] \in Node
      <4>1. v + 1 \in 1 .. L
        BY <1>1, <2>3
      <4> QED BY <1>1, <4>1
    <3>2. r.node[c[v]].next = Spot(other, c[v + 1])
      BY <1>1, <2>1, <2>3, <3>1
    <3>3. Spot(other, c[v + 1]) % 2 = 0
      BY <3>1, SpotIsEven
    <3> QED BY <2>1, <2>3, <3>2, <3>3 DEF Queued
  <2> QED BY <2>2, <2>3
<1>3. \A n \in Node : Queued(r.node, n) <=> Queued(q.node, n)
  BY <1>1, <1>2
<1>4. r.first = Spot(other, c[1])
  BY <1>1, <1>2
<1>5. \A v \in 1 .. L : r.node[c[v]].due = q.node[c[v]].due
  BY <1>2
<1> QED
  BY <1>1, <1>2, <1>3, <1>4, <1>5 DEF Listed

\* What the routines keep of the handlers: a node's handler is one of the table, or none
\* and the node is not in the list.
Handled(q, b) ==
  \A n \in Node : \/ q.node[n].handler = -1 /\ ~Queued(q.node, n)
                  \/ \E h \in 1 .. Timers + 2 : q.node[n].handler = HandlerAt(h, b)

Sound(q, b) == q \in TimeoutList /\ Handled(q, b) /\ \E L, c : Listed(q, Base(b), L, c)

\* A saved state has offsets for addresses, and the handlers' numbers.
Numbered(s) ==
  \A n \in Node : \/ s.node[n].handler = 1 /\ ~Queued(s.node, n)
                  \/ \E h \in 1 .. Timers + 2 : s.node[n].handler = h + 1

SoundStored(s) == s \in TimeoutList /\ Numbered(s) /\ \E L, c : Listed(s, 0, L, c)

\* AlarmOf, of a list and a build.
AlarmAt(q, b, n) ==
  IF Queued(q.node, n)
  THEN [due |-> q.node[n].due,
        by |-> IF \E v \in 1 .. Timers + 2 : q.node[n].handler = HandlerAt(v, b)
               THEN CHOOSE v \in 1 .. Timers + 2 : q.node[n].handler = HandlerAt(v, b) ELSE 0]
  ELSE [due |-> -1, by |-> 0]

LEMMA AlarmsAre ==
  ASSUME NEW b \in Nat, NEW q, NEW n \in Node
  PROVE  /\ ~Queued(q.node, n) => AlarmAt(q, b, n) = [due |-> -1, by |-> 0]
         /\ \A h \in 1 .. Timers + 2 :
              q.node[n].handler = HandlerAt(h, b) /\ Queued(q.node, n)
                => AlarmAt(q, b, n) = [due |-> q.node[n].due, by |-> h]
<1>1. ASSUME NEW h \in 1 .. Timers + 2, q.node[n].handler = HandlerAt(h, b), Queued(q.node, n)
      PROVE  AlarmAt(q, b, n) = [due |-> q.node[n].due, by |-> h]
  <2>1. \A v \in 1 .. Timers + 2 : q.node[n].handler = HandlerAt(v, b) <=> v = h
    BY <1>1, HandlerNumbers
  <2>2. (CHOOSE v \in 1 .. Timers + 2 : q.node[n].handler = HandlerAt(v, b)) = h
    BY <2>1
  <2> QED BY <1>1, <2>2 DEF AlarmAt
<1> QED
  BY <1>1 DEF AlarmAt

\* A list whose handlers and links are written anew.
Recoded(q, r, first, handlers, links) ==
  /\ r \in TimeoutList /\ r.time = q.time /\ r.run = q.run /\ r.left = q.left /\ r.first = first
  /\ \A n \in Node : /\ r.node[n].handler = handlers[n] /\ r.node[n].due = q.node[n].due
                     /\ r.node[n].next = links[n]

LEMMA AllStored ==
  ASSUME NEW q \in TimeoutList, NEW ft \in Int, NEW hs \in [Node -> Int], NEW ns \in [Node -> Int],
         NEW r, NEW nodes, r = [q EXCEPT !.first = ft, !.node = nodes],
         nodes = [n \in Node |-> [q.node[n] EXCEPT !.handler = hs[n], !.next = ns[n]]]
  PROVE  Recoded(q, r, ft, hs, ns)
<1>1. q.node \in [Node -> [handler : Int, due : Int, next : Int]]
  BY DEF TimeoutList
<1>2. /\ nodes \in [Node -> [handler : Int, due : Int, next : Int]]
      /\ \A n \in Node : /\ nodes[n].handler = hs[n] /\ nodes[n].due = q.node[n].due
                         /\ nodes[n].next = ns[n]
  <2>1. ASSUME NEW n \in Node
        PROVE  /\ nodes[n] \in [handler : Int, due : Int, next : Int]
               /\ nodes[n].handler = hs[n] /\ nodes[n].due = q.node[n].due
               /\ nodes[n].next = ns[n]
    <3>1. PICK o \in [handler : Int, due : Int, next : Int] : o = q.node[n]
      BY <1>1
    <3>2. PICK h \in Int, x \in Int : h = hs[n] /\ x = ns[n]
      OBVIOUS
    <3>3. nodes[n] = [o EXCEPT !.handler = h, !.next = x]
      BY <3>1, <3>2
    <3>4. nodes[n] = [[o EXCEPT !.handler = h] EXCEPT !.next = x]
      BY <3>3
    <3> QED BY <3>1, <3>2, <3>4
  <2> QED BY <2>1
<1>3. /\ r.time = q.time /\ r.run = q.run /\ r.left = q.left /\ r.first = ft /\ r.node = nodes
      /\ r \in TimeoutList
  BY <1>2 DEF TimeoutList
<1>4. \A n \in Node : /\ r.node[n].handler = hs[n] /\ r.node[n].due = q.node[n].due
                      /\ r.node[n].next = ns[n]
  <2>1. r.node = nodes
    BY <1>3
  <2>2. \A n \in Node : /\ nodes[n].handler = hs[n] /\ nodes[n].due = q.node[n].due
                        /\ nodes[n].next = ns[n]
    BY <1>2
  <2> QED BY <2>1, <2>2, Zenon
<1> QED
  BY <1>3, <1>4 DEF Recoded

\* An address becomes an offset and an offset an address (timeout.s:965-978, 1014-1033).
LEMMA LinksRecoded ==
  \A b \in Nat :
    /\ Relative(Null, b) = Null /\ Absolute(Null, b) = Null
    /\ \A x \in Int : x % 2 # 0 => Relative(x, b) = x /\ Absolute(x, b) = x
    /\ \A n \in Node : /\ Relative(Spot(Base(b), n), b) = Spot(0, n)
                       /\ Absolute(Spot(0, n), b) = Spot(Base(b), n)
<1> TAKE b \in Nat
<1>1. Relative(Null, b) = Null /\ Absolute(Null, b) = Null
  BY DEF Relative, Absolute, Null
<1>2. ASSUME NEW x \in Int, x % 2 # 0 PROVE Relative(x, b) = x /\ Absolute(x, b) = x
  <2>1. x % 2 = 1
    BY <1>2
  <2> QED BY <1>2, <2>1 DEF Relative, Absolute
<1>3. ASSUME NEW n \in Node
      PROVE  /\ Relative(Spot(Base(b), n), b) = Spot(0, n)
             /\ Absolute(Spot(0, n), b) = Spot(Base(b), n)
  <2>1. Base(b) \in Nat /\ Base(b) % 2 = 0
    BY Spots
  <2>2. PICK base \in Nat : base = Base(b) /\ base % 2 = 0
    BY <2>1
  <2>3. Spot(base, n) \in Nat /\ Spot(base, n) % 2 = 0 /\ Spot(base, n) # Null
    BY <2>2, SpotIsEven
  <2>4. Spot(0, n) \in Nat /\ Spot(0, n) % 2 = 0 /\ Spot(0, n) # Null
    BY SpotIsEven
  <2>5. n \in Nat /\ n <= Timers /\ Timers \in Nat
    BY TimerNumbers DEF Node
  <2>6. Spot(base, n) - base = Spot(0, n) /\ Spot(0, n) + base = Spot(base, n)
    BY <2>2, <2>5 DEF Spot
  <2>7. ~(Spot(base, n) < base \/ Spot(base, n) > NodeAt(Timers + 1, b))
    <3>1. NodeAt(Timers + 1, b) = base + 4 + 12 * (Timers + 1)
      BY <2>2 DEF NodeAt
    <3> QED BY <2>2, <2>5, <3>1 DEF Spot
  <2>8. Relative(Spot(base, n), b) = Spot(0, n)
    BY <2>2, <2>3, <2>6 DEF Relative
  <2>9. Absolute(Spot(0, n), b) = Spot(base, n)
    BY <2>2, <2>4, <2>6, <2>7 DEF Absolute
  <2> QED BY <2>2, <2>8, <2>9
<1> QED
  BY <1>1, <1>2, <1>3

LEMMA NoHandler ==
  \A b \in Nat : lookup_timeout(-1, b) = 1 /\ HandlerOf(1, b) = -1
<1> TAKE b \in Nat
<1>1. lookup_timeout(-1, b) = 1
  <2> DEFINE found == {v \in 1 .. Timers + 2 : HandlerAt(HandlersTable[v], b) = -1}
  <2>1. \A v \in 1 .. Timers + 2 : HandlersTable[v] = v
    BY DEF HandlersTable
  <2>2. found = {}
    BY <2>1, HandlerNumbers
  <2>3. lookup_timeout(-1, b)
          = CASE -1 = -1 -> 1
              [] found # {} -> 1 + CHOOSE v \in found : TRUE
              [] OTHER -> -1
    BY Zenon DEF lookup_timeout
  <2> HIDE DEF found
  <2> QED BY <2>2, <2>3
<1>2. HandlerOf(1, b) = -1
  BY TimerNumbers DEF HandlerOf, HandlersTableSize
<1> QED
  BY <1>1, <1>2

\* encode_timeouts (timeout.s:948-991)
LEMMA Encoded ==
  ASSUME build \in Nat, NEW q, Sound(q, build), NEW s, s = encode_timeouts(q)
  PROVE  /\ SoundStored(s) /\ TimeNow(s) = TimeNow(q)
         /\ \A n \in Node : /\ KeptAlarm(s, n) = AlarmAt(q, build, n)
                            /\ Queued(s.node, n) <=> Queued(q.node, n)
<1>1. q \in TimeoutList
  BY DEF Sound
<1>2. PICK b \in Nat, base \in Nat : b = build /\ base = Base(b) /\ base % 2 = 0
  BY Spots, TimerNumbers
<1>3. PICK L, c : Listed(q, base, L, c)
  BY <1>2 DEF Sound
<1> DEFINE hs == [n \in Node |-> lookup_timeout(q.node[n].handler, b)]
           ns == [n \in Node |-> Relative(q.node[n].next, b)]
<1>4. /\ 1 \in 1 .. L /\ c \in [1 .. L -> Node] /\ L \in Nat
      /\ q.first = Spot(base, c[1])
      /\ \A v \in 1 .. L : q.node[c[v]].next = IF v = L THEN Null ELSE Spot(base, c[v + 1])
      /\ \A n \in Node : Queued(q.node, n) <=> \E v \in 1 .. L : c[v] = n
  BY <1>3, TimerNumbers DEF Listed
<1>5. \A n \in Node : q.node[n].next \in Int /\ q.node[n].due \in Int
  BY <1>1 DEF TimeoutList
<1>6. PICK ft : ft = Relative(q.first, b)
  OBVIOUS
<1>7. ft = Spot(0, c[1]) /\ c[1] \in Node /\ ft \in Int
  <2>1. c[1] \in Node
    BY <1>4
  <2>2. ft = Spot(0, c[1])
    BY <1>2, <1>4, <1>6, <2>1, LinksRecoded
  <2>3. Spot(0, c[1]) \in Nat
    BY <2>1, SpotIsEven
  <2> QED BY <2>1, <2>2, <2>3
<1>8. hs \in [Node -> Int]
  <2>1. ASSUME NEW n \in Node PROVE lookup_timeout(q.node[n].handler, b) \in Int
    <3>1. CASE q.node[n].handler = -1
      BY <3>1, NoHandler
    <3>2. CASE \E h \in 1 .. Timers + 2 : q.node[n].handler = HandlerAt(h, b)
      <4>1. PICK h \in 1 .. Timers + 2 : q.node[n].handler = HandlerAt(h, b)
        BY <3>2
      <4>2. lookup_timeout(q.node[n].handler, b) = h + 1
        BY <4>1, HandlerNumbers
      <4> QED BY <4>2, TimerNumbers
    <3> QED BY <1>2, <3>1, <3>2 DEF Sound, Handled
  <2> QED BY <2>1
<1>9. \A x \in Int : Relative(x, b) \in Int
  BY <1>2, Spots, TimerNumbers DEF Relative
<1>10. ns \in [Node -> Int]
  BY <1>5, <1>9
<1>11. /\ \A n \in Node : hs[n] = lookup_timeout(q.node[n].handler, b)
       /\ \A n \in Node : ns[n] = Relative(q.node[n].next, b)
  OBVIOUS
<1>12. PICK nodes : nodes = [n \in Node |-> [q.node[n] EXCEPT !.handler = lookup_timeout(@, b),
                                                             !.next = Relative(@, b)]]
  OBVIOUS
<1>13. nodes = [n \in Node |-> [q.node[n] EXCEPT !.handler = hs[n], !.next = ns[n]]]
  BY <1>11, <1>12
<1>14. s = [q EXCEPT !.first = ft, !.node = nodes]
  BY <1>2, <1>6, <1>12 DEF encode_timeouts
<1> HIDE DEF hs, ns
<1>15. Recoded(q, s, ft, hs, ns)
  BY <1>1, <1>7, <1>8, <1>10, <1>13, <1>14, AllStored
<1>16. /\ s \in TimeoutList /\ s.time = q.time /\ s.run = q.run /\ s.left = q.left /\ s.first = ft
       /\ \A n \in Node : /\ s.node[n].handler = lookup_timeout(q.node[n].handler, b)
                          /\ s.node[n].due = q.node[n].due
                          /\ s.node[n].next = Relative(q.node[n].next, b)
  BY <1>11, <1>15 DEF Recoded
<1>17. ASSUME NEW n \in Node
       PROVE  /\ q.node[n].next = Null => s.node[n].next = Null
              /\ ~Queued(q.node, n) => ~Queued(s.node, n)
              /\ \A m \in Node : q.node[n].next = Spot(base, m) => s.node[n].next = Spot(0, m)
  <2>1. q.node[n].next = Null => s.node[n].next = Null
    BY <1>16, LinksRecoded
  <2>2. ~Queued(q.node, n) => ~Queued(s.node, n)
    <3>1. q.node[n].next % 2 # 0 => s.node[n].next = q.node[n].next
      BY <1>5, <1>16, LinksRecoded
    <3> QED BY <3>1 DEF Queued
  <2>3. \A m \in Node : q.node[n].next = Spot(base, m) => s.node[n].next = Spot(0, m)
    BY <1>2, <1>16, LinksRecoded
  <2> QED BY <2>1, <2>2, <2>3
<1>18. \A m \in Node : q.first = Spot(base, m) => s.first = Spot(0, m)
  BY <1>2, <1>6, <1>16, LinksRecoded
<1>19. Listed(s, 0, L, c) /\ \A n \in Node : Queued(s.node, n) <=> Queued(q.node, n)
  <2>1. PICK other \in Nat : other = 0 /\ other % 2 = 0
    OBVIOUS
  <2>2. s.time = q.time /\ s.run = q.run /\ \A n \in Node : s.node[n].due = q.node[n].due
    BY <1>16
  <2>3. /\ \A m \in Node : q.first = Spot(base, m) => s.first = Spot(other, m)
        /\ \A n \in Node : /\ q.node[n].next = Null => s.node[n].next = Null
                           /\ ~Queued(q.node, n) => ~Queued(s.node, n)
                           /\ \A m \in Node : q.node[n].next = Spot(base, m)
                                                => s.node[n].next = Spot(other, m)
    BY <1>17, <1>18, <2>1
  <2>4. Listed(s, other, L, c) /\ \A n \in Node : Queued(s.node, n) <=> Queued(q.node, n)
    BY <1>2, <1>3, <2>1, <2>2, <2>3, ListMoved
  <2> QED BY <2>1, <2>4
<1>20. ASSUME NEW n \in Node
       PROVE  /\ \/ s.node[n].handler = 1 /\ ~Queued(s.node, n)
                 \/ \E h \in 1 .. Timers + 2 : s.node[n].handler = h + 1
              /\ KeptAlarm(s, n) = AlarmAt(q, b, n)
  <2>1. CASE q.node[n].handler = -1 /\ ~Queued(q.node, n)
    <3>1. s.node[n].handler = 1 /\ ~Queued(s.node, n)
      BY <1>16, <1>19, <2>1, NoHandler
    <3>2. AlarmAt(q, b, n) = [due |-> -1, by |-> 0]
      BY <2>1, AlarmsAre
    <3> QED BY <3>1, <3>2 DEF KeptAlarm
  <2>2. CASE \E h \in 1 .. Timers + 2 : q.node[n].handler = HandlerAt(h, b)
    <3>1. PICK h \in 1 .. Timers + 2 : q.node[n].handler = HandlerAt(h, b)
      BY <2>2
    <3>2. s.node[n].handler = h + 1 /\ s.node[n].handler - 1 = h
      <4>1. s.node[n].handler = h + 1
        BY <1>16, <3>1, HandlerNumbers
      <4> QED BY <4>1, TimerNumbers
    <3>3. CASE Queued(q.node, n)
      <4>1. AlarmAt(q, b, n) = [due |-> q.node[n].due, by |-> h]
        BY <3>1, <3>3, AlarmsAre
      <4>2. KeptAlarm(s, n) = [due |-> q.node[n].due, by |-> h]
        BY <1>16, <1>19, <3>2, <3>3 DEF KeptAlarm
      <4> QED BY <3>2, <4>1, <4>2
    <3>4. CASE ~Queued(q.node, n)
      <4>1. AlarmAt(q, b, n) = [due |-> -1, by |-> 0]
        BY <3>4, AlarmsAre
      <4>2. KeptAlarm(s, n) = [due |-> -1, by |-> 0]
        BY <1>19, <3>4 DEF KeptAlarm
      <4> QED BY <3>2, <4>1, <4>2
    <3> QED BY <3>3, <3>4
  <2> QED BY <1>2, <2>1, <2>2 DEF Sound, Handled
<1>21. SoundStored(s)
  BY <1>16, <1>19, <1>20 DEF SoundStored, Numbered
<1>22. TimeNow(s) = TimeNow(q)
  BY <1>16 DEF TimeNow
<1> QED
  BY <1>2, <1>19, <1>20, <1>21, <1>22

\* decode_timeouts (timeout.s:993-1053)
LEMMA Decoded ==
  ASSUME build \in Nat, NEW s, SoundStored(s), NEW r, r = decode_timeouts(s)
  PROVE  /\ Sound(r, build) /\ TimeNow(r) = TimeNow(s)
         /\ \A n \in Node : /\ AlarmAt(r, build, n) = KeptAlarm(s, n)
                            /\ Queued(r.node, n) <=> Queued(s.node, n)
<1>1. s \in TimeoutList
  BY DEF SoundStored
<1>2. PICK b \in Nat, base \in Nat : b = build /\ base = Base(b) /\ base % 2 = 0
  BY Spots, TimerNumbers
<1>3. PICK L, c : Listed(s, 0, L, c)
  BY DEF SoundStored
<1> DEFINE hs == [n \in Node |-> HandlerOf(s.node[n].handler, b)]
           ns == [n \in Node |-> Absolute(s.node[n].next, b)]
<1>4. 1 \in 1 .. L /\ c \in [1 .. L -> Node] /\ s.first = Spot(0, c[1])
  BY <1>3, TimerNumbers DEF Listed
<1>5. \A n \in Node : s.node[n].next \in Int /\ s.node[n].due \in Int
  BY <1>1 DEF TimeoutList
<1>6. PICK ft : ft = Absolute(s.first, b)
  OBVIOUS
<1>7. ft = Spot(base, c[1]) /\ c[1] \in Node /\ ft \in Int
  <2>1. c[1] \in Node
    BY <1>4
  <2>2. ft = Spot(base, c[1])
    BY <1>2, <1>4, <1>6, <2>1, LinksRecoded
  <2>3. Spot(base, c[1]) \in Nat
    BY <1>2, <2>1, SpotIsEven
  <2> QED BY <2>1, <2>2, <2>3
<1>8. hs \in [Node -> Int]
  <2>1. ASSUME NEW n \in Node PROVE HandlerOf(s.node[n].handler, b) \in Int
    <3>1. CASE s.node[n].handler = 1
      BY <3>1, NoHandler
    <3>2. CASE \E h \in 1 .. Timers + 2 : s.node[n].handler = h + 1
      BY <3>2, HandlerNumbers
    <3> QED BY <3>1, <3>2 DEF SoundStored, Numbered
  <2> QED BY <2>1
<1>9. \A x \in Int : Absolute(x, b) \in Int
  BY <1>2 DEF Absolute, Null
<1>10. ns \in [Node -> Int]
  BY <1>5, <1>9
<1>11. /\ \A n \in Node : hs[n] = HandlerOf(s.node[n].handler, b)
       /\ \A n \in Node : ns[n] = Absolute(s.node[n].next, b)
  OBVIOUS
<1>12. PICK nodes : nodes = [n \in Node |-> [s.node[n] EXCEPT !.handler = HandlerOf(@, b),
                                                             !.next = Absolute(@, b)]]
  OBVIOUS
<1>13. nodes = [n \in Node |-> [s.node[n] EXCEPT !.handler = hs[n], !.next = ns[n]]]
  BY <1>11, <1>12
<1>14. r = [s EXCEPT !.first = ft, !.node = nodes]
  BY <1>2, <1>6, <1>12 DEF decode_timeouts
<1> HIDE DEF hs, ns
<1>15. Recoded(s, r, ft, hs, ns)
  BY <1>1, <1>7, <1>8, <1>10, <1>13, <1>14, AllStored
<1>16. /\ r \in TimeoutList /\ r.time = s.time /\ r.run = s.run /\ r.left = s.left /\ r.first = ft
       /\ \A n \in Node : /\ r.node[n].handler = HandlerOf(s.node[n].handler, b)
                          /\ r.node[n].due = s.node[n].due
                          /\ r.node[n].next = Absolute(s.node[n].next, b)
  BY <1>11, <1>15 DEF Recoded
<1>17. ASSUME NEW n \in Node
       PROVE  /\ s.node[n].next = Null => r.node[n].next = Null
              /\ ~Queued(s.node, n) => ~Queued(r.node, n)
              /\ \A m \in Node : s.node[n].next = Spot(0, m) => r.node[n].next = Spot(base, m)
  <2>1. s.node[n].next = Null => r.node[n].next = Null
    BY <1>16, LinksRecoded
  <2>2. ~Queued(s.node, n) => ~Queued(r.node, n)
    <3>1. s.node[n].next % 2 # 0 => r.node[n].next = s.node[n].next
      BY <1>5, <1>16, LinksRecoded
    <3> QED BY <3>1 DEF Queued
  <2>3. \A m \in Node : s.node[n].next = Spot(0, m) => r.node[n].next = Spot(base, m)
    BY <1>2, <1>16, LinksRecoded
  <2> QED BY <2>1, <2>2, <2>3
<1>18. \A m \in Node : s.first = Spot(0, m) => r.first = Spot(base, m)
  BY <1>2, <1>6, <1>16, LinksRecoded
<1>19. Listed(r, base, L, c) /\ \A n \in Node : Queued(r.node, n) <=> Queued(s.node, n)
  <2>1. PICK other \in Nat : other = 0 /\ other % 2 = 0
    OBVIOUS
  <2>2. r.time = s.time /\ r.run = s.run /\ \A n \in Node : r.node[n].due = s.node[n].due
    BY <1>16
  <2>3. /\ \A m \in Node : s.first = Spot(other, m) => r.first = Spot(base, m)
        /\ \A n \in Node : /\ s.node[n].next = Null => r.node[n].next = Null
                           /\ ~Queued(s.node, n) => ~Queued(r.node, n)
                           /\ \A m \in Node : s.node[n].next = Spot(other, m)
                                                => r.node[n].next = Spot(base, m)
    BY <1>17, <1>18, <2>1
  <2>4. Listed(s, other, L, c)
    BY <1>3, <2>1
  <2> QED BY <1>2, <2>1, <2>2, <2>3, <2>4, ListMoved
<1>20. ASSUME NEW n \in Node
       PROVE  /\ \/ r.node[n].handler = -1 /\ ~Queued(r.node, n)
                 \/ \E h \in 1 .. Timers + 2 : r.node[n].handler = HandlerAt(h, b)
              /\ AlarmAt(r, b, n) = KeptAlarm(s, n)
  <2>1. CASE s.node[n].handler = 1 /\ ~Queued(s.node, n)
    <3>1. r.node[n].handler = -1 /\ ~Queued(r.node, n)
      BY <1>16, <1>19, <2>1, NoHandler
    <3>2. AlarmAt(r, b, n) = [due |-> -1, by |-> 0]
      BY <3>1, AlarmsAre
    <3> QED BY <2>1, <3>1, <3>2 DEF KeptAlarm
  <2>2. CASE \E h \in 1 .. Timers + 2 : s.node[n].handler = h + 1
    <3>1. PICK h \in 1 .. Timers + 2 : s.node[n].handler = h + 1
      BY <2>2
    <3>2. r.node[n].handler = HandlerAt(h, b) /\ s.node[n].handler - 1 = h
      <4>1. r.node[n].handler = HandlerAt(h, b)
        BY <1>16, <3>1, HandlerNumbers
      <4> QED BY <3>1, <4>1, TimerNumbers
    <3>3. CASE Queued(s.node, n)
      <4>1. AlarmAt(r, b, n) = [due |-> r.node[n].due, by |-> h]
        BY <1>19, <3>2, <3>3, AlarmsAre
      <4>2. KeptAlarm(s, n) = [due |-> s.node[n].due, by |-> h]
        BY <3>2, <3>3 DEF KeptAlarm
      <4> QED BY <1>16, <3>2, <4>1, <4>2
    <3>4. CASE ~Queued(s.node, n)
      <4>1. AlarmAt(r, b, n) = [due |-> -1, by |-> 0]
        BY <1>19, <3>4, AlarmsAre
      <4>2. KeptAlarm(s, n) = [due |-> -1, by |-> 0]
        BY <3>4 DEF KeptAlarm
      <4> QED BY <3>2, <4>1, <4>2
    <3> QED BY <3>3, <3>4
  <2> QED BY <2>1, <2>2 DEF SoundStored, Numbered
<1>21. Sound(r, b)
  BY <1>2, <1>16, <1>19, <1>20 DEF Sound, Handled
<1>22. TimeNow(r) = TimeNow(s)
  BY <1>16 DEF TimeNow
<1> QED
  BY <1>2, <1>19, <1>20, <1>21, <1>22
-----------------------------------------------------------------------------
(* The list and the saved state in every state of the emulator.              *)

\* What runs is a handler of the build, or an instruction, or a handler is to be called; of the
\* first two nodes each is in the list or its handler runs; a state was saved in the second's.
TimersInv ==
  /\ build \in Nat /\ next_frame_timestamp \in Int
  /\ runs \in {Executing, Expired} \/ \E h \in 1 .. Timers + 2 : runs = HandlerAt(h, build)
  /\ runs = Expired => cycles < 0
  /\ Sound(Live, build)
  /\ \A n \in {Dummy, Prerender} :
       IF Queued(Live.node, n) THEN AlarmAt(Live, build, n).by = n + 1
       ELSE runs = HandlerAt(n + 1, build)
  /\ stored = <<>> \/ /\ SoundStored(stored[1]) /\ stored[2] \in Int
                      /\ Queued(stored[1].node, Dummy) /\ KeptAlarm(stored[1], Dummy).by = 1
                      /\ ~Queued(stored[1].node, Prerender)

\* The next list is what the routine leaves.
LEMMA LiveIs ==
  ASSUME NEW r \in TimeoutList, Becomes(r)
  PROVE  Live' = r
<1>1. /\ timestamp' = r.time /\ cycles_to_run' = r.run /\ cycles' = r.left
      /\ firsttimeout' = r.first /\ node' = r.node
  BY DEF Becomes
<1>2. r = [time |-> r.time, run |-> r.run, left |-> r.left, first |-> r.first, node |-> r.node]
  BY DEF TimeoutList
<1>3. Live' = [time |-> r.time, run |-> r.run, left |-> r.left, first |-> r.first,
               node |-> r.node]
  BY <1>1 DEF Live
<1> QED
  BY <1>2, <1>3

LEMMA MappingIs ==
  /\ AlarmsSet = [n \in Node |-> AlarmAt(Live, build, n)]
  /\ AlarmsSet' = [n \in Node |-> AlarmAt(Live', build', n)]
  /\ stored' = stored => AlarmsKept' = AlarmsKept
<1>1. /\ Live.node = node /\ (Live').node = node'
  BY DEF Live
<1>2. AlarmsSet = [n \in Node |-> AlarmAt(Live, build, n)]
  BY <1>1 DEF AlarmsSet, AlarmOf, AlarmAt
<1>3. AlarmsSet' = [n \in Node |-> AlarmAt(Live', build', n)]
  BY <1>1 DEF AlarmsSet, AlarmOf, AlarmAt
<1>4. stored' = stored => AlarmsKept' = AlarmsKept
  BY DEF AlarmsKept
<1> QED
  BY <1>2, <1>3, <1>4

\* What runs, by its number.
NumberOf(x, b) ==
  CASE x = Executing -> 0
    [] x = Expired -> -1
    [] OTHER -> CHOOSE h \in 1 .. Timers + 2 : x = HandlerAt(h, b)

LEMMA NumbersAre ==
  \A b \in Nat :
    /\ NumberOf(Executing, b) = 0 /\ NumberOf(Expired, b) = -1
    /\ \A h \in 1 .. Timers + 2 : /\ NumberOf(HandlerAt(h, b), b) = h
                                  /\ HandlerAt(h, b) # Executing /\ HandlerAt(h, b) # Expired
<1> TAKE b \in Nat
<1>1. NumberOf(Executing, b) = 0
  <2>1. Expired # Executing
    BY DEF Expired, Executing
  <2> QED BY <2>1 DEF NumberOf
<1>2. NumberOf(Expired, b) = -1
  <2>1. Expired # Executing
    BY DEF Expired, Executing
  <2> QED BY <2>1 DEF NumberOf
<1>3. ASSUME NEW h \in 1 .. Timers + 2
      PROVE  /\ NumberOf(HandlerAt(h, b), b) = h
             /\ HandlerAt(h, b) # Executing /\ HandlerAt(h, b) # Expired
  <2>1. HandlerAt(h, b) # Executing /\ HandlerAt(h, b) # Expired
    BY HandlerNumbers DEF Executing, Expired
  <2>2. \A v \in 1 .. Timers + 2 : HandlerAt(h, b) = HandlerAt(v, b) <=> v = h
    BY HandlerNumbers
  <2>3. (CHOOSE v \in 1 .. Timers + 2 : HandlerAt(h, b) = HandlerAt(v, b)) = h
    BY <2>2
  <2> QED BY <2>1, <2>3 DEF NumberOf
<1> QED
  BY <1>1, <1>2, <1>3

LEMMA RunningIs ==
  /\ RunningNow = NumberOf(runs, build) /\ RunningNow' = NumberOf(runs', build')
  /\ build' = build /\ runs' = runs => RunningNow' = RunningNow
  BY DEF RunningNow, NumberOf

LEMMA OwnNumbers ==
  /\ Dummy \in Node /\ Prerender \in Node /\ Dummy # Prerender /\ Dummy = 0 /\ Prerender = 1
  /\ 1 \in 1 .. Timers + 2 /\ 2 \in 1 .. Timers + 2
  BY TimerNumbers DEF Dummy, Prerender

LEMMA InvNames ==
  TimersInv =>
    /\ build \in Nat /\ Sound(Live, build) /\ Live \in TimeoutList /\ Live.node = node
    /\ \E L, c : Listed(Live, Base(build), L, c)
    /\ Live.time = timestamp /\ Live.run = cycles_to_run /\ Live.left = cycles
    /\ Live.first = firsttimeout
    /\ TimeNow(Live) = timestamp + cycles_to_run - cycles
    /\ timestamp \in Int /\ cycles_to_run \in Int /\ cycles \in Int /\ TimeNow(Live) \in Int
  BY DEF TimersInv, Sound, Live, TimeNow, TimeoutList

\* The first two nodes are in the list unless their handlers run and have not put them back.
LEMMA BothQueued ==
  ASSUME TimersInv, ~InMenu, DummyRuns => Queued(node, Dummy)
  PROVE  Queued(Live.node, Dummy) /\ Queued(Live.node, Prerender)
<1>1. Live.node = node
  BY InvNames
<1>2. Queued(node, Dummy)
  <2>1. ~Queued(node, Dummy) => runs = HandlerAt(1, build)
    BY <1>1, OwnNumbers DEF TimersInv
  <2> QED BY <2>1 DEF DummyRuns
<1>3. Queued(node, Prerender)
  <2>1. ~Queued(node, Prerender) => runs = HandlerAt(2, build)
    BY <1>1, OwnNumbers DEF TimersInv
  <2> QED BY <2>1 DEF InMenu, LineRuns
<1> QED
  BY <1>1, <1>2, <1>3

LEMMA NoHandlerRuns ==
  TimersInv /\ runs \in {Executing, Expired} => ~InMenu /\ ~DummyRuns
<1> SUFFICES ASSUME TimersInv, runs \in {Executing, Expired} PROVE ~InMenu /\ ~DummyRuns
  OBVIOUS
<1>1. build \in Nat
  BY InvNames
<1> QED
  BY <1>1, OwnNumbers, NumbersAre DEF InMenu, LineRuns, DummyRuns

\* What each node of a sound list stands for.
LEMMA SoundAlarms ==
  ASSUME NEW b \in Nat, NEW q, Sound(q, b), NEW n \in Node
  PROVE  /\ q.node[n].due \in Int
         /\ Queued(q.node, n) =>
              \E h \in 1 .. Timers + 2 :
                 /\ q.node[n].handler = HandlerAt(h, b)
                 /\ AlarmAt(q, b, n) = [due |-> q.node[n].due, by |-> h]
                 /\ AlarmAt(q, b, n) # [due |-> -1, by |-> 0]
         /\ ~Queued(q.node, n) => AlarmAt(q, b, n) = [due |-> -1, by |-> 0]
         /\ AlarmAt(q, b, n) \in [due : Int, by : 1 .. Timers + 2] \cup {[due |-> -1, by |-> 0]}
<1>1. q.node[n].due \in Int
  BY DEF Sound, TimeoutList
<1>2. CASE Queued(q.node, n)
  <2>1. PICK h \in 1 .. Timers + 2 : q.node[n].handler = HandlerAt(h, b)
    BY <1>2 DEF Sound, Handled
  <2>2. AlarmAt(q, b, n) = [due |-> q.node[n].due, by |-> h]
    BY <1>2, <2>1, AlarmsAre
  <2>3. h # 0
    BY TimerNumbers
  <2>4. AlarmAt(q, b, n) # [due |-> -1, by |-> 0]
    BY <2>2, <2>3
  <2>5. AlarmAt(q, b, n) \in [due : Int, by : 1 .. Timers + 2]
    BY <1>1, <2>2
  <2> QED BY <1>1, <1>2, <2>1, <2>2, <2>4, <2>5
<1>3. CASE ~Queued(q.node, n)
  BY <1>1, <1>3, AlarmsAre
<1> QED
  BY <1>2, <1>3

\* An alarm is overdue exactly if the first of the list is.
LEMMA FirstIsEarliest ==
  ASSUME TimersInv
  PROVE  \E n \in Node :
           /\ n = Of(firsttimeout) /\ Queued(Live.node, n)
           /\ Live.node[n].due = timestamp + cycles_to_run
           /\ Alarms!Earliest(n) /\ AlarmsSet[n].due = timestamp + cycles_to_run
           /\ \A t \in Int : Alarms!NoneOverdue(t) <=> timestamp + cycles_to_run >= t
<1>1. PICK L, c : Listed(Live, Base(build), L, c)
  BY InvNames
<1>2. /\ 1 \in 1 .. L /\ c \in [1 .. L -> Node]
      /\ Live.first = Spot(Base(build), c[1]) /\ Live.time + Live.run = Live.node[c[1]].due
      /\ \A m \in Node : Queued(Live.node, m) <=> \E v \in 1 .. L : c[v] = m
      /\ \A v, j \in 1 .. L : v <= j => Live.node[c[v]].due <= Live.node[c[j]].due
      /\ \A v \in 1 .. L : 1 <= v
  BY <1>1, TimerNumbers DEF Listed
<1>3. PICK n \in Node : n = c[1]
  BY <1>2
<1>4. n = Of(firsttimeout)
  BY <1>2, <1>3, InvNames, Places
<1>5. Queued(Live.node, n) /\ Live.node[n].due = timestamp + cycles_to_run
  BY <1>2, <1>3, InvNames
<1>6. \A m \in Node : AlarmsSet[m] = AlarmAt(Live, build, m)
  BY MappingIs
<1>7. ASSUME NEW m \in Node
      PROVE  /\ Queued(Live.node, m) => /\ AlarmsSet[m] # [due |-> -1, by |-> 0]
                                        /\ AlarmsSet[m].due = Live.node[m].due
                                        /\ Live.node[m].due \in Int
                                        /\ Live.node[m].due >= timestamp + cycles_to_run
             /\ ~Queued(Live.node, m) => AlarmsSet[m] = [due |-> -1, by |-> 0]
  <2>1. CASE Queued(Live.node, m)
    <3>1. PICK h \in 1 .. Timers + 2 :
            /\ AlarmAt(Live, build, m) = [due |-> Live.node[m].due, by |-> h]
            /\ AlarmAt(Live, build, m) # [due |-> -1, by |-> 0]
      BY <2>1, InvNames, SoundAlarms
    <3>2. Live.node[m].due \in Int /\ Live.node[n].due \in Int
      BY InvNames, SoundAlarms
    <3>3. PICK v \in 1 .. L : c[v] = m
      BY <1>2, <2>1
    <3>4. Live.node[n].due <= Live.node[m].due
      BY <1>2, <1>3, <3>3
    <3>5. AlarmsSet[m] = AlarmAt(Live, build, m)
      BY <1>6
    <3>6. AlarmsSet[m].due = Live.node[m].due /\ AlarmsSet[m] # [due |-> -1, by |-> 0]
      BY <3>1, <3>5
    <3>7. Live.node[m].due >= timestamp + cycles_to_run
      BY <1>5, <3>2, <3>4
    <3> QED BY <2>1, <3>2, <3>6, <3>7
  <2>2. CASE ~Queued(Live.node, m)
    BY <1>6, <2>2, InvNames, SoundAlarms
  <2> QED BY <2>1, <2>2
<1>8. AlarmsSet[n].due = timestamp + cycles_to_run /\ AlarmsSet[n] # [due |-> -1, by |-> 0]
  BY <1>5, <1>7
<1>9. Alarms!Earliest(n)
  BY <1>7, <1>8 DEF Alarms!Earliest, Alarms!IsSet
<1>10. ASSUME NEW t \in Int
       PROVE  Alarms!NoneOverdue(t) <=> timestamp + cycles_to_run >= t
  <2>1. ASSUME Alarms!NoneOverdue(t) PROVE timestamp + cycles_to_run >= t
    BY <1>8, <2>1 DEF Alarms!NoneOverdue, Alarms!IsSet
  <2>2. ASSUME timestamp + cycles_to_run >= t, NEW m \in Node, AlarmsSet[m] # [due |-> -1, by |-> 0]
        PROVE  AlarmsSet[m].due >= t
    <3>1. /\ AlarmsSet[m].due = Live.node[m].due /\ Live.node[m].due \in Int
          /\ Live.node[m].due >= timestamp + cycles_to_run
      BY <1>7, <2>2
    <3> QED BY <2>2, <3>1, InvNames
  <2> QED BY <2>1, <2>2 DEF Alarms!NoneOverdue, Alarms!IsSet
<1> QED
  BY <1>4, <1>5, <1>8, <1>9, <1>10

\* A step that sets or stops one node's time-out is a Change of its alarm.
LEMMA OneChanges ==
  ASSUME TimersInv, runs # Expired, build' = build, stored' = stored, runs' = runs,
         NEW n \in Node, NEW r, Live' = r, SameBut(Live, r, n), Sound(r, build)
  PROVE  Alarms!Change(n)
<1> DEFINE off == [due |-> -1, by |-> 0]
<1>1. \A m \in Node : m # n => AlarmAt(r, build, m) = AlarmAt(Live, build, m)
  BY DEF SameBut, AlarmAt
<1>2. AlarmAt(r, build, n) \in [due : Int, by : 1 .. Timers + 2] \cup {off}
  BY InvNames, SoundAlarms
<1>3. /\ AlarmsSet = [m \in Node |-> AlarmAt(Live, build, m)]
      /\ AlarmsSet' = [m \in Node |-> AlarmAt(r, build, m)]
      /\ AlarmsKept' = AlarmsKept
  BY MappingIs
<1>4. AlarmsSet'[n] = AlarmAt(r, build, n)
  BY <1>3
<1>5. AlarmsSet' = [AlarmsSet EXCEPT ![n] = AlarmsSet'[n]]
  <2>1. AlarmsSet' = [AlarmsSet EXCEPT ![n] = AlarmAt(r, build, n)]
    BY <1>1, <1>3
  <2> QED BY <1>4, <2>1
<1>6. TimeNow(Live)' = TimeNow(Live)
  <2>1. TimeNow(Live)' = TimeNow(Live')
    BY DEF TimeNow
  <2> QED BY <2>1 DEF SameBut
<1>7. RunningNow' = RunningNow /\ RunningNow # -1
  <2>1. build \in Nat /\ runs # Expired
    BY InvNames
  <2>2. runs = Executing \/ \E h \in 1 .. Timers + 2 : runs = HandlerAt(h, build)
    BY <2>1 DEF TimersInv
  <2>3. CASE runs = Executing
    BY <2>1, <2>3, RunningIs, NumbersAre
  <2>4. ASSUME NEW h \in 1 .. Timers + 2, runs = HandlerAt(h, build) PROVE NumberOf(runs, build) # -1
    <3>1. NumberOf(runs, build) = h
      BY <2>1, <2>4, NumbersAre
    <3> QED BY <3>1, TimerNumbers
  <2> QED BY <2>2, <2>3, <2>4, RunningIs
<1> QED
  BY <1>2, <1>3, <1>4, <1>5, <1>6, <1>7 DEF Alarms!Change

\* The first two nodes, after another was set or stopped.
LEMMA OwnKept ==
  ASSUME TimersInv, NEW n \in Node, NEW r, SameBut(Live, r, n), NEW m \in {Dummy, Prerender}, m # n
  PROVE  IF Queued(r.node, m) THEN AlarmAt(r, build, m).by = m + 1
         ELSE runs = HandlerAt(m + 1, build)
<1>1. m \in Node
  BY OwnNumbers
<1>2. AlarmAt(r, build, m) = AlarmAt(Live, build, m) /\ (Queued(r.node, m) <=> Queued(Live.node, m))
  BY <1>1 DEF SameBut, AlarmAt
<1> QED
  BY <1>2 DEF TimersInv

\* The list after a node was set, and after one was stopped.
LEMMA SoundPlaced ==
  ASSUME build \in Nat, NEW q, Sound(q, build), NEW r, NEW n \in Node, NEW h \in 1 .. Timers + 2,
         NEW due, Placed(q, r, n, HandlerAt(h, build), due)
  PROVE  /\ Sound(r, build) /\ SameBut(q, r, n) /\ r \in TimeoutList
         /\ Queued(r.node, n) /\ AlarmAt(r, build, n).by = h
<1>1. SameBut(q, r, n) /\ Queued(r.node, n) /\ r.node[n].handler = HandlerAt(h, build)
  BY DEF Placed
<1>2. r \in TimeoutList
  BY <1>1 DEF SameBut
<1>3. Handled(r, build)
  BY <1>1 DEF Sound, Handled, SameBut
<1>4. AlarmAt(r, build, n) = [due |-> r.node[n].due, by |-> h]
  BY <1>1, AlarmsAre
<1> QED
  BY <1>1, <1>2, <1>3, <1>4 DEF Placed, Sound

LEMMA SoundWithout ==
  ASSUME build \in Nat, NEW q, Sound(q, build), NEW r, NEW n \in Node,
         SameBut(q, r, n), ~Queued(r.node, n), r.node[n].handler = q.node[n].handler,
         NEW M, NEW d, Listed(r, Base(build), M, d)
  PROVE  Sound(r, build) /\ r \in TimeoutList
<1>1. r \in TimeoutList
  BY DEF SameBut
<1>2. Handled(r, build)
  BY DEF Sound, Handled, SameBut
<1> QED
  BY <1>1, <1>2 DEF Sound

\* timeout_reset (timeout.s:902-937): one node.
LEMMA Reset ==
  \A b \in Nat : LET q == timeout_reset(b)
                 IN  /\ Sound(q, b) /\ TimeNow(q) = 0 /\ q \in TimeoutList
                     /\ Queued(q.node, Dummy) /\ AlarmAt(q, b, Dummy).by = 1
                     /\ ~Queued(q.node, Prerender)
<1> TAKE b \in Nat
<1>1. PICK base \in Nat : base = Base(b) /\ base % 2 = 0
  BY Spots, TimerNumbers
<1>2. Far \in Nat /\ Timers \in Nat
  BY TimerNumbers, TimeoutsAssumption
<1>3. NodeAt(Dummy, b) = Spot(base, Dummy) /\ Spot(base, Dummy) \in Int
  BY <1>1, OwnNumbers, Spots, SpotIsEven
<1>4. PICK h1 \in Int : h1 = HandlerAt(1, b)
  BY OwnNumbers, HandlerNumbers
<1> DEFINE dummy == [handler |-> h1, due |-> Far, next |-> Null]
           none == [handler |-> -1, due |-> -1, next |-> -1]
           nodes == [n \in Node |-> IF n = Dummy THEN dummy ELSE none]
           q == [time |-> 0, run |-> Far, left |-> Far, first |-> NodeAt(Dummy, b),
                 node |-> nodes]
<1>5. timeout_reset(b) = q
  BY <1>4 DEF timeout_reset
<1>6. dummy \in [handler : Int, due : Int, next : Int]
        /\ none \in [handler : Int, due : Int, next : Int]
  BY <1>2, <1>4 DEF Null
<1>7. /\ dummy.handler = h1 /\ dummy.due = Far /\ dummy.next = Null
      /\ none.handler = -1 /\ none.next = -1
  OBVIOUS
<1> HIDE DEF dummy, none
<1>8. /\ nodes \in [Node -> [handler : Int, due : Int, next : Int]]
      /\ nodes[Dummy] = dummy /\ \A n \in Node : n # Dummy => nodes[n] = none
  BY <1>6, OwnNumbers
<1> HIDE DEF nodes
<1>9. /\ q.time = 0 /\ q.run = Far /\ q.left = Far /\ q.first = Spot(base, Dummy)
      /\ q.node = nodes /\ q \in TimeoutList
  BY <1>2, <1>3, <1>8 DEF TimeoutList
<1> HIDE DEF q
<1>10. \A n \in Node : Queued(q.node, n) <=> n = Dummy
  <2>1. Queued(nodes, Dummy)
    BY <1>7, <1>8 DEF Queued, Null
  <2>2. \A n \in Node : n # Dummy => ~Queued(nodes, n)
    BY <1>7, <1>8 DEF Queued
  <2> QED BY <1>9, <2>1, <2>2
<1>11. Listed(q, base, 1, <<Dummy>>)
  <2>1. PICK c : c = <<Dummy>>
    OBVIOUS
  <2>2. c \in [1 .. 1 -> Node] /\ c[1] = Dummy
    BY <2>1, OwnNumbers
  <2>3. 1 \in 1 .. Timers + 1 /\ \A v \in 1 .. 1 : v = 1
    BY <1>2
  <2>4. q.node[Dummy].next = Null /\ q.node[Dummy].due = Far /\ q.node[Dummy].due <= q.node[Dummy].due
    BY <1>2, <1>7, <1>8, <1>9
  <2>5. \A v \in 1 .. 1 : q.node[c[v]].next = IF v = 1 THEN Null ELSE Spot(base, c[v + 1])
    BY <2>2, <2>3, <2>4
  <2>6. \A n \in Node : Queued(q.node, n) <=> \E v \in 1 .. 1 : c[v] = n
    BY <1>10, <2>2, <2>3
  <2>7. \A v, j \in 1 .. 1 : v <= j => q.node[c[v]].due <= q.node[c[j]].due
    BY <2>2, <2>3, <2>4
  <2>8. q.time + q.run = q.node[c[1]].due
    BY <1>2, <1>9, <2>2, <2>4
  <2>9. q.first = Spot(base, c[1]) /\ \A v, j \in 1 .. 1 : c[v] = c[j] => v = j
    BY <1>9, <2>2, <2>3
  <2> QED BY <2>1, <2>2, <2>3, <2>5, <2>6, <2>7, <2>8, <2>9 DEF Listed
<1>12. Handled(q, b)
  <2>1. ASSUME NEW n \in Node
        PROVE  \/ q.node[n].handler = -1 /\ ~Queued(q.node, n)
               \/ \E h \in 1 .. Timers + 2 : q.node[n].handler = HandlerAt(h, b)
    <3>1. CASE n = Dummy
      BY <1>4, <1>7, <1>8, <1>9, <3>1, OwnNumbers
    <3>2. CASE n # Dummy
      BY <1>7, <1>8, <1>9, <1>10, <3>2
    <3> QED BY <3>1, <3>2
  <2> QED BY <2>1 DEF Handled
<1>13. TimeNow(q) = 0
  BY <1>2, <1>9 DEF TimeNow
<1>14. AlarmAt(q, b, Dummy).by = 1
  <2>1. q.node[Dummy].handler = HandlerAt(1, b) /\ Queued(q.node, Dummy)
    BY <1>4, <1>7, <1>8, <1>9, <1>10, OwnNumbers
  <2>2. AlarmAt(q, b, Dummy) = [due |-> q.node[Dummy].due, by |-> 1]
    BY <2>1, OwnNumbers, AlarmsAre
  <2> QED BY <2>2
<1> QED
  BY <1>1, <1>5, <1>9, <1>10, <1>11, <1>12, <1>13, <1>14, OwnNumbers DEF Sound

-----------------------------------------------------------------------------
(* The steps.                                                                *)

\* Cycles are counted down and nothing else moves.
LEMMA TimePasses ==
  ASSUME TimersInv, NEW k \in Nat, Spends(k), KeepList, build' = build, stored' = stored
  PROVE  /\ Sound(Live', build) /\ (Live').node = Live.node
         /\ \A n \in Node : AlarmAt(Live', build, n) = AlarmAt(Live, build, n)
         /\ AlarmsSet' = AlarmsSet /\ AlarmsKept' = AlarmsKept
         /\ TimeNow(Live)' = TimeNow(Live) + k /\ cycles' = cycles - k
         /\ Alarms!NoneOverdue(TimeNow(Live)') <=> cycles' >= 0
<1>1. PICK L, c : Listed(Live, Base(build), L, c)
  BY InvNames
<1>2. /\ cycles' = cycles - k /\ timestamp' = timestamp /\ cycles_to_run' = cycles_to_run
      /\ firsttimeout' = firsttimeout /\ node' = node
  BY DEF Spends, KeepList
<1>3. PICK r : r = Live'
  OBVIOUS
<1>4. /\ r.time = Live.time /\ r.run = Live.run /\ r.left = cycles - k /\ r.first = Live.first
      /\ r.node = Live.node /\ r \in TimeoutList
  <2>1. r = [Live EXCEPT !.left = cycles - k]
    BY <1>2, <1>3 DEF Live
  <2>2. Live \in TimeoutList /\ cycles - k \in Int
    BY InvNames
  <2> QED BY <2>1, <2>2 DEF TimeoutList
<1>5. Sound(r, build)
  <2>1. PICK base : base = Base(build)
    OBVIOUS
  <2>2. Listed(r, base, L, c)
    BY <1>1, <1>4, <2>1 DEF Listed
  <2> QED BY <1>4, <2>1, <2>2, InvNames DEF Sound, Handled
<1>6. \A n \in Node : AlarmAt(r, build, n) = AlarmAt(Live, build, n)
  BY <1>4 DEF AlarmAt
<1>7. AlarmsSet' = AlarmsSet /\ AlarmsKept' = AlarmsKept
  BY <1>3, <1>6, MappingIs
<1>8. TimeNow(Live)' = TimeNow(Live) + k
  <2>1. TimeNow(Live)' = timestamp + cycles_to_run - (cycles - k)
    BY <1>2 DEF TimeNow, Live
  <2> QED BY <2>1, InvNames
<1>9. Alarms!NoneOverdue(TimeNow(Live)') <=> cycles' >= 0
  <2>1. PICK t \in Int : t = TimeNow(Live)'
    BY <1>8, InvNames
  <2>2. Alarms!NoneOverdue(t) <=> timestamp + cycles_to_run >= t
    BY FirstIsEarliest
  <2>3. t = timestamp + cycles_to_run - cycles'
    BY <1>2, <1>8, <2>1, InvNames
  <2>4. timestamp + cycles_to_run >= t <=> cycles' >= 0
    BY <1>2, <2>3, InvNames
  <2> QED BY <2>1, <2>2, <2>4
<1> QED
  BY <1>2, <1>3, <1>4, <1>5, <1>6, <1>7, <1>8, <1>9

\* What is kept of the first two nodes and the saved state.
LEMMA TimePassesInv ==
  ASSUME TimersInv, NEW k \in Nat, Spends(k), KeepList, build' = build, stored' = stored,
         next_frame_timestamp' = next_frame_timestamp,
         Queued(Live.node, Dummy), Queued(Live.node, Prerender),
         \/ runs' = Executing
         \/ runs' = NextUp(cycles')
  PROVE  TimersInv'
<1>1. runs' \in {Executing, Expired} /\ (runs' = Expired => cycles' < 0)
  <2>1. cycles' \in Int
    BY TimePasses, InvNames
  <2> QED BY <2>1 DEF NextUp, Executing, Expired
<1>2. PICK r : r = Live'
  OBVIOUS
<1>3. /\ Sound(r, build) /\ r.node = Live.node
      /\ \A n \in Node : AlarmAt(r, build, n) = AlarmAt(Live, build, n)
  BY <1>2, TimePasses
<1>4. \A n \in {Dummy, Prerender} :
        IF Queued(r.node, n) THEN AlarmAt(r, build, n).by = n + 1
        ELSE runs' = HandlerAt(n + 1, build)
  BY <1>3, OwnNumbers DEF TimersInv
<1> QED
  BY <1>1, <1>2, <1>3, <1>4 DEF TimersInv

LEMMA InstructionExecutes ==
  ASSUME NEW k \in 1 .. Longest, NEW branch \in BOOLEAN
  PROVE  TimersInv /\ Instruction(k, branch) => TimersInv' /\ Alarms!Execute
<1> SUFFICES ASSUME TimersInv, Instruction(k, branch) PROVE TimersInv' /\ Alarms!Execute
  OBVIOUS
<1>1. /\ runs = Executing /\ Spends(k) /\ (branch => k >= Branch) /\ KeepList
      /\ build' = build /\ stored' = stored /\ next_frame_timestamp' = next_frame_timestamp
      /\ runs' = IF Suppressed(branch) THEN Executing ELSE NextUp(cycles')
  BY DEF Instruction
<1>2. k \in Nat /\ k > 0 /\ build \in Nat
  BY TimeoutsAssumption, InvNames
<1>3. Queued(Live.node, Dummy) /\ Queued(Live.node, Prerender)
  BY <1>1, NoHandlerRuns, BothQueued
<1>4. TimersInv'
  BY <1>1, <1>2, <1>3, TimePassesInv
<1>5. /\ AlarmsSet' = AlarmsSet /\ AlarmsKept' = AlarmsKept
      /\ TimeNow(Live)' = TimeNow(Live) + k /\ cycles' = cycles - k
      /\ Alarms!NoneOverdue(TimeNow(Live)') <=> cycles' >= 0
  BY <1>1, <1>2, TimePasses
<1>6. TimeNow(Live)' > TimeNow(Live)
  BY <1>2, <1>5, InvNames
<1>7. RunningNow = 0
  BY <1>1, <1>2, RunningIs, NumbersAre
<1>8. CASE Suppressed(branch)
  <2>1. runs' = Executing /\ RunningNow' = 0
    BY <1>1, <1>2, <1>8, RunningIs, NumbersAre
  <2>2. branch /\ cycles' >= -Late /\ Of(firsttimeout) \in Interrupts
    BY <1>8 DEF Suppressed
  <2>3. PICK n \in Node : /\ n = Of(firsttimeout) /\ Alarms!Earliest(n)
                          /\ AlarmsSet[n].due = timestamp + cycles_to_run
    BY FirstIsEarliest
  <2>4. cycles >= 0
    <3>1. k >= Branch /\ Late < Branch /\ Late \in Nat /\ Branch \in Nat
      BY <1>1, <2>2, TimeoutsAssumption
    <3> QED BY <1>2, <1>5, <2>2, <3>1, InvNames
  <2>5. AlarmsSet[n].due >= TimeNow(Live)
    BY <2>3, <2>4, InvNames
  <2> QED BY <1>4, <1>5, <1>6, <1>7, <2>1, <2>2, <2>3, <2>5 DEF Alarms!Execute
<1>9. CASE ~Suppressed(branch) /\ cycles' >= 0
  <2>1. runs' = Executing
    BY <1>1, <1>9 DEF NextUp
  <2>2. RunningNow' = 0
    BY <1>1, <1>2, <2>1, RunningIs, NumbersAre
  <2> QED BY <1>4, <1>5, <1>6, <1>7, <1>9, <2>2 DEF Alarms!Execute
<1>10. CASE ~Suppressed(branch) /\ ~(cycles' >= 0)
  <2>1. runs' = Expired
    BY <1>1, <1>10 DEF NextUp
  <2>2. RunningNow' = -1
    BY <1>1, <1>2, <2>1, RunningIs, NumbersAre
  <2> QED BY <1>4, <1>5, <1>6, <1>7, <1>10, <2>2 DEF Alarms!Execute
<1> QED
  BY <1>8, <1>9, <1>10

LEMMA ReturnReturns ==
  ASSUME NEW k \in 0 .. Longest
  PROVE  TimersInv /\ Return(k) => TimersInv' /\ Alarms!Return
<1> SUFFICES ASSUME TimersInv, Return(k) PROVE TimersInv' /\ Alarms!Return
  OBVIOUS
<1>1. /\ Spends(k) /\ KeepList /\ ~InMenu /\ (DummyRuns => Queued(node, Dummy))
      /\ build' = build /\ stored' = stored /\ next_frame_timestamp' = next_frame_timestamp
      /\ runs' = NextUp(cycles')
      /\ \E n \in Node : \E h \in HandlersOf(n) : runs = HandlerAt(h, build)
  BY DEF Return
<1>2. k \in Nat /\ build \in Nat
  BY TimeoutsAssumption, InvNames
<1>3. Queued(Live.node, Dummy) /\ Queued(Live.node, Prerender)
  BY <1>1, BothQueued
<1>4. TimersInv'
  BY <1>1, <1>2, <1>3, TimePassesInv
<1>5. /\ AlarmsSet' = AlarmsSet /\ AlarmsKept' = AlarmsKept
      /\ TimeNow(Live)' = TimeNow(Live) + k
      /\ Alarms!NoneOverdue(TimeNow(Live)') <=> cycles' >= 0
  BY <1>1, <1>2, TimePasses
<1>6. TimeNow(Live)' >= TimeNow(Live)
  BY <1>2, <1>5, InvNames
<1>7. PICK h \in 1 .. Timers + 2 : runs = HandlerAt(h, build)
  <2>1. \A n \in Node : HandlersOf(n) \subseteq 1 .. Timers + 2
    BY TimerNumbers DEF HandlersOf, Node
  <2> QED BY <1>1, <2>1
<1>8. RunningNow \in 1 .. Timers + 2
  BY <1>2, <1>7, RunningIs, NumbersAre
<1>9. RunningNow' = IF cycles' >= 0 THEN 0 ELSE -1
  BY <1>1, <1>2, RunningIs, NumbersAre DEF NextUp
<1> QED
  BY <1>4, <1>5, <1>6, <1>8, <1>9 DEF Alarms!Return

LEMMA TimeoutRings == TimersInv /\ Timeout => TimersInv' /\ \E n \in Node : Alarms!Ring(n)
<1> SUFFICES ASSUME TimersInv, Timeout PROVE TimersInv' /\ \E n \in Node : Alarms!Ring(n)
  OBVIOUS
<1>1. PICK L, c : Listed(Live, Base(build), L, c)
  BY InvNames
<1>2. /\ 1 \in 1 .. L /\ c \in [1 .. L -> Node] /\ Live.first = Spot(Base(build), c[1])
  BY <1>1, TimerNumbers DEF Listed
<1>3. PICK n \in Node :
        /\ n = Of(firsttimeout) /\ Queued(Live.node, n)
        /\ Alarms!Earliest(n) /\ AlarmsSet[n].due = timestamp + cycles_to_run
  BY FirstIsEarliest
<1>4. n = c[1]
  BY <1>2, <1>3, InvNames, Places
<1>5. /\ runs = Expired /\ cycles < 0 /\ Becomes(Pop(Live, n)) /\ runs' = node[n].handler
      /\ build' = build /\ stored' = stored /\ next_frame_timestamp' = next_frame_timestamp
  BY <1>3 DEF Timeout, TimersInv
<1>6. Queued(Live.node, Dummy) /\ Queued(Live.node, Prerender)
  BY <1>5, NoHandlerRuns, BothQueued
<1>7. L >= 2
  BY <1>1, <1>6, OwnNumbers, AtLeastTwo
<1>8. PICK r : r = Pop(Live, n)
  OBVIOUS
<1>9. /\ SameBut(Live, r, n) /\ ~Queued(r.node, n) /\ r.node[n].handler = Live.node[n].handler
      /\ \E M, d : Listed(r, Base(build), M, d)
  BY <1>1, <1>4, <1>7, <1>8, InvNames, HeadPopped
<1>10. PICK M, d : Listed(r, Base(build), M, d)
  BY <1>9
<1>11. Sound(r, build) /\ r \in TimeoutList
  BY <1>9, <1>10, InvNames, SoundWithout
<1>12. Live' = r
  BY <1>5, <1>8, <1>11, LiveIs
<1>13. PICK h \in 1 .. Timers + 2 :
         /\ Live.node[n].handler = HandlerAt(h, build)
         /\ AlarmAt(Live, build, n) = [due |-> Live.node[n].due, by |-> h]
         /\ AlarmAt(Live, build, n) # [due |-> -1, by |-> 0]
  BY <1>3, InvNames, SoundAlarms
<1>14. runs' = HandlerAt(h, build) /\ build \in Nat
  BY <1>5, <1>13, InvNames
<1>15. TimersInv'
  <2>1. ASSUME NEW m \in {Dummy, Prerender}
        PROVE  IF Queued(r.node, m) THEN AlarmAt(r, build, m).by = m + 1
               ELSE runs' = HandlerAt(m + 1, build)
    <3>1. CASE m = n
      <4>1. AlarmAt(Live, build, n).by = n + 1
        BY <1>6, <3>1 DEF TimersInv
      <4>2. h = n + 1
        BY <1>13, <4>1
      <4> QED BY <1>9, <1>14, <3>1, <4>2
    <3>2. CASE m # n
      <4>1. m \in Node /\ Queued(Live.node, m)
        BY <1>6, OwnNumbers
      <4>2. Queued(r.node, m)
        BY <1>9, <3>2, <4>1 DEF SameBut
      <4> QED BY <1>9, <3>2, <4>2, OwnKept
    <3> QED BY <3>1, <3>2
  <2>2. runs' # Expired
    BY <1>14, NumbersAre
  <2> QED BY <1>5, <1>11, <1>12, <1>14, <2>1, <2>2 DEF TimersInv
<1>16. /\ AlarmsSet = [m \in Node |-> AlarmAt(Live, build, m)]
       /\ AlarmsSet' = [m \in Node |-> AlarmAt(r, build, m)]
       /\ AlarmsKept' = AlarmsKept
  BY <1>5, <1>12, MappingIs
<1>17. AlarmsSet' = [AlarmsSet EXCEPT ![n] = [due |-> -1, by |-> 0]]
  <2>1. \A m \in Node : m # n => AlarmAt(r, build, m) = AlarmAt(Live, build, m)
    BY <1>9 DEF SameBut, AlarmAt
  <2>2. AlarmAt(r, build, n) = [due |-> -1, by |-> 0]
    BY <1>9 DEF AlarmAt
  <2> QED BY <1>16, <2>1, <2>2
<1>18. RunningNow = -1 /\ RunningNow' = h
  BY <1>5, <1>14, RunningIs, NumbersAre
<1>19. TimeNow(Live)' = TimeNow(Live)
  <2>1. TimeNow(Live)' = TimeNow(Live')
    BY DEF TimeNow
  <2> QED BY <1>9, <1>12, <2>1 DEF SameBut
<1>20. AlarmsSet[n].by = h
  BY <1>13, <1>16
<1>21. AlarmsSet[n].due < TimeNow(Live)
  BY <1>3, <1>5, InvNames
<1>22. Alarms!Ring(n)
  BY <1>3, <1>16, <1>17, <1>18, <1>19, <1>20, <1>21 DEF Alarms!Ring
<1> QED
  BY <1>15, <1>22

\* Node n is set by its own handler: the dummy's or the prerender line's.
LEMMA OwnInstalled ==
  ASSUME TimersInv, NEW n \in {Dummy, Prerender}, ~Queued(node, n), NEW due \in Int,
         Becomes(install_timeout_2(Live, n, HandlerAt(n + 1, build), due)),
         build' = build, stored' = stored, runs' = runs, next_frame_timestamp' \in Int
  PROVE  TimersInv' /\ Alarms!Change(n)
<1>1. n \in Node /\ n + 1 \in 1 .. Timers + 2 /\ build \in Nat
  BY OwnNumbers, InvNames
<1>2. PICK h \in 1 .. Timers + 2 : h = n + 1
  BY <1>1
<1>3. PICK r : r = install_timeout_2(Live, n, HandlerAt(h, build), due)
  OBVIOUS
<1>4. Placed(Live, r, n, HandlerAt(h, build), due)
  <2>1. ~Queued(Live.node, n) /\ HandlerAt(h, build) \in Int
    BY <1>1, InvNames, HandlerNumbers
  <2>2. PICK L, c : Listed(Live, Base(build), L, c)
    BY InvNames
  <2> QED BY <1>1, <1>3, <2>1, <2>2, InvNames, Installed
<1>5. /\ Sound(r, build) /\ SameBut(Live, r, n) /\ r \in TimeoutList
      /\ Queued(r.node, n) /\ AlarmAt(r, build, n).by = h
  BY <1>1, <1>4, InvNames, SoundPlaced
<1>6. Live' = r
  BY <1>2, <1>3, <1>5, LiveIs
<1>7. runs = HandlerAt(n + 1, build)
  <2>1. ~Queued(Live.node, n)
    BY InvNames
  <2> QED BY <2>1 DEF TimersInv
<1>8. runs # Expired
  BY <1>1, <1>7, NumbersAre
<1>9. TimersInv'
  <2>1. ASSUME NEW m \in {Dummy, Prerender}
        PROVE  IF Queued(r.node, m) THEN AlarmAt(r, build, m).by = m + 1
               ELSE runs = HandlerAt(m + 1, build)
    <3>1. CASE m = n
      BY <1>2, <1>5, <3>1
    <3>2. CASE m # n
      BY <1>1, <1>5, <3>2, OwnKept
    <3> QED BY <3>1, <3>2
  <2> QED BY <1>5, <1>6, <1>8, <2>1 DEF TimersInv
<1>10. Alarms!Change(n)
  BY <1>1, <1>5, <1>6, <1>8, OneChanges
<1> QED
  BY <1>9, <1>10

LEMMA AgainChanges == TimersInv /\ Again => TimersInv' /\ \E n \in Node : Alarms!Change(n)
<1> SUFFICES ASSUME TimersInv, Again PROVE TimersInv' /\ \E n \in Node : Alarms!Change(n)
  OBVIOUS
<1>1. PICK n \in {Dummy, Prerender} : n = Dummy /\ n + 1 = 1 /\ n \in Node
  BY OwnNumbers
<1>2. PICK due : due = node[n].due + Far
  OBVIOUS
<1>3. due \in Int
  <2>1. node[n].due \in Int
    BY <1>1, InvNames, SoundAlarms
  <2> QED BY <1>2, <2>1, TimeoutsAssumption
<1>4. /\ ~Queued(node, n) /\ build' = build /\ stored' = stored /\ runs' = runs
      /\ next_frame_timestamp' = next_frame_timestamp
      /\ Becomes(install_timeout_2(Live, n, HandlerAt(n + 1, build), due))
  BY <1>1, <1>2 DEF Again
<1>5. next_frame_timestamp' \in Int
  BY <1>4 DEF TimersInv
<1>6. TimersInv' /\ Alarms!Change(n)
  BY <1>3, <1>4, <1>5, OwnInstalled
<1> QED
  BY <1>1, <1>6

LEMMA LineChanges ==
  ASSUME NEW skip \in 0 .. 1
  PROVE  TimersInv /\ line0x(skip) => TimersInv' /\ \E n \in Node : Alarms!Change(n)
<1> SUFFICES ASSUME TimersInv, line0x(skip) PROVE TimersInv' /\ \E n \in Node : Alarms!Change(n)
  OBVIOUS
<1>1. PICK n \in {Dummy, Prerender} : n = Prerender /\ n + 1 = 2 /\ n \in Node
  BY OwnNumbers
<1>2. PICK due, next : next = next_frame_timestamp - skip + Frame /\ due = next - Early
  OBVIOUS
<1>3. next \in Int /\ due \in Int
  BY <1>2, TimeoutsAssumption DEF TimersInv
<1>4. /\ ~Queued(node, n) /\ build' = build /\ stored' = stored /\ runs' = runs
      /\ next_frame_timestamp' = next
      /\ Becomes(install_timeout_2(Live, n, HandlerAt(n + 1, build), due))
  BY <1>1, <1>2 DEF line0x, InMenu
<1>5. TimersInv' /\ Alarms!Change(n)
  BY <1>3, <1>4, OwnInstalled
<1> QED
  BY <1>1, <1>5

\* What may be set or stopped: not the first two nodes, and both are in the list.
LEMMA MaySetMeans ==
  ASSUME TimersInv, NEW n \in Node, MaySet(n)
  PROVE  /\ runs # Expired /\ n \notin {Dummy, Prerender}
         /\ \A L, c : Listed(Live, Base(build), L, c) => L >= 2
<1>1. runs # Expired /\ ~DummyRuns /\ ~InMenu /\ n \notin {Dummy, Prerender}
  BY DEF MaySet
<1>2. Queued(Live.node, Dummy) /\ Queued(Live.node, Prerender)
  BY <1>1, BothQueued
<1>3. \A L, c : Listed(Live, Base(build), L, c) => L >= 2
  BY <1>2, OwnNumbers, AtLeastTwo
<1> QED
  BY <1>1, <1>3

LEMMA SetChanges ==
  ASSUME NEW n \in Node, NEW h \in HandlersOf(n), NEW due \in Int
  PROVE  TimersInv /\ SetTimeout(n, h, due) => TimersInv' /\ Alarms!Change(n)
<1> SUFFICES ASSUME TimersInv, SetTimeout(n, h, due) PROVE TimersInv' /\ Alarms!Change(n)
  OBVIOUS
<1>1. /\ MaySet(n) /\ build' = build /\ stored' = stored /\ runs' = runs
      /\ next_frame_timestamp' = next_frame_timestamp
      /\ Becomes(replace_timeout_2(Live, n, HandlerAt(h, build), due))
  BY DEF SetTimeout
<1>2. h \in 1 .. Timers + 2
  BY TimerNumbers DEF HandlersOf, Node
<1>3. PICK L, c : Listed(Live, Base(build), L, c)
  BY InvNames
<1>4. L >= 2 /\ runs # Expired /\ n \notin {Dummy, Prerender}
  BY <1>1, <1>3, MaySetMeans
<1>5. PICK r : r = replace_timeout_2(Live, n, HandlerAt(h, build), due)
  OBVIOUS
<1>6. HandlerAt(h, build) \in Int
  BY <1>2, InvNames, HandlerNumbers
<1>7. Placed(Live, r, n, HandlerAt(h, build), due)
  BY <1>3, <1>4, <1>5, <1>6, InvNames, Replaced
<1>8. Sound(r, build) /\ SameBut(Live, r, n) /\ r \in TimeoutList
  BY <1>2, <1>7, InvNames, SoundPlaced
<1>9. Live' = r
  BY <1>1, <1>5, <1>8, LiveIs
<1>10. TimersInv'
  <2>1. \A m \in {Dummy, Prerender} : IF Queued(r.node, m) THEN AlarmAt(r, build, m).by = m + 1
                                      ELSE runs = HandlerAt(m + 1, build)
    BY <1>4, <1>8, OwnKept
  <2> QED BY <1>1, <1>4, <1>8, <1>9, <2>1 DEF TimersInv
<1>11. Alarms!Change(n)
  BY <1>1, <1>4, <1>8, <1>9, OneChanges
<1> QED
  BY <1>10, <1>11

LEMMA StopChanges ==
  ASSUME NEW n \in Node
  PROVE  TimersInv /\ StopTimeout(n) => TimersInv' /\ Alarms!Change(n)
<1> SUFFICES ASSUME TimersInv, StopTimeout(n) PROVE TimersInv' /\ Alarms!Change(n)
  OBVIOUS
<1>1. /\ MaySet(n) /\ build' = build /\ stored' = stored /\ runs' = runs
      /\ next_frame_timestamp' = next_frame_timestamp /\ Becomes(remove_timeout(Live, n))
  BY DEF StopTimeout
<1>2. PICK L, c : Listed(Live, Base(build), L, c)
  BY InvNames
<1>3. L >= 2 /\ runs # Expired /\ n \notin {Dummy, Prerender}
  BY <1>1, <1>2, MaySetMeans
<1>4. PICK r : r = remove_timeout(Live, n)
  OBVIOUS
<1>5. /\ SameBut(Live, r, n) /\ ~Queued(r.node, n) /\ r.node[n].handler = Live.node[n].handler
      /\ \E M, d : Listed(r, Base(build), M, d)
  BY <1>2, <1>3, <1>4, InvNames, Removed
<1>6. PICK M, d : Listed(r, Base(build), M, d)
  BY <1>5
<1>7. Sound(r, build) /\ r \in TimeoutList
  BY <1>5, <1>6, InvNames, SoundWithout
<1>8. Live' = r
  BY <1>1, <1>4, <1>7, LiveIs
<1>9. TimersInv'
  <2>1. \A m \in {Dummy, Prerender} : IF Queued(r.node, m) THEN AlarmAt(r, build, m).by = m + 1
                                      ELSE runs = HandlerAt(m + 1, build)
    BY <1>3, <1>5, OwnKept
  <2> QED BY <1>1, <1>3, <1>7, <1>8, <2>1 DEF TimersInv
<1>10. Alarms!Change(n)
  BY <1>1, <1>3, <1>5, <1>7, <1>8, OneChanges
<1> QED
  BY <1>9, <1>10

\* In the menu the second handler runs, and its node alone is out of the list.
LEMMA MenuMeans ==
  ASSUME TimersInv, InMenu
  PROVE  /\ runs = HandlerAt(2, build) /\ runs # Expired /\ RunningNow \in 1 .. Timers + 2
         /\ ~Queued(Live.node, Prerender) /\ Queued(Live.node, Dummy)
         /\ AlarmAt(Live, build, Dummy).by = 1
<1>1. build \in Nat /\ Live.node = node
  BY InvNames
<1>2. runs = HandlerAt(2, build) /\ ~Queued(Live.node, Prerender)
  BY <1>1 DEF InMenu, LineRuns
<1>3. runs # Expired /\ RunningNow = 2
  BY <1>1, <1>2, OwnNumbers, NumbersAre, RunningIs
<1>4. runs # HandlerAt(1, build)
  BY <1>1, <1>2, OwnNumbers, HandlerNumbers
<1>5. Queued(Live.node, Dummy) /\ AlarmAt(Live, build, Dummy).by = 1
  BY <1>4, OwnNumbers DEF TimersInv
<1> QED
  BY <1>2, <1>3, <1>5, OwnNumbers

LEMMA SaveKeeps == TimersInv /\ SaveTimeouts => TimersInv' /\ Alarms!Keep
<1> SUFFICES ASSUME TimersInv, SaveTimeouts PROVE TimersInv' /\ Alarms!Keep
  OBVIOUS
<1>1. PICK s : s = encode_timeouts(Live)
  OBVIOUS
<1>2. PICK r : r = decode_timeouts(s)
  OBVIOUS
<1>3. /\ InMenu /\ build' = build /\ stored' = <<s, next_frame_timestamp>> /\ Becomes(r)
      /\ runs' = runs /\ next_frame_timestamp' = next_frame_timestamp
  BY <1>1, <1>2 DEF SaveTimeouts
<1>4. /\ SoundStored(s) /\ TimeNow(s) = TimeNow(Live)
      /\ \A n \in Node : /\ KeptAlarm(s, n) = AlarmAt(Live, build, n)
                         /\ Queued(s.node, n) <=> Queued(Live.node, n)
  BY <1>1, InvNames, Encoded
<1>5. /\ Sound(r, build) /\ TimeNow(r) = TimeNow(s)
      /\ \A n \in Node : /\ AlarmAt(r, build, n) = KeptAlarm(s, n)
                         /\ Queued(r.node, n) <=> Queued(s.node, n)
  BY <1>2, <1>4, InvNames, Decoded
<1>6. Live' = r
  <2>1. r \in TimeoutList
    BY <1>5 DEF Sound
  <2> QED BY <1>3, <2>1, LiveIs
<1>7. stored'[1] = s /\ stored'[2] = next_frame_timestamp /\ stored' # <<>>
  BY <1>3
<1>8. /\ runs = HandlerAt(2, build) /\ runs # Expired /\ RunningNow \in 1 .. Timers + 2
      /\ ~Queued(Live.node, Prerender) /\ Queued(Live.node, Dummy)
      /\ AlarmAt(Live, build, Dummy).by = 1
  BY <1>3, MenuMeans
<1>9. TimersInv'
  <2>1. \A m \in {Dummy, Prerender} : IF Queued(r.node, m) THEN AlarmAt(r, build, m).by = m + 1
                                      ELSE runs = HandlerAt(m + 1, build)
    BY <1>4, <1>5, <1>8, OwnNumbers
  <2>2. Queued(s.node, Dummy) /\ KeptAlarm(s, Dummy).by = 1 /\ ~Queued(s.node, Prerender)
    BY <1>4, <1>8, OwnNumbers
  <2> QED BY <1>3, <1>4, <1>5, <1>6, <1>7, <1>8, <2>1, <2>2 DEF TimersInv
<1>10. /\ AlarmsSet = [n \in Node |-> AlarmAt(Live, build, n)]
       /\ AlarmsSet' = [n \in Node |-> AlarmAt(r, build, n)]
  BY <1>3, <1>6, MappingIs
<1>11. AlarmsSet' = AlarmsSet /\ RunningNow' = RunningNow
  BY <1>3, <1>4, <1>5, <1>10, RunningIs
<1>12. TimeNow(Live)' = TimeNow(Live)
  <2>1. TimeNow(Live)' = TimeNow(Live')
    BY DEF TimeNow
  <2> QED BY <1>4, <1>5, <1>6, <2>1
<1>13. AlarmsKept' = [now |-> TimeNow(Live), alarm |-> AlarmsSet]
  <2>1. AlarmsKept' = [now |-> TimeNow(s), alarm |-> [n \in Node |-> KeptAlarm(s, n)]]
    BY <1>7 DEF AlarmsKept, TimeNow, KeptAlarm, Queued
  <2>2. [n \in Node |-> KeptAlarm(s, n)] = AlarmsSet
    BY <1>4, <1>10
  <2> QED BY <1>4, <2>1, <2>2
<1> QED
  BY <1>8, <1>9, <1>11, <1>12, <1>13 DEF Alarms!Keep

LEMMA LoadRestores == TimersInv /\ LoadTimeouts => TimersInv' /\ Alarms!Restore
<1> SUFFICES ASSUME TimersInv, LoadTimeouts PROVE TimersInv' /\ Alarms!Restore
  OBVIOUS
<1>1. PICK s : s = stored[1]
  OBVIOUS
<1>2. PICK r : r = decode_timeouts(s)
  OBVIOUS
<1>3. /\ InMenu /\ build' = build /\ stored' = stored /\ Becomes(r) /\ stored # <<>>
      /\ runs' = runs /\ next_frame_timestamp' = stored[2]
  BY <1>1, <1>2 DEF LoadTimeouts
<1>4. /\ SoundStored(s) /\ stored[2] \in Int /\ Queued(s.node, Dummy)
      /\ KeptAlarm(s, Dummy).by = 1 /\ ~Queued(s.node, Prerender)
  BY <1>1, <1>3 DEF TimersInv
<1>5. /\ Sound(r, build) /\ TimeNow(r) = TimeNow(s)
      /\ \A n \in Node : /\ AlarmAt(r, build, n) = KeptAlarm(s, n)
                         /\ Queued(r.node, n) <=> Queued(s.node, n)
  BY <1>2, <1>4, InvNames, Decoded
<1>6. Live' = r
  <2>1. r \in TimeoutList
    BY <1>5 DEF Sound
  <2> QED BY <1>3, <2>1, LiveIs
<1>7. runs = HandlerAt(2, build) /\ runs # Expired /\ RunningNow \in 1 .. Timers + 2
  BY <1>3, MenuMeans
<1>8. TimersInv'
  <2>1. \A m \in {Dummy, Prerender} : IF Queued(r.node, m) THEN AlarmAt(r, build, m).by = m + 1
                                      ELSE runs = HandlerAt(m + 1, build)
    BY <1>4, <1>5, <1>7, OwnNumbers
  <2> QED BY <1>3, <1>4, <1>5, <1>6, <1>7, <2>1 DEF TimersInv
<1>9. /\ AlarmsSet' = [n \in Node |-> AlarmAt(r, build, n)] /\ RunningNow' = RunningNow
      /\ AlarmsKept' = AlarmsKept
  BY <1>3, <1>6, MappingIs, RunningIs
<1>10. AlarmsKept = [now |-> TimeNow(s), alarm |-> [n \in Node |-> KeptAlarm(s, n)]]
  BY <1>1, <1>3 DEF AlarmsKept
<1>11. AlarmsKept # [due |-> -1, by |-> 0]
  BY <1>10
<1>12. AlarmsSet' = AlarmsKept.alarm
  BY <1>5, <1>9, <1>10
<1>13. TimeNow(Live)' = AlarmsKept.now
  <2>1. TimeNow(Live)' = TimeNow(Live')
    BY DEF TimeNow
  <2> QED BY <1>5, <1>6, <1>10, <2>1
<1> QED
  BY <1>7, <1>8, <1>9, <1>11, <1>12, <1>13 DEF Alarms!Restore

LEMMA StartBegins ==
  ASSUME NEW b \in 0 .. Builds - 1
  PROVE  TimersInv /\ StartBuild(b) => TimersInv' /\ Alarms!Begin
<1> SUFFICES ASSUME TimersInv, StartBuild(b) PROVE TimersInv' /\ Alarms!Begin
  OBVIOUS
<1>1. b \in Nat
  BY TimeoutsAssumption
<1>2. PICK r : r = timeout_reset(b)
  OBVIOUS
<1>3. /\ runs' = HandlerAt(2, b) /\ build' = b /\ stored' = stored /\ Becomes(r)
      /\ next_frame_timestamp' = -First
  BY <1>2 DEF StartBuild
<1>4. /\ Sound(r, b) /\ TimeNow(r) = 0 /\ r \in TimeoutList
      /\ Queued(r.node, Dummy) /\ AlarmAt(r, b, Dummy).by = 1 /\ ~Queued(r.node, Prerender)
  BY <1>1, <1>2, Reset
<1>5. Live' = r
  BY <1>3, <1>4, LiveIs
<1>6. runs' # Expired /\ RunningNow' = 2
  BY <1>1, <1>3, OwnNumbers, NumbersAre, RunningIs
<1>7. TimersInv'
  <2>1. \A m \in {Dummy, Prerender} : IF Queued(r.node, m) THEN AlarmAt(r, b, m).by = m + 1
                                      ELSE runs' = HandlerAt(m + 1, b)
    BY <1>3, <1>4, OwnNumbers
  <2>2. next_frame_timestamp' \in Int
    BY <1>3, TimeoutsAssumption
  <2> QED BY <1>1, <1>3, <1>4, <1>5, <1>6, <2>1, <2>2, OwnNumbers DEF TimersInv
<1>8. AlarmsKept' = AlarmsKept
  BY <1>3, MappingIs
<1>9. TimeNow(Live)' = 0
  <2>1. TimeNow(Live)' = TimeNow(Live')
    BY DEF TimeNow
  <2> QED BY <1>4, <1>5, <2>1
<1> QED
  BY <1>6, <1>7, <1>8, <1>9, OwnNumbers DEF Alarms!Begin

LEMMA InitAlarms == TimeoutsInit => TimersInv /\ Alarms!AlarmInit
<1> SUFFICES ASSUME TimeoutsInit PROVE TimersInv /\ Alarms!AlarmInit
  OBVIOUS
<1>1. PICK r : r = timeout_reset(0)
  OBVIOUS
<1>2. /\ build = 0 /\ runs = HandlerAt(2, 0) /\ stored = <<>> /\ next_frame_timestamp = -First
      /\ timestamp = r.time /\ cycles_to_run = r.run /\ cycles = r.left
      /\ firsttimeout = r.first /\ node = r.node
  BY <1>1 DEF TimeoutsInit
<1>3. /\ Sound(r, 0) /\ TimeNow(r) = 0 /\ r \in TimeoutList
      /\ Queued(r.node, Dummy) /\ AlarmAt(r, 0, Dummy).by = 1 /\ ~Queued(r.node, Prerender)
  BY <1>1, Reset
<1>4. Live = r
  <2>1. r = [time |-> r.time, run |-> r.run, left |-> r.left, first |-> r.first,
             node |-> r.node]
    BY <1>3 DEF TimeoutList
  <2>2. Live = [time |-> r.time, run |-> r.run, left |-> r.left, first |-> r.first,
                node |-> r.node]
    BY <1>2 DEF Live
  <2> QED BY <2>1, <2>2
<1>5. runs # Expired /\ RunningNow = 2
  BY <1>2, OwnNumbers, NumbersAre, RunningIs
<1>6. TimersInv
  <2>1. \A m \in {Dummy, Prerender} : IF Queued(r.node, m) THEN AlarmAt(r, 0, m).by = m + 1
                                      ELSE runs = HandlerAt(m + 1, 0)
    BY <1>2, <1>3, OwnNumbers
  <2>2. next_frame_timestamp \in Int
    BY <1>2, TimeoutsAssumption
  <2> QED BY <1>2, <1>3, <1>4, <1>5, <2>1, <2>2, OwnNumbers DEF TimersInv
<1>7. AlarmsSet = [n \in Node |-> AlarmAt(Live, 0, n)]
  BY <1>2, MappingIs
<1>8. AlarmsSet \in [Node -> [due : Int, by : 1 .. Timers + 2] \cup {[due |-> -1, by |-> 0]}]
  <2>1. \A n \in Node : AlarmAt(Live, 0, n)
                          \in [due : Int, by : 1 .. Timers + 2] \cup {[due |-> -1, by |-> 0]}
    BY <1>3, <1>4, SoundAlarms
  <2> QED BY <1>7, <2>1
<1>9. TimeNow(Live) = 0 /\ AlarmsKept = [due |-> -1, by |-> 0]
  BY <1>2, <1>3, <1>4 DEF AlarmsKept
<1> QED
  BY <1>5, <1>6, <1>8, <1>9, OwnNumbers DEF Alarms!AlarmInit

LEMMA TimersStep ==
  TimersInv /\ [TimeoutsNext]_timeoutVars
    => TimersInv' /\ (UNCHANGED timeoutVars \/ Alarms!AlarmNext)
<1> SUFFICES ASSUME TimersInv, [TimeoutsNext]_timeoutVars
             PROVE  TimersInv' /\ (UNCHANGED timeoutVars \/ Alarms!AlarmNext)
  OBVIOUS
<1>1. ASSUME NEW k \in 1 .. Longest, NEW branch \in BOOLEAN, Instruction(k, branch)
      PROVE  TimersInv' /\ Alarms!AlarmNext
  BY <1>1, InstructionExecutes DEF Alarms!AlarmNext
<1>2. CASE Timeout
  BY <1>2, TimeoutRings DEF Alarms!AlarmNext
<1>3. CASE Again
  BY <1>3, AgainChanges DEF Alarms!AlarmNext
<1>4. ASSUME NEW skip \in 0 .. 1, line0x(skip) PROVE TimersInv' /\ Alarms!AlarmNext
  BY <1>4, LineChanges DEF Alarms!AlarmNext
<1>5. ASSUME NEW k \in 0 .. Longest, Return(k) PROVE TimersInv' /\ Alarms!AlarmNext
  BY <1>5, ReturnReturns DEF Alarms!AlarmNext
<1>6. ASSUME NEW n \in Node, NEW ahead \in -1 .. Ahead, NEW h \in HandlersOf(n),
             SetTimeout(n, h, TimeNow(Live) + ahead)
      PROVE  TimersInv' /\ Alarms!AlarmNext
  <2>1. TimeNow(Live) + ahead \in Int
    BY InvNames, TimeoutsAssumption
  <2>2. PICK due \in Int : due = TimeNow(Live) + ahead
    BY <2>1
  <2>3. TimersInv' /\ Alarms!Change(n)
    BY <1>6, <2>2, SetChanges
  <2> QED BY <2>3 DEF Alarms!AlarmNext
<1>7. ASSUME NEW n \in Node, StopTimeout(n) PROVE TimersInv' /\ Alarms!AlarmNext
  <2>1. TimersInv' /\ Alarms!Change(n)
    BY <1>7, StopChanges
  <2> QED BY <2>1 DEF Alarms!AlarmNext
<1>8. CASE SaveTimeouts
  BY <1>8, SaveKeeps DEF Alarms!AlarmNext
<1>9. CASE LoadTimeouts
  BY <1>9, LoadRestores DEF Alarms!AlarmNext
<1>10. ASSUME NEW b \in 0 .. Builds - 1, StartBuild(b) PROVE TimersInv' /\ Alarms!AlarmNext
  BY <1>10, StartBegins DEF Alarms!AlarmNext
<1>11. CASE UNCHANGED timeoutVars
  BY <1>11 DEF timeoutVars, TimersInv, Live
<1> QED
  BY <1>1, <1>2, <1>3, <1>4, <1>5, <1>6, <1>7, <1>8, <1>9, <1>10, <1>11 DEF TimeoutsNext

\* PocketNES's list of time-outs is some alarms and a time, as Alarms states them: whatever is
\* set, moved and stopped, no instruction begins after one is due except one after a branch,
\* when it is an interrupt; they are called in the order of their times, and a saved state that
\* whatever build loads in its menu has all of them (timeout.s).
THEOREM TimeoutsAreAlarms == TimeoutsSpec => AlarmsRing
<1>1. TimeoutsInit => TimersInv /\ Alarms!AlarmInit
  BY InitAlarms
<1>2. TimersInv /\ [TimeoutsNext]_timeoutVars
        => TimersInv'
           /\ [UNCHANGED timeoutVars \/ Alarms!AlarmNext \/ UNCHANGED Alarms!alarmVars]_timeoutVars
  BY TimersStep
<1> QED
  BY <1>1, <1>2, PTL DEF TimeoutsSpec, AlarmsRing

==============================================================================
