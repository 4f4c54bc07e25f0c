------------------------------ MODULE BankCache ------------------------------
(* The PocketNES bank cache: PRG groups and CHR pages of the ROM file, read    *)
(* from the MCU on a miss, and the windows through which the emulated CPU and  *)
(* PPU see them (emulators/pocketnes/src/chislink_cache.c, cart.s, cache.c).   *)
(* A slot's memory is the group or page it holds whole, or Bad: filled with    *)
(* 0xff and read in part.  Ages are ranks: only their order is ever compared   *)
(* (s_clock would have to wrap at 2^32 for that to fail).                      *)
EXTENDS Integers, FiniteSets

CONSTANTS
  PrgWindows,   \* 4 windows of 8 KiB at $8000-$FFFF
  PrgSlots,     \* PRG_CACHE_GROUPS
  GroupPages,   \* PRG_GROUP_PAGES
  PrgPages,     \* rompages * 2
  PrgCalls,     \* the mapXX_ calls the game's mapper makes
  ChrWindows,   \* 8 windows of 1 KiB
  ChrSlots,     \* s_chr_slots: 9, or 17 for mapper 4
  ChrPages,     \* CHR pages in the file
  ChrBanks,     \* table entries: vrompages is rounded up to a power of two
  RamBanks,     \* banks that are RAM (mappers 74 and 119)
  ChrCalls,     \* the chrXX_ calls the game's mapper makes
  PrgSaved,     \* the bank6 and Cbank0 found in saved states of the game
  ChrSaved,
  MaxFailures,  \* bound: reads of the ROM that may fail
  None, Ram, Bad

\* A call maps width consecutive banks, from page on, at windows first ...
Calls(windows, pages) ==
  {c \in [first : 1 .. windows, width : 1 .. windows, page : 0 .. pages - 1] :
     c.first + c.width - 1 <= windows /\ c.page + c.width <= pages}

Group(page) == page \div GroupPages
PrgGroups == Group(PrgPages - 1) + 1
ChrPage(bank) == bank % ChrPages

\* rommask and vrommask keep every bank inside the tables; mapXX_ shifts the page
\* so that a call stays inside one group.
ASSUME SizesOK ==
  /\ PrgWindows \in Nat \ {0} /\ PrgSlots \in Nat /\ PrgSlots >= PrgWindows
  /\ GroupPages \in Nat \ {0} /\ PrgPages \in Nat \ {0}
  /\ ChrWindows \in Nat \ {0} /\ ChrSlots \in Nat /\ ChrSlots > ChrWindows
  /\ ChrPages \in Nat \ {0} /\ ChrBanks \in Nat /\ ChrBanks >= ChrPages
  /\ RamBanks \subseteq 0 .. ChrBanks - 1 /\ MaxFailures \in Nat
ASSUME CallsOK ==
  /\ PrgCalls \subseteq Calls(PrgWindows, PrgPages)
  /\ \A c \in PrgCalls : Group(c.page) = Group(c.page + c.width - 1)
  /\ ChrCalls \subseteq Calls(ChrWindows, ChrBanks)
  /\ \A b \in PrgSaved : b \in [1 .. PrgWindows -> 0 .. PrgPages - 1]
  /\ \A b \in ChrSaved : b \in [1 .. ChrWindows -> 0 .. ChrBanks - 1]
ASSUME NamesOK ==
  None \notin Int /\ Ram \notin Int /\ Bad \notin Int /\ None # Ram /\ None # Bad

PrgSlot == 0 .. PrgSlots - 1
ChrSlot == 0 .. ChrSlots - 1

VARIABLES
  bank,          \* bank6[1..4]
  memmap,        \* memmap_8 .. memmap_E: a slot and a page in it, or None (NULL)
  s_prg_group, s_prg_age,
  prg_cache,     \* what the slot's memory holds
  instant_prg,   \* instant_prg_banks, one entry per group
  cbank,         \* Cbank0
  vram_map,      \* a slot, Ram, or None
  s_chr_page, s_chr_age,
  chr_cache,
  instant_chr,   \* instant_chr_banks
  op, i, call,   \* the loop being run, its index, and the chrXX_ call it serves
  saved,         \* the banks of the saved state being loaded, or None
  failures,      \* reads that failed so far
  diverged       \* a restore failed: the windows are no longer those of the banks

prgVars == <<s_prg_group, s_prg_age, prg_cache, instant_prg>>
chrVars == <<s_chr_page, s_chr_age, chr_cache, instant_chr>>
bankVars == <<bank, memmap, prgVars, cbank, vram_map, chrVars, op, i, call, saved, failures, diverged>>

Covers(c, w) == w \in c.first .. c.first + c.width - 1

\* s_age[s] = ++s_clock, in ranks.
Touch(age, s) ==
  [t \in DOMAIN age |->
     IF t = s THEN Cardinality(DOMAIN age)
     ELSE IF age[t] > age[s] THEN age[t] - 1 ELSE age[t]]

\* Mutant: the youngest idle slot is evicted.
YoungestSlot(tag, age, active) ==
  LET unused == {s \in DOMAIN tag : tag[s] = None}
      idle == {s \in DOMAIN tag : tag[s] \notin active}
  IN  IF unused # {} THEN unused
      ELSE IF idle # {} THEN {s \in idle : \A t \in idle : age[s] >= age[t]}
      ELSE {0}

\* choose_prg_slot, choose_chr_slot: a slot never filled, else the oldest that is
\* not active, else slot 0.
ChosenSlot(tag, age, active) ==
  LET unused == {s \in DOMAIN tag : tag[s] = None}
      idle == {s \in DOMAIN tag : tag[s] \notin active}
  IN  IF unused # {} THEN {s \in unused : \A t \in unused : s <= t}
      ELSE IF idle # {} THEN {s \in idle : \A t \in idle : age[s] <= age[t]}
      ELSE {0}

ReadFails == failures < MaxFailures /\ failures' = failures + 1
-----------------------------------------------------------------------------
(* chislink_pocketnes_ensure_prg.  banks: bank6 when it is called.             *)
\* Mutant: the loop over the banks ends one too early.
FewerGroups(banks) == {Group(banks[w]) : w \in 1 .. PrgWindows - 1}

ActiveGroups(banks) == {Group(banks[w]) : w \in 1 .. PrgWindows}

PrgVictim(banks, g) ==
  IF \E s \in PrgSlot : s_prg_group[s] = g THEN {}
  ELSE ChosenSlot(s_prg_group, s_prg_age, ActiveGroups(banks))

UnmapPrg(s) == [h \in DOMAIN instant_prg |->
                  IF h = s_prg_group[s] THEN None ELSE instant_prg[h]]

PrgHit(g, s) ==
  /\ s_prg_group[s] = g
  /\ s_prg_age' = Touch(s_prg_age, s)
  /\ UNCHANGED <<s_prg_group, prg_cache, instant_prg, failures>>

PrgLoad(banks, g, s) ==
  /\ s \in PrgVictim(banks, g)
  /\ s_prg_group' = [s_prg_group EXCEPT ![s] = g]
  /\ s_prg_age' = Touch(s_prg_age, s)
  /\ prg_cache' = [prg_cache EXCEPT ![s] = g]
  /\ instant_prg' = [UnmapPrg(s) EXCEPT ![g] = s]
  /\ UNCHANGED failures

\* The read fails: the slot is unmapped and overwritten, but keeps its tag.
PrgReadFails(banks, g, s) ==
  /\ s \in PrgVictim(banks, g)
  /\ prg_cache' = [prg_cache EXCEPT ![s] = Bad]
  /\ instant_prg' = UnmapPrg(s)
  /\ ReadFails /\ UNCHANGED <<s_prg_group, s_prg_age>>

PrgFound(banks, g, s) == PrgHit(g, s) \/ PrgLoad(banks, g, s)
-----------------------------------------------------------------------------
(* chislink_pocketnes_ensure_chr.                                              *)
\* Mutant: mapped pages are not protected.
NoPages == {}

ActivePages ==
  {ChrPage(cbank[w]) : w \in {v \in 1 .. ChrWindows : cbank[v] \notin RamBanks \cup {None}}}

ChrVictim(p) ==
  IF \E s \in ChrSlot : s_chr_page[s] = p THEN {}
  ELSE ChosenSlot(s_chr_page, s_chr_age, ActivePages)

UnmapChr(s) == [b \in DOMAIN instant_chr |->
                  IF s_chr_page[s] # None /\ instant_chr[b] = s THEN None ELSE instant_chr[b]]

\* Mutant: only the page's own bank is mapped.
MapOne(table, p, s) == [b \in DOMAIN table |-> IF b = p /\ b \notin RamBanks THEN s ELSE table[b]]

\* map_chr_aliases
MapAliases(table, p, s) ==
  [b \in DOMAIN table |-> IF ChrPage(b) = p /\ b \notin RamBanks THEN s ELSE table[b]]

ChrHit(b, s) ==
  /\ b \notin RamBanks /\ s_chr_page[s] = ChrPage(b)
  /\ s_chr_age' = Touch(s_chr_age, s)
  /\ instant_chr' = MapAliases(instant_chr, ChrPage(b), s)
  /\ UNCHANGED <<s_chr_page, chr_cache, failures>>

ChrLoad(b, s) ==
  /\ b \notin RamBanks /\ s \in ChrVictim(ChrPage(b))
  /\ s_chr_page' = [s_chr_page EXCEPT ![s] = ChrPage(b)]
  /\ s_chr_age' = Touch(s_chr_age, s)
  /\ chr_cache' = [chr_cache EXCEPT ![s] = ChrPage(b)]
  /\ instant_chr' = MapAliases(UnmapChr(s), ChrPage(b), s)
  /\ UNCHANGED failures

ChrReadFails(b, s) ==
  /\ b \notin RamBanks /\ s \in ChrVictim(ChrPage(b))
  /\ chr_cache' = [chr_cache EXCEPT ![s] = Bad]
  /\ instant_chr' = UnmapChr(s)
  /\ ReadFails /\ UNCHANGED <<s_chr_page, s_chr_age>>

ChrRam(b) ==
  /\ b \in RamBanks
  /\ instant_chr' = [instant_chr EXCEPT ![b] = Ram]
  /\ UNCHANGED <<s_chr_page, s_chr_age, chr_cache, failures>>

ChrFound(b) == ChrRam(b) \/ \E s \in ChrSlot : ChrHit(b, s) \/ ChrLoad(b, s)
-----------------------------------------------------------------------------
(* chislink_pocketnes_cache_init: every slot is filled in file order.          *)
EmptyPrg ==
  [tag |-> [s \in PrgSlot |-> None], age |-> [s \in PrgSlot |-> 0],
   data |-> [s \in PrgSlot |-> Bad], table |-> [g \in 0 .. PrgGroups - 1 |-> None]]
EmptyChr ==
  [tag |-> [s \in ChrSlot |-> None], age |-> [s \in ChrSlot |-> 0],
   data |-> [s \in ChrSlot |-> Bad], table |-> [b \in 0 .. ChrBanks - 1 |-> None]]
NoWindows(windows) == [w \in 1 .. windows |-> None]

BankInit ==
  /\ bank = [w \in 1 .. PrgWindows |-> 0] /\ memmap = NoWindows(PrgWindows)
  /\ s_prg_group = EmptyPrg.tag /\ s_prg_age = EmptyPrg.age
  /\ prg_cache = EmptyPrg.data /\ instant_prg = EmptyPrg.table
  /\ cbank = NoWindows(ChrWindows) /\ vram_map = NoWindows(ChrWindows)
  /\ s_chr_page = EmptyChr.tag /\ s_chr_age = EmptyChr.age
  /\ chr_cache = EmptyChr.data /\ instant_chr = EmptyChr.table
  /\ op = "fillPrg" /\ i = 0 /\ call = None /\ saved = None
  /\ failures = 0 /\ diverged = FALSE

Goto(next) == op' = next /\ i' = 0

FillPrg ==
  /\ op = "fillPrg"
  /\ \/ /\ i < PrgSlots /\ i < PrgGroups
        /\ \E s \in PrgSlot :
             \/ PrgFound(bank, i, s)
             \/ PrgReadFails(bank, i, s)
        /\ i' = i + 1 /\ op' = op
     \/ /\ i >= PrgSlots \/ i >= PrgGroups
        /\ Goto("fillChr") /\ UNCHANGED <<prgVars, failures>>
  /\ UNCHANGED <<bank, memmap, cbank, vram_map, chrVars, call, saved, diverged>>

FillChr ==
  /\ op = "fillChr"
  /\ \/ /\ i < ChrSlots /\ i < ChrPages
        /\ ChrFound(i) \/ \E s \in ChrSlot : ChrReadFails(i, s)
        /\ i' = i + 1 /\ op' = op
     \/ /\ i >= ChrSlots \/ i >= ChrPages
        /\ instant_chr' = [b \in DOMAIN instant_chr |->
                             IF b \in RamBanks THEN Ram ELSE instant_chr[b]]
        /\ Goto("idle") /\ UNCHANGED <<s_chr_page, s_chr_age, chr_cache, failures>>
  /\ UNCHANGED <<bank, memmap, cbank, vram_map, prgVars, call, saved, diverged>>
-----------------------------------------------------------------------------
(* map89_ .. map89ABCDEF_: the banks are stored first, then the group is       *)
(* ensured and its address stored for every window of the call.                *)
Banked(c) == [w \in 1 .. PrgWindows |->
                IF Covers(c, w) THEN c.page + (w - c.first) ELSE bank[w]]

Mapped(c, s) == [w \in 1 .. PrgWindows |->
  IF Covers(c, w) THEN [slot |-> s, page |-> (c.page % GroupPages) + (w - c.first)]
  ELSE memmap[w]]

Unmapped(c) == [w \in 1 .. PrgWindows |-> IF Covers(c, w) THEN None ELSE memmap[w]]

MapPrg(c) ==
  /\ op = "idle"
  /\ bank' = Banked(c)
  /\ \E s \in PrgSlot :
       \/ PrgFound(Banked(c), Group(c.page), s) /\ memmap' = Mapped(c, s)
       \/ PrgReadFails(Banked(c), Group(c.page), s) /\ memmap' = Unmapped(c)
  /\ UNCHANGED <<cbank, vram_map, chrVars, op, i, call, saved, diverged>>

(* chr0_ .. chr01234567_: every page of the call is ensured, then the banks    *)
(* are stored and the windows loaded from the table.                           *)
MapChr(c) ==
  /\ op = "idle"
  /\ Goto("chr") /\ call' = c
  /\ UNCHANGED <<bank, memmap, prgVars, cbank, vram_map, chrVars, saved, failures, diverged>>

EnsureChr ==
  /\ op = "chr" /\ i < call.width
  /\ \/ ChrFound(call.page + i)
     \/ \E s \in ChrSlot : ChrReadFails(call.page + i, s)
  /\ i' = i + 1
  /\ UNCHANGED <<bank, memmap, prgVars, cbank, vram_map, op, call, saved, diverged>>

StoreChr ==
  /\ op = "chr" /\ i = call.width
  /\ cbank' = [w \in 1 .. ChrWindows |->
                 IF Covers(call, w) THEN call.page + (w - call.first) ELSE cbank[w]]
  /\ vram_map' = [w \in 1 .. ChrWindows |->
                    IF Covers(call, w) THEN instant_chr[call.page + (w - call.first)]
                    ELSE vram_map[w]]
  /\ Goto("idle") /\ call' = None
  /\ UNCHANGED <<bank, memmap, prgVars, chrVars, saved, failures, diverged>>
-----------------------------------------------------------------------------
(* Loading a saved state: the cartridge is booted again, which empties and     *)
(* fills the cache and maps the mapper's first banks; the state's banks replace  *)
(* those, the cache is brought to hold them, and rebankswitch reloads every      *)
(* window.                                                                       *)
LoadState ==
  /\ op = "idle" /\ saved = None
  /\ saved' \in [prg : PrgSaved, chr : ChrSaved]
  /\ memmap' = NoWindows(PrgWindows)
  /\ s_prg_group' = EmptyPrg.tag /\ s_prg_age' = EmptyPrg.age
  /\ instant_prg' = EmptyPrg.table
  /\ cbank' = NoWindows(ChrWindows) /\ vram_map' = NoWindows(ChrWindows)
  /\ s_chr_page' = EmptyChr.tag /\ s_chr_age' = EmptyChr.age
  /\ instant_chr' = EmptyChr.table
  /\ Goto("fillPrg") /\ diverged' = FALSE
  /\ UNCHANGED <<bank, prg_cache, chr_cache, call, failures>>

LoadBanks ==
  /\ op = "idle" /\ saved # None
  /\ bank' = saved.prg /\ cbank' = saved.chr /\ saved' = None
  /\ Goto("restorePrg")
  /\ UNCHANGED <<memmap, prgVars, vram_map, chrVars, call, failures, diverged>>

Goes == i' = i + 1 /\ UNCHANGED <<op, diverged>>

\* The error is reported and the game goes on, with the old windows.
RestoreFails == Goto("idle") /\ diverged' = TRUE

RestorePrg ==
  /\ op = "restorePrg"
  /\ \/ /\ i < PrgWindows
        /\ \E s \in PrgSlot :
             \/ PrgFound(bank, Group(bank[i + 1]), s) /\ Goes
             \/ PrgReadFails(bank, Group(bank[i + 1]), s) /\ RestoreFails
     \/ i = PrgWindows /\ Goto("restoreChr") /\ UNCHANGED <<prgVars, failures, diverged>>
  /\ UNCHANGED <<bank, memmap, cbank, vram_map, chrVars, call, saved>>

RestoreChr ==
  /\ op = "restoreChr" /\ i < ChrWindows
  /\ \/ ChrFound(cbank[i + 1]) /\ Goes
     \/ \E s \in ChrSlot : ChrReadFails(cbank[i + 1], s) /\ RestoreFails
  /\ UNCHANGED <<bank, memmap, prgVars, cbank, vram_map, call, saved>>

Rebankswitch ==
  /\ op = "restoreChr" /\ i = ChrWindows
  /\ memmap' = [w \in 1 .. PrgWindows |->
       IF instant_prg[Group(bank[w])] = None THEN None
       ELSE [slot |-> instant_prg[Group(bank[w])], page |-> bank[w] % GroupPages]]
  /\ vram_map' = [w \in 1 .. ChrWindows |-> instant_chr[cbank[w]]]
  /\ Goto("idle")
  /\ UNCHANGED <<bank, prgVars, cbank, chrVars, call, saved, failures, diverged>>

BankNext ==
  \/ FillPrg \/ FillChr
  \/ \E c \in PrgCalls : MapPrg(c)
  \/ \E c \in ChrCalls : MapChr(c)
  \/ EnsureChr \/ StoreChr
  \/ LoadState \/ LoadBanks \/ RestorePrg \/ RestoreChr \/ Rebankswitch

BankSpec == BankInit /\ [][BankNext]_bankVars
-----------------------------------------------------------------------------
\* Types; and no group or page is tagged on two slots, so that a hit is unique
\* (chislink_cache.c:231-239, 271-278).
BankTypeOK ==
  /\ bank \in [1 .. PrgWindows -> 0 .. PrgPages - 1]
  /\ memmap \in [1 .. PrgWindows -> [slot : PrgSlot, page : 0 .. GroupPages - 1] \cup {None}]
  /\ s_prg_group \in [PrgSlot -> 0 .. PrgGroups - 1 \cup {None}]
  /\ s_prg_age \in [PrgSlot -> 0 .. PrgSlots]
  /\ prg_cache \in [PrgSlot -> 0 .. PrgGroups - 1 \cup {Bad}]
  /\ instant_prg \in [0 .. PrgGroups - 1 -> PrgSlot \cup {None}]
  /\ cbank \in [1 .. ChrWindows -> 0 .. ChrBanks - 1 \cup {None}]
  /\ vram_map \in [1 .. ChrWindows -> ChrSlot \cup {None, Ram}]
  /\ s_chr_page \in [ChrSlot -> 0 .. ChrPages - 1 \cup {None}]
  /\ s_chr_age \in [ChrSlot -> 0 .. ChrSlots]
  /\ chr_cache \in [ChrSlot -> 0 .. ChrPages - 1 \cup {Bad}]
  /\ instant_chr \in [0 .. ChrBanks - 1 -> ChrSlot \cup {None, Ram}]
  /\ op \in {"fillPrg", "fillChr", "idle", "chr", "restorePrg", "restoreChr"}
  /\ i \in Nat /\ call \in ChrCalls \cup {None}
  /\ saved \in [prg : PrgSaved, chr : ChrSaved] \cup {None}
  /\ failures \in 0 .. MaxFailures /\ diverged \in BOOLEAN
  /\ \A s, t \in PrgSlot : s_prg_group[s] # None /\ s_prg_group[s] = s_prg_group[t] => s = t
  /\ \A s, t \in ChrSlot : s_chr_page[s] # None /\ s_chr_page[s] = s_chr_page[t] => s = t

\* The emulated machine runs, and the windows are those of the stored banks.
Running == op \notin {"restorePrg", "restoreChr"} /\ ~diverged

\* emulators/README.md:24-25 "protecting the banks currently mapped": a window
\* that is mapped shows the bank the mapper selected for it, or the remains of a
\* failed read, and never another bank that took its slot over.
NoForeignContents ==
  Running =>
    /\ \A w \in 1 .. PrgWindows : memmap[w] # None =>
         LET held == prg_cache[memmap[w].slot]
         IN  held # Bad => held * GroupPages + memmap[w].page = bank[w]
    /\ \A w \in 1 .. ChrWindows : vram_map[w] \in ChrSlot =>
         chr_cache[vram_map[w]] \in {ChrPage(cbank[w]), Bad}

\* While a window keeps its bank and its address, the memory behind it is not overwritten, not
\* even by a read that fails for another window (chislink_cache.c:240-248, 279-287).
BehindMappedStays ==
  [][Running =>
       /\ \A w \in 1 .. PrgWindows :
            memmap[w] # None /\ memmap'[w] = memmap[w] /\ bank'[w] = bank[w] =>
              prg_cache'[memmap[w].slot] = prg_cache[memmap[w].slot]
       /\ \A w \in 1 .. ChrWindows :
            vram_map[w] \in ChrSlot /\ vram_map'[w] = vram_map[w] /\ cbank'[w] = cbank[w] =>
              chr_cache'[vram_map[w]] = chr_cache[vram_map[w]]]_bankVars

\* emulators/README.md:21-25: as long as no read fails, every bank the mapper has
\* selected is in the cache and mapped, whatever was selected before.
MappedAreCached ==
  op = "idle" /\ failures = 0 =>
    \A w \in 1 .. ChrWindows : cbank[w] # None => vram_map[w] # None

\* chislink_cache.c:302-304: when rebankswitch consumes the pointers, no bank
\* ensured for the saved state was evicted by a later one of the same restore.
RestoreFindsBanks ==
  op = "restoreChr" /\ i = ChrWindows /\ failures = 0 =>
    /\ \A w \in 1 .. PrgWindows :
         \E s \in PrgSlot : instant_prg[Group(bank[w])] = s /\ prg_cache[s] = Group(bank[w])
    /\ \A w \in 1 .. ChrWindows : cbank[w] \notin RamBanks =>
         \E s \in ChrSlot : instant_chr[cbank[w]] = s /\ chr_cache[s] = ChrPage(cbank[w])
=============================================================================
