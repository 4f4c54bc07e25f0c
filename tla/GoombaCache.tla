----------------------------- MODULE GoombaCache -----------------------------
(***************************************************************************)
(* Goomba Color's ROM cache (emulators/goombacolor/src/cache.c): 16 KiB      *)
(* pages of the ROM in slots, the first of them in video memory, and the     *)
(* table INSTANT_PAGES by which the mapper's writes find a page without     *)
(* asking the cache (cart.s).  Saved states use the slots as scratch         *)
(* memory (sram.c).  The window at 0000 shows page 0, the one at 4000 the    *)
(* bank the game selects.                                                   *)
(*                                                                          *)
(* A slot's contents is the number of a page, Padding (0xff), Torn (a page     *)
(* that came in part) or Scratch.  Positions in the ROM are counted in half  *)
(* pages, so that a read can end in the middle.                             *)
(***************************************************************************)
EXTENDS Naturals, Sequences, FiniteSets

CONSTANTS
  RomSize,     \* s_launch.size, in half pages
  RomPages,    \* rommask + 1, in pages
  CacheSlots,  \* cachepages
  ScratchSlots,\* how many slots a saved state reaches into
  MaxLost,     \* bound on the reads that fail
  MaxStates,   \* bound on the states saved and loaded
  NoSlot, Padding, Torn, Scratch

ASSUME CacheAssumption ==
  /\ RomSize \in Nat /\ RomPages \in Nat
  /\ CacheSlots \in Nat /\ ScratchSlots \in 0 .. CacheSlots - 1
  /\ CacheSlots > 2 /\ RomSize > 2 /\ RomSize <= 2 * RomPages /\ RomSize % 2 = 0
  /\ MaxLost \in Nat /\ MaxStates \in Nat
  /\ {NoSlot, Padding, Torn, Scratch} \cap Nat = {}

-----------------------------------------------------------------------------
(* The stream through which the emulator reads its ROM from the MCU          *)
(* (emulators/chislink/chislink_bridge.c): opened with the first read,      *)
(* sought only when the SDK's position is not the one asked for.            *)
(*                                                                          *)
(* A state of the stream is [open, mcu, at]: stream_id is set, where the     *)
(* MCU reads next, and rx_offset.  A request may be lost, and so may its    *)
(* answer; then the MCU has done what was asked and the SDK reports an      *)
(* error.                                                                   *)

Streams == [open : BOOLEAN, mcu : 0 .. RomSize, at : 0 .. RomSize]
NoStream == [open |-> FALSE, mcu |-> 0, at |-> 0]

\* bridge_stream_open: the MCU begins at the start of the file.
OpenOutcomes(s) ==
  IF s.open THEN {[ok |-> TRUE, s |-> s]}
  ELSE {[ok |-> TRUE, s |-> [NoStream EXCEPT !.open = TRUE]], [ok |-> FALSE, s |-> s]}

\* cl_stream_seek, where bridge_stream_prepare asks for it.
SeekOutcomes(s, offset) ==
  IF s.at = offset THEN {[ok |-> TRUE, s |-> s]}
  ELSE {[ok |-> TRUE, s |-> [s EXCEPT !.mcu = offset, !.at = offset]],
        [ok |-> FALSE, s |-> [s EXCEPT !.mcu = offset]], [ok |-> FALSE, s |-> s]}

\* cl_stream_recv_into, cl_stream_recv_with_writer: some bytes, from where the MCU is.
ReceiveOutcomes(s, length) ==
  LET left == RomSize - s.mcu
      most == IF length < left THEN length ELSE left
  IN  {[got |-> n, ok |-> n = length, from |-> s.mcu,
        s |-> [s EXCEPT !.mcu = @ + n, !.at = IF s.at + n < RomSize THEN s.at + n ELSE RomSize]]
         : n \in 0 .. most}
      \cup {[got |-> 0, ok |-> FALSE, from |-> s.mcu, s |-> [s EXCEPT !.mcu = @ + m]]
              : m \in 0 .. most}

Failed(s) == [got |-> 0, ok |-> FALSE, from |-> 0, s |-> s]

\* chislink_bridge_read_stream, chislink_bridge_read_stream_words
ReadOutcomes(s, offset, length) ==
  UNION {
    IF ~opened.ok THEN {Failed(opened.s)}
    ELSE UNION {IF ~sought.ok THEN {Failed(sought.s)} ELSE ReceiveOutcomes(sought.s, length)
                  : sought \in SeekOutcomes(opened.s, offset)}
      : opened \in OpenOutcomes(s)}

-----------------------------------------------------------------------------
(* The cache.                                                                *)

VARIABLES
  stream,     \* s_rom_stream
  prgcache,   \* the page a slot is tagged with, or NoSlot (INVALID_PAGE)
  cache_age,  \* ages of the slots in ranks, of which only the order is compared; 0: never used
  loaded,     \* the contents of the slots
  instant,    \* INSTANT_PAGES: a slot, or NoSlot
  bank1, window,  \* g_banks[1], and the slots memmap_tbl shows for the two banks
  stage, todo,    \* what is going on, and the banks update_cache has yet to get
  lost, states,   \* how many reads failed, and how many states were saved or loaded
  doubtful        \* the pages whose last load failed, or was made astray

cacheVars == <<stream, prgcache, cache_age, loaded, instant, bank1, window, stage, todo,
               lost, states, doubtful>>

Pages == 0 .. RomPages - 1
CacheSlot == 0 .. CacheSlots - 1
FilePages == RomSize \div 2
Content(p) == IF p < FilePages THEN p ELSE Padding

CacheTypeOK ==
  /\ stream \in Streams /\ prgcache \in [CacheSlot -> Pages \cup {NoSlot}]
  /\ cache_age \in [CacheSlot -> 0 .. CacheSlots]
  /\ loaded \in [CacheSlot -> Pages \cup {Padding, Torn, Scratch}]
  /\ instant \in [Pages -> CacheSlot \cup {NoSlot}]
  /\ bank1 \in Pages /\ window \in [0 .. 1 -> CacheSlot \cup {NoSlot}]
  /\ stage \in {"find", "fill", "run", "update", "restore"} /\ todo \in Seq(Pages)
  /\ lost \in 0 .. MaxLost /\ states \in 0 .. MaxStates /\ doubtful \subseteq Pages

CacheInit ==
  /\ stream = NoStream /\ prgcache = [s \in CacheSlot |-> NoSlot]
  /\ cache_age = [s \in CacheSlot |-> 0] /\ loaded = [s \in CacheSlot |-> Padding]
  /\ instant = [p \in Pages |-> NoSlot] /\ bank1 = 0 /\ window = [w \in 0 .. 1 |-> NoSlot]
  /\ stage = "find" /\ todo = <<>> /\ lost = 0 /\ states = 0 /\ doubtful = {}

-----------------------------------------------------------------------------
\* The banks of the two windows.
Bank(w) == IF w = 0 THEN 0 ELSE bank1

\* cache_slot_for_page
SlotsOf(p) == {s \in CacheSlot : prgcache[s] = p}

\* cache_age[s] = ++cache_clock
Used(s) ==
  [t \in CacheSlot |-> IF t = s THEN CacheSlots
                       ELSE IF cache_age[t] > cache_age[s] THEN cache_age[t] - 1 ELSE cache_age[t]]

\* The SDK takes the stream to be where page p begins, and it is not: an answer was lost.
Astray(p) == stream.open /\ stream.at = 2 * p /\ stream.mcu # stream.at

\* loadcachepage: a read that fails is not noticed.
Load(s, p) ==
  IF p >= FilePages
  THEN /\ loaded' = [loaded EXCEPT ![s] = Padding]
       /\ doubtful' = doubtful \ {p} /\ UNCHANGED <<stream, lost>>
  ELSE \E read \in ReadOutcomes(stream, 2 * p, 2) :
         /\ lost' = IF read.ok THEN lost ELSE lost + 1
         /\ lost' <= MaxLost
         /\ stream' = read.s
         /\ doubtful' = IF read.ok /\ ~Astray(p) THEN doubtful \ {p} ELSE doubtful \cup {p}
         /\ loaded' = [loaded EXCEPT ![s] =
                         IF read.got = 0 THEN Padding
                         ELSE IF read.got = 1 \/ read.from % 2 = 1 THEN Torn
                         ELSE read.from \div 2]

\* findrom2: page 0, through the file handle; bridge_read halts if that fails.
FindRom ==
  /\ stage = "find"
  /\ loaded' = [loaded EXCEPT ![0] = 0] /\ stage' = "fill"
  /\ UNCHANGED <<stream, prgcache, cache_age, instant, bank1, window, todo, lost, states, doubtful>>

\* regenerate_instant_prg
Regenerated(table, tags) ==
  [p \in Pages |-> IF \E s \in CacheSlot : tags[s] = p
                   THEN CHOOSE s \in CacheSlot : tags[s] = p ELSE table[p]]

\* init_cache: the slots are filled in order; then the default mapping.
ToFill == {s \in CacheSlot : s < FilePages /\ prgcache[s] = NoSlot}
FillSlot ==
  /\ stage = "fill"
  /\ \/ \E s \in ToFill :
          /\ \A t \in ToFill : s <= t
          /\ IF s = 0 THEN UNCHANGED <<stream, loaded, lost, doubtful>> ELSE Load(s, s)
          /\ prgcache' = [prgcache EXCEPT ![s] = s] /\ cache_age' = Used(s)
          /\ UNCHANGED <<instant, bank1, window, stage>>
     \/ /\ ToFill = {}
        /\ instant' = Regenerated(instant, prgcache)
        /\ bank1' = 1 /\ window' = [w \in 0 .. 1 |-> w] /\ stage' = "run"
        /\ UNCHANGED <<stream, prgcache, cache_age, loaded, lost, doubtful>>
  /\ UNCHANGED <<todo, states>>

\* map4567_: a page in the table is shown at once, without a look at the cache.
MapBank(p) ==
  /\ stage = "run"
  /\ bank1' = p
  /\ IF instant[p] # NoSlot
     THEN window' = [window EXCEPT ![1] = instant[p]] /\ UNCHANGED <<stage, todo>>
     ELSE stage' = "update" /\ todo' = <<0, p>> /\ UNCHANGED window
  /\ UNCHANGED <<stream, prgcache, cache_age, loaded, instant, lost, states, doubtful>>

-----------------------------------------------------------------------------
(* update_cache                                                             *)

\* The first empty slot, or the least recently used one whose page is not mapped; with more
\* slots than windows there is one.
Victims ==
  LET free == {s \in CacheSlot : prgcache[s] = NoSlot}
      others == {s \in CacheSlot : prgcache[s] \notin {0, bank1}}
  IN  IF free # {} THEN {s \in free : \A t \in free : s <= t}
      ELSE {s \in others : \A t \in others : cache_age[s] <= cache_age[t]}

\* INSTANT_PAGES without the page the slot held; the mutant leaves it.
StillThere(s) == instant
Evicted(s) ==
  IF prgcache[s] # NoSlot /\ instant[prgcache[s]] = s
  THEN [instant EXCEPT ![prgcache[s]] = NoSlot] ELSE instant

\* getbank
GetBank ==
  LET p == Head(todo)
  IN  /\ stage \in {"update", "restore"} /\ todo # <<>>
      /\ todo' = Tail(todo)
      /\ \/ \E s \in SlotsOf(p) :
              /\ cache_age' = Used(s)
              /\ UNCHANGED <<stream, loaded, lost, doubtful, prgcache, instant>>
         \/ /\ SlotsOf(p) = {}
            /\ \E s \in Victims :
                 /\ Load(s, p)
                 /\ prgcache' = [prgcache EXCEPT ![s] = p] /\ cache_age' = Used(s)
                 /\ instant' = [Evicted(s) EXCEPT ![p] = s]
      /\ UNCHANGED <<bank1, window, stage, states>>

\* flushcache, and update_cache again; the table stays.
Flushed(bank) ==
  /\ prgcache' = [s \in CacheSlot |-> NoSlot] /\ cache_age' = [s \in CacheSlot |-> 0]
  /\ stage' = "update" /\ todo' = <<0, bank>>

\* The rest of update_cache: regenerate_instant_prg and get_rom_map.
ShowBanks ==
  /\ stage \in {"update", "restore"} /\ todo = <<>>
  /\ instant' = Regenerated(instant, prgcache)
  /\ window' = [w \in 0 .. 1 |-> instant'[Bank(w)]]
  /\ IF stage = "update"
     THEN stage' = "run" /\ UNCHANGED <<prgcache, cache_age, todo>>
     ELSE Flushed(bank1)
  /\ UNCHANGED <<stream, loaded, bank1, lost, states, doubtful>>

-----------------------------------------------------------------------------
(* Saved states (sram.c)                                                    *)

Scratched == [s \in CacheSlot |-> IF s \in 1 .. ScratchSlots THEN Scratch ELSE loaded[s]]

\* chislink_save_state_slot, and chislink_load_state_slot that fails once it has begun to
\* read the state: the slots are overwritten, and the cache is rebuilt.
SavesState ==
  /\ stage = "run" /\ states < MaxStates
  /\ loaded' = Scratched /\ Flushed(bank1)
  /\ states' = states + 1
  /\ UNCHANGED <<stream, instant, bank1, window, lost, doubtful>>

\* chislink_load_state_slot: AfterLoadState maps the state's bank before the cache is
\* rebuilt.
LoadsState(p) ==
  /\ stage = "run" /\ states < MaxStates
  /\ loaded' = Scratched /\ bank1' = p
  /\ states' = states + 1
  /\ IF instant[p] # NoSlot
     THEN window' = [window EXCEPT ![1] = instant[p]] /\ Flushed(p)
     ELSE stage' = "restore" /\ todo' = <<0, p>> /\ UNCHANGED <<window, prgcache, cache_age>>
  /\ UNCHANGED <<stream, instant, lost, doubtful>>

CacheNext ==
  \/ FindRom \/ FillSlot \/ GetBank \/ ShowBanks \/ SavesState
  \/ \E p \in Pages : MapBank(p) \/ LoadsState(p)

CacheSpec == CacheInit /\ [][CacheNext]_cacheVars

-----------------------------------------------------------------------------
(* Properties.                                                              *)

ShowsBank(w) ==
  window[w] # NoSlot /\ (Bank(w) \in doubtful \/ loaded[window[w]] = Content(Bank(w)))

\* cache.c:244-313, cart.s:616-627, chislink_bridge.c:258-279: the windows show the
\* selected banks, whatever was evicted and whatever answers were lost, but for a bank
\* whose last load failed or was made astray; once a state was saved or loaded, this
\* holds for a bank that the cache has in the slot.
BanksShown ==
  stage = "run" => \A w \in 0 .. 1 :
    states = 0 \/ (window[w] # NoSlot /\ prgcache[window[w]] = Bank(w)) => ShowsBank(w)

\* cache.c:334, "updates the cache's state, and all the lookup tables": also when a saved
\* state took the slots for itself.
LookupsUpdated == stage = "run" => \A w \in 0 .. 1 : ShowsBank(w)
=============================================================================
