------------------------------- MODULE RomFlash -------------------------------
(***************************************************************************)
(* Writing the cartridge's ROM (gba/sdk/src/cart_nor.c): a NOR flash is     *)
(* erased sector by sector and programmed in words or buffers while the     *)
(* chunks of a file come in; the sector a chunk ends before is already      *)
(* erased while the next chunk is fetched.                                  *)
(*                                                                          *)
(* A byte of the chip is Blank (0xff), the number of the image it belongs   *)
(* to, or Mixed.  Identification is abstracted to its outcome, and the      *)
(* command sets of AMD and Intel chips to what they do.  The chip leaves    *)
(* out commands while it erases; reading the ROM, which gives its status    *)
(* then, is not modelled.                                                   *)
(***************************************************************************)
EXTENDS Naturals, Sequences

CONSTANTS
  Blocks,      \* the chip's regions: how many sectors, of what size
  Reversed,    \* its table lists them from the top
  BufferSize,  \* write_buffer_size, or 0
  ChunkLengths,\* of the chunks offered
  Totals,      \* sizes announced by set_size
  MaxImages,   \* bound on the images begun
  Blank, Mixed, Nowhere

ASSUME RomAssumption ==
  /\ Blocks \in Seq([count : Nat \ {0}, size : Nat \ {0}]) /\ Blocks # <<>>
  /\ Reversed \in BOOLEAN /\ BufferSize \in Nat
  /\ ChunkLengths \subseteq Nat \ {0} /\ Totals \subseteq Nat /\ MaxImages \in Nat
  /\ Nowhere \notin Nat

\* A sector is made of whole words and, if the chip has a buffer, of whole buffers: sizes come
\* in units of 256 bytes (block_size <<= 8), buffers in powers of two (1u << buffer_exp).
ASSUME SectorsAssumption ==
  \A i \in 1 .. Len(Blocks) :
    Blocks[i].size % 2 = 0 /\ (BufferSize # 0 => Blocks[i].size % BufferSize = 0)

VARIABLES
  cells, busy,     \* the chip: its bytes, and the sector it is erasing
  probed,          \* g_probe_valid and g_probe_status
  writing,         \* g_write_active, g_write_offset, g_write_expected_size
  ahead,           \* g_pre_erased_addr, Nowhere when g_pre_erase_active is 0
  chunk,           \* of the write in progress: length, bytes done, sector ready
  image, taken,    \* the image begun last, and how much of it has been accepted
  stray            \* the chip erases a sector the code has forgotten

romVars == <<cells, busy, probed, writing, ahead, chunk, image, taken, stray>>

-----------------------------------------------------------------------------
(* read_cfi, sector_size_at, is_sector_boundary: the layout of the sectors. *)

Regions == 1 .. Len(Blocks)
Extent(i) == Blocks[i].count * Blocks[i].size
Current[i \in 0 .. Len(Blocks)] == IF i = 0 THEN 0 ELSE Current[i - 1] + Extent(i)
FlashSize == Current[Len(Blocks)]
FlashBytes == 0 .. FlashSize - 1
FirstOf(i) == IF Reversed THEN FlashSize - Current[i] ELSE Current[i - 1]

RegionAt(a) == CHOOSE i \in Regions : a \in FirstOf(i) .. FirstOf(i) + Extent(i) - 1
\* the sector every byte belongs to, by its first byte
SectorAt ==
  [a \in FlashBytes |->
     LET i == RegionAt(a)
     IN  FirstOf(i) + ((a - FirstOf(i)) \div Blocks[i].size) * Blocks[i].size]

\* The mutant takes the first region's sectors for all.
IsUniformBoundary(a) == a % Blocks[1].size = 0
IsBoundary(a) ==
  a \in FlashBytes /\ IF Len(Blocks) >= 2 THEN SectorAt[a] = a ELSE a % Blocks[1].size = 0

-----------------------------------------------------------------------------
Rest2 == [length |-> 0, done |-> 0, ready |-> FALSE]
Calm == chunk.length = 0
NoImage == [active |-> FALSE, offset |-> 0, total |-> 0]

RomTypeOK ==
  /\ cells \in [FlashBytes -> {Blank, Mixed} \cup 1 .. MaxImages]
  /\ busy \in FlashBytes \cup {Nowhere} /\ ahead \in FlashBytes \cup {Nowhere}
  /\ probed \in {"no", "chip", "none"}
  /\ writing \in [active : BOOLEAN, offset : 0 .. FlashSize, total : Totals \cup {0}]
  /\ chunk \in [length : 0 .. FlashSize, done : 0 .. FlashSize, ready : BOOLEAN]
  /\ image \in 0 .. MaxImages /\ taken \in 0 .. FlashSize /\ stray \in BOOLEAN

RomInit ==
  /\ cells = [a \in FlashBytes |-> Mixed] /\ busy = Nowhere
  /\ probed = "no" /\ writing = NoImage /\ ahead = Nowhere /\ chunk = Rest2
  /\ image = 0 /\ taken = 0 /\ stray = FALSE

Erased(b) == [a \in FlashBytes |-> IF SectorAt[a] = SectorAt[b] THEN Blank ELSE cells[a]]
Ruined(b) == [a \in FlashBytes |-> IF SectorAt[a] = SectorAt[b] THEN Mixed ELSE cells[a]]

\* The chip ends an erase while the code does something else.
EraseEnds ==
  /\ busy # Nowhere
  /\ cells' = Erased(busy) /\ busy' = Nowhere
  /\ UNCHANGED <<probed, writing, ahead, chunk, image, taken, stray>>

\* cl_cart_nor_probe: remembered, or asked of the chip, which does not answer while it
\* erases.
ProbeNor ==
  /\ IF probed # "no" THEN UNCHANGED probed
     ELSE probed' \in IF busy = Nowhere THEN {"chip"} ELSE {"chip", "none"}

\* cl_cart_nor_invalidate, also for a cartridge of which nothing is known
Invalidate ==
  /\ Calm
  /\ probed' = "no" /\ writing' = NoImage /\ ahead' = Nowhere
  /\ stray' = (busy # Nowhere) /\ taken' = IF stray THEN 0 ELSE taken
  /\ UNCHANGED <<cells, busy, chunk, image>>

\* cl_cart_nor_set_write_size: what was begun is forgotten, and the first sector erased
\* while the first chunk is fetched.  A busy chip leaves out the command.
SetSize(total) ==
  /\ Calm
  /\ writing' = [NoImage EXCEPT !.total = total]
  /\ stray' = (busy # Nowhere)
  /\ IF total = 0 THEN UNCHANGED probed ELSE ProbeNor
  /\ IF total # 0 /\ probed' = "chip"
     THEN ahead' = 0 /\ taken' = 0 /\ busy' = IF busy = Nowhere THEN 0 ELSE busy
     ELSE ahead' = Nowhere /\ taken' = (IF stray THEN 0 ELSE taken) /\ UNCHANGED busy
  /\ UNCHANGED <<cells, chunk, image>>

-----------------------------------------------------------------------------
(* cl_cart_nor_write_stream                                                 *)

Lesser(m, n) == IF m < n THEN m ELSE n

\* What is taken of a chunk: no more than the chip holds and the announced size.
Clip(offset, length) ==
  LET end == IF writing.total = 0 THEN FlashSize ELSE Lesser(FlashSize, writing.total)
  IN  IF offset >= end THEN 0 ELSE Lesser(length, end - offset)

WriteBegin(offset, length) ==
  /\ Calm /\ ProbeNor /\ probed' = "chip"
  /\ IF writing.active THEN UNCHANGED <<writing, image, taken>>
     ELSE /\ offset = 0 /\ image < MaxImages
          /\ writing' = [writing EXCEPT !.active = TRUE, !.offset = 0]
          /\ image' = image + 1 /\ taken' = 0
  /\ offset % 2 = 0 /\ offset = writing'.offset /\ offset < FlashSize
  /\ chunk' = [Rest2 EXCEPT !.length = Clip(offset, length)]
  /\ UNCHANGED <<cells, busy, ahead, stray>>

\* A chunk that is refused may still have identified the chip.
WriteRefused ==
  /\ Calm /\ ProbeNor
  /\ UNCHANGED <<cells, busy, writing, ahead, chunk, image, taken, stray>>

At == writing.offset + chunk.done
Gives(error) == IF error THEN chunk' = Rest2 ELSE chunk' = [chunk EXCEPT !.ready = TRUE]

\* At the first byte of a sector: wait for the erase that was begun for it, or erase.
EraseHere ==
  /\ ~Calm /\ ~chunk.ready /\ IsBoundary(At)
  /\ \/ /\ cells' = IF busy # Nowhere THEN Erased(busy)
                    ELSE IF ahead = At THEN cells ELSE Erased(At)
        /\ Gives(FALSE)
     \/ /\ ~(busy = Nowhere /\ ahead = At)
        /\ cells' = Ruined(IF busy # Nowhere THEN busy ELSE At)
        /\ Gives(TRUE)
  /\ busy' = Nowhere /\ ahead' = IF ahead = At THEN Nowhere ELSE ahead
  /\ UNCHANGED <<probed, writing, image, taken, stray>>

\* choose_write_unit
Unit ==
  LET left == chunk.length - chunk.done
  IN  IF BufferSize = 0 \/ BufferSize % 2 = 1 \/ At % BufferSize # 0 \/ left < BufferSize
      THEN Lesser(2, left) ELSE BufferSize

\* Bits are only ever cleared: over other bytes than Blank and its own, a byte is lost.
Burnt(n) ==
  [a \in FlashBytes |->
     IF a \notin At .. At + n - 1 THEN cells[a]
     ELSE IF cells[a] \in {Blank, image} THEN image ELSE Mixed]

\* maybe_pre_erase_next_sector; the mutant does not look at the announced size.
AheadAnyway(a) == ahead = Nowhere /\ writing.total # 0 /\ IsBoundary(a)
AheadOf(a) == ahead = Nowhere /\ a < writing.total /\ IsBoundary(a)

Program ==
  LET n == Unit
      done == chunk.done + n
      next == writing.offset + done
  IN  /\ ~Calm
      /\ IsBoundary(At) => chunk.ready
      /\ \/ /\ cells' = Burnt(n)
            /\ IF done < chunk.length
               THEN /\ chunk' = [chunk EXCEPT !.done = done, !.ready = FALSE]
                    /\ UNCHANGED <<writing, taken, ahead, busy>>
               ELSE /\ chunk' = Rest2 /\ writing' = [writing EXCEPT !.offset = next]
                    /\ taken' = next
                    /\ IF AheadOf(next) THEN ahead' = next /\ busy' = next
                       ELSE UNCHANGED <<ahead, busy>>
         \/ /\ cells' \in {cells, Burnt(n)}
            /\ chunk' = Rest2 /\ UNCHANGED <<writing, taken, ahead, busy>>
  /\ UNCHANGED <<probed, image, stray>>

\* cl_cart_nor_flush waits for an erase that was begun ahead.
Flush ==
  /\ Calm
  /\ IF ahead = Nowhere \/ busy = Nowhere THEN UNCHANGED <<cells, busy>>
     ELSE cells' \in {Erased(busy), Ruined(busy)} /\ busy' = Nowhere
  /\ writing' = NoImage /\ ahead' = Nowhere
  /\ UNCHANGED <<probed, chunk, image, taken, stray>>

RomNext ==
  \/ EraseEnds \/ Invalidate \/ WriteRefused \/ EraseHere \/ Program \/ Flush
  \/ \E total \in Totals : SetSize(total)
  \/ \E offset \in 0 .. FlashSize, length \in ChunkLengths : WriteBegin(offset, length)

RomSpec == RomInit /\ [][RomNext]_romVars

-----------------------------------------------------------------------------
(* Properties.                                                              *)

\* cart_nor.c:606-697: whatever failed and was tried again in between, the part of an
\* image that was accepted is on the chip, unless it was begun while the chip still
\* erased a sector for another one.
TakenIsThere == ~stray => \A a \in 0 .. taken - 1 : cells[a] = image

\* cart_nor.c:325-336, 643-650: with the size announced, no sector that begins behind it
\* is touched, not even by the erase ahead.
BeyondStays ==
  [][~stray /\ writing.total # 0 =>
       \A a \in FlashBytes : SectorAt[a] >= writing.total => cells'[a] = cells[a]]_romVars
=============================================================================
