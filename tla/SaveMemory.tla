------------------------------ MODULE SaveMemory ------------------------------
(***************************************************************************)
(* The save memory of a cartridge (gba/sdk/src/cart_gba.c): SRAM, flash or *)
(* EEPROM behind the save functions of the driver.  SRAM and flash of twice*)
(* a bank's size show one bank at a time; flash is erased a sector at a    *)
(* time, once between two calls of set_size; EEPROM is read and written in *)
(* units.                                                                  *)
(*                                                                         *)
(* The configuration fits the cartridge: it is of the memory's own type and*)
(* no larger.  A byte is a number below Values; the largest is that of     *)
(* erased flash (0xff), and its complement is Values - 1 - b.  Junk        *)
(* stands for what a byte holds that was not written right.                *)
(***************************************************************************)
EXTENDS Naturals, Sequences, FiniteSets

CONSTANTS
  BankSize,    \* CL_CART_GBA_SRAM_BANK_SIZE
  SectorSize,  \* CL_CART_GBA_FLASH_SECTOR_SIZE
  UnitSize,    \* CL_CART_GBA_EEPROM_UNIT_SIZE
  Values,      \* bound on the bytes
  Data,        \* bounds on what is written: one of these bytes, repeated
  SaveLengths, \* this many times
  MaxWrites    \* bound on the writes

ASSUME SaveAssumption ==
  /\ {BankSize, SectorSize, UnitSize} \subseteq Nat \ {0} /\ SaveLengths \subseteq Nat \ {0}
  /\ BankSize % SectorSize = 0 /\ BankSize % UnitSize = 0
  /\ BankSize > 1 /\ Values \in Nat /\ Values > 2 /\ Values % 2 = 0
  /\ Data \subseteq 1 .. Values - 1

VARIABLES
  chip,      \* the cartridge: the memory's type and how many banks it has
  memory,    \* its bytes
  selected,  \* the bank that shows
  config,    \* save_type and save_size; size 0: no save that is a linear file
  sectors,   \* flash_erased_sector_mask
  job,       \* the write in progress: offset, length, value, and bytes done
  accepted,  \* bytes reported as written since set_size, by their offset
  probe,     \* what the last probe found, if any
  writes     \* how many were begun

saveVars == <<chip, memory, selected, config, sectors, job, accepted, probe, writes>>

Kind == {"sram", "flash", "eeprom"}
Banks == 0 .. chip.banks - 1
Blanked == Values - 1
Junk == 0
SaveByte == 0 .. Values - 1
Cells == 0 .. 2 * BankSize - 1
Free == job.length = 0
NoJob == [offset |-> 0, length |-> 0, value |-> 0, done |-> 0]

SaveTypeOK ==
  /\ chip \in [kind : Kind, banks : 1 .. 2] /\ memory \in [Cells -> SaveByte]
  /\ selected \in Banks
  /\ config \in [kind : Kind \cup {"none"}, size : 0 .. 2 * BankSize]
  /\ sectors \subseteq {c \in Cells : c % SectorSize = 0}
  /\ job \in [offset : Cells, length : Nat, value : Data \cup {0}, done : Nat]
  /\ DOMAIN accepted \subseteq Cells /\ \A a \in DOMAIN accepted : accepted[a] \in SaveByte
  /\ writes \in 0 .. MaxWrites /\ probe \in [kind : Kind \cup {"none"}, banks : 1 .. 2]

NoProbe == [kind |-> "none", banks |-> 1]
NoSave == [kind |-> "none", size |-> 0]

SaveInit ==
  /\ chip \in [kind : Kind, banks : 1 .. 2]
  /\ memory = [c \in Cells |-> 0] /\ selected = 0
  /\ config = NoSave /\ sectors = {} /\ job = NoJob /\ accepted = <<>>
  /\ probe = NoProbe /\ writes = 0

-----------------------------------------------------------------------------
(* The bus: the byte that shows at an address of the bank window.           *)
Wired(bank, address) == IF chip.banks = 2 THEN bank * BankSize + address ELSE address

\* switch_sram_bank, switch_flash_bank: only if the configuration has two banks
Switched(bank) == IF config.size > BankSize /\ chip.banks = 2 THEN bank ELSE selected

\* linear_save_read, eeprom_read_bytes
ReadAt(offset) ==
  memory[IF config.kind = "eeprom" THEN offset
         ELSE Wired(Switched(offset \div BankSize), offset % BankSize)]

-----------------------------------------------------------------------------
\* save_size_is_file_accessible
SizesOf(kind) ==
  CASE kind = "sram" -> {1, BankSize, 2 * BankSize}
    [] kind = "flash" -> {BankSize, 2 * BankSize}
    [] kind = "eeprom" -> {UnitSize, BankSize}

\* apply_save_config, by install_driver, configure_save or from the game database
Configure(kind, size) ==
  /\ Free
  /\ \/ kind = "none" /\ size = 0
     \/ kind = chip.kind /\ size \in SizesOf(kind) /\ size <= chip.banks * BankSize
  /\ config' = [kind |-> kind, size |-> size]
  /\ sectors' = {} /\ accepted' = <<>> /\ probe' = NoProbe
  /\ UNCHANGED <<chip, memory, selected, job, writes>>

\* gba_set_size
SetSaveSize ==
  /\ Free
  /\ sectors' = {}
  /\ accepted' = IF config.kind = "flash" THEN <<>> ELSE accepted
  /\ UNCHANGED <<chip, memory, selected, config, job, probe, writes>>

-----------------------------------------------------------------------------
(* gba_write                                                                *)

Span(j) == j.offset .. j.offset + j.length - 1

Without(lost) == [a \in DOMAIN accepted \ lost |-> accepted[a]]

\* After set_size, flash is written from the start.
WriteSave(offset, length, value) ==
  /\ Free /\ offset < config.size /\ writes < MaxWrites
  /\ writes' = writes + 1
  /\ config.kind = "flash" /\ sectors = {} => offset = 0
  /\ job' = [offset |-> offset, value |-> value, done |-> 0,
             length |-> IF length < config.size - offset THEN length ELSE config.size - offset]
  /\ accepted' = Without(Span(job'))
  /\ UNCHANGED <<chip, memory, selected, config, sectors, probe>>

Position == job.offset + job.done
Left == job.length - job.done
\* the bytes up to the end of the bank, sector or unit
Upto(size) == LET room == size - (Position % size) IN IF Left < room THEN Left ELSE room
Showing == Switched(Position \div BankSize)

\* The next n bytes, where they show; and the memory m with v there.
Next2(n) == {Wired(Showing, Position % BankSize) + k : k \in 0 .. n - 1}
Filled(m, where, v) == [c \in Cells |-> IF c \in where THEN v ELSE m[c]]

\* After n more bytes; at the end bank 0 shows again.
Onwards(n) ==
  /\ job' = IF n = Left THEN NoJob ELSE [job EXCEPT !.done = @ + n]
  /\ selected' = IF n = Left THEN Switched(0) ELSE Showing
  /\ accepted' = IF n < Left THEN accepted
                 ELSE [a \in DOMAIN accepted \cup Span(job) |->
                         IF a \in Span(job) THEN job.value ELSE accepted[a]]

\* A write that fails leaves bank 0, too.
GivesUp == job' = NoJob /\ selected' = Switched(0)

\* linear_save_write: one bank's part.  A byte that twice does not read back ends it.
SramPart ==
  /\ ~Free /\ config.kind = "sram"
  /\ \/ memory' = Filled(memory, Next2(Upto(BankSize)), job.value) /\ Onwards(Upto(BankSize))
     \/ /\ \E k \in 0 .. Upto(BankSize) - 1 : memory' = Filled(memory, Next2(k), job.value)
        /\ GivesUp /\ UNCHANGED accepted
  /\ UNCHANGED <<chip, config, sectors, probe, writes>>

\* linear_flash_write: one sector's part, erased if it is the first since set_size; the
\* mutant erases for every part.  A byte takes its value over an erased one or itself.
Sector(a) == a - (a % SectorSize)
AlwaysErased(sector) == TRUE
MustErase(sector) == sector \notin sectors

FlashPart ==
  LET n == Upto(SectorSize)
      first == Wired(Showing, Sector(Position % BankSize))
      erased == Filled(memory, first .. first + SectorSize - 1, Blanked)
      before == IF MustErase(Sector(Position)) THEN erased ELSE memory
      Takes(k) == \A c \in Next2(k) : before[c] \in {Blanked, job.value}
  IN  /\ ~Free /\ config.kind = "flash"
      /\ \/ MustErase(Sector(Position)) /\ memory' \in {memory, erased} /\ GivesUp
            /\ UNCHANGED <<sectors, accepted>>
         \/ /\ sectors' = sectors \cup {Sector(Position)}
            /\ \/ Takes(n) /\ memory' = Filled(before, Next2(n), job.value) /\ Onwards(n)
               \/ /\ \E k \in 1 .. n :
                       /\ Takes(k - 1)
                       /\ memory' = Filled(Filled(before, Next2(k), Junk), Next2(k - 1), job.value)
                  /\ GivesUp /\ UNCHANGED accepted
  /\ UNCHANGED <<chip, config, probe, writes>>

\* eeprom_write_bytes: one unit's part, with the rest of the unit as read before; the
\* mutant does not read it.  A unit that could not be written holds anything.
RestUnread(c) == 0
RestOfUnit(c) == memory[c]

EepromPart ==
  LET n == Upto(UnitSize)
      unit == {c \in Cells : c \div UnitSize = Position \div UnitSize}
      mine == Position .. Position + n - 1
  IN  /\ ~Free /\ config.kind = "eeprom"
      /\ \/ /\ memory' = [c \in Cells |-> IF c \in mine THEN job.value
                                          ELSE IF c \in unit THEN RestOfUnit(c) ELSE memory[c]]
            /\ Onwards(n)
         \/ /\ memory' \in {memory, Filled(memory, unit, Junk)}
            /\ GivesUp /\ accepted' = Without(unit)
  /\ UNCHANGED <<chip, config, sectors, probe, writes>>

-----------------------------------------------------------------------------
(* probe_save_hardware_uncached: is there SRAM, and how much of it?  Two    *)
(* bytes are overwritten and restored.  A chip with a known id is flash,    *)
(* all else is taken for EEPROM.                                            *)

Poked(m, bank, address, v) ==
  IF chip.kind = "sram" THEN [m EXCEPT ![Wired(bank, address)] = v] ELSE m
PeekAt(m, bank, address) == m[Wired(bank, address)]

\* probe_pattern
Pattern(original, avoid) == CHOOSE v \in SaveByte : v \notin {original, avoid}

\* probe_sram_writable
Writable ==
  LET a == Pattern(PeekAt(memory, 0, 0), PeekAt(memory, 0, 1))
      b == Pattern(PeekAt(memory, 0, 1), a)
      m1 == Poked(memory, 0, 0, a)
      m2 == Poked(m1, 0, 1, b)
  IN  [yes |-> PeekAt(m1, 0, 0) = a /\ PeekAt(m2, 0, 1) = b /\ PeekAt(m2, 0, 0) = a,
       memory |-> Poked(Poked(m2, 0, 1, PeekAt(memory, 0, 1)), 0, 0, PeekAt(memory, 0, 0))]

\* probe_sram_bank_switch
HasBanks(m) ==
  LET old == PeekAt(m, 0, 0)
      m1 == Poked(m, 0, 0, Blanked - old)
  IN  IF old # PeekAt(m, 1, 0) THEN [yes |-> TRUE, memory |-> m]
      ELSE [yes |-> PeekAt(m1, 0, 0) # old /\ PeekAt(m1, 1, 0) = old,
            memory |-> Poked(m1, 0, 0, old)]

ProbeSave ==
  /\ Free /\ probe.kind = "none"
  /\ IF Writable.yes
     THEN LET banks == HasBanks(Writable.memory)
          IN  /\ probe' = [kind |-> "sram", banks |-> IF banks.yes THEN 2 ELSE 1]
              /\ memory' = banks.memory
     ELSE /\ probe' = IF chip.kind = "flash" THEN chip ELSE [kind |-> "eeprom", banks |-> 1]
          /\ memory' = Writable.memory
  /\ selected' = IF Writable.yes /\ chip.banks = 2 THEN 0 ELSE selected
  /\ UNCHANGED <<chip, config, sectors, job, accepted, writes>>

-----------------------------------------------------------------------------
SaveNext ==
  \/ \E kind \in Kind \cup {"none"}, size \in 0 .. 2 * BankSize : Configure(kind, size)
  \/ SetSaveSize \/ SramPart \/ FlashPart \/ EepromPart \/ ProbeSave
  \/ \E offset \in Cells, length \in SaveLengths, value \in Data :
       WriteSave(offset, length, value)

SaveSpec == SaveInit /\ [][SaveNext]_saveVars

(* Properties.                                                              *)

\* cart_gba.c:563-632, 1196-1227: what was reported as written since set_size reads back,
\* whatever was written or failed elsewhere in the meantime; no sector is erased twice.
AcceptedStays == \A a \in DOMAIN accepted : Free => ReadAt(a) = accepted[a]

\* cart_gba.c:530-561, 670-706, 793-832: SRAM and EEPROM change only where a write goes
\* (in EEPROM, when it fails, in its unit); a probe leaves them as they were.
Near(a) ==
  ~Free /\ IF config.kind = "eeprom" /\ job' = NoJob /\ Span(job) \cap DOMAIN accepted' = {}
           THEN \E b \in Span(job) : a \div UnitSize = b \div UnitSize
           ELSE a \in Span(job)
OthersStay ==
  [][chip.kind # "flash" => \A a \in Cells : ~Near(a) => memory'[a] = memory[a]]_saveVars
=============================================================================
