---------------------------------- MODULE Mbc ----------------------------------
(***************************************************************************)
(* The memory bank controllers of Game Boy cartridges as Goomba Color plays *)
(* them (emulators/goombacolor/src/mappers.s, cart.s, memory.s): a game's    *)
(* writes to its ROM select the ROM bank at 4000 and what is at A000, a bank *)
(* of the cartridge's RAM, a register of its clock, or nothing.  The         *)
(* registers are kept in mapperdata, saved states carry them (savestate.c,  *)
(* state.s), and the windows are shown again from them.                     *)
(***************************************************************************)
EXTENDS Naturals, Sequences

CONSTANTS
  Cartridges,  \* [type, rom, ram: banks, color: whether it runs in colour (gbc_mode),
               \* tried: the writes <<region, address bit, value>>]
  Moments,     \* what the clock may tell: <<day, hours, minutes, seconds>>
  MaxSaves,    \* bound on the states saved
  Never        \* a register the game has not written

ASSUME MbcAssumption ==
  /\ \A c \in Cartridges : c.type \in 0 .. 255 /\ c.rom \in Nat \ {0} /\ c.ram \in Nat \ {0}
       /\ c.color \in BOOLEAN /\ c.tried \subseteq (0 .. 3) \X BOOLEAN \X (0 .. 255)
  /\ Moments \subseteq (1 .. 31) \X (0 .. 23) \X (0 .. 59) \X (0 .. 59) /\ Moments # {}
  /\ MaxSaves \in Nat /\ Never \notin Nat \cup Moments

VARIABLES
  cart,      \* the cartridge
  chipped,   \* its header says that it has RAM (cartflags, MBC_RAM)
  m,         \* mapperdata and the windows
  wrote,     \* the last value the game wrote for each purpose
  moment,    \* the moment the clock was last latched
  kept,      \* the saved state
  saves      \* how many were saved

mbcVars == <<cart, chipped, m, wrote, moment, kept, saves>>

Purposes == {"enable", "bank", "high", "select", "mode"}
Readers == {"empty", "ram", "sec", "min", "hrs", "dayL", "dayH"}

\* mappertbl; what is not listed has no controller.
Controller(type) ==
  CASE type \in {1, 2, 3} -> "mbc1"
    [] type \in {5, 6} -> "mbc2"
    [] type \in 15 .. 19 -> "mbc3"
    [] type \in {11, 12, 13, 21, 22, 23} -> "mbc4"
    [] type \in 25 .. 30 -> "mbc5"
    [] type = 34 -> "mbc7"
    [] type = 254 -> "huc3"
    [] type = 255 -> "huc1"
    [] OTHER -> "mbc0"

kind == Controller(cart.type)

\* mbcflagstbl: the types with MBC_RAM.  The table ends at 0x23; a HuC3 cartridge takes its
\* flags from what lies behind it.
HasRam(type) ==
  IF type = 254 THEN BOOLEAN
  ELSE {type \in {2, 3, 5, 6, 8, 9, 12, 13, 16, 18, 19, 22, 23, 26, 27, 29, 30, 34, 255}}

MbcTypeOK ==
  /\ cart \in Cartridges /\ chipped \in BOOLEAN
  /\ wrote \in [Purposes -> 0 .. 255 \cup {Never}]
  /\ m.rom \in 0 .. cart.rom - 1 /\ m.at \in 0 .. cart.ram - 1
  /\ m.read \in Readers /\ m.write \in {"empty", "ram"}
  /\ moment \in Moments \cup {Never} /\ saves \in 0 .. MaxSaves

-----------------------------------------------------------------------------
(* The windows.                                                             *)

\* map4567_, map0123_: a power of two masks the bank.
map4567(d, bank) == [d EXCEPT !.rom = bank % cart.rom]

\* sramwptr
Writer == IF chipped THEN "ram" ELSE "empty"

\* RamEnable, mapAB_
RamEnable(d, value) ==
  LET on == value % 16 = 10
  IN  [d EXCEPT !.enable = value, !.write = IF on THEN Writer ELSE "empty",
                !.read = IF on THEN "ram" ELSE "empty", !.at = d.bank % cart.ram]

RamSelect(d) == RamEnable(d, d.enable)

-----------------------------------------------------------------------------
(* The registers of each controller.                                        *)

NotZero(bank) == IF bank = 0 THEN 1 ELSE bank

\* orr r0,r0,r1,lsl#5: HuC1 keeps 6 bits below, MBC1 5.
Joined(d) ==
  LET top == d.low \div 32
  IN  (d.low % 32) + 32 * (IF top = 1 /\ d.high % 2 = 0 THEN d.high + 1 ELSE d.high)

MBC1map0(d, value) ==
  LET n == [d EXCEPT !.low = NotZero(value % 32)] IN map4567(n, Joined(n))

MBC1mode(d, value) ==
  LET ram == value % 2 = 1
      n == [d EXCEPT !.mode = value, !.high = IF ram THEN 0 ELSE d.select,
                     !.bank = IF ram THEN d.select ELSE 0]
  IN  RamSelect(map4567(n, Joined(n)))

MBC1map1(d, value) == MBC1mode([d EXCEPT !.select = value % 4], d.mode)

MBC2map(d, bit, value) == IF bit THEN map4567(d, NotZero(value % 16)) ELSE d

MBC2RamEnable(d, bit, value) == IF bit THEN d ELSE RamEnable(d, value)

ClockRegister(value) ==
  CASE value = 8 -> "sec" [] value = 9 -> "min" [] value = 10 -> "hrs"
    [] value = 11 -> "dayL" [] value = 12 -> "dayH" [] OTHER -> "empty"

mbc3bank(d, value) ==
  LET n == [d EXCEPT !.bank = value]
  IN  IF (value \div 8) % 2 = 0 THEN RamSelect(n)
      ELSE [n EXCEPT !.write = "empty", !.read = ClockRegister(value)]

\* The latch takes a step of bit 0 from 0 to 1 when no other bit rises.
Latches(old, new) ==
  /\ new % 2 = 1 /\ old % 2 = 0
  /\ \A b \in 1 .. 7 : (new \div 2^b) % 2 = 1 => (old \div 2^b) % 2 = 1

MBC5map0(d, bit, value) ==
  LET n == IF bit THEN [d EXCEPT !.high = value % 2] ELSE [d EXCEPT !.low = value]
  IN  map4567(n, n.low + 256 * n.high)

MBC5RAMB(d, value) == RamSelect([d EXCEPT !.bank = value])

MBC7map(d, value) ==
  LET n == [d EXCEPT !.low = NotZero(value % 128)] IN map4567(n, n.low)

MBC7RAMB(d, value) ==
  RamSelect([d EXCEPT !.bank = value, !.enable = IF value < 9 THEN 10 ELSE 0])

HUC1map0(d, value) ==
  LET n == [d EXCEPT !.low = NotZero(value % 64)] IN map4567(n, n.low)

\* The tables of the *init routines: what a write to a quarter of the ROM does.
Written(region, bit, value) ==
  CASE region = 0 /\ kind = "mbc2" -> MBC2RamEnable(m, bit, value)
    [] region = 0 /\ kind \notin {"mbc0", "mbc2", "mbc7"} -> RamEnable(m, value)
    [] region = 1 /\ kind = "mbc1" -> MBC1map0(m, value)
    [] region = 1 /\ kind = "mbc2" -> MBC2map(m, bit, value)
    [] region = 1 /\ kind \in {"mbc3", "mbc4", "huc3"} -> map4567(m, value)
    [] region = 1 /\ kind = "mbc5" -> MBC5map0(m, bit, value)
    [] region = 1 /\ kind = "mbc7" -> MBC7map(m, value)
    [] region = 1 /\ kind = "huc1" -> HUC1map0(m, value)
    [] region = 2 /\ kind \in {"mbc1", "huc1"} -> MBC1map1(m, value)
    [] region = 2 /\ kind = "mbc3" -> mbc3bank(m, value)
    [] region = 2 /\ kind \in {"mbc5", "huc3"} -> MBC5RAMB(m, value)
    [] region = 2 /\ kind = "mbc7" -> MBC7RAMB(m, value)
    [] region = 3 /\ kind \in {"mbc1", "huc1"} -> MBC1mode(m, value)
    [] region = 3 /\ kind = "mbc3" -> [m EXCEPT !.mode = value]
    [] OTHER -> m

\* What a write is for, by the controllers' tables; a property compares with it.
Purpose(region, bit) ==
  CASE region = 0 /\ kind # "mbc0" /\ kind # "mbc7" /\ (kind = "mbc2" => ~bit) -> "enable"
    [] region = 1 /\ kind = "mbc5" /\ bit -> "high"
    [] region = 1 /\ kind # "mbc0" /\ (kind = "mbc2" => bit) /\ (kind = "mbc5" => ~bit) -> "bank"
    [] region = 2 /\ kind \in {"mbc1", "huc1", "mbc3", "mbc5", "huc3", "mbc7"} -> "select"
    [] region = 3 /\ kind \in {"mbc1", "huc1", "mbc3"} -> "mode"
    [] OTHER -> "nothing"

-----------------------------------------------------------------------------
(* The clock: gettime leaves the GBA clock's digits.                        *)

Digits(n) == 16 * (n \div 10) + (n % 10)

\* gettime; the hours carry the afternoon's bit.
Packed(t) == [dayL |-> Digits(t[1]), hrs |-> Digits(t[2]) + (IF t[2] >= 12 THEN 64 ELSE 0),
              min |-> Digits(t[3]), sec |-> Digits(t[4])]

\* calctime
Binary(b) == (b % 16) + 10 * (b \div 16)

\* clk_sec, clk_min, clk_hrs, clk_dayL, clk_dayH: what a read of the window gives.
ClockByte(reader) ==
  CASE reader = "dayH" -> 0
    [] reader = "hrs" -> Binary(m.time.hrs % 64)
    [] OTHER -> Binary(m.time[reader])

-----------------------------------------------------------------------------
NoTime == [dayL |-> 0, hrs |-> 0, min |-> 0, sec |-> 0]

\* loadcart: the registers are cleared, the second bank is shown, and RAM may be written
\* until the game says otherwise.
MbcInit ==
  /\ cart \in Cartridges /\ chipped \in HasRam(cart.type)
  /\ m = [low |-> 0, high |-> 0, enable |-> 0, mode |-> 0, bank |-> 0, select |-> 0,
          time |-> NoTime, rom |-> 1 % cart.rom, at |-> 0, read |-> "ram",
          write |-> IF chipped THEN "ram" ELSE "empty"]
  /\ wrote = [p \in Purposes |-> Never] /\ moment = Never
  /\ kept = [parts |-> <<>>] /\ saves = 0

\* A write of the game below 8000, and mbc3latchtime.
WriteRom(region, bit, value) ==
  LET p == Purpose(region, bit)
      latch == region = 3 /\ kind = "mbc3" /\ Latches(m.mode, value)
  IN  /\ wrote' = IF p = "nothing" THEN wrote ELSE [wrote EXCEPT ![p] = value]
      /\ IF latch
         THEN \E t \in Moments :
                /\ moment' = t
                /\ m' = [Written(region, bit, value) EXCEPT !.time = Packed(t)]
         ELSE m' = Written(region, bit, value) /\ UNCHANGED moment
      /\ UNCHANGED <<cart, chipped, kept, saves>>

-----------------------------------------------------------------------------
(* Saved states: a list of tagged parts.                                    *)

\* tags, saveFunc: the parts of a state, with their sizes.
SavedParts ==
  <<<<"VERS", 4>>, <<"RAM", 8192>>, <<"RAM2", IF cart.color THEN 24576 ELSE 0>>,
    <<"VRAM", IF cart.color THEN 16384 ELSE 8192>>, <<"IO", 256>>, <<"REGS", 16>>,
    <<"MAPR", 44>>, <<"PAL", IF cart.color THEN 128 ELSE 0>>, <<"EMU", 0>>, <<"OAM", 160>>,
    <<"SGB", 0>>>>

\* loadFunc: LoadIo and LoadRegs do not look at the size.
Loads(part) ==
  \/ part[1] \in {"IO", "REGS"}
  \/ part \in {<<"VERS", 4>>, <<"RAM", 8192>>, <<"RAM2", 24576>>, <<"VRAM", 8192>>,
              <<"VRAM", 16384>>, <<"MAPR", 44>>, <<"PAL", 128>>, <<"OAM", 160>>}

\* SaveState writes the parts that have a size; SaveMapper takes the banks and mapperdata.
SaveMbcState ==
  /\ saves < MaxSaves /\ saves' = saves + 1
  /\ kept' = [parts |-> SavedParts, m |-> m, wrote |-> wrote, moment |-> moment]
  /\ UNCHANGED <<cart, chipped, m, wrote, moment>>

\* LoadMapper: the registers and the banks, not the windows.
LoadMapper == [kept.m EXCEPT !.rom = m.rom, !.read = m.read, !.write = m.write, !.at = m.at]

\* The mutant forgets what is at A000.
BanksOnly(d) == map4567(d, kept.m.rom)
\* AfterLoadState: the banks are mapped and the RAM selected.
AfterLoadState(d) == RamSelect(map4567(d, kept.m.rom))

\* LoadState: the parts are loaded in their order up to one that is refused.
LoadMbcState ==
  LET refused == {i \in 1 .. Len(kept.parts) : kept.parts[i][2] > 0 /\ ~Loads(kept.parts[i])}
      reached == {i \in 1 .. Len(kept.parts) : \A j \in 1 .. i : j \notin refused}
      mapped == \E i \in reached : kept.parts[i][1] = "MAPR"
  IN  /\ kept.parts # <<>>
      /\ m' = IF refused = {} THEN AfterLoadState(LoadMapper)
              ELSE IF mapped THEN LoadMapper ELSE m
      /\ wrote' = kept.wrote /\ moment' = kept.moment
      /\ UNCHANGED <<cart, chipped, kept, saves>>

MbcNext ==
  \/ \E w \in cart.tried : WriteRom(w[1], w[2], w[3])
  \/ SaveMbcState
  \/ LoadMbcState

MbcSpec == MbcInit /\ [][MbcNext]_mbcVars

-----------------------------------------------------------------------------
(* Properties.                                                              *)

\* The ROM bank the game's last writes ask for, whatever their order.
BankWanted ==
  LET b == wrote.bank
      upper == IF wrote.select = Never THEN 0 ELSE wrote.select % 4
      ramMode == wrote.mode # Never /\ wrote.mode % 2 = 1
  IN  CASE kind = "mbc1" -> NotZero(b % 32) + (IF ramMode THEN 0 ELSE 32 * upper)
        [] kind = "mbc2" -> NotZero(b % 16)
        [] kind = "mbc5" -> b + (IF wrote.high = Never THEN 0 ELSE 256 * (wrote.high % 2))
        [] kind = "mbc7" -> NotZero(b % 128)
        [] OTHER -> b

Enabled == IF kind = "mbc7" THEN wrote.select < 9 ELSE wrote.enable % 16 = 10

RamWanted ==
  IF wrote.select = Never THEN 0
  ELSE IF kind \notin {"mbc1", "huc1"} THEN wrote.select
  ELSE IF wrote.mode # Never /\ wrote.mode % 2 = 1 THEN wrote.select % 4 ELSE 0

ClockAsked == kind = "mbc3" /\ wrote.select # Never /\ (wrote.select \div 8) % 2 = 1

\* What the game reads when the clock is shown.
ClockRight ==
  LET told == [dayL |-> moment[1], hrs |-> moment[2], min |-> moment[3], sec |-> moment[4]]
  IN  ClockByte(m.read) = IF m.read = "dayH" \/ moment = Never THEN 0 ELSE told[m.read]

\* mappers.s:25-279, state.s:269-275: the windows are what the game's last write to each
\* register asks for, in whatever order the writes came and also after a state was
\* loaded: the ROM bank (but HuC1's, whose two registers overlap), RAM that can be read
\* and written only when it was enabled, at its bank, and the clock as it was latched.
\* A write to the enable register or a loaded state hides the clock again.
WritesDecide ==
  /\ wrote.bank # Never /\ kind # "huc1" => m.rom = BankWanted % cart.rom
  /\ (IF kind = "mbc7" THEN wrote.select # Never ELSE wrote.enable # Never) =>
       /\ m.write = "ram" => Enabled /\ chipped
       /\ ~ClockAsked => /\ m.read = IF Enabled THEN "ram" ELSE "empty"
                         /\ Enabled => m.at = RamWanted % cart.ram
  /\ m.read \notin {"empty", "ram"} => ClockAsked /\ m.write = "empty" /\ ClockRight

=============================================================================
