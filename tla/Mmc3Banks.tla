------------------------------- MODULE Mmc3Banks -------------------------------
(***************************************************************************)
(* The bank registers of PocketNES's MMC3 boards (emulators/pocketnes/src/   *)
(* mappers/map4.s): mapper 4 and its variants 118, 206, 245 and 249.  The    *)
(* code keeps only the command and the last PRG bank; what the windows show  *)
(* is changed when a register is written.  R is what the game wrote last to  *)
(* each register, as a chip that shows R all the time would have it.  The    *)
(* line counter beside them (Mmc3Irq) shares nothing with them.              *)
(***************************************************************************)
EXTENDS Mmc3Irq, Sequences

CONSTANTS
  Boards,        \* the mappers' numbers
  RomBanks,      \* rommask: 8 KiB banks of PRG
  VromBanks,     \* vrommask: 1 KiB banks of CHR, of which a file has eight or more
  Commands,      \* what a game writes to 8000
  BankValues,         \* what it writes to 8001
  MaxBankWrites  \* bound

ASSUME Mmc3BanksAssumption ==
  /\ Boards \subseteq {4, 118, 206, 245, 249} /\ MaxBankWrites \in Nat
  /\ RomBanks \in Nat \ {0} /\ VromBanks \in Nat /\ VromBanks >= 8
  /\ Commands \subseteq 0 .. 255 /\ BankValues \subseteq 0 .. 255

VARIABLES
  board,
  mmc,           \* cmd, bank0, bank1, bankadd, usescramble, lastchr
  prg,           \* the banks at 8, A, C and E
  chr,           \* nes_chr_map
  mirroring,
  R,             \* what the game wrote to each register
  behind,        \* one write changed both modes, and only CHR followed; or 245's first
                 \* switch is still to come
  bankWrites

mmcBankVars == <<board, mmc, prg, chr, mirroring, R, behind, bankWrites>>

Bit(v, k) == (v \div k) % 2 = 1
Reg == mmc.cmd % 8
SwapsPrg(cmd) == Bit(cmd, 64)
SwapsChr(cmd) == Bit(cmd, 128)

\* mapAB_, mapCD_, mapEF_, map89_; chr01_rshift_ and the others take a pair of banks.
Prg(page) == page % RomBanks
Pair(v) == LET even == (2 * (v \div 2)) % VromBanks IN <<even, even + 1>>

\* romswitch: the bank before the last stays, at 8 or at C.
romswitch(m) ==
  IF SwapsPrg(m.cmd) THEN [prg EXCEPT ![1] = Prg(-2), ![3] = Prg(m.bank0)]
  ELSE [prg EXCEPT ![3] = Prg(-2), ![1] = Prg(m.bank0)]

\* romswitch_245: bankadd chooses the half of the ROM.
HalfOf(m, page) == Prg(IF m.bankadd = 1 /\ ~Bit(page, 64) THEN page + 64 ELSE page)
romswitch_245(m) ==
  IF SwapsPrg(m.cmd) THEN <<HalfOf(m, 62), HalfOf(m, m.bank1), HalfOf(m, m.bank0), HalfOf(m, 63)>>
  ELSE <<HalfOf(m, m.bank0), HalfOf(m, m.bank1), HalfOf(m, 62), HalfOf(m, 63)>>

\* write0_chr_base_switch: the maps change places.
ChrSwapped == <<chr[5], chr[6], chr[7], chr[8], chr[1], chr[2], chr[3], chr[4]>>

\* The first window a CHR register shows in.
WindowOf(r, swapped) ==
  CASE r < 2 -> (IF swapped THEN 5 ELSE 1) + 2 * r
    [] r \in 2 .. 5 -> IF swapped THEN r - 1 ELSE r + 3

ChrWith(r, v) ==
  LET w == WindowOf(r, SwapsChr(mmc.cmd))
  IN  IF r < 2 THEN [chr EXCEPT ![w] = Pair(v)[1], ![w + 1] = Pair(v)[2]]
      ELSE [chr EXCEPT ![w] = v % VromBanks]

\* Mapper 249 moves the bits of a bank's number: places[k] is where the bit k goes.
Moved(v, places) ==
  LET bit(k) == IF Bit(v, k) THEN places[k] ELSE 0
  IN  bit(1) + bit(2) + bit(4) + bit(8) + bit(16) + bit(32) + bit(64) + bit(128)
Bits == {1, 2, 4, 8, 16, 32, 64, 128}
unscramble1(v) ==
  Moved(v, [k \in Bits |-> CASE k < 4 -> k [] k = 4 -> 32 [] k = 8 -> 4 [] k = 16 -> 64
                             [] k = 32 -> 128 [] k = 64 -> 16 [] k = 128 -> 8])
unscramble2(v) ==
  Moved(v, [k \in Bits |-> CASE k = 1 -> 1 [] k = 2 -> 8 [] k = 4 -> 16 [] k = 8 -> 4
                             [] k = 16 -> 2 [] OTHER -> 0])
unscramble3(v) == IF v < 32 THEN unscramble2(v) ELSE unscramble1(v - 32)

\* What the board takes a value for.
Taken(v) ==
  CASE board = 206 -> v % 64
    [] board = 249 /\ mmc.usescramble ->
         IF Reg < 6 THEN unscramble1(v) ELSE unscramble3(v)
    [] OTHER -> v

Mmc3BanksInit ==
  /\ board \in Boards /\ mirroring = "header" /\ bankWrites = 0 /\ behind = (board = 245)
  /\ mmc = [cmd |-> 0, bank0 |-> 0, bank1 |-> 0, bankadd |-> 0, usescramble |-> FALSE,
            lastchr |-> 0]
  /\ prg = <<Prg(0), Prg(1), Prg(-2), Prg(-1)>>
  /\ chr = [w \in 1 .. 8 |-> w - 1]
  /\ R = [r \in 0 .. 7 |-> CASE r = 0 -> 0 [] r \in 1 .. 5 -> IF r = 1 THEN 2 ELSE r + 2
                             [] r = 6 -> 0 [] r = 7 -> IF board = 245 THEN 0 ELSE 1]

Write == bankWrites < MaxBankWrites /\ bankWrites' = bankWrites + 1

\* The mutant takes the maps to follow the command by themselves.
CommandOnly(cmd) ==
  LET m == [mmc EXCEPT !.cmd = cmd]
  IN  mmc' = m /\ chr' = chr /\ prg' = romswitch(m) /\ behind' = FALSE

\* write0_even: PRG is left for later if CHR changes too.
CommandSet(cmd) ==
  LET m == [mmc EXCEPT !.cmd = cmd]
      prgMode == SwapsPrg(cmd) # SwapsPrg(mmc.cmd)
      chrMode == SwapsChr(cmd) # SwapsChr(mmc.cmd)
  IN  /\ mmc' = m
      /\ chr' = IF chrMode THEN ChrSwapped ELSE chr
      /\ prg' = IF prgMode /\ ~chrMode THEN romswitch(m) ELSE prg
      /\ behind' = IF prgMode THEN chrMode /\ ~behind ELSE behind

\* write0_245_even.
CommandSet245(cmd) ==
  LET m == [mmc EXCEPT !.cmd = cmd]
      prgMode == SwapsPrg(cmd) # SwapsPrg(mmc.cmd)
  IN  /\ mmc' = m /\ chr' = chr /\ behind' = (behind /\ ~prgMode)
      /\ prg' = IF prgMode THEN romswitch_245(m) ELSE prg

\* 8000.
WriteCommand(v) ==
  /\ Write
  /\ IF board = 245 THEN CommandSet245(v)
     ELSE CommandSet(IF board = 206 THEN v % 64 ELSE v)
  /\ UNCHANGED <<board, mirroring, R>>

\* w8001_118: the mirroring is bit 7 of the registers that show first.
Mirrors == board = 118 /\ Reg < 6 /\ (SwapsChr(mmc.cmd) <=> Reg >= 2)

\* w8001, w8001_245: cmd6 and romswitch, mapAB_, or a CHR window.
BankSet(v) ==
  LET m == CASE board = 245 /\ Reg = 0 -> [mmc EXCEPT !.bankadd = (v \div 2) % 2]
             [] Reg = 6 -> [mmc EXCEPT !.bank0 = v]
             [] board = 245 /\ Reg = 7 -> [mmc EXCEPT !.bank1 = v]
             [] Mirrors -> [mmc EXCEPT !.lastchr = v]
             [] OTHER -> mmc
  IN  /\ mmc' = m
      /\ prg' = CASE board = 245 /\ Reg \in {0, 6, 7} -> romswitch_245(m)
                  [] board # 245 /\ Reg = 6 -> romswitch(m)
                  [] board # 245 /\ Reg = 7 -> [prg EXCEPT ![2] = Prg(v)]
                  [] OTHER -> prg
      /\ chr' = IF board # 245 /\ Reg < 6 THEN ChrWith(Reg, v) ELSE chr
      /\ behind' = (behind /\ Reg # 6 /\ (board = 245 => Reg \notin {0, 7}))
      /\ mirroring' = IF Mirrors /\ Bit(v, 128) # Bit(mmc.lastchr, 128)
                      THEN IF Bit(v, 128) THEN "1111" ELSE "0000" ELSE mirroring

\* 8001.
WriteBank(v) ==
  /\ Write /\ BankSet(Taken(v))
  /\ R' = [R EXCEPT ![Reg] = Taken(v)]
  /\ UNCHANGED board

\* write1: A000.  Boards 118 and 206 take no mirroring from there.
WriteMirroring(v) ==
  /\ board \notin {118, 206} /\ mirroring' = IF Bit(v, 1) THEN "0011" ELSE "0101"
  /\ UNCHANGED <<board, mmc, prg, chr, R, behind, bankWrites>>

\* write4: 5000, on 249 alone.
WriteScramble(v) ==
  /\ board = 249 /\ Write /\ mmc' = [mmc EXCEPT !.usescramble = Bit(v, 2)]
  /\ UNCHANGED <<board, prg, chr, mirroring, R, behind>>

Mmc3BanksNext ==
  \/ \E v \in Commands : WriteCommand(v)
  \/ \E v \in BankValues : WriteBank(v) \/ WriteMirroring(v) \/ WriteScramble(v)

\* The chip's two halves.
Mmc3Init == Mmc3IrqInit /\ Mmc3BanksInit
Mmc3Next ==
  \/ Mmc3IrqNext /\ UNCHANGED mmcBankVars
  \/ Mmc3BanksNext /\ UNCHANGED mmcIrqVars
Mmc3Spec == Mmc3Init /\ [][Mmc3Next]_<<mmcIrqVars, mmcBankVars>>

-----------------------------------------------------------------------------
\* What a chip with the registers R shows.
ChrShown ==
  LET low == Pair(R[0]) \o Pair(R[1])
      high == <<R[2] % VromBanks, R[3] % VromBanks, R[4] % VromBanks, R[5] % VromBanks>>
  IN  IF SwapsChr(mmc.cmd) THEN high \o low ELSE low \o high

PrgShown ==
  LET add == IF board = 245 /\ Bit(R[0], 2) THEN 64 ELSE 0
      page(v) == Prg(IF Bit(v, 64) THEN v ELSE v + add)
      fixed == IF board = 245 THEN Prg(62 + add) ELSE Prg(-2)
      last == IF board = 245 THEN Prg(63 + add) ELSE Prg(-1)
  IN  IF SwapsPrg(mmc.cmd) THEN <<fixed, page(R[7]), page(R[6]), last>>
      ELSE <<page(R[6]), page(R[7]), fixed, last>>

\* map4.s:166-283, 535-580: the windows show what the registers say, whatever the order in
\* which commands, modes and banks were written; PRG does not while one write has changed
\* both modes (map4.s:180) and register 6 was not written since.
BanksFollow ==
  /\ board # 245 => chr = ChrShown
  /\ ~behind => prg = PrgShown

\* map4.s: PocketNES's MMC3 counts lines and shows banks as the chip does.
AsAnMmc3 == CountsEachLine /\ BanksFollow
=============================================================================
