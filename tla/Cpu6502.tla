-------------------------------- MODULE Cpu6502 --------------------------------
(***************************************************************************)
(* PocketNES's 6502 (emulators/pocketnes/src/6502.s, 6502mac.h): its        *)
(* registers and flags in ARM registers.  A, X and Y are the top bytes of   *)
(* words; N is the top bit of a word whose low byte is 0 if Z is set; C, I, *)
(* D and V are the low bits of the word that counts the cycles left, from   *)
(* which every instruction takes its time.  ARM's carry becomes C by being  *)
(* subtracted along with the time (fetch_c).                                *)
(*                                                                          *)
(* A word has WordLow bits below its top byte instead of 24.  Memory is     *)
(* behind Cell; what reads and writes do elsewhere is left out, except that *)
(* a write outside the zero page leaves an ARM carry of its own.  The code  *)
(* runs on across banks, and the speed hacks are off.                       *)
(***************************************************************************)
EXTENDS Bytes, Sequences, Tables

CONSTANTS
  WordLow,      \* 2 to the number of bits below the top byte
  CpuStarts,       \* registers, flags and cycles left to start with
  TriedOps,   \* those tried: opcode and the two bytes behind it
  CodeAt,       \* where they are
  Slices,       \* cycles until the next time-out
  MaxSteps      \* bound on the instructions and NMIs

ASSUME CpuAssumption ==
  /\ WordLow \in Nat /\ WordLow % 512 = 0
  /\ TriedOps \subseteq [1 .. 3 -> 0 .. 255] /\ CodeAt \in 0 .. 65535 /\ Slices \subseteq Nat
  /\ MaxSteps \in Nat

VARIABLES
  cpu,      \* m6502_a, _x, _y, _nz, cycles, m6502_s, m6502_pc; wantirq as irq
  nesram,   \* what was written, by cell
  ir,       \* the instruction fetched: opcode and the bytes behind it
  at,       \* fetch, branched, execute, or check_irq
  cost,     \* the cycles of the last step
  steps

cpuVars == <<cpu, nesram, ir, at, cost, steps>>

Top == WordLow
CpuWord == 256 * Top
CYCLE == 256
CYC_C == 1
CYC_I == 4
CYC_D == 8
CYC_V == 64

\* ram_R and ram_W: the RAM shows four times, and once behind the end of the addresses.
CellOf(a) == IF a % 65536 < 8192 THEN a % 2048 ELSE a % 65536
\* What is in memory before anything is written.
CpuPattern(a) == (a * 37 + (a \div 256) + 5) % 256

-----------------------------------------------------------------------------
(* Words                                                                    *)

Asr24(w) == w \div Top + (IF w >= CpuWord \div 2 THEN CpuWord - 256 ELSE 0)
Lsl24(v) == (v % 256) * Top
\* r | r << 24, for a byte and the bits it was shifted or counted into
Doubled(r) == Lsl24(r) + (r % Top)
IsN(s) == s.nz >= CpuWord \div 2
IsZ(s) == s.nz % 256 = 0
CarryOf(s) == IF HasBit(s.cycles, CYC_C) THEN 1 ELSE 0
SetFlag(s, bit, on) == [s EXCEPT !.cycles = WithBit(@, bit, on)]
\* orr cycles,cycles,#CYC_C: C is to come from ARM's carry
PrepareC(s, carry) == [SetFlag(s, CYC_C, TRUE) EXCEPT !.carry = carry]
SignedWord(w) == IF w >= CpuWord \div 2 THEN w - CpuWord ELSE w
Overflows(n) == n < -(CpuWord \div 2) \/ n >= CpuWord \div 2

-----------------------------------------------------------------------------
(* Memory                                                                   *)

ReadMem(a) == IF CellOf(a) \in DOMAIN nesram THEN nesram[CellOf(a)] ELSE CpuPattern(CellOf(a))
Both(lo, hi) == lo + 256 * hi

\* The operands of an instruction being executed: s.addy is the address, if any; s.clobber
\* the carry a write leaves.
Zero(mode) == mode \in {"Z", "ZIX", "ZIY"}
Value(s, mode) == IF mode = "IMM" THEN ir[2] ELSE ReadMem(s.addy)
WriteMem(s, mode, v) ==
  [s EXCEPT !.ram = Put(@, CellOf(s.addy), v % 256),
            !.carry = IF Zero(mode) THEN @ ELSE s.clobber]

\* The stack pointer is 9 bits of an address with the top one set.
StackAt(r) == 256 + (r % 256)
Push8(s, v) == [s EXCEPT !.ram = Put(@, StackAt(s.s), v), !.s = (@ - 1) % 256]
Push16(s, v) == Push8(Push8(s, v \div 256), v % 256)
Pop8(s) == ReadMem(StackAt(s.s + 1))
Popped(s, n) == [s EXCEPT !.s = (@ + n) % 256]
Pop16(s) == Both(ReadMem(StackAt(StackAt(s.s + 2) - 1)), ReadMem(StackAt(s.s + 2)))

\* The mutant packs the flags as they come.
EncodeUnmasked(s, extra) == (s.cycles % 256) + Weight(128, IsN(s)) + Weight(2, IsZ(s)) + extra
Weighed(s, bit) == Weight(bit, HasBit(s.cycles, bit))
EncodeP(s, extra) ==
  Weighed(s, CYC_V) + Weighed(s, CYC_D) + Weighed(s, CYC_I) + Weighed(s, CYC_C)
    + Weight(128, IsN(s)) + Weight(2, IsZ(s)) + extra
DecodeP(s, p) ==
  [SetFlag(SetFlag(SetFlag(SetFlag(s, CYC_V, HasBit(p, 64)), CYC_D, HasBit(p, 8)),
                   CYC_I, HasBit(p, 4)), CYC_C, HasBit(p, 1))
     EXCEPT !.nz = (IF HasBit(p, 2) THEN 0 ELSE 2) + (IF p >= 128 THEN CpuWord - 256 ELSE 0)]

-----------------------------------------------------------------------------
(* doXXX: the operand's address; pc goes behind the operand.                *)

Later(s, reg) == IF (reg \div Top) + (s.addy % 256) > 255 THEN [s EXCEPT !.cycles = @ - 3 * CYCLE] ELSE s
Plus(s, reg) == [s EXCEPT !.addy = @ + (reg \div Top)]
Abs(s) == [s EXCEPT !.addy = Both(ir[2], ir[3]), !.pc = @ + 2]
ZeroPage(s, offset) == [s EXCEPT !.addy = (ir[2] + (offset \div Top)) % 256, !.pc = @ + 1]
Indirect(s) == [s EXCEPT !.addy = Both(ReadMem(ir[2]), ReadMem((ir[2] + 1) % 256)), !.pc = @ + 1]

Do(s, mode) ==
  CASE mode = "IMM" -> [s EXCEPT !.pc = @ + 1]
    [] mode = "ABS" -> Abs(s)
    [] mode = "AIX" -> Plus(Abs(s), s.x)
    [] mode = "AIY" -> Plus(Abs(s), s.y)
    [] mode = "AIX_PAGECROSS" -> Plus(Later(Abs(s), s.x), s.x)
    [] mode = "AIY_PAGECROSS" -> Plus(Later(Abs(s), s.y), s.y)
    [] mode = "IIX" -> LET z == ir[2] + (s.x \div Top)
                       IN  [s EXCEPT !.addy = Both(ReadMem(z % 256), ReadMem((z + 1) % 256)),
                                     !.pc = @ + 1]
    [] mode = "IIY" -> Plus(Indirect(s), s.y)
    [] mode = "IIY_PAGECROSS" -> Plus(Later(Indirect(s), s.y), s.y)
    [] mode = "Z" -> ZeroPage(s, 0)
    [] mode = "ZIX" -> ZeroPage(s, s.x)
    [] mode = "ZIY" -> ZeroPage(s, s.y)
    [] mode = "-" -> s

-----------------------------------------------------------------------------
(* opXXX                                                                    *)

Into(s, reg, w) == [s EXCEPT ![reg] = w, !.nz = Asr24(w)]
Logic(s, combined) == Into(s, "a", combined * Top)

opADC(s, v) ==
  LET c == CarryOf(s)
      addend == v * Top + (IF c = 1 THEN Top - 1 ELSE 0)     \* ror #8 of v - 0x100
      sum == s.a + addend + c
      done == Into(PrepareC(s, sum >= CpuWord), "a", sum % CpuWord)
  IN  SetFlag(done, CYC_V, Overflows(SignedWord(s.a) + SignedWord(addend) + c))

opSBC(s, v) ==
  LET borrow == 1 - CarryOf(s)
      difference == s.a - v * Top - borrow
      done == Into(PrepareC(s, difference >= 0), "a", ((difference % CpuWord) \div Top) * Top)
  IN  SetFlag(done, CYC_V, Overflows(SignedWord(s.a) - SignedWord(v * Top) - borrow))

\* The mutant leaves C as it is, as the handler of AXS does.
CompareOnly(s, reg, v) ==
  [s EXCEPT !.nz = Asr24((reg - v * Top) % CpuWord), !.carry = reg >= v * Top]
opCOMP(s, reg, v) ==
  [PrepareC(s, reg >= v * Top) EXCEPT !.nz = Asr24((reg - v * Top) % CpuWord)]

opASL_c(s, mode, v) ==
  WriteMem([PrepareC(s, v >= 128) EXCEPT !.nz = Doubled(2 * v)], mode, 2 * v)
opASL(s, mode, v) ==
  WriteMem([SetFlag(s, CYC_C, v >= 128) EXCEPT !.nz = Doubled(2 * v)], mode, 2 * v)
opLSR_c(s, mode, v) ==
  WriteMem([PrepareC(s, v % 2 = 1) EXCEPT !.nz = v \div 2], mode, v \div 2)
opLSR(s, mode, v) ==
  WriteMem([SetFlag(s, CYC_C, v % 2 = 1) EXCEPT !.nz = v \div 2], mode, v \div 2)
opROL(s, mode, v) ==
  LET r == 2 * v + CarryOf(s)
  IN  WriteMem([SetFlag(s, CYC_C, r >= 256) EXCEPT !.nz = Doubled(r)], mode, r)
opROR(s, mode, v) ==
  LET r == (v + 256 * CarryOf(s)) \div 2
  IN  WriteMem([SetFlag(s, CYC_C, v % 2 = 1) EXCEPT !.nz = Doubled(r)], mode, r)
Ored(s, v) == LET a == ByteOr(s.a \div Top, (2 * v) % 256)
              IN  [s EXCEPT !.a = a * Top, !.nz = a * Top + a]
opSLO_c(s, mode, v) == WriteMem(Ored(PrepareC(s, v >= 128), v), mode, 2 * v)
opSLO(s, mode, v) == WriteMem(Ored(SetFlag(s, CYC_C, v >= 128), v), mode, 2 * v)
opStep(s, mode, r) == WriteMem([s EXCEPT !.nz = Doubled(r)], mode, r)

opBIT(s, v) ==
  [SetFlag(s, CYC_V, HasBit(v, 64)) EXCEPT !.nz = ByteAnd(v, s.a \div Top) + Lsl24(v)]
\* Loaded with its sign, or twice.
opLOAD(s, mode, reg, v) ==
  [s EXCEPT !.nz = IF mode \in {"IMM", "Z", "ZIX", "ZIY"} THEN Asr24(Lsl24(v)) ELSE Doubled(v),
            ![reg] = Lsl24(v)]

\* ASL, ROL, LSR and ROR of A
AccASL(s) == Into(PrepareC(s, s.a >= CpuWord \div 2), "a", (2 * s.a) % CpuWord)
AccROL(s) == Into(SetFlag(s, CYC_C, s.a >= CpuWord \div 2), "a",
                  (2 * (s.a + CarryOf(s) * (Top \div 2))) % CpuWord)
AccLSR(s) == LET half == s.a \div (2 * Top)
             IN  [PrepareC(s, (s.a \div Top) % 2 = 1) EXCEPT !.nz = half, !.a = half * Top]
AccROR(s) == LET r == (s.a \div 2) + CarryOf(s) * (CpuWord \div 2)
             IN  [SetFlag(s, CYC_C, (r \div (Top \div 2)) % 2 = 1)
                    EXCEPT !.nz = Asr24(r), !.a = (r \div Top) * Top]

-----------------------------------------------------------------------------
(* The handlers and the table that finds them: how the operand is found,    *)
(* what is done, and the time taken, by fetch or by fetch_c.                *)

I(mode, op, count) == [mode |-> mode, op |-> op, count |-> count, c |-> FALSE]
Ic(mode, op, count) == [mode |-> mode, op |-> op, count |-> count, c |-> TRUE]
xx == I("-", "NOP", 2)
x2 == I("IMM", "NOP", 2)
x3 == I("IMM", "NOP", 3)
x4 == I("IMM", "NOP", 4)
x5 == I("ABS", "NOP", 4)
xC == I("AIX_PAGECROSS", "NOP", 4)
EA == I("-", "NOP", 2)

Row0 == <<I("-", "BRK", 7), I("IIX", "ORA", 6), xx, xx,
          x3, I("Z", "ORA", 3), Ic("Z", "ASL_c", 5), Ic("Z", "SLO_c", 5),
          I("-", "PHP", 3), I("IMM", "ORA", 2), Ic("-", "ASL_A", 2), xx,
          x5, I("ABS", "ORA", 4), I("ABS", "ASL", 6), I("ABS", "SLO", 6)>>
Row1 == <<I("-", "BPL", 3), I("IIY_PAGECROSS", "ORA", 5), xx, xx,
          x4, I("ZIX", "ORA", 4), Ic("ZIX", "ASL_c", 6), Ic("ZIX", "SLO_c", 6),
          I("-", "CLC", 2), I("AIY_PAGECROSS", "ORA", 4), EA, I("AIY", "SLO", 7),
          xC, I("AIX_PAGECROSS", "ORA", 4), I("AIX", "ASL", 7), I("AIX", "SLO", 7)>>
Row2 == <<I("-", "JSR", 6), I("IIX", "AND", 6), xx, xx,
          I("Z", "BIT", 3), I("Z", "AND", 3), I("Z", "ROL", 5), xx,
          I("-", "PLP", 4), I("IMM", "AND", 2), I("-", "ROL_A", 2), xx,
          I("ABS", "BIT", 4), I("ABS", "AND", 4), I("ABS", "ROL", 6), xx>>
Row3 == <<I("-", "BMI", 3), I("IIY_PAGECROSS", "AND", 5), xx, xx,
          x4, I("ZIX", "AND", 4), I("ZIX", "ROL", 6), xx,
          I("-", "SEC", 2), I("AIY_PAGECROSS", "AND", 4), EA, xx,
          xC, I("AIX_PAGECROSS", "AND", 4), I("AIX", "ROL", 7), xx>>
Row4 == <<I("-", "RTI", 6), I("IIX", "EOR", 6), xx, xx,
          x3, I("Z", "EOR", 3), Ic("Z", "LSR_c", 5), xx,
          I("-", "PHA", 3), I("IMM", "EOR", 2), Ic("-", "LSR_A", 2), xx,
          I("ABS", "JMP", 3), I("ABS", "EOR", 4), I("ABS", "LSR", 6), xx>>
Row5 == <<I("-", "BVC", 3), I("IIY_PAGECROSS", "EOR", 5), xx, xx,
          x4, I("ZIX", "EOR", 4), Ic("ZIX", "LSR_c", 6), xx,
          I("-", "CLI", 2), I("AIY_PAGECROSS", "EOR", 4), EA, xx,
          xC, I("AIX_PAGECROSS", "EOR", 4), I("AIX", "LSR", 7), xx>>
Row6 == <<I("-", "RTS", 6), Ic("IIX", "ADC", 6), xx, xx,
          x3, Ic("Z", "ADC", 3), I("Z", "ROR", 5), xx,
          I("-", "PLA", 4), Ic("IMM", "ADC", 2), I("-", "ROR_A", 2), xx,
          I("ABS", "JMPI", 5), Ic("ABS", "ADC", 4), I("ABS", "ROR", 6), xx>>
Row7 == <<I("-", "BVS", 3), Ic("IIY_PAGECROSS", "ADC", 5), xx, xx,
          x4, Ic("ZIX", "ADC", 4), I("ZIX", "ROR", 6), xx,
          I("-", "SEI", 2), Ic("AIY_PAGECROSS", "ADC", 4), EA, xx,
          xC, Ic("AIX_PAGECROSS", "ADC", 4), I("AIX", "ROR", 7), xx>>
Row8 == <<x2, I("IIX", "STA", 6), x2, xx,
          I("Z", "STY", 3), I("Z", "STA", 3), I("Z", "STX", 3), xx,
          I("-", "DEY", 2), x2, I("-", "TXA", 2), xx,
          I("ABS", "STY", 4), I("ABS", "STA", 4), I("ABS", "STX", 4), I("ABS", "SAX", 4)>>
Row9 == <<I("-", "BCC", 3), I("IIY", "STA", 6), xx, xx,
          I("ZIX", "STY", 4), I("ZIX", "STA", 4), I("ZIY", "STX", 4), xx,
          I("-", "TYA", 2), I("AIY", "STA", 5), I("-", "TXS", 2), xx,
          xx, I("AIX", "STA", 5), xx, xx>>
RowA == <<I("IMM", "LDY", 2), I("IIX", "LDA", 6), I("IMM", "LDX", 2), xx,
          I("Z", "LDY", 3), I("Z", "LDA", 3), I("Z", "LDX", 3), xx,
          I("-", "TAY", 2), I("IMM", "LDA", 2), I("-", "TAX", 2), xx,
          I("ABS", "LDY", 4), I("ABS", "LDA", 4), I("ABS", "LDX", 4), xx>>
RowB == <<I("-", "BCS", 3), I("IIY_PAGECROSS", "LDA", 5), xx, I("IIY_PAGECROSS", "LAX", 5),
          I("ZIX", "LDY", 4), I("ZIX", "LDA", 4), I("ZIY", "LDX", 4), xx,
          I("-", "CLV", 2), I("AIY_PAGECROSS", "LDA", 4), I("-", "TSX", 2), xx,
          I("AIX_PAGECROSS", "LDY", 4), I("AIX_PAGECROSS", "LDA", 4),
          I("AIY_PAGECROSS", "LDX", 4), xx>>
RowC == <<Ic("IMM", "CPY", 2), Ic("IIX", "CMP", 6), x2, xx,
          Ic("Z", "CPY", 3), Ic("Z", "CMP", 3), I("Z", "DEC", 5), xx,
          I("-", "INY", 2), Ic("IMM", "CMP", 2), I("-", "DEX", 2), Ic("IMM", "AXS", 2),
          Ic("ABS", "CPY", 4), Ic("ABS", "CMP", 4), I("ABS", "DEC", 6), xx>>
RowD == <<I("-", "BNE", 3), Ic("IIY_PAGECROSS", "CMP", 5), xx, xx,
          x4, Ic("ZIX", "CMP", 4), I("ZIX", "DEC", 6), xx,
          I("-", "CLD", 2), Ic("AIY_PAGECROSS", "CMP", 4), EA, xx,
          xC, Ic("AIX_PAGECROSS", "CMP", 4), I("AIX", "DEC", 7), xx>>
RowE == <<Ic("IMM", "CPX", 2), Ic("IIX", "SBC", 6), x2, xx,
          Ic("Z", "CPX", 3), Ic("Z", "SBC", 3), I("Z", "INC", 5), xx,
          I("-", "INX", 2), Ic("IMM", "SBC", 2), EA, Ic("IMM", "SBC", 2),
          Ic("ABS", "CPX", 4), Ic("ABS", "SBC", 4), I("ABS", "INC", 6), xx>>
RowF == <<I("-", "BEQ", 3), Ic("IIY_PAGECROSS", "SBC", 5), xx, xx,
          x4, Ic("ZIX", "SBC", 4), I("ZIX", "INC", 6), xx,
          I("-", "SED", 2), Ic("AIY_PAGECROSS", "SBC", 4), EA, xx,
          xC, Ic("AIX_PAGECROSS", "SBC", 4), I("AIX", "INC", 7), xx>>

op_table ==
  <<Row0, Row1, Row2, Row3, Row4, Row5, Row6, Row7,
    Row8, Row9, RowA, RowB, RowC, RowD, RowE, RowF>>
Handler(opcode) == op_table[(opcode \div 16) + 1][(opcode % 16) + 1]

-----------------------------------------------------------------------------
(* What the handlers do.                                                    *)

\* Branches; a branch to another page costs a cycle more, one not taken a cycle less.
Condition(s, op) ==
  CASE op = "BPL" -> ~IsN(s) [] op = "BMI" -> IsN(s)
    [] op = "BVC" -> ~HasBit(s.cycles, CYC_V) [] op = "BVS" -> HasBit(s.cycles, CYC_V)
    [] op = "BCC" -> CarryOf(s) = 0 [] op = "BCS" -> CarryOf(s) = 1
    [] op = "BNE" -> ~IsZ(s) [] op = "BEQ" -> IsZ(s)
Branches == {"BPL", "BMI", "BVC", "BVS", "BCC", "BCS", "BNE", "BEQ"}
NoBranch(s) == [s EXCEPT !.pc = @ + 1, !.cycles = @ + 3 * CYCLE]
BranchTo(s) == (s.pc + 1 + SignedByte(ir[2])) % 65536
StaysInPage(s) == (s.pc + 1) \div 256 = BranchTo(s) \div 256
Branch(s) ==
  [s EXCEPT !.pc = BranchTo(s), !.cycles = IF StaysInPage(s) THEN @ ELSE @ - 3 * CYCLE]

\* VecCont, for BRK and Vec6502: P is pushed, I set, and pc taken from the vector.
IRQ_VECTOR == 65534
NMI_VECTOR == 65530
VecCont(s, p, vector) ==
  [SetFlag(Push8(s, p), CYC_I, TRUE) EXCEPT !.pc = Both(ReadMem(vector), ReadMem(vector + 1))]
Vec6502(s, vector) == VecCont(Push16(s, s.pc), EncodeP(s, 32), vector)

AxS(s, v) ==
  LET ax == ByteAnd(s.a \div Top, s.x \div Top) * Top
  IN  [Into(s, "x", (ax - v * Top) % CpuWord) EXCEPT !.carry = ax >= v * Top]

Memory(s, h) ==
  LET v == Value(s, h.mode)
      Store(w) == WriteMem(s, h.mode, w \div Top)
  IN  CASE h.op = "ORA" -> Logic(s, ByteOr(s.a \div Top, v))
        [] h.op = "AND" -> Logic(s, ByteAnd(s.a \div Top, v))
        [] h.op = "EOR" -> Logic(s, ByteXor(s.a \div Top, v))
        [] h.op = "ADC" -> opADC(s, v)
        [] h.op = "SBC" -> opSBC(s, v)
        [] h.op = "CMP" -> opCOMP(s, s.a, v)
        [] h.op = "CPX" -> opCOMP(s, s.x, v)
        [] h.op = "CPY" -> opCOMP(s, s.y, v)
        [] h.op = "BIT" -> opBIT(s, v)
        [] h.op = "ASL" -> opASL(s, h.mode, v)
        [] h.op = "ASL_c" -> opASL_c(s, h.mode, v)
        [] h.op = "LSR" -> opLSR(s, h.mode, v)
        [] h.op = "LSR_c" -> opLSR_c(s, h.mode, v)
        [] h.op = "ROL" -> opROL(s, h.mode, v)
        [] h.op = "ROR" -> opROR(s, h.mode, v)
        [] h.op = "SLO" -> opSLO(s, h.mode, v)
        [] h.op = "SLO_c" -> opSLO_c(s, h.mode, v)
        [] h.op = "INC" -> opStep(s, h.mode, v + 1)
        [] h.op = "DEC" -> opStep(s, h.mode, (v - 1) % CpuWord)
        [] h.op = "LDA" -> opLOAD(s, h.mode, "a", v)
        [] h.op = "LDX" -> opLOAD(s, h.mode, "x", v)
        [] h.op = "LDY" -> opLOAD(s, h.mode, "y", v)
        [] h.op = "LAX" -> LET done == opLOAD(s, h.mode, "a", v) IN [done EXCEPT !.x = done.a]
        [] h.op = "STA" -> Store(s.a)
        [] h.op = "STX" -> Store(s.x)
        [] h.op = "STY" -> Store(s.y)
        [] h.op = "SAX" -> Store(ByteAnd(s.a \div Top, s.x \div Top) * Top)
        [] h.op = "AXS" -> AxS(s, v)
        [] h.op = "JMP" -> [s EXCEPT !.pc = s.addy]
        [] h.op = "JMPI" -> [s EXCEPT !.pc =
             Both(ReadMem(s.addy), ReadMem(s.addy + (IF s.addy % 256 = 255 THEN -255 ELSE 1)))]
        [] h.op = "NOP" -> s

Implied(s, op) ==
  CASE op = "ASL_A" -> AccASL(s)
    [] op = "ROL_A" -> AccROL(s)
    [] op = "LSR_A" -> AccLSR(s)
    [] op = "ROR_A" -> AccROR(s)
    [] op = "CLC" -> SetFlag(s, CYC_C, FALSE)
    [] op = "CLD" -> SetFlag(s, CYC_D, FALSE)
    [] op = "CLI" -> SetFlag(s, CYC_I, FALSE)
    [] op = "CLV" -> SetFlag(s, CYC_V, FALSE)
    [] op = "SEC" -> SetFlag(s, CYC_C, TRUE)
    [] op = "SED" -> SetFlag(s, CYC_D, TRUE)
    [] op = "SEI" -> SetFlag(s, CYC_I, TRUE)
    [] op = "INX" -> Into(s, "x", (s.x + Top) % CpuWord)
    [] op = "INY" -> Into(s, "y", (s.y + Top) % CpuWord)
    [] op = "DEX" -> Into(s, "x", (s.x - Top) % CpuWord)
    [] op = "DEY" -> Into(s, "y", (s.y - Top) % CpuWord)
    [] op = "TAX" -> Into(s, "x", s.a)
    [] op = "TAY" -> Into(s, "y", s.a)
    [] op = "TXA" -> Into(s, "a", s.x)
    [] op = "TYA" -> Into(s, "a", s.y)
    [] op = "TSX" -> Into(s, "x", s.s * Top)
    [] op = "TXS" -> [s EXCEPT !.s = s.x \div Top]
    [] op = "PHA" -> Push8(s, s.a \div Top)
    [] op = "PHP" -> Push8(s, EncodeP(s, 48))
    [] op = "PLA" -> [Popped(s, 1) EXCEPT !.nz = Asr24(Lsl24(Pop8(s))), !.a = Lsl24(Pop8(s))]
    [] op = "PLP" -> DecodeP(Popped(s, 1), Pop8(s))
    [] op = "RTI" -> LET p == Popped(s, 1)
                     IN  [DecodeP(Popped(p, 2), Pop8(s)) EXCEPT !.pc = Pop16(p)]
    [] op = "RTS" -> [Popped(s, 2) EXCEPT !.pc = (Pop16(s) + 1) % 65536]
    [] op = "JSR" -> [Push16(s, s.pc + 1) EXCEPT !.pc = Both(ir[2], ir[3])]
    [] op = "BRK" -> VecCont(Push16(s, s.pc + 1), EncodeP(s, 48), IRQ_VECTOR)
    [] op \in Branches -> IF Condition(s, op) THEN Branch(s) ELSE NoBranch(s)
    [] op = "NOP" -> s

\* fetch and fetch_c: the time is taken off; fetch_c takes ARM's borrow off, too.
Fetched(s, count, c) ==
  [s EXCEPT !.cycles = @ - count * 3 * CYCLE - (IF c /\ ~s.carry THEN 1 ELSE 0)]

-----------------------------------------------------------------------------
Start(s) ==
  DecodeP([a |-> s.a * Top, x |-> s.x * Top, y |-> s.y * Top, s |-> s.s, nz |-> 0,
           cycles |-> s.cycles * 3 * CYCLE, pc |-> CodeAt, irq |-> s.irq], s.p)

CpuTypeOK ==
  /\ cpu.a \in 0 .. CpuWord - 1 /\ cpu.x \in 0 .. CpuWord - 1 /\ cpu.y \in 0 .. CpuWord - 1
  /\ cpu.nz \in 0 .. CpuWord - 1 /\ cpu.cycles \in Int
  /\ cpu.s \in 0 .. 255 /\ cpu.pc \in 0 .. 65535 /\ cpu.irq \in BOOLEAN
  /\ \A c \in DOMAIN nesram : nesram[c] \in 0 .. 255
  /\ Len(ir) \in {0, 3} /\ at \in {"fetch", "branched", "execute", "check_irq"} /\ steps \in 0 .. MaxSteps

CpuInit ==
  /\ \E s \in CpuStarts : cpu = Start(s)
  /\ nesram = <<>> /\ ir = <<>> /\ at = "fetch" /\ cost = 0 /\ steps = 0

\* The registers, and what a handler has besides.
Working(clobber) ==
  [a |-> cpu.a, x |-> cpu.x, y |-> cpu.y, nz |-> cpu.nz, cycles |-> cpu.cycles, s |-> cpu.s,
   pc |-> cpu.pc, ram |-> nesram, addy |-> 0, carry |-> FALSE, clobber |-> clobber]

Became(s) ==
  /\ cpu' = [cpu EXCEPT !.a = s.a, !.x = s.x, !.y = s.y, !.nz = s.nz, !.cycles = s.cycles,
                         !.s = s.s, !.pc = s.pc]
  /\ nesram' = s.ram
  /\ cost' = ((cpu.cycles \div CYCLE) - (s.cycles \div CYCLE)) \div 3

\* After a branch within its page, an interrupt that is due within a cycle waits for one
\* more instruction (timeout_handler_branch_taken).
FetchOpcode(instruction) ==
  /\ \/ at \in {"fetch", "branched"} /\ cpu.cycles >= 0
     \/ at = "branched" /\ cpu.cycles >= -3 * CYCLE
  /\ steps < MaxSteps
  /\ ir' = instruction /\ at' = "execute" /\ steps' = steps + 1
  /\ cpu' = [cpu EXCEPT !.pc = (@ + 1) % 65536]
  /\ UNCHANGED <<nesram, cost>>

\* A handler, from ldr pc to the next fetch or to check_irq.
ExecuteOpcode(clobber) ==
  LET h == Handler(ir[1])
      s == Working(clobber)
      done == IF h.mode = "-" THEN Implied(s, h.op) ELSE Memory(Do(s, h.mode), h)
  IN  /\ at = "execute"
      /\ Became(Fetched(done, h.count, h.c))
      /\ at' = IF h.op \in {"CLI", "PLP", "RTI"} THEN "check_irq"
               ELSE IF h.op \in Branches /\ Condition(s, h.op) /\ StaysInPage(s) THEN "branched"
               ELSE "fetch"
      /\ ir' = <<>> /\ UNCHANGED steps

\* timeout_handler: the next time-out is set up; some raise an interrupt (mapper_irq_handler).
TimeoutHandler(slice, irq) ==
  /\ at \in {"fetch", "branched"} /\ cpu.cycles < 0
  /\ cpu' = [cpu EXCEPT !.cycles = @ + slice * 3 * CYCLE, !.irq = @ \/ irq]
  /\ at' = IF irq THEN "check_irq" ELSE "fetch"
  /\ UNCHANGED <<nesram, ir, cost, steps>>

\* nmi_handler; how much time is left then does not matter.
NmiHandler ==
  /\ at = "fetch" /\ cpu.cycles < 0 /\ steps < MaxSteps
  /\ Became(Fetched(Vec6502(Working(FALSE), NMI_VECTOR), 7, FALSE))
  /\ steps' = steps + 1
  /\ UNCHANGED <<ir, at>>

\* check_irq, CheckI and irq6502
CheckI ==
  /\ at = "check_irq" /\ at' = "fetch"
  /\ IF cpu.irq /\ ~HasBit(cpu.cycles, CYC_I)
     THEN Became(Fetched(Vec6502(Working(FALSE), IRQ_VECTOR), 7, FALSE))
     ELSE UNCHANGED <<cpu, nesram, cost>>
  /\ UNCHANGED <<ir, steps>>

\* The program acknowledges the interrupt at its source.
Acknowledge ==
  /\ at \in {"fetch", "branched"} /\ cpu.irq /\ cpu' = [cpu EXCEPT !.irq = FALSE]
  /\ UNCHANGED <<nesram, ir, at, cost, steps>>

CpuNext ==
  \/ \E instruction \in TriedOps : FetchOpcode(instruction)
  \/ \E clobber \in BOOLEAN : ExecuteOpcode(clobber)
  \/ \E slice \in Slices, irq \in BOOLEAN : TimeoutHandler(slice, irq)
  \/ CheckI \/ NmiHandler \/ Acknowledge

CpuSpec == CpuInit /\ [][CpuNext]_cpuVars

-----------------------------------------------------------------------------
Flags ==
  {f \in {"N", "V", "D", "I", "Z", "C"} :
     CASE f = "N" -> IsN(cpu) [] f = "Z" -> IsZ(cpu) [] f = "V" -> HasBit(cpu.cycles, CYC_V)
       [] f = "D" -> HasBit(cpu.cycles, CYC_D) [] f = "I" -> HasBit(cpu.cycles, CYC_I)
       [] f = "C" -> HasBit(cpu.cycles, CYC_C)}

Architecture ==
  INSTANCE Mos6502 WITH
    A <- cpu.a \div Top, X <- cpu.x \div Top, Y <- cpu.y \div Top, S <- cpu.s, PC <- cpu.pc,
    P <- Flags, mem <- nesram, irq <- cpu.irq, Contents <- CpuPattern, Cell <- CellOf

\* 6502.s, 6502mac.h: every instruction, and every interrupt, does to registers, flags,
\* memory and time what it does on a 6502, wherever the flags are kept in between; but
\* for AXS and the undocumented opcodes that the table takes for NOPs of one byte.
RunsAs6502 == Architecture!MosSpec
=============================================================================
