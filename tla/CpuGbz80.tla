-------------------------------- MODULE CpuGbz80 --------------------------------
(***************************************************************************)
(* Goomba's Game Boy processor (emulators/goombacolor/src/gbz80.s,          *)
(* gbz80mac.h): registers in ARM registers, A as the top byte of a word,    *)
(* the pairs and SP as its upper half, and the flags where ARM's are; that  *)
(* interrupts are enabled is bit 0 of the word that counts the cycles left. *)
(*                                                                          *)
(* A word has 24 bits instead of 32, eight of them below the pairs.  Memory *)
(* is ROM below 8000 and RAM above, in one piece; the ports (FF00 to FF7F   *)
(* and FFFF), the echo of the RAM and the speed hacks are left out.         *)
(***************************************************************************)
EXTENDS Bytes, Sequences, Tables

CONSTANTS
  GbStarts,       \* registers, flags, interrupts and cycles left to start with
  GbInstructions, \* those tried: opcode and the two bytes behind it
  GbCodeAt,       \* where they are
  GbSlices,       \* cycles until the next time-out
  GbMaxSteps      \* bound on the instructions

ASSUME GbAssumption ==
  /\ GbInstructions \subseteq [1 .. 3 -> 0 .. 255] /\ GbCodeAt \in 0 .. 65535
  /\ GbSlices \subseteq Nat /\ GbMaxSteps \in Nat

VARIABLES
  gb,       \* gb_flg, gb_a, gb_bc, gb_de, gb_hl, cycles, gb_pc, gb_sp; gb_ie and gb_if
  gbram,    \* what was written, by address
  gbir,     \* the instruction fetched: opcode and the bytes behind it
  gbat,     \* fetch, halt (a HALT is fetched again), execute, checkIRQ, or irqHalt
  gbcost,   \* the cycles of the last step
  gbsteps

gbVars == <<gb, gbram, gbir, gbat, gbcost, gbsteps>>

\* Bit 0 of A and of the high byte of a pair, bit 0 of its low byte, and all of a word.
U == 65536
L == 256
W == 256 * U
GbCYCLE == 16
CYC_IE == 1
CYC_LCD_ENABLED == 2

GbPattern(a) == (a * 37 + (a \div 256) + 5) % 256
InRam(a) == a >= 32768

-----------------------------------------------------------------------------
(* Memory and operands                                                      *)

GbRead(a) == IF a % 65536 \in DOMAIN gbram THEN gbram[a % 65536] ELSE GbPattern(a % 65536)
GbWrite(s, a, v) ==
  IF InRam(a % 65536) THEN [s EXCEPT !.ram = Put(@, a % 65536, v % 256)] ELSE s
Imm16 == gbir[2] + 256 * gbir[3]

\* push16 turns down each byte whose address has no sign.
GbPush16(s, v) ==
  LET sp == (s.sp - 2 * L) % W
      low == IF sp >= W \div 2 THEN GbWrite(s, sp \div L, v) ELSE s
      high == IF (sp + L) % W >= W \div 2 THEN GbWrite(low, (sp + L) \div L, v \div 256) ELSE low
  IN  [high EXCEPT !.sp = sp]
GbTop(s) == GbRead(s.sp \div L) + 256 * GbRead((s.sp \div L) + 1)
GbPopped(s) == [s EXCEPT !.sp = (@ + 2 * L) % W]

PairOf(r) == CASE r \in {"b", "c"} -> "bc" [] r \in {"d", "e"} -> "de" [] r \in {"h", "l"} -> "hl"
IsHigh(r) == r \in {"b", "d", "h"}
\* The byte operand in the top byte of a word: cleared around, shifted up, or just A.
OnTop(s, r) ==
  CASE r = "a" -> s.a
    [] r = "M" -> GbRead(s.hl \div L) * U
    [] r = "#" -> gbir[2] * U
    [] IsHigh(r) -> (s[PairOf(r)] \div U) * U
    [] OTHER -> (s[PairOf(r)] % U) * 256
\* The top byte of w goes back.
PutBack(s, r, w) ==
  CASE r = "a" -> [s EXCEPT !.a = w]
    [] r = "M" -> GbWrite(s, s.hl \div L, w \div U)
    [] r \in {"b", "d", "h"} -> [s EXCEPT ![PairOf(r)] = (@ % U) + (w \div U) * U]
    [] r \in {"c", "e", "l"} -> [s EXCEPT ![PairOf(r)] = (@ \div U) * U + (w \div 256)]

FlagIf(flag, on) == IF on THEN {flag} ELSE {}
C(s) == IF "C" \in s.flg THEN 1 ELSE 0
\* eor of the operands and the result: the carry into bit 4 of the top byte
HalfOf(v, w, result) == HasBit(v, 16 * U) # (HasBit(w, 16 * U) # HasBit(result, 16 * U))
EncodeFLG(s) ==
  Weight(128, "Z" \in s.flg) + Weight(64, "n" \in s.flg) + Weight(32, "h" \in s.flg)
    + Weight(16, "C" \in s.flg)
DecodeFLG(p) ==
  FlagIf("Z", HasBit(p, 128)) \cup FlagIf("n", HasBit(p, 64)) \cup FlagIf("h", HasBit(p, 32))
    \cup FlagIf("C", HasBit(p, 16))

-----------------------------------------------------------------------------
(* gbz80mac.h: opXXX                                                        *)

\* A sum or a difference left in A, with the flags it sets.
Sums(s, w, sum) ==
  [s EXCEPT !.a = sum % W,
            !.flg = FlagIf("h", HalfOf(s.a, w, sum % W)) \cup FlagIf("C", sum >= W)
                      \cup FlagIf("Z", sum % W = 0)]
Differs(s, w, difference, left) ==
  [s EXCEPT !.a = left,
            !.flg = {"n"} \cup FlagIf("h", HalfOf(s.a, w, difference % W))
                      \cup FlagIf("C", difference < 0) \cup FlagIf("Z", left = 0)]
TopByte(w) == (w \div U) * U

opADD(s, w) == Sums(s, w, s.a + w)
\* The carry added below A, where it is lost.
AddUnfilled(s, w) == Sums(s, w, s.a + w + C(s))
GbADC(s, w) ==
  LET filled == IF C(s) = 1 THEN w + U - 1 ELSE w IN Sums(s, filled, s.a + filled + C(s))
opSUB(s, w) == Differs(s, w, s.a - w, (s.a - w) % W)
GbSBC(s, w) == Differs(s, w, s.a - w - C(s), TopByte((s.a - w - C(s)) % W))
opCP(s, w) == [opSUB(s, w) EXCEPT !.a = s.a]
\* With A itself
Twice(s, a) ==
  [s EXCEPT !.a = (2 * a) % W,
            !.flg = FlagIf("h", HasBit(2 * a, 16 * U)) \cup FlagIf("C", 2 * a >= W)
                      \cup FlagIf("Z", (2 * a) % W = 0)]
opSBCA(s) ==
  [s EXCEPT !.a = IF C(s) = 1 THEN 255 * U ELSE 0,
            !.flg = IF C(s) = 1 THEN {"n", "C", "h"} ELSE {"n", "Z"}]
Logical(s, a, flags) == [s EXCEPT !.a = a * U, !.flg = flags \cup FlagIf("Z", a = 0)]

\* opINC8 and opDEC8, of a word's top byte
opINC8(s, r) ==
  LET w == (OnTop(s, r) + U) % W
  IN  [PutBack(s, r, w) EXCEPT !.flg = (@ \cap {"C"}) \cup FlagIf("Z", w = 0)
                                         \cup FlagIf("h", (w \div U) % 16 = 0)]
opDEC8(s, r) ==
  LET w == OnTop(s, r)
  IN  [PutBack(s, r, (w - U) % W)
         EXCEPT !.flg = (@ \cap {"C"}) \cup {"n"} \cup FlagIf("Z", w = U)
                          \cup FlagIf("h", (w \div U) % 16 = 0)]

\* Rotations and shifts: the new word and the bit shifted out.
Rotate(s, op, w) ==
  LET left == 2 * w
      right == w \div 2
  IN  CASE op = "RLC" -> <<(left % W) + (IF left >= W THEN U ELSE 0), left >= W>>
        [] op = "RRC" -> <<TopByte(right) + (IF HasBit(w, U) THEN 128 * U ELSE 0), HasBit(w, U)>>
        [] op = "RL" -> <<(left + C(s) * U) % W, left >= W>>
        [] op = "RR" -> <<TopByte(right + C(s) * (W \div 2)), HasBit(right, U \div 2)>>
        [] op = "SLA" -> <<left % W, left >= W>>
        [] op = "SRA" -> <<TopByte(right) + (IF w >= W \div 2 THEN W \div 2 ELSE 0), HasBit(w, U)>>
        [] op = "SRL" -> <<TopByte(right), HasBit(w, U)>>
        [] op = "SWAP" -> <<TopByte(((w * 16) % W) + (w \div 16)), FALSE>>
Rotations == {"RLC", "RRC", "RL", "RR", "SLA", "SRA", "SRL", "SWAP"}
Rotated(s, op, r) ==
  LET done == Rotate(s, op, OnTop(s, r))
  IN  [PutBack(s, r, done[1]) EXCEPT !.flg = FlagIf("C", done[2]) \cup FlagIf("Z", done[1] = 0)]
\* RLCA, RRCA, RLA and RRA leave Z clear.
RotatedA(s, op) == [Rotated(s, op, "a") EXCEPT !.flg = @ \ {"Z"}]

\* GbBIT, opRES and opSET find the bit in the opcode.
Selected == U * 2 ^ ((gbir[2] \div 8) % 8)
GbBIT(s, w) ==
  [s EXCEPT !.flg = (@ \cap {"C"}) \cup {"h"} \cup FlagIf("Z", ~HasBit(w, Selected))]

opADD16(s, w) ==
  LET sum == s.hl + w
  IN  [s EXCEPT !.hl = sum % W,
                !.flg = (@ \cap {"Z"}) \cup FlagIf("C", sum >= W)
                          \cup FlagIf("h", HalfOf(s.hl, w, sum % W))]
Step16(s, pair, by) == [s EXCEPT ![pair] = (@ + by * L) % W]

\* SP and a signed byte; the flags come from the low bytes.
OffsetSP(s, to) ==
  LET low == (s.sp % U) * 256
      by == gbir[2] * U
  IN  [s EXCEPT ![to] = (s.sp + SignedByte(gbir[2]) * L) % W,
                !.flg = FlagIf("C", low + by >= W)
                          \cup FlagIf("h", HalfOf(low, by, (low + by) % W))]

\* DAA
Adjust(s) ==
  LET low == ((s.a * 16) % W) + 96 * U >= W \/ "h" \in s.flg
      added == IF low THEN s.a + 6 * U ELSE s.a
      carry == "C" \in s.flg \/ (low /\ added >= W)
      high == (added % W) + 96 * U >= W \/ carry
      sum == IF high THEN added + 96 * U ELSE added
      Left(a, flags) == [s EXCEPT !.a = a % W, !.flg = flags \cup FlagIf("Z", a % W = 0)]
      subtracted == s.a - (IF "h" \in s.flg THEN 6 * U ELSE 0) - (C(s) * 96 * U)
  IN  IF "n" \in s.flg THEN Left(subtracted, s.flg \cap {"n", "C"})
      ELSE Left(sum, (s.flg \cap {"n", "C"}) \cup FlagIf("C", high))

-----------------------------------------------------------------------------
(* The handlers and the tables that find them: what is done, with what, and *)
(* the time taken by fetch.                                                 *)

H(op, r, from, count) == [op |-> op, r |-> r, from |-> from, count |-> count]
H0(op, count) == H(op, "-", "-", count)
H1(op, r, count) == H(op, r, "-", count)
invalid == H0("NOP", 4)
Regs == <<"b", "c", "d", "e", "h", "l", "M", "a">>
\* Eight handlers for eight registers, the memory operand's taking longer
Eight(op, count, inMemory) == [i \in 1 .. 8 |-> H1(op, Regs[i], IF i = 7 THEN inMemory ELSE count)]
Loads(to) ==
  [i \in 1 .. 8 |-> IF i = 7 /\ to = "M" THEN H0("HALT", 4)
                    ELSE IF Regs[i] = to THEN H0("NOP", 4)
                    ELSE H("LD", to, Regs[i], IF i = 7 \/ to = "M" THEN 8 ELSE 4)]
\* Some have a handler of their own for A.
AndA(op, opA) == [Eight(op, 4, 8) EXCEPT ![8] = H1(opA, "a", 4)]

Op0 == <<H0("NOP", 4), H1("LDIM16", "bc", 16), H("LD", "(bc)", "a", 8), H1("INC16", "bc", 8),
         H1("INC8", "b", 4), H1("DEC8", "b", 4), H("LD", "b", "#", 8), H0("RLCA", 4),
         H0("LD_SP", 20), H1("ADD16", "bc", 8), H("LD", "a", "(bc)", 8), H1("DEC16", "bc", 8),
         H1("INC8", "c", 4), H1("DEC8", "c", 4), H("LD", "c", "#", 8), H0("RRCA", 4)>>
Op1 == <<H0("STOP", 4), H1("LDIM16", "de", 16), H("LD", "(de)", "a", 8), H1("INC16", "de", 8),
         H1("INC8", "d", 4), H1("DEC8", "d", 4), H("LD", "d", "#", 8), H0("RLA", 4),
         H0("JR", 8), H1("ADD16", "de", 8), H("LD", "a", "(de)", 8), H1("DEC16", "de", 8),
         H1("INC8", "e", 4), H1("DEC8", "e", 4), H("LD", "e", "#", 8), H0("RRA", 4)>>
Op2 == <<H1("JR", "NZ", 8), H1("LDIM16", "hl", 16), H("LD", "(hl+)", "a", 8), H1("INC16", "hl", 8),
         H1("INC8", "h", 4), H1("DEC8", "h", 4), H("LD", "h", "#", 8), H0("DAA", 4),
         H1("JR", "Z", 8), H1("ADD16", "hl", 8), H("LD", "a", "(hl+)", 8), H1("DEC16", "hl", 8),
         H1("INC8", "l", 4), H1("DEC8", "l", 4), H("LD", "l", "#", 8), H0("CPL", 4)>>
Op3 == <<H1("JR", "NC", 8), H1("LDIM16", "sp", 16), H("LD", "(hl-)", "a", 8), H1("INC16", "sp", 8),
         H1("INC8", "M", 12), H1("DEC8", "M", 12), H("LD", "M", "#", 12), H0("SCF", 4),
         H1("JR", "C", 8), H1("ADD16", "sp", 8), H("LD", "a", "(hl-)", 8), H1("DEC16", "sp", 8),
         H1("INC8", "a", 4), H1("DEC8", "a", 4), H("LD", "a", "#", 8), H0("CCF", 4)>>
OpC == <<H1("RET", "NZ", 8), H1("POP", "bc", 12), H1("JP", "NZ", 12), H0("JP", 16),
         H1("CALL", "NZ", 12), H1("PUSH", "bc", 16), H1("ADD", "#", 8), H0("RST", 16),
         H1("RET", "Z", 8), H0("RET", 16), H1("JP", "Z", 12), invalid,
         H1("CALL", "Z", 12), H0("CALL", 24), H1("ADC", "#", 8), H0("RST", 16)>>
OpD == <<H1("RET", "NC", 8), H1("POP", "de", 12), H1("JP", "NC", 12), invalid,
         H1("CALL", "NC", 12), H1("PUSH", "de", 16), H1("SUB", "#", 8), H0("RST", 16),
         H1("RET", "C", 8), H0("RETI", 16), H1("JP", "C", 12), invalid,
         H1("CALL", "C", 12), invalid, H1("SBC", "#", 8), H0("RST", 16)>>
OpE == <<H("LD", "(FF+n)", "a", 12), H1("POP", "hl", 12), H("LD", "(FF+c)", "a", 8), invalid,
         invalid, H1("PUSH", "hl", 16), H1("AND", "#", 8), H0("RST", 16),
         H1("OFFSET", "sp", 12), H0("JP_HL", 4), H("LD", "(nn)", "a", 16), invalid,
         invalid, invalid, H1("XOR", "#", 8), H0("RST", 16)>>
OpF == <<H("LD", "a", "(FF+n)", 12), H0("POP_AF", 12), H("LD", "a", "(FF+c)", 8), H0("DI", 4),
         invalid, H0("PUSH_AF", 16), H1("OR", "#", 8), H0("RST", 16),
         H1("OFFSET", "hl", 12), H0("LD_SP_HL", 8), H("LD", "a", "(nn)", 16), H0("EI", 4),
         invalid, invalid, H1("CP", "#", 8), H0("RST", 16)>>
Op4to7 == [i \in 1 .. 8 |-> Loads(Regs[i])]
Op8to9 == <<AndA("ADD", "ADDA"), AndA("ADC", "ADCA"), AndA("SUB", "SUBA"), AndA("SBC", "SBCA")>>
OpAtoB == <<Eight("AND", 4, 8), AndA("XOR", "XORA"), Eight("OR", 4, 8), AndA("CP", "CPA")>>
gb_op_table ==
  Op0 \o Op1 \o Op2 \o Op3
    \o Op4to7[1] \o Op4to7[2] \o Op4to7[3] \o Op4to7[4]
    \o Op4to7[5] \o Op4to7[6] \o Op4to7[7] \o Op4to7[8]
    \o Op8to9[1] \o Op8to9[2] \o Op8to9[3] \o Op8to9[4]
    \o OpAtoB[1] \o OpAtoB[2] \o OpAtoB[3] \o OpAtoB[4] \o OpC \o OpD \o OpE \o OpF
\* The handlers behind CB, eight opcodes to a group.
cb_table ==
  [i \in 0 .. 31 |->
     IF i < 8 THEN Eight(<<"RLC", "RRC", "RL", "RR", "SLA", "SRA", "SWAP", "SRL">>[i + 1], 8, 16)
     ELSE IF i < 16 THEN Eight("BIT", 8, 12) ELSE IF i < 24 THEN Eight("RES", 8, 16)
     ELSE Eight("SET", 8, 16)]
HandlerOf(i) ==
  IF i[1] = 203 THEN cb_table[i[2] \div 8][(i[2] % 8) + 1] ELSE gb_op_table[i[1] + 1]

-----------------------------------------------------------------------------
(* What the handlers do.                                                    *)

\* Where the other operands are.
Address(s, r) ==
  CASE r = "(bc)" -> s.bc \div L
    [] r = "(de)" -> s.de \div L
    [] r \in {"(hl+)", "(hl-)"} -> s.hl \div L
    [] r = "(nn)" -> Imm16
    [] r = "(FF+n)" -> 65280 + gbir[2]
    [] r = "(FF+c)" -> 65280 + ((s.bc \div L) % 256)
Indirects == {"(bc)", "(de)", "(hl+)", "(hl-)", "(nn)", "(FF+n)", "(FF+c)"}
\* The bytes behind the opcode that an operand takes
Taken(r) == CASE r \in {"#", "(FF+n)"} -> 1 [] r = "(nn)" -> 2 [] OTHER -> 0
Beyond(s, n) == [s EXCEPT !.pc = (@ + n) % 65536]

LoadStore(s, to, from) ==
  LET w == IF from \in Indirects THEN GbRead(Address(s, from)) * U ELSE OnTop(s, from)
      moved == IF to \in Indirects THEN GbWrite(s, Address(s, to), w \div U) ELSE PutBack(s, to, w)
      by == IF "(hl+)" \in {to, from} THEN 1 ELSE IF "(hl-)" \in {to, from} THEN -1 ELSE 0
  IN  Beyond(Step16(moved, "hl", by), Taken(to) + Taken(from))

Enabling(s, on) == [s EXCEPT !.cycles = WithBit(@, CYC_IE, on)]
Meets(s, condition) ==
  CASE condition = "-" -> TRUE
    [] condition = "Z" -> "Z" \in s.flg [] condition = "NZ" -> "Z" \notin s.flg
    [] condition = "C" -> "C" \in s.flg [] condition = "NC" -> "C" \notin s.flg
\* A conditional one that is done takes longer.
Longer(s, h, by) == IF h.r = "-" THEN s ELSE [s EXCEPT !.cycles = @ - by * GbCYCLE]
JumpTo(s, to) == [s EXCEPT !.pc = to % 65536]
Jump(s, h) ==
  CASE h.op = "JR" ->
         LET past == Beyond(s, 1)
         IN  IF Meets(s, h.r) THEN Longer(JumpTo(past, past.pc + SignedByte(gbir[2])), h, 4) ELSE past
    [] h.op = "JP" -> IF Meets(s, h.r) THEN Longer(JumpTo(s, Imm16), h, 4) ELSE Beyond(s, 2)
    [] h.op = "CALL" -> IF Meets(s, h.r)
                        THEN Longer(JumpTo(GbPush16(s, (s.pc + 2) % 65536), Imm16), h, 12)
                        ELSE Beyond(s, 2)
    [] h.op = "RET" -> IF Meets(s, h.r) THEN Longer(JumpTo(GbPopped(s), GbTop(s)), h, 12) ELSE s
    [] h.op = "RETI" -> Enabling(JumpTo(GbPopped(s), GbTop(s)), TRUE)
    [] h.op = "RST" -> JumpTo(GbPush16(s, s.pc), 8 * ((gbir[1] \div 8) % 8))
    [] h.op = "JP_HL" -> JumpTo(s, s.hl \div L)
Jumps == {"JR", "JP", "CALL", "RET", "RETI", "RST", "JP_HL"}

\* opXXX with A and another operand
WithA(s, op, w) ==
  CASE op = "ADD" -> opADD(s, w)
    [] op = "ADC" -> GbADC(s, w)
    [] op = "SUB" -> opSUB(s, w)
    [] op = "SBC" -> GbSBC(s, w)
    [] op = "CP" -> opCP(s, w)
    [] op = "AND" -> Logical(s, ByteAnd(s.a \div U, w \div U), {"h"})
    [] op = "XOR" -> Logical(s, ByteXor(s.a \div U, w \div U), {})
    [] op = "OR" -> Logical(s, ByteOr(s.a \div U, w \div U), {})
ByA == {"ADD", "ADC", "SUB", "SBC", "CP", "AND", "XOR", "OR"}

Wide(s, op, pair) ==
  CASE op = "LDIM16" -> Beyond([s EXCEPT ![pair] = Imm16 * L], 2)
    [] op = "INC16" -> Step16(s, pair, 1)
    [] op = "DEC16" -> Step16(s, pair, -1)
    [] op = "ADD16" -> opADD16(s, s[pair])
    [] op = "OFFSET" -> Beyond(OffsetSP(s, pair), 1)
    [] op = "PUSH" -> GbPush16(s, s[pair] \div L)
    [] op = "POP" -> [GbPopped(s) EXCEPT ![pair] = GbTop(s) * L]
WideOps == {"LDIM16", "INC16", "DEC16", "ADD16", "OFFSET", "PUSH", "POP"}

Plain(s, op) ==
  CASE op \in {"NOP", "STOP"} -> s
    [] op = "RLCA" -> RotatedA(s, "RLC") [] op = "RRCA" -> RotatedA(s, "RRC")
    [] op = "RLA" -> RotatedA(s, "RL") [] op = "RRA" -> RotatedA(s, "RR")
    [] op = "DAA" -> Adjust(s)
    [] op = "CPL" -> [s EXCEPT !.a = 255 * U - @, !.flg = @ \cup {"n", "h"}]
    [] op = "SCF" -> [s EXCEPT !.flg = (@ \cap {"Z"}) \cup {"C"}]
    [] op = "CCF" -> [s EXCEPT !.flg = (@ \cap {"Z"}) \cup FlagIf("C", "C" \notin @)]
    [] op = "LD_SP" -> Beyond(GbWrite(GbWrite(s, Imm16, s.sp \div L), Imm16 + 1, s.sp \div U), 2)
    [] op = "LD_SP_HL" -> [s EXCEPT !.sp = s.hl]
    [] op = "POP_AF" -> [GbPopped(s) EXCEPT !.a = (GbTop(s) \div 256) * U, !.flg = DecodeFLG(GbTop(s))]
    [] op = "PUSH_AF" -> GbPush16(s, (s.a \div U) * 256 + EncodeFLG(s))
    [] op = "DI" -> Enabling(s, FALSE)
    [] op = "EI" -> Enabling(s, TRUE)
    [] op = "ADDA" -> Twice(s, s.a)
    [] op = "ADCA" -> Twice(s, s.a + C(s) * (U \div 2))
    [] op = "SUBA" -> [s EXCEPT !.a = 0, !.flg = {"n", "Z"}]
    [] op = "SBCA" -> opSBCA(s)
    [] op = "XORA" -> [s EXCEPT !.a = 0, !.flg = {"Z"}]
    [] op = "CPA" -> [s EXCEPT !.flg = {"n", "Z"}]

Bits(s, op, r) ==
  CASE op = "BIT" -> GbBIT(s, OnTop(s, r))
    [] op = "RES" -> PutBack(s, r, WithBit(OnTop(s, r), Selected, FALSE))
    [] op = "SET" -> PutBack(s, r, WithBit(OnTop(s, r), Selected, TRUE))

Handled(s, h) ==
  CASE h.op \in Jumps -> Jump(s, h)
    [] h.op \in WideOps -> Wide(s, h.op, h.r)
    [] h.op \in ByA -> Beyond(WithA(s, h.op, OnTop(s, h.r)), Taken(h.r))
    [] h.op \in Rotations -> Beyond(Rotated(s, h.op, h.r), 1)
    [] h.op \in {"BIT", "RES", "SET"} -> Beyond(Bits(s, h.op, h.r), 1)
    [] h.op = "LD" -> LoadStore(s, h.r, h.from)
    [] h.op = "INC8" -> opINC8(s, h.r)
    [] h.op = "DEC8" -> opDEC8(s, h.r)
    [] OTHER -> Plain(s, h.op)

-----------------------------------------------------------------------------
GbStart(s) ==
  [a |-> s.a * U, bc |-> s.bc * L, de |-> s.de * L, hl |-> s.hl * L, sp |-> s.sp * L,
   flg |-> DecodeFLG(s.f), pc |-> GbCodeAt, ie |-> s.ie, if |-> s.if,
   cycles |-> s.cycles * GbCYCLE + CYC_LCD_ENABLED + Weight(CYC_IE, s.ime)]
Enabled(s) == HasBit(s.cycles, CYC_IE)

GbTypeOK ==
  /\ gb.a \in 0 .. W - 1 /\ gb.a % U = 0 /\ gb.cycles \in Int /\ gb.pc \in 0 .. 65535
  /\ \A r \in {"bc", "de", "hl", "sp"} : gb[r] \in 0 .. W - 1 /\ gb[r] % L = 0
  /\ gb.flg \subseteq {"Z", "n", "h", "C"} /\ gb.ie \subseteq 0 .. 4 /\ gb.if \subseteq 0 .. 4
  /\ \A a \in DOMAIN gbram : InRam(a) /\ gbram[a] \in 0 .. 255
  /\ Len(gbir) \in {0, 3} /\ gbat \in {"fetch", "halt", "execute", "checkIRQ", "irqHalt"}

GbInit ==
  /\ \E s \in GbStarts : gb = GbStart(s)
  /\ gbram = <<>> /\ gbir = <<>> /\ gbat = "fetch" /\ gbcost = 0 /\ gbsteps = 0

GbWorking ==
  [a |-> gb.a, bc |-> gb.bc, de |-> gb.de, hl |-> gb.hl, sp |-> gb.sp, flg |-> gb.flg,
   pc |-> gb.pc, cycles |-> gb.cycles, ram |-> gbram]
\* fetch takes the time off.
GbBecame(s, count) ==
  /\ gb' = [gb EXCEPT !.a = s.a, !.bc = s.bc, !.de = s.de, !.hl = s.hl, !.sp = s.sp,
                       !.flg = s.flg, !.pc = s.pc, !.cycles = s.cycles - count * GbCYCLE]
  /\ gbram' = s.ram
  /\ gbcost' = (gb.cycles \div GbCYCLE) - (s.cycles \div GbCYCLE) + count

GbFetch(instruction) ==
  /\ gb.cycles >= 0
  /\ \/ gbat = "fetch" /\ gbsteps < GbMaxSteps /\ gbsteps' = gbsteps + 1
     \/ gbat = "halt" /\ instruction[1] = 118 /\ UNCHANGED gbsteps
  /\ gbir' = instruction /\ gbat' = "execute"
  /\ gb' = [gb EXCEPT !.pc = (@ + 1) % 65536]
  /\ UNCHANGED <<gbram, gbcost>>

\* A handler, from ldr pc to the next fetch or to checkIRQ.
GbExecute ==
  LET h == HandlerOf(gbir)
  IN  /\ gbat = "execute" /\ h.op # "HALT"
      /\ GbBecame(Handled(GbWorking, h), h.count)
      /\ gbat' = IF h.op \in {"EI", "RETI"} THEN "checkIRQ" ELSE "fetch"
      /\ gbir' = <<>> /\ UNCHANGED gbsteps

\* _76: HALT gives the rest of the time away and comes again, unless an interrupt is pending.
GbHalt ==
  /\ gbat = "execute" /\ HandlerOf(gbir).op = "HALT"
  /\ IF gb.ie \cap gb.if = {}
     THEN /\ GbBecame([Beyond(GbWorking, -1) EXCEPT !.cycles = @ % GbCYCLE], 4)
          /\ gbat' = "halt"
     ELSE GbBecame(GbWorking, 4) /\ gbat' = IF Enabled(gb) THEN "checkIRQ" ELSE "fetch"
  /\ gbir' = <<>> /\ UNCHANGED gbsteps

\* The line is over: interrupts may be requested, and may be looked for (checkMasterIRQ).
LineTimeout(slice, raised) ==
  /\ gbat \in {"fetch", "halt"} /\ gb.cycles < 0
  /\ gb' = [gb EXCEPT !.cycles = @ + slice * GbCYCLE, !.if = @ \cup raised]
  /\ \/ gbat' = gbat
     \/ Enabled(gb) /\ gbat' = IF gbat = "halt" THEN "irqHalt" ELSE "checkIRQ"
  /\ UNCHANGED <<gbram, gbir, gbcost, gbsteps>>

\* checkIRQ, irqGBZ80: a HALT at pc is left, be it waited in or only next.
CheckIRQ(atHalt) ==
  LET pending == gb.ie \cap gb.if
      irq == CHOOSE i \in pending : \A j \in pending : i <= j
      s == IF atHalt THEN Beyond(GbWorking, 1) ELSE GbWorking
      vector == <<64, 72, 80, 88, 96>>
      done == JumpTo(GbPush16(Enabling(s, FALSE), s.pc), vector[irq + 1])
  IN  /\ gbat \in {"checkIRQ", "irqHalt"} /\ (gbat = "irqHalt" => atHalt)
      /\ IF pending = {}
         THEN /\ gbat' = IF gbat = "irqHalt" THEN "halt" ELSE "fetch"
              /\ UNCHANGED <<gb, gbram, gbcost>>
         ELSE /\ gbat' = "fetch"
              /\ gb' = [gb EXCEPT !.sp = done.sp, !.pc = done.pc, !.if = @ \ {irq},
                                   !.cycles = done.cycles - 24 * GbCYCLE]
              /\ gbram' = done.ram /\ gbcost' = 24
      /\ UNCHANGED <<gbir, gbsteps>>

GbNext ==
  \/ \E instruction \in GbInstructions : GbFetch(instruction)
  \/ GbExecute \/ GbHalt
  \/ \E slice \in GbSlices, raised \in {{}} \cup {{i} : i \in 0 .. 4} : LineTimeout(slice, raised)
  \/ \E atHalt \in BOOLEAN : CheckIRQ(atHalt)

GbSpec == GbInit /\ [][GbNext]_gbVars

-----------------------------------------------------------------------------
\* What the handlers take another time for than the processor: JR, the loads of a pair, ADD
\* SP, and HALT.
OtherTime(instruction) == instruction[1] \in {24, 1, 17, 33, 49, 232, 118}

Processor ==
  INSTANCE Lr35902 WITH
    reg <- [B |-> gb.bc \div U, C |-> (gb.bc \div L) % 256, D |-> gb.de \div U,
            E |-> (gb.de \div L) % 256, H |-> gb.hl \div U, L |-> (gb.hl \div L) % 256,
            A |-> gb.a \div U],
    SP <- gb.sp \div L, PC <- gb.pc,
    F <- {CASE f = "n" -> "N" [] f = "h" -> "H" [] OTHER -> f : f \in gb.flg},
    ime <- Enabled(gb), mem <- gbram, ir <- gbir, IE <- gb.ie, IF_ <- gb.if,
    halted <- gbat \in {"halt", "irqHalt"}, cost <- gbcost,
    Contents <- GbPattern, Writable <- InRam, Slow <- OtherTime

\* gbz80.s, gbz80mac.h: every instruction, and every interrupt, does to registers, flags and
\* memory what it does on a Game Boy, in the same time but for those above; wherever the
\* registers and flags are kept in between.
RunsAsLr35902 == Processor!LrSpec
=============================================================================
