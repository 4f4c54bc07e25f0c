-------------------------------- MODULE Lr35902 --------------------------------
(***************************************************************************)
(* What a program sees of the Game Boy's processor: registers, flags,       *)
(* memory and the cycles an instruction takes.  An opcode is decoded from   *)
(* its bit fields xxyyyzzz.  STOP, the opcodes that do not exist, and a HALT  *)
(* with an interrupt pending that is not enabled, may do anything.           *)
(***************************************************************************)
EXTENDS Bytes, Sequences, Tables

CONSTANTS
  Contents(_),  \* what memory holds before anything is written
  Writable(_),  \* which addresses can be written
  Slow(_)       \* the instructions that may take another time

VARIABLES
  reg,    \* B, C, D, E, H, L and A
  SP, PC,
  F,      \* the flags that are set: Z, N, H, C
  ime,    \* interrupts are enabled
  mem,    \* what was written, by address
  ir,     \* the instruction to be executed and the two bytes behind it, or <<>>
  IE, IF_, \* the interrupts enabled, and those requested
  halted, \* HALT is waited in
  cost    \* the cycles of the last instruction or interrupt

lrVars == <<reg, SP, PC, F, ime, mem, ir, IE, IF_, halted, cost>>

-----------------------------------------------------------------------------
Prefixed == ir[1] = 203
Opcode == IF Prefixed THEN ir[2] ELSE ir[1]
y == (Opcode \div 8) % 8
z == Opcode % 8
p == y \div 2
x == Opcode \div 64
Odd == y % 2 = 1
Is(group, column) == ~Prefixed /\ x = group /\ z = column
Row(group, column, rows) == Is(group, column) /\ y \in rows

Word16(hi, lo) == 256 * hi + lo
Imm == ir[2]
Imm16 == Word16(ir[3], ir[2])
Peek(a) == IF a % 65536 \in DOMAIN mem THEN mem[a % 65536] ELSE Contents(a % 65536)
HL == Word16(reg["H"], reg["L"])
\* The operand of a number: a register, or the byte behind HL.
Name(i) == <<"B", "C", "D", "E", "H", "L", "(HL)", "A">>[i + 1]
Source(i) == IF i = 6 THEN Peek(HL) ELSE reg[Name(i)]
Pair(i) == <<Word16(reg["B"], reg["C"]), Word16(reg["D"], reg["E"]), HL, SP>>[i + 1]

Size ==
  CASE Row(0, 1, {0, 2, 4, 6}) \/ Row(0, 0, {1}) \/ Row(3, 2, {0, 1, 2, 3, 5, 7})
         \/ Row(3, 3, {0}) \/ Is(3, 4) \/ Row(3, 5, {1}) -> 3
    [] Prefixed \/ Is(0, 6) \/ Is(3, 6) \/ Row(0, 0, 3 .. 7) \/ Row(3, 0, 4 .. 7) -> 2
    [] OTHER -> 1

-----------------------------------------------------------------------------
Flag(f) == IF f \in F THEN 1 ELSE 0
If(flag, on) == IF on THEN {flag} ELSE {}
Kept(flags) == F \cap flags

Regs == [reg |-> reg, SP |-> SP, PC |-> PC, F |-> F, ime |-> ime, mem |-> mem]
State == [Regs EXCEPT !.PC = (PC + Size - 1) % 65536]   \* PC is past the opcode already
Poking(r, a, v) == IF Writable(a % 65536) THEN [r EXCEPT !.mem = Put(@, a % 65536, v)] ELSE r
Setting(r, i, v) == IF i = 6 THEN Poking(r, HL, v) ELSE [r EXCEPT !.reg[Name(i)] = v]
SettingPair(r, i, v) ==
  IF i = 3 THEN [r EXCEPT !.SP = v]
  ELSE Setting(Setting(r, 2 * i, v \div 256), 2 * i + 1, v % 256)
Flagging(r, flags) == [r EXCEPT !.F = flags]
Pushing(r, v) ==
  [Poking(Poking(r, r.SP - 1, v \div 256), r.SP - 2, v % 256) EXCEPT !.SP = (@ - 2) % 65536]
Top == Word16(Peek(SP + 1), Peek(SP))
Popping(r) == [r EXCEPT !.SP = (@ + 2) % 65536]
FlagByte == 128 * Flag("Z") + 64 * Flag("N") + 32 * Flag("H") + 16 * Flag("C")

\* An operation of A with v: the new A and the flags.
Arithmetic(op, v) ==
  LET a == reg["A"]
      c == IF op \in {1, 3} THEN Flag("C") ELSE 0
      sum == a + v + c
      difference == a - v - c
      logical == CASE op = 4 -> ByteAnd(a, v) [] op = 5 -> ByteXor(a, v) [] op = 6 -> ByteOr(a, v)
  IN  CASE op \in {0, 1} ->
             <<sum % 256, If("Z", sum % 256 = 0) \cup If("H", (a % 16) + (v % 16) + c > 15)
                            \cup If("C", sum > 255)>>
        [] op \in {2, 3, 7} ->
             <<IF op = 7 THEN a ELSE difference % 256,
               {"N"} \cup If("Z", difference % 256 = 0)
                 \cup If("H", (a % 16) - (v % 16) - c < 0) \cup If("C", difference < 0)>>
        [] op \in 4 .. 6 -> <<logical, If("Z", logical = 0) \cup If("H", op = 4)>>
Computing(op, v) ==
  Flagging(Setting(State, 7, Arithmetic(op, v)[1]), Arithmetic(op, v)[2])

\* A rotation or a shift: the result and the bit that goes to C.
Rotated(op, v) ==
  CASE op = 0 -> <<((2 * v) % 256) + (v \div 128), v >= 128>>
    [] op = 1 -> <<(v \div 2) + 128 * (v % 2), v % 2 = 1>>
    [] op = 2 -> <<((2 * v) % 256) + Flag("C"), v >= 128>>
    [] op = 3 -> <<(v \div 2) + 128 * Flag("C"), v % 2 = 1>>
    [] op = 4 -> <<(2 * v) % 256, v >= 128>>
    [] op = 5 -> <<(v \div 2) + 128 * (v \div 128), v % 2 = 1>>
    [] op = 6 -> <<16 * (v % 16) + (v \div 16), FALSE>>
    [] op = 7 -> <<v \div 2, v % 2 = 1>>

Adjusted ==
  LET a == reg["A"]
      low == "H" \in F \/ ("N" \notin F /\ a % 16 > 9)
      high == "C" \in F \/ ("N" \notin F /\ a > 153)
      by == (IF low THEN 6 ELSE 0) + (IF high THEN 96 ELSE 0)
      r == (IF "N" \in F THEN a - by ELSE a + by) % 256
  IN  Flagging(Setting(State, 7, r), Kept({"N"}) \cup If("C", high) \cup If("Z", r = 0))

\* SP and a signed byte
Offset ==
  Flagging(State, If("H", (SP % 16) + (Imm % 16) > 15) \cup If("C", (SP % 256) + Imm > 255))
Moved == (SP + SignedByte(Imm)) % 65536

Holds(cc) == CASE cc = 0 -> "Z" \notin F [] cc = 1 -> "Z" \in F
               [] cc = 2 -> "C" \notin F [] cc = 3 -> "C" \in F
Jumping(r, to) == [r EXCEPT !.PC = to % 65536]

Accumulator ==
  CASE y < 4 -> LET r == Rotated(y, reg["A"]) IN Flagging(Setting(State, 7, r[1]), If("C", r[2]))
    [] y = 4 -> Adjusted
    [] y = 5 -> Flagging(Setting(State, 7, 255 - reg["A"]), F \cup {"N", "H"})
    [] y = 6 -> Flagging(State, Kept({"Z"}) \cup {"C"})
    [] y = 7 -> Flagging(State, Kept({"Z"}) \cup If("C", "C" \notin F))

Stepping(v, half) ==
  Flagging(Setting(State, y, v),
           Kept({"C"}) \cup If("Z", v = 0) \cup If("N", z = 5) \cup If("H", half))

Extended ==
  LET v == Source(z)
      r == Rotated(y, v)
      bit == 2 ^ y
  IN  CASE x = 0 -> Flagging(Setting(State, z, r[1]), If("Z", r[1] = 0) \cup If("C", r[2]))
        [] x = 1 -> Flagging(State, Kept({"C"}) \cup {"H"} \cup If("Z", ~HasBit(v, bit)))
        [] x = 2 -> Setting(State, z, WithBit(v, bit, FALSE))
        [] x = 3 -> Setting(State, z, WithBit(v, bit, TRUE))

\* A is loaded or stored where a pair points to; HL moves on or back.
Through == IF p >= 2 THEN HL ELSE Pair(p)
Beside(r) == CASE p = 2 -> SettingPair(r, 2, (HL + 1) % 65536)
               [] p = 3 -> SettingPair(r, 2, (HL - 1) % 65536) [] OTHER -> r

Pending == IE \cap IF_

Low ==
  CASE z = 0 /\ y = 0 -> State
    [] z = 0 /\ y = 1 -> Poking(Poking(State, Imm16, SP % 256), Imm16 + 1, SP \div 256)
    [] z = 0 /\ y = 3 -> Jumping(State, State.PC + SignedByte(Imm))
    [] z = 0 /\ y > 3 -> IF Holds(y - 4) THEN Jumping(State, State.PC + SignedByte(Imm)) ELSE State
    [] z = 1 /\ ~Odd -> SettingPair(State, p, Imm16)
    [] z = 1 /\ Odd ->
         Flagging(SettingPair(State, 2, (HL + Pair(p)) % 65536),
                  Kept({"Z"}) \cup If("H", (HL % 4096) + (Pair(p) % 4096) > 4095)
                    \cup If("C", HL + Pair(p) > 65535))
    [] z = 2 /\ ~Odd -> Beside(Poking(State, Through, reg["A"]))
    [] z = 2 /\ Odd -> Beside(Setting(State, 7, Peek(Through)))
    [] z = 3 -> SettingPair(State, p, (IF Odd THEN Pair(p) - 1 ELSE Pair(p) + 1) % 65536)
    [] z = 4 -> Stepping((Source(y) + 1) % 256, Source(y) % 16 = 15)
    [] z = 5 -> Stepping((Source(y) - 1) % 256, Source(y) % 16 = 0)
    [] z = 6 -> Setting(State, y, Imm)
    [] z = 7 -> Accumulator

High ==
  CASE z = 0 /\ y < 4 -> IF Holds(y) THEN Popping(Jumping(State, Top)) ELSE State
    [] z = 0 /\ y = 4 -> Poking(State, 65280 + Imm, reg["A"])
    [] z = 0 /\ y = 5 -> [Offset EXCEPT !.SP = Moved]
    [] z = 0 /\ y = 6 -> Setting(State, 7, Peek(65280 + Imm))
    [] z = 0 /\ y = 7 -> SettingPair(Offset, 2, Moved)
    [] z = 1 /\ ~Odd /\ p < 3 -> SettingPair(Popping(State), p, Top)
    [] z = 1 /\ y = 6 ->
         Flagging(Setting(Popping(State), 7, Top \div 256),
                  If("Z", HasBit(Top, 128)) \cup If("N", HasBit(Top, 64))
                    \cup If("H", HasBit(Top, 32)) \cup If("C", HasBit(Top, 16)))
    [] z = 1 /\ y = 1 -> Popping(Jumping(State, Top))
    [] z = 1 /\ y = 3 -> [Popping(Jumping(State, Top)) EXCEPT !.ime = TRUE]
    [] z = 1 /\ y = 5 -> Jumping(State, HL)
    [] z = 1 /\ y = 7 -> [State EXCEPT !.SP = HL]
    [] z = 2 /\ y < 4 -> IF Holds(y) THEN Jumping(State, Imm16) ELSE State
    [] z = 2 /\ y = 4 -> Poking(State, 65280 + reg["C"], reg["A"])
    [] z = 2 /\ y = 5 -> Poking(State, Imm16, reg["A"])
    [] z = 2 /\ y = 6 -> Setting(State, 7, Peek(65280 + reg["C"]))
    [] z = 2 /\ y = 7 -> Setting(State, 7, Peek(Imm16))
    [] z = 3 /\ y = 0 -> Jumping(State, Imm16)
    [] z = 3 /\ y \in {6, 7} -> [State EXCEPT !.ime = y = 7]
    [] z = 4 -> IF Holds(y) THEN Jumping(Pushing(State, State.PC), Imm16) ELSE State
    [] z = 5 /\ y = 6 -> Pushing(State, Word16(reg["A"], FlagByte))
    [] z = 5 /\ ~Odd -> Pushing(State, Pair(p))
    [] z = 5 /\ y = 1 -> Jumping(Pushing(State, State.PC), Imm16)
    [] z = 6 -> Computing(y, Imm)
    [] z = 7 -> Jumping(Pushing(State, State.PC), 8 * y)

Halting == ~Prefixed /\ Opcode = 118
Waiting == Halting /\ Pending = {}
Exists ==
  /\ Prefixed \/ Opcode \notin {16, 211, 219, 221, 227, 228, 235, 236, 237, 244, 252, 253}
  /\ Halting => ime \/ Waiting
Result ==
  CASE Prefixed -> Extended
    [] x = 0 -> Low
    [] Halting -> IF Waiting THEN [State EXCEPT !.PC = (@ - 1) % 65536] ELSE State
    [] x = 1 -> Setting(State, y, Source(z))
    [] x = 2 -> Computing(y, Source(z))
    [] x = 3 -> High

\* Cycles: what is fetched, read and written, and four more for some.
Cost ==
  CASE Prefixed -> IF z # 6 THEN 8 ELSE IF x = 1 THEN 12 ELSE 16
    [] Row(3, 0, 0 .. 3) -> IF Holds(y) THEN 20 ELSE 8
    [] Is(3, 4) -> IF Holds(y) THEN 24 ELSE 12
    [] Row(3, 2, 0 .. 3) -> IF Holds(y) THEN 16 ELSE 12
    [] Row(0, 0, 4 .. 7) -> IF Holds(y - 4) THEN 12 ELSE 8
    [] Row(3, 5, {1}) -> 24
    [] Row(0, 0, {1}) -> 20
    [] Row(3, 2, {5, 7}) \/ Row(3, 3, {0}) \/ Row(3, 1, {1, 3}) \/ Is(3, 5) \/ Is(3, 7)
         \/ Row(3, 0, {5}) -> 16
    [] Row(0, 4, {6}) \/ Row(0, 5, {6}) \/ Row(0, 6, {6}) \/ Is(3, 0)
         \/ Row(0, 1, {0, 2, 4, 6}) \/ Row(3, 1, {0, 2, 4, 6}) \/ Row(0, 0, {3}) -> 12
    [] Is(0, 1) \/ Is(0, 2) \/ Is(0, 3) \/ Is(0, 6) \/ Row(3, 1, {7}) \/ Is(3, 2) \/ Is(3, 6)
         \/ Is(2, 6) \/ (x = 1 /\ Opcode # 118 /\ 6 \in {y, z}) -> 8
    [] OTHER -> 4

-----------------------------------------------------------------------------
Becomes(r) ==
  reg' = r.reg /\ SP' = r.SP /\ PC' = r.PC /\ F' = r.F /\ ime' = r.ime /\ mem' = r.mem

\* The opcode is fetched.
Fetch ==
  /\ ir = <<>> /\ PC' = (PC + 1) % 65536 /\ (halted => ir'[1] = 118)
  /\ halted' = FALSE /\ UNCHANGED <<reg, SP, F, ime, mem, IE, IF_, cost>>

Execute ==
  /\ ir # <<>> /\ ir' = <<>>
  /\ Exists => Becomes(Result) /\ (cost' = Cost \/ Slow(ir)) /\ halted' = Waiting
  /\ UNCHANGED <<IE, IF_>>

\* The first of the interrupts is taken; it ends a HALT, and may do so with one that comes
\* next.
Interrupt ==
  /\ ir = <<>> /\ ime /\ Pending # {}
  /\ LET irq == CHOOSE i \in Pending : \A j \in Pending : i <= j
         Taken(back) == [Jumping(Pushing(Regs, back % 65536), 64 + 8 * irq) EXCEPT !.ime = FALSE]
     IN  /\ Becomes(Taken(PC + 1)) \/ (~halted /\ Becomes(Taken(PC)))
         /\ IF_' = IF_ \ {irq}
  /\ halted' = FALSE /\ UNCHANGED <<ir, IE>>

\* An interrupt is requested.
Line == UNCHANGED <<reg, SP, PC, F, ime, mem, ir, IE, halted, cost>> /\ IF_ \subseteq IF_'

LrSpec == [][Line \/ Fetch \/ Execute \/ Interrupt]_lrVars
=============================================================================
