-------------------------------- MODULE Mos6502 --------------------------------
(***************************************************************************)
(* What a program sees of a 6502 without decimal arithmetic, as the NES has *)
(* it: registers, flags, memory and the cycles an instruction takes.  The   *)
(* opcodes are decoded from their bit fields aaabbbcc.  Of the undocumented *)
(* ones, DOP, SLO, LAX and SAX are specified; the others may do anything.   *)
(***************************************************************************)
EXTENDS Bytes, Sequences, Tables

CONSTANTS
  Contents(_),  \* what memory holds before anything is written
  Cell(_)       \* the cell behind an address

VARIABLES
  A, X, Y, S, PC,
  P,      \* the flags that are set: N, V, D, I, Z, C
  mem,    \* what was written, by cell
  ir,     \* the instruction to be executed, or <<>>
  irq,    \* the interrupt line
  cost    \* the cycles the last instruction or interrupt took

mosVars == <<A, X, Y, S, PC, P, mem, ir, irq, cost>>

-----------------------------------------------------------------------------
(* Decoding                                                                 *)

Nothing == <<"none", "none">>

\* cc = 1
Arithmetic(a, b) ==
  LET op == <<"ORA", "AND", "EOR", "ADC", "STA", "LDA", "CMP", "SBC">>[a + 1]
  IN  IF op = "STA" /\ b = 2 THEN <<"DOP", "IMM">>
      ELSE <<op, <<"IIX", "Z", "IMM", "ABS", "IIY", "ZIX", "AIY", "AIX">>[b + 1]>>

\* cc = 2
Shifting(a, b) ==
  LET op == <<"ASL", "ROL", "LSR", "ROR", "STX", "LDX", "DEC", "INC">>[a + 1]
      indexed == op \in {"STX", "LDX"}
  IN  CASE b = 1 -> <<op, "Z">>
        [] b = 3 -> <<op, "ABS">>
        [] b = 5 -> <<op, IF indexed THEN "ZIY" ELSE "ZIX">>
        [] b = 7 /\ op # "STX" -> <<op, IF indexed THEN "AIY" ELSE "AIX">>
        [] b = 2 /\ a < 4 -> <<op, "ACC">>
        [] b = 2 /\ a >= 4 -> <<<<"TXA", "TAX", "DEX", "NOP">>[a - 3], "IMP">>
        [] b = 0 -> IF op = "LDX" THEN <<op, "IMM">>
                    ELSE IF a >= 4 THEN <<"DOP", "IMM">> ELSE Nothing
        [] b = 6 -> IF a \in {4, 5} THEN <<<<"TXS", "TSX">>[a - 3], "IMP">> ELSE <<"NOP", "IMP">>
        [] OTHER -> Nothing

\* cc = 0
Control(a, b) ==
  CASE b = 4 -> <<<<"BPL", "BMI", "BVC", "BVS", "BCC", "BCS", "BNE", "BEQ">>[a + 1], "REL">>
    [] b = 2 -> <<<<"PHP", "PLP", "PHA", "PLA", "DEY", "TAY", "INY", "INX">>[a + 1], "IMP">>
    [] b = 6 -> <<<<"CLC", "SEC", "CLI", "SEI", "TYA", "CLV", "CLD", "SED">>[a + 1], "IMP">>
    [] b = 0 /\ a # 4 ->
         <<<<"BRK", "JSR", "RTI", "RTS", "", "LDY", "CPY", "CPX">>[a + 1],
           IF a >= 5 THEN "IMM" ELSE "IMP">>
    [] b \in {1, 3} /\ a >= 4 ->
         <<<<"STY", "LDY", "CPY", "CPX">>[a - 3], IF b = 1 THEN "Z" ELSE "ABS">>
    [] b \in {1, 3} /\ a = 1 -> <<"BIT", IF b = 1 THEN "Z" ELSE "ABS">>
    [] b = 3 /\ a \in {2, 3} -> <<"JMP", IF a = 2 THEN "ABS" ELSE "IND">>
    [] b = 5 /\ a \in {4, 5} -> <<<<"STY", "LDY">>[a - 3], "ZIX">>
    [] b = 7 /\ a = 5 -> <<"LDY", "AIX">>
    [] b = 7 /\ a # 4 -> <<"DOP", "AIX">>
    [] b = 5 -> <<"DOP", "ZIX">>
    [] b = 0 -> <<"DOP", "IMM">>
    [] b = 1 /\ a # 1 -> <<"DOP", "Z">>
    [] b = 3 /\ a = 0 -> <<"DOP", "ABS">>
    [] OTHER -> Nothing

Decoded(opcode) ==
  LET a == opcode \div 32
      b == (opcode \div 4) % 8
  IN  CASE opcode % 4 = 0 -> Control(a, b)
        [] opcode % 4 = 1 -> Arithmetic(a, b)
        [] opcode % 4 = 2 -> Shifting(a, b)
        [] opcode = 179 -> <<"LAX", "IIY">>
        [] opcode = 143 -> <<"SAX", "ABS">>
        [] opcode = 235 -> <<"SBC", "IMM">>
        [] opcode \in {7, 15, 23, 27, 31} ->
             <<"SLO", CASE b = 1 -> "Z" [] b = 3 -> "ABS" [] b = 5 -> "ZIX"
                        [] b = 6 -> "AIY" [] b = 7 -> "AIX">>
        [] OTHER -> Nothing

-----------------------------------------------------------------------------
(* Memory and addressing                                                    *)

Instructions == [opcode \in 0 .. 255 |-> Decoded(opcode)]
Op == Instructions[ir[1]][1]
Mode == Instructions[ir[1]][2]
Low == ir[2]
Pair(lo, hi) == lo + 256 * hi
Peek(a) == IF Cell(a) \in DOMAIN mem THEN mem[Cell(a)] ELSE Contents(Cell(a))
PairAt(a, b) == Pair(Peek(a), Peek(b))

Base ==
  CASE Mode \in {"Z", "ZIX", "ZIY"} -> Low
    [] Mode = "IIY" -> PairAt(Low, (Low + 1) % 256)
    [] Mode = "IIX" -> PairAt((Low + X) % 256, (Low + X + 1) % 256)
    [] OTHER -> Pair(Low, ir[3])
Index == CASE Mode \in {"ZIX", "AIX"} -> X [] Mode \in {"ZIY", "AIY", "IIY"} -> Y [] OTHER -> 0
Crosses == Mode \in {"AIX", "AIY", "IIY"} /\ (Base % 256) + Index > 255
Address == (Base + Index) % (IF Mode \in {"Z", "ZIX", "ZIY"} THEN 256 ELSE 65536)
Operand == CASE Mode = "IMM" -> Low [] Mode = "ACC" -> A [] OTHER -> Peek(Address)
Size == CASE Mode \in {"IMP", "ACC"} -> 1 [] Mode \in {"ABS", "AIX", "AIY", "IND"} -> 3 [] OTHER -> 2
Next1 == (PC + Size - 1) % 65536   \* PC is past the opcode already

-----------------------------------------------------------------------------
(* Results                                                                  *)

Flag(f) == IF f \in P THEN 1 ELSE 0
If(flag, on) == IF on THEN {flag} ELSE {}
NZ(v) == If("N", v >= 128) \cup If("Z", v = 0)

Regs == [A |-> A, X |-> X, Y |-> Y, S |-> S, P |-> P, PC |-> PC, mem |-> mem]
State == [Regs EXCEPT !.PC = Next1]
Setting(r, flags, on) == [r EXCEPT !.P = (@ \ flags) \cup on]
Loading(r, reg, v) == [Setting(r, {"N", "Z"}, NZ(v)) EXCEPT ![reg] = v]
Storing(r, a, v) == [r EXCEPT !.mem = Put(@, Cell(a), v)]
Pushing(r, v) == [Storing(r, 256 + r.S, v) EXCEPT !.S = (@ - 1) % 256]
PushingPair(r, v) == Pushing(Pushing(r, v \div 256), v % 256)
Pulled(n) == Peek(256 + ((S + n) % 256))
Unstacked(n) == [State EXCEPT !.S = (@ + n) % 256]

\* The flags as a byte on the stack, and back.
FlagBits == [N |-> 128, V |-> 64, D |-> 8, I |-> 4, Z |-> 2, C |-> 1]
Packed(brk) ==
  32 + Weight(16, brk) + Weight(128, "N" \in P) + Weight(64, "V" \in P)
     + Weight(8, "D" \in P) + Weight(4, "I" \in P) + Weight(2, "Z" \in P) + Weight(1, "C" \in P)
Unpacked(v) == {f \in DOMAIN FlagBits : HasBit(v, FlagBits[f])}

Adding(v) ==
  LET sum == A + v + Flag("C")
      overflow == (A < 128) = (v < 128) /\ (A < 128) # (sum % 256 < 128)
  IN  Setting(Loading(State, "A", sum % 256), {"C", "V"}, If("C", sum > 255) \cup If("V", overflow))
Comparing(r) ==
  Setting(State, {"N", "Z", "C"}, NZ((r - Operand) % 256) \cup If("C", r >= Operand))

Shifted(op, v) ==
  CASE op = "ASL" -> (2 * v) % 256 [] op = "ROL" -> (2 * v + Flag("C")) % 256
    [] op = "LSR" -> v \div 2 [] op = "ROR" -> (v \div 2) + 128 * Flag("C")
ShiftedOut(op, v) == IF op \in {"ASL", "ROL"} THEN v >= 128 ELSE v % 2 = 1
Writing(v) ==
  Setting(IF Mode = "ACC" THEN [State EXCEPT !.A = v] ELSE Storing(State, Address, v),
          {"N", "Z"}, NZ(v))

Interrupting(r, brk, vector) ==
  LET stacked == Pushing(PushingPair(r, r.PC), Packed(brk))
  IN  [Setting(stacked, {}, {"I"}) EXCEPT !.PC = PairAt(vector, vector + 1)]

Taken ==
  CASE Op = "BPL" -> "N" \notin P [] Op = "BMI" -> "N" \in P
    [] Op = "BVC" -> "V" \notin P [] Op = "BVS" -> "V" \in P
    [] Op = "BCC" -> "C" \notin P [] Op = "BCS" -> "C" \in P
    [] Op = "BNE" -> "Z" \notin P [] Op = "BEQ" -> "Z" \in P
Target == (Next1 + SignedByte(Low)) % 65536

Result ==
  CASE Op = "ORA" -> Loading(State, "A", ByteOr(A, Operand))
    [] Op = "AND" -> Loading(State, "A", ByteAnd(A, Operand))
    [] Op = "EOR" -> Loading(State, "A", ByteXor(A, Operand))
    [] Op = "ADC" -> Adding(Operand)
    [] Op = "SBC" -> Adding(255 - Operand)
    [] Op = "CMP" -> Comparing(A)
    [] Op = "CPX" -> Comparing(X)
    [] Op = "CPY" -> Comparing(Y)
    [] Op = "LDA" -> Loading(State, "A", Operand)
    [] Op = "LDX" -> Loading(State, "X", Operand)
    [] Op = "LDY" -> Loading(State, "Y", Operand)
    [] Op = "LAX" -> Loading(Loading(State, "A", Operand), "X", Operand)
    [] Op = "STA" -> Storing(State, Address, A)
    [] Op = "STX" -> Storing(State, Address, X)
    [] Op = "STY" -> Storing(State, Address, Y)
    [] Op = "SAX" -> Storing(State, Address, ByteAnd(A, X))
    [] Op = "INC" -> Writing((Operand + 1) % 256)
    [] Op = "DEC" -> Writing((Operand - 1) % 256)
    [] Op \in {"ASL", "LSR", "ROL", "ROR"} ->
         Setting(Writing(Shifted(Op, Operand)), {"C"}, If("C", ShiftedOut(Op, Operand)))
    [] Op = "SLO" ->
         Setting(Loading(Storing(State, Address, (2 * Operand) % 256), "A",
                         ByteOr(A, (2 * Operand) % 256)),
                 {"C"}, If("C", Operand >= 128))
    [] Op = "BIT" ->
         Setting(State, {"N", "V", "Z"},
                 If("N", Operand >= 128) \cup If("V", HasBit(Operand, 64))
                   \cup If("Z", ByteAnd(A, Operand) = 0))
    [] Op = "INX" -> Loading(State, "X", (X + 1) % 256)
    [] Op = "INY" -> Loading(State, "Y", (Y + 1) % 256)
    [] Op = "DEX" -> Loading(State, "X", (X - 1) % 256)
    [] Op = "DEY" -> Loading(State, "Y", (Y - 1) % 256)
    [] Op = "TAX" -> Loading(State, "X", A)
    [] Op = "TAY" -> Loading(State, "Y", A)
    [] Op = "TXA" -> Loading(State, "A", X)
    [] Op = "TYA" -> Loading(State, "A", Y)
    [] Op = "TSX" -> Loading(State, "X", S)
    [] Op = "TXS" -> [State EXCEPT !.S = X]
    [] Op = "PHA" -> Pushing(State, A)
    [] Op = "PHP" -> Pushing(State, Packed(TRUE))
    [] Op = "PLA" -> Loading(Unstacked(1), "A", Pulled(1))
    [] Op = "PLP" -> [Unstacked(1) EXCEPT !.P = Unpacked(Pulled(1))]
    [] Op = "RTI" -> [Unstacked(3) EXCEPT !.P = Unpacked(Pulled(1)), !.PC = Pair(Pulled(2), Pulled(3))]
    [] Op = "RTS" -> [Unstacked(2) EXCEPT !.PC = (Pair(Pulled(1), Pulled(2)) + 1) % 65536]
    [] Op = "JSR" -> [PushingPair(State, PC + 1) EXCEPT !.PC = Pair(Low, ir[3])]
    [] Op = "JMP" -> [State EXCEPT !.PC =
         IF Mode = "ABS" THEN Base ELSE PairAt(Base, Base - Low + ((Low + 1) % 256))]
    [] Op = "BRK" -> Interrupting([Regs EXCEPT !.PC = @ + 1], TRUE, 65534)
    [] Mode = "REL" -> IF Taken THEN [State EXCEPT !.PC = Target] ELSE State
    [] Op = "CLC" -> Setting(State, {"C"}, {})
    [] Op = "CLD" -> Setting(State, {"D"}, {})
    [] Op = "CLI" -> Setting(State, {"I"}, {})
    [] Op = "CLV" -> Setting(State, {"V"}, {})
    [] Op = "SEC" -> Setting(State, {}, {"C"})
    [] Op = "SED" -> Setting(State, {}, {"D"})
    [] Op = "SEI" -> Setting(State, {}, {"I"})
    [] Op \in {"NOP", "DOP"} -> State

Stores == {"STA", "STX", "STY", "SAX"}
Changes == {"ASL", "LSR", "ROL", "ROR", "INC", "DEC", "SLO"}
Reading ==
  CASE Mode \in {"IMP", "ACC", "IMM"} -> 2
    [] Mode = "Z" -> 3
    [] Mode \in {"ZIX", "ZIY", "ABS", "AIX", "AIY"} -> 4
    [] Mode = "IIX" -> 6
    [] Mode = "IIY" -> 5
Cost ==
  CASE Op = "BRK" -> 7
    [] Op \in {"JSR", "RTS", "RTI"} -> 6
    [] Op = "JMP" -> IF Mode = "ABS" THEN 3 ELSE 5
    [] Op \in {"PHA", "PHP"} -> 3
    [] Op \in {"PLA", "PLP"} -> 4
    [] Mode = "REL" -> IF ~Taken THEN 2 ELSE IF Next1 \div 256 = Target \div 256 THEN 3 ELSE 4
    [] Op \in Changes /\ Mode # "ACC" -> Reading + (IF Mode \in {"AIX", "AIY"} THEN 3 ELSE 2)
    [] Op \in Stores -> Reading + (IF Mode \in {"AIX", "AIY", "IIY"} THEN 1 ELSE 0)
    [] OTHER -> Reading + (IF Crosses THEN 1 ELSE 0)

-----------------------------------------------------------------------------
Becomes(r) ==
  A' = r.A /\ X' = r.X /\ Y' = r.Y /\ S' = r.S /\ P' = r.P /\ PC' = r.PC /\ mem' = r.mem

\* The opcode is fetched.
Fetch == ir = <<>> /\ PC' = (PC + 1) % 65536 /\ UNCHANGED <<A, X, Y, S, P, mem, irq, cost>>

Execute ==
  /\ ir # <<>> /\ ir' = <<>>
  /\ Instructions[ir[1]] # Nothing => Becomes(Result) /\ cost' = Cost
  /\ UNCHANGED irq

\* The line is looked at unless I is set; an NMI comes whenever it likes.
Interrupt ==
  /\ ir = <<>>
  /\ \/ irq /\ "I" \notin P /\ Becomes(Interrupting(Regs, FALSE, 65534))
     \/ Becomes(Interrupting(Regs, FALSE, 65530))
  /\ cost' = 7
  /\ UNCHANGED <<ir, irq>>

Line == UNCHANGED <<A, X, Y, S, P, PC, mem, ir, cost>>

MosSpec == [][Line \/ Fetch \/ Execute \/ Interrupt]_mosVars
=============================================================================
