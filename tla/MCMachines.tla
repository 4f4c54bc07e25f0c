------------------------------ MODULE MCMachines ------------------------------
(***************************************************************************)
(* What goes on between two instructions: the SIO transport with its        *)
(* interrupts, and the emulators' processors, one at a time.  part says     *)
(* which of them moves.                                                     *)
(***************************************************************************)
EXTENDS SioTransport, Cpu6502, CpuGbz80

\* Both processors: every opcode once, with operands and registers at the edges of their
\* ranges, and with what may come between two instructions.
Operands6502 == {<<0, 0>>, <<255, 128>>, <<127, 255>>, <<128, 1>>}
Tried6502 == {<<opcode, p[1], p[2]>> : opcode \in 0 .. 255, p \in Operands6502}
Starts6502 ==
  {[a |-> r[1], x |-> r[2], y |-> r[3], s |-> r[4], p |-> r[5], irq |-> r[6], cycles |-> r[7]] :
     r \in {<<0, 255, 1, 255, 0, FALSE, 40>>, <<17, 2, 1, 0, 207, FALSE, -2>>,
            <<1, 0, 255, 1, 1, FALSE, 40>>, <<127, 128, 3, 128, 2, TRUE, 40>>,
            <<128, 1, 255, 0, 65, TRUE, 40>>, <<255, 255, 128, 254, 128, FALSE, 0>>,
            <<128, 3, 0, 255, 205, TRUE, 0>>, <<255, 127, 0, 1, 4, TRUE, 0>>,
            <<80, 1, 127, 2, 8, FALSE, 40>>}}

OperandsGb == {<<0, 192>>, <<255, 216>>, <<128, 193>>}
TriedGb ==
  {<<opcode, p[1], p[2]>> : opcode \in ((0 .. 63) \cup (192 .. 255)) \ {203}, p \in OperandsGb}
    \cup {<<opcode, 0, 192>> : opcode \in 64 .. 191}
    \cup {<<203, opcode, 0>> : opcode \in 0 .. 255}
StartsGb ==
  {[a |-> r[1], bc |-> r[2], de |-> r[3], hl |-> r[4], sp |-> r[5], f |-> r[6],
    ie |-> r[7], if |-> r[8], ime |-> r[9], cycles |-> r[10]] :
     r \in {<<0, 65280, 4111, 49152, 57342, 0, {2, 4}, {2, 4}, TRUE, 40>>,
            <<154, 255, 65535, 51455, 53248, 0, {1, 2}, {}, TRUE, 40>>,
            <<143, 33025, 4095, 65535, 2, 16, {3}, {3, 4}, FALSE, 40>>,
            <<255, 49280, 49153, 4112, 49999, 80, {}, {}, FALSE, 40>>,
            <<128, 0, 52430, 49425, 57002, 96, {0, 1, 2, 3, 4}, {}, TRUE, 0>>,
            <<250, 4360, 49665, 53000, 57001, 32, {2}, {}, FALSE, 40>>,
            <<80, 50880, 32768, 45056, 49998, 208, {}, {}, TRUE, 40>>,
            <<250, 0, 0, 45056, 49998, 0, {}, {}, TRUE, 40>>}}

VARIABLE part

machineVars == <<part, vars, cpuVars, gbVars>>

MachinesInit ==
  /\ part \in {"sio", "6502", "gbz80"}
  /\ Init /\ CpuInit /\ GbInit
  /\ part # "6502" => cpu = Start(CHOOSE s \in Starts6502 : TRUE)
  /\ part # "gbz80" => gb = GbStart(CHOOSE s \in StartsGb : TRUE)

MachinesNext ==
  \/ part = "sio" /\ Next /\ UNCHANGED <<part, cpuVars, gbVars>>
  \/ part = "6502" /\ CpuNext /\ UNCHANGED <<part, vars, gbVars>>
  \/ part = "gbz80" /\ GbNext /\ UNCHANGED <<part, vars, cpuVars>>

MachinesSpec == MachinesInit /\ [][MachinesNext]_machineVars /\ Fairness

\* The values of all the variables are of their types.
MachinesTypeOK == TypeOK /\ CpuTypeOK /\ GbTypeOK
=============================================================================
