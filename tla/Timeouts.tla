-------------------------------- MODULE Timeouts -------------------------------
(***************************************************************************)
(* The time-outs of PocketNES (emulators/pocketnes/src/timeout.s): a linked  *)
(* list of nodes in the order of their times, a countdown of the cycles left *)
(* to the first of them, which is all that the processor looks at, and the   *)
(* time, which is only brought up to date when the list's first node         *)
(* changes.  A saved state holds the list with offsets for pointers and      *)
(* numbers for handlers, and another build may load it; it is saved and      *)
(* loaded in the prerender line's handler, whose node is not in the list.    *)
(***************************************************************************)
EXTENDS Integers, Sequences

CONSTANTS
  Timers,        \* the last node: 0 is queue_dummy_timeout, 1 prerender_line_timeout
  Frame,         \* cyclesperframe
  Far,           \* how far ahead the dummy is set
  Ahead,         \* how far ahead the others are set
  Interrupts,    \* nmi_timeout, mapper_irq_timeout, frame_irq_timeout
  Longest,       \* the longest instruction
  Branch,        \* a taken branch within its page
  Late,          \* 3*CYCLE: how late a branch leaves an interrupt for the next instruction
  First,         \* how long before the reset the first frame began
  Early,         \* how long before a frame its prerender line is due
  MaxNow,        \* bound on the time
  MaxChanges,    \* bound on what is set, stopped, saved, loaded and started
  Builds         \* how many builds there are

ASSUME TimeoutsAssumption ==
  /\ Timers \in Nat \ {0} /\ Frame \in Nat \ {0} /\ Far \in Nat \ {0} /\ Ahead \in Nat
  /\ Longest \in Nat \ {0} /\ MaxNow \in Nat /\ MaxChanges \in Nat /\ Builds \in Nat \ {0}
  /\ Branch \in Nat /\ Late \in Nat /\ Late < Branch /\ First \in Nat /\ Early \in Nat
  /\ Interrupts \subseteq 2 .. Timers

Node == 0 .. Timers
Dummy == 0
Prerender == 1

VARIABLES
  build,          \* which build runs
  timestamp, cycles_to_run, cycles,
  firsttimeout,
  node,           \* its handler's address, its time, the address of the next: odd if it is
                  \* not in the list
  next_frame_timestamp,
  runs,           \* the handler that runs, by its address, or Executing, or Expired
  stored,         \* the saved list and next_frame_timestamp, or <<>>
  changes         \* how much was set, stopped, saved, loaded and started

timeoutVars ==
  <<build, timestamp, cycles_to_run, cycles, firsttimeout, node, next_frame_timestamp, runs,
    stored, changes>>

Null == 0
Executing == -1   \* an instruction runs
Expired == -2     \* the countdown ran out: timeout_handler is jumped to

\* TimeoutState: where a build keeps the list, and where its handlers are.
Base(b) == 100 + 500 * b
NodeAt(n, b) == Base(b) + 4 + 12 * n
NodeOf(address, b) == (address - Base(b) - 4) \div 12

\* HandlersTable: a handler of each node, and a second one for the last.
HandlersTable == [i \in 1 .. Timers + 2 |-> i]
HandlersTableSize == Timers + 4
HandlerAt(i, b) == 1000 * (b + 1) + 8 * i

\* The handlers a node may be given.
HandlersOf(n) == IF n = Timers THEN {n + 1, n + 2} ELSE {n + 1}

Queued(nodes, n) == nodes[n].next % 2 = 0

\* The nodes' state, and the time, as one value that the routines take and leave.
Live == [time |-> timestamp, run |-> cycles_to_run, left |-> cycles, first |-> firsttimeout,
         node |-> node]
Becomes(q) ==
  /\ timestamp' = q.time /\ cycles_to_run' = q.run /\ cycles' = q.left
  /\ firsttimeout' = q.first /\ node' = q.node

TimeNow(q) == q.time + q.run - q.left
Of(address) == NodeOf(address, build)
AddressOf(n) == NodeAt(n, build)

-----------------------------------------------------------------------------
(* The list.                                                                *)

\* install_timeout: before the first node.  The time is brought up to date.
ReplaceFirst(q, n, due) ==
  LET sooner == due - q.time - q.run
  IN  [q EXCEPT !.time = TimeNow(q), !.run = sooner + q.left, !.left = q.left + sooner,
                !.node[n].next = q.first, !.first = AddressOf(n)]

\* The list from the first node on, as addresses: Null behind its end.
Along(q) ==
  LET at[k \in Node] == IF k = 0 THEN q.first
                        ELSE IF at[k - 1] = Null THEN Null ELSE q.node[Of(at[k - 1])].next
  IN  at

\* install_timeout: behind the nodes that are due no later, but never in front.
InsertLater(q, n, due) ==
  LET at == Along(q)
      Stops(next) == next = Null \/ due - q.time < q.node[Of(next)].due - q.time
      stops == {k \in Node : at[k] # Null /\ Stops(q.node[Of(at[k])].next)}
      before == Of(at[CHOOSE j \in stops : \A k \in stops : j <= k])
  IN  [q EXCEPT !.node[n].next = q.node[before].next, !.node[before].next = AddressOf(n)]

install_timeout_2(q, n, handler, due) ==
  LET set == [q EXCEPT !.node[n].handler = handler, !.node[n].due = due]
  IN  IF due - q.time - q.run < 0 THEN ReplaceFirst(set, n, due) ELSE InsertLater(set, n, due)

\* The mutant forgets the countdown.
RemoveKeepingCount(q, n) ==
  [q EXCEPT !.first = q.node[n].next, !.node[n].next = q.node[n].next + 1]

\* r_t_remove_first_timeout: the countdown is set for the next.
RemoveHead(q, n) ==
  LET second == q.node[n].next
      left == q.node[Of(second)].due - TimeNow(q)
  IN  [q EXCEPT !.time = TimeNow(q), !.first = second, !.node[n].next = second + 1,
                !.run = left, !.left = left]

remove_timeout_2(q, n) ==
  LET at == Along(q)
      before == Of(at[(CHOOSE k \in Node : at[k] = AddressOf(n)) - 1])
  IN  IF q.first = AddressOf(n) THEN RemoveHead(q, n)
      ELSE [q EXCEPT !.node[before].next = q.node[n].next, !.node[n].next = 1]

remove_timeout(q, n) == IF Queued(q.node, n) THEN remove_timeout_2(q, n) ELSE q

replace_timeout_2(q, n, handler, due) ==
  IF ~Queued(q.node, n) THEN install_timeout_2(q, n, handler, due)
  ELSE IF q.node[n].due = due THEN [q EXCEPT !.node[n].handler = handler]
  ELSE install_timeout_2(remove_timeout_2(q, n), n, handler, due)

\* timeout_handler, addcycles: the first node leaves the list, and its handler is called.
Pop(q, n) ==
  LET second == q.node[n].next
      left == q.left + q.node[Of(second)].due - q.node[n].due
  IN  [q EXCEPT !.time = TimeNow(q), !.run = left, !.left = left, !.first = second,
                !.node[n].next = 1]

-----------------------------------------------------------------------------
(* Saved states.                                                            *)

\* lookup_timeout: 0 and -1 are in the table before the handlers.
lookup_timeout(address, b) ==
  LET found == {i \in 1 .. Timers + 2 : HandlerAt(HandlersTable[i], b) = address}
  IN  CASE address = -1 -> 1
        [] found # {} -> 1 + CHOOSE i \in found : TRUE
        [] OTHER -> address

Relative(next, b) == IF next # Null /\ next % 2 = 0 THEN next - Base(b) ELSE next

encode_timeouts(q) ==
  [q EXCEPT !.first = Relative(q.first, build),
            !.node = [n \in Node |->
                        [q.node[n] EXCEPT !.handler = lookup_timeout(@, build),
                                          !.next = Relative(@, build)]]]

\* decode_timeouts: what does not point into the list becomes 0.
Absolute(next, b) ==
  LET address == next + Base(b)
  IN  IF next = Null \/ next % 2 = 1 THEN next
      ELSE IF address < Base(b) \/ address > NodeAt(Timers + 1, b) THEN Null ELSE address

HandlerOf(i, b) ==
  IF i < HandlersTableSize THEN IF i = 1 THEN -1 ELSE HandlerAt(HandlersTable[i - 1], b) ELSE i

decode_timeouts(q) ==
  [q EXCEPT !.first = Absolute(q.first, build),
            !.node = [n \in Node |->
                        [q.node[n] EXCEPT !.handler = HandlerOf(@, build),
                                          !.next = Absolute(@, build)]]]

-----------------------------------------------------------------------------
\* timeout_reset: the dummy alone.
timeout_reset(b) ==
  [time |-> 0, run |-> Far, left |-> Far, first |-> NodeAt(Dummy, b),
   node |-> [n \in Node |-> IF n = Dummy
                            THEN [handler |-> HandlerAt(1, b), due |-> Far, next |-> Null]
                            ELSE [handler |-> -1, due |-> -1, next |-> -1]]]

DummyRuns == runs = HandlerAt(1, build)
LineRuns == runs = HandlerAt(2, build)

\* line0 up to line0x, and what run was called from: the menu, quicksave, quickload.
InMenu == LineRuns /\ ~Queued(node, Prerender)

\* fetch: the next instruction, or timeout_handler.
NextUp(left) == IF left >= 0 THEN Executing ELSE Expired

Counted == changes < MaxChanges /\ changes' = changes + 1
KeepList == UNCHANGED <<timestamp, cycles_to_run, firsttimeout, node>>

TimeoutsInit ==
  /\ build = 0 /\ changes = 0 /\ stored = <<>>
  /\ runs = HandlerAt(2, 0) /\ next_frame_timestamp = -First
  /\ LET q == timeout_reset(0)
     IN  /\ timestamp = q.time /\ cycles_to_run = q.run /\ cycles = q.left
         /\ firsttimeout = q.first /\ node = q.node

Spends(k) == TimeNow(Live) + k <= MaxNow /\ cycles' = cycles - k

\* timeout_handler_branch_taken: an interrupt that comes in the last cycle of a taken
\* branch waits for another instruction.
Suppressed(branch) ==
  branch /\ cycles' >= -Late /\ Of(firsttimeout) \in Interrupts

\* An instruction, up to the fetch at its end: the processor looks at the countdown alone.
Instruction(k, branch) ==
  /\ runs = Executing /\ Spends(k) /\ (branch => k >= Branch)
  /\ runs' = IF Suppressed(branch) THEN Executing ELSE NextUp(cycles')
  /\ KeepList /\ UNCHANGED <<build, next_frame_timestamp, stored, changes>>

Timeout ==
  LET n == Of(firsttimeout)
  IN  /\ runs = Expired
      /\ Becomes(Pop(Live, n)) /\ runs' = node[n].handler
      /\ UNCHANGED <<build, next_frame_timestamp, stored, changes>>

\* queue_dummy_handler installs itself again.
Again ==
  /\ DummyRuns /\ ~Queued(node, Dummy)
  /\ Becomes(install_timeout_2(Live, Dummy, HandlerAt(1, build), node[Dummy].due + Far))
  /\ UNCHANGED <<build, next_frame_timestamp, runs, stored, changes>>

\* line0x: the frame begins, one cycle less after the last if the screen is on, and the
\* next is prepared.
line0x(skip) ==
  LET next == next_frame_timestamp - skip + Frame
  IN  /\ InMenu
      /\ next_frame_timestamp' = next
      /\ Becomes(install_timeout_2(Live, Prerender, HandlerAt(2, build), next - Early))
      /\ UNCHANGED <<build, runs, stored, changes>>

\* _GO: a handler returns, one of an interrupt after the cycles that this takes.
Return(k) ==
  /\ \E n \in Node : \E h \in HandlersOf(n) :
       runs = HandlerAt(h, build) /\ (k = 0 \/ n \in Interrupts)
  /\ ~InMenu /\ (DummyRuns => Queued(node, Dummy))
  /\ Spends(k) /\ runs' = NextUp(cycles')
  /\ KeepList /\ UNCHANGED <<build, next_frame_timestamp, stored, changes>>

\* A handler or an instruction sets a time-out, perhaps for a time that is past, or stops it.
MaySet(n) == runs # Expired /\ ~DummyRuns /\ ~InMenu /\ n \notin {Dummy, Prerender}

SetTimeout(n, h, due) ==
  /\ Counted /\ MaySet(n)
  /\ Becomes(replace_timeout_2(Live, n, HandlerAt(h, build), due))
  /\ UNCHANGED <<build, next_frame_timestamp, runs, stored>>

StopTimeout(n) ==
  /\ Counted /\ MaySet(n)
  /\ Becomes(remove_timeout(Live, n))
  /\ UNCHANGED <<build, next_frame_timestamp, runs, stored>>

\* The live list is encoded, dumped and decoded again.
SaveTimeouts ==
  /\ Counted /\ InMenu /\ stored = <<>>
  /\ stored' = <<encode_timeouts(Live), next_frame_timestamp>>
  /\ Becomes(decode_timeouts(encode_timeouts(Live)))
  /\ UNCHANGED <<build, next_frame_timestamp, runs>>

LoadTimeouts ==
  /\ Counted /\ InMenu /\ stored # <<>>
  /\ Becomes(decode_timeouts(stored[1])) /\ next_frame_timestamp' = stored[2]
  /\ UNCHANGED <<build, runs, stored>>

\* The console is switched off and a build started; run enters at line0x.
StartBuild(b) ==
  /\ Counted
  /\ stored # <<>> /\ build' = b /\ runs' = HandlerAt(2, b)
  /\ Becomes(timeout_reset(b)) /\ next_frame_timestamp' = -First
  /\ UNCHANGED stored

TimeoutsNext ==
  \/ \E k \in 1 .. Longest, branch \in BOOLEAN : Instruction(k, branch)
  \/ Timeout \/ Again
  \/ \E skip \in 0 .. 1 : line0x(skip)
  \/ \E k \in 0 .. Longest : Return(k)
  \/ \E n \in Node, ahead \in -1 .. Ahead :
       \E h \in HandlersOf(n) : SetTimeout(n, h, TimeNow(Live) + ahead)
  \/ \E n \in Node : StopTimeout(n)
  \/ SaveTimeouts \/ LoadTimeouts
  \/ \E b \in 0 .. Builds - 1 : StartBuild(b)

TimeoutsSpec == TimeoutsInit /\ [][TimeoutsNext]_timeoutVars

-----------------------------------------------------------------------------
\* The alarm a node stands for; only an address of the build that runs calls a handler.
AlarmOf(n, handler) ==
  IF Queued(node, n)
  THEN [due |-> node[n].due,
        by |-> IF \E i \in 1 .. Timers + 2 : handler = HandlerAt(i, build)
               THEN CHOOSE i \in 1 .. Timers + 2 : handler = HandlerAt(i, build) ELSE 0]
  ELSE [due |-> -1, by |-> 0]

KeptAlarm(q, n) ==
  IF Queued(q.node, n) THEN [due |-> q.node[n].due, by |-> q.node[n].handler - 1]
  ELSE [due |-> -1, by |-> 0]

AlarmsSet == [n \in Node |-> AlarmOf(n, node[n].handler)]

RunningNow ==
  CASE runs = Executing -> 0
    [] runs = Expired -> -1
    [] OTHER -> CHOOSE i \in 1 .. Timers + 2 : runs = HandlerAt(i, build)

AlarmsKept ==
  IF stored = <<>> THEN [due |-> -1, by |-> 0]
  ELSE [now |-> TimeNow(stored[1]), alarm |-> [n \in Node |-> KeptAlarm(stored[1], n)]]

Alarms ==
  INSTANCE Alarms WITH
    Alarm <- Node, Handler <- 1 .. Timers + 2, Off <- [due |-> -1, by |-> 0],
    Interrupt <- Interrupts, Program <- 0, Nobody <- -1,
    now <- TimeNow(Live), alarm <- AlarmsSet, running <- RunningNow, kept <- AlarmsKept

\* timeout.s: whatever is set, moved and stopped, and after a saved state was loaded by
\* whatever build, no instruction begins after a time-out is due except one after a branch,
\* when the time-out is an interrupt; time-outs are called in the order of their times, none
\* is lost, and time does not jump.
AlarmsRing ==
  /\ Alarms!AlarmInit
  /\ [][UNCHANGED timeoutVars \/ Alarms!AlarmNext \/ UNCHANGED Alarms!alarmVars]_timeoutVars
=============================================================================
