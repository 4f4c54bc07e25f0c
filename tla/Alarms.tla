--------------------------------- MODULE Alarms --------------------------------
(***************************************************************************)
(* What PocketNES's time-outs promise (emulators/pocketnes/src/timeout.s):   *)
(* each of some alarms is off or set to a time with the handler to call; no  *)
(* instruction begins when one is overdue, and of those that are overdue the *)
(* earliest is called first and is off then.  An alarm that is an interrupt  *)
(* and came during an instruction may wait for the end of the next one, as   *)
(* on a 6502 after a branch.  A saved state keeps all alarms.                *)
(***************************************************************************)
EXTENDS Integers

CONSTANTS Alarm, Interrupt, Handler, Off, Program, Nobody

VARIABLES
  now,      \* the processor's time
  alarm,    \* Off, or when to call whom
  running,  \* a handler, Program: instructions are executed, or Nobody: a handler is to be called
  kept      \* the saved time and alarms, or Off

alarmVars == <<now, alarm, running, kept>>

IsSet(a) == alarm[a] # Off
NoneOverdue(time) == \A a \in Alarm : IsSet(a) => alarm[a].due >= time
Earliest(a) == IsSet(a) /\ \A b \in Alarm : IsSet(b) => alarm[b].due >= alarm[a].due

AlarmInit ==
  /\ now = 0 /\ running \in Handler /\ kept = Off
  /\ alarm \in [Alarm -> [due : Int, by : Handler] \cup {Off}]

\* An instruction, after which the next one begins or a handler is called.
Execute ==
  /\ running = Program /\ now' > now
  /\ \/ running' = Program
        /\ \/ NoneOverdue(now')
           \/ \E a \in Interrupt : Earliest(a) /\ alarm[a].due >= now
     \/ running' = Nobody /\ ~NoneOverdue(now')
  /\ UNCHANGED <<alarm, kept>>

Ring(a) ==
  /\ running = Nobody /\ Earliest(a) /\ alarm[a].due < now
  /\ running' = alarm[a].by /\ alarm' = [alarm EXCEPT ![a] = Off]
  /\ UNCHANGED <<now, kept>>

Return ==
  /\ running \in Handler /\ now' >= now
  /\ running' = IF NoneOverdue(now') THEN Program ELSE Nobody
  /\ UNCHANGED <<alarm, kept>>

Change(a) ==
  /\ running # Nobody
  /\ alarm'[a] \in [due : Int, by : Handler] \cup {Off}
  /\ alarm' = [alarm EXCEPT ![a] = alarm'[a]]
  /\ UNCHANGED <<now, running, kept>>

Keep ==
  /\ running \in Handler
  /\ kept' = [now |-> now, alarm |-> alarm]
  /\ UNCHANGED <<now, alarm, running>>

Restore ==
  /\ running \in Handler /\ kept # Off
  /\ now' = kept.now /\ alarm' = kept.alarm
  /\ UNCHANGED <<running, kept>>

\* The emulator starts again, perhaps another build of it.
Begin == now' = 0 /\ running' \in Handler /\ UNCHANGED kept

AlarmNext ==
  \/ Execute \/ Return
  \/ \E a \in Alarm : Ring(a) \/ Change(a)
  \/ Keep \/ Restore \/ Begin

AlarmSpec == AlarmInit /\ [][AlarmNext]_alarmVars
=============================================================================
