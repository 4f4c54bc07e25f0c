------------------------------ MODULE GoombaSave ------------------------------
(***************************************************************************)
(* What Goomba Color keeps on the MCU's card: the battery RAM of the game,   *)
(* written in the background page by page (emulators/goombacolor/src/       *)
(* memory.s, sram.c, chislink_bridge.c), and saved states, written and read *)
(* in three parts.  The console may be switched off at any time, and every   *)
(* request may fail, having done its work, none of it or a part.            *)
(*                                                                          *)
(* Two games whose files have the same name in different directories share  *)
(* the files of their states, not that of their battery RAM.  A part of a   *)
(* state's file carries the moment it was taken: the game, its state and    *)
(* its battery RAM.                                                         *)
(***************************************************************************)
EXTENDS Naturals, Sequences, FiniteSets

CONSTANTS
  Games,      \* games with the same file name
  RamPages,   \* pages of 1 KiB of battery RAM
  IdleFrames, \* frames without a write before one page is written
  RamValues,  \* what a page may hold
  GameStates, \* bound on the game's states
  MaxSaved,   \* bound on the states begun to be saved
  MaxTrouble, \* bound on the failures
  Fresh,      \* what a page holds that was never written
  Broken      \* what it holds when it was written in part

ASSUME GoombaSaveAssumption ==
  /\ RamPages \in Nat \ {0} /\ IdleFrames \in Nat /\ GameStates \in Nat \ {0}
  /\ MaxSaved \in Nat /\ MaxTrouble \in Nat
  /\ Fresh \notin RamValues /\ Broken \notin RamValues /\ Fresh # Broken

VARIABLES
  game, state,       \* the game that runs, and how far it has come
  ram,               \* XGB_SRAM
  dirty, idle,       \* chislink_save_dirty_mask, chislink_save_idle_frames
  ready,             \* chislink_save_ready
  battery,           \* on the card: the battery RAM of each game
  slot,              \* on the card: the parts of the saved state
  task,              \* the state being saved or loaded: parts done, moment, good so far
  moments,           \* the moments that were begun to be saved
  replaced,          \* the battery RAM was replaced by a state's
  trouble            \* how many requests failed

goombaVars == <<game, state, ram, dirty, idle, ready, battery, slot, task, moments,
                replaced, trouble>>

RamPage == 0 .. RamPages - 1
BatteryRam == [RamPage -> RamValues \cup {Fresh, Broken}]
Moment == [game : Games, state : 0 .. GameStates, ram : BatteryRam]
Part == [kind : {"header", "state", "ram"}, of : Moment] \cup {[kind |-> "torn"]}
Layout == <<"header", "state", "ram">>
NoTask == [kind |-> "none", done |-> 0, of |-> [game |-> game], ok |-> FALSE]
Playing == task.kind = "none"
Now == [game |-> game, state |-> state, ram |-> ram]

GoombaTypeOK ==
  /\ game \in Games /\ state \in 0 .. GameStates /\ ram \in BatteryRam
  /\ dirty \subseteq RamPage /\ idle \in 0 .. IdleFrames /\ ready \in BOOLEAN
  /\ battery \in [Games -> BatteryRam]
  /\ slot \in Seq(Part) /\ Len(slot) <= 3
  /\ task.kind \in {"none", "save", "load"} /\ task.done \in 0 .. 3 /\ task.ok \in BOOLEAN
  /\ moments \subseteq Moment /\ replaced \in BOOLEAN /\ trouble \in 0 .. MaxTrouble

Trouble == trouble < MaxTrouble /\ trouble' = trouble + 1
Fine == UNCHANGED trouble

-----------------------------------------------------------------------------
(* get_saved_sram, when a game starts: its file may be shorter than the     *)
(* RAM, or missing.                                                         *)

Starts(g) ==
  /\ game' = g /\ state' = 0 /\ dirty' = {} /\ idle' = 0 /\ replaced' = FALSE
  /\ task' = [NoTask EXCEPT !.of = [game |-> g]]
  /\ \/ ram' = battery[g] /\ ready' = TRUE /\ Fine
     \/ Trouble /\ ready' = FALSE
        /\ ram' \in {[p \in RamPage |-> IF p < n THEN battery[g][p] ELSE Fresh]
                       : n \in 0 .. RamPages}

\* The console is switched off, at any time, and on again.
Restart(g) == Starts(g) /\ UNCHANGED <<battery, slot, moments>>

\* The game goes on, and writes its battery RAM (sram_W).
Play ==
  /\ Playing /\ state < GameStates /\ state' = state + 1
  /\ UNCHANGED <<game, ram, dirty, idle, ready, battery, slot, task, moments, replaced, trouble>>

WriteRam(p, v) ==
  /\ Playing /\ ram[p] # v
  /\ ram' = [ram EXCEPT ![p] = v] /\ dirty' = dirty \cup {p} /\ idle' = 0
  /\ UNCHANGED <<game, state, ready, battery, slot, task, moments, replaced, trouble>>

-----------------------------------------------------------------------------
(* chislink_save_poll, once in a frame                                      *)

Waits ==
  /\ Playing /\ ready /\ dirty # {} /\ idle < IdleFrames
  /\ idle' = idle + 1
  /\ UNCHANGED <<game, state, ram, dirty, ready, battery, slot, task, moments, replaced, trouble>>

\* What the mask is after a page was written, or not; the mutant clears it anyway.
MarkCleared(p, written) == dirty' = dirty \ {p} /\ idle' = IF written THEN idle ELSE 0
MarkAfter(p, written) ==
  IF written THEN dirty' = dirty \ {p} /\ UNCHANGED idle ELSE idle' = 0 /\ UNCHANGED dirty

\* chislink_bridge_save_write: seek, write, flush
WritesBack ==
  /\ Playing /\ ready /\ dirty # {} /\ idle = IdleFrames
  /\ \E p \in dirty :
       /\ \A d \in dirty : p <= d
       /\ \/ /\ battery' = [battery EXCEPT ![game][p] = ram[p]] /\ Fine
             /\ MarkAfter(p, TRUE)
          \/ /\ Trouble
             /\ \E v \in {battery[game][p], Broken, ram[p]} :
                  battery' = [battery EXCEPT ![game][p] = v]
             /\ MarkAfter(p, FALSE)
  /\ UNCHANGED <<game, state, ram, ready, slot, task, moments, replaced>>

-----------------------------------------------------------------------------
(* chislink_save_state_slot                                                 *)

\* chislink_bridge_state_open for writing: the file is truncated; the mutant does not.
Overwritten == slot
Truncated == <<>>

SaveBegins ==
  /\ Playing /\ Cardinality(moments) < MaxSaved
  /\ moments' = moments \cup {Now}
  /\ \/ slot' = Truncated /\ Fine /\ task' = [kind |-> "save", done |-> 0, of |-> Now, ok |-> TRUE]
     \/ Trouble /\ slot' \in {slot, Truncated} /\ UNCHANGED task
  /\ UNCHANGED <<game, state, ram, dirty, idle, ready, battery, replaced>>

\* The file with the next part in its place.
With(part) ==
  [i \in 1 .. (IF task.done < Len(slot) THEN Len(slot) ELSE task.done + 1) |->
     IF i = task.done + 1 THEN part ELSE slot[i]]
ThisPart == [kind |-> Layout[task.done + 1], of |-> task.of]

\* chislink_bridge_state_write; after a failure no more is written.
SavePart ==
  /\ task.kind = "save" /\ task.ok /\ task.done < 3
  /\ \/ Fine /\ slot' = With(ThisPart) /\ task' = [task EXCEPT !.done = @ + 1]
     \/ Trouble /\ slot' \in {slot, With([kind |-> "torn"]), With(ThisPart)}
        /\ task' = [task EXCEPT !.ok = FALSE]
  /\ UNCHANGED <<game, state, ram, dirty, idle, ready, battery, moments, replaced>>

\* chislink_bridge_state_close: flush and close, whatever happened before
SaveEnds ==
  /\ task.kind = "save" /\ (task.ok => task.done = 3)
  /\ task' = NoTask /\ (Fine \/ Trouble)
  /\ UNCHANGED <<game, state, ram, dirty, idle, ready, battery, slot, moments, replaced>>

-----------------------------------------------------------------------------
(* chislink_load_state_slot                                                 *)

LoadBegins ==
  /\ Playing /\ slot # <<>>
  /\ task' = [kind |-> "load", done |-> 0, of |-> [game |-> game], ok |-> TRUE]
  /\ UNCHANGED <<game, state, ram, dirty, idle, ready, battery, slot, moments, replaced, trouble>>

\* The header is of a state of this game, and the file as long as it says: a part that was
\* written in part is the last, and makes it shorter.
GoodHeader == slot[1].kind = "header" /\ slot[1].of.game = game
WholeFile == Len(slot) = 3 /\ \A i \in 2 .. 3 : slot[i].kind = Layout[i]

Half(m) == {[p \in RamPage |-> IF p < n THEN m[p] ELSE ram[p]] : n \in RamPage}

\* chislink_state_read_exact, of the header, the state and the battery RAM.  The state is
\* not applied yet; the RAM is read to where it belongs.
LoadPart ==
  LET i == task.done + 1
      good == i = 1 => GoodHeader /\ WholeFile
  IN  /\ task.kind = "load" /\ task.ok /\ i <= 3
      /\ \/ /\ good /\ Fine
            /\ task' = [task EXCEPT !.done = i, !.of = slot[i].of]
            /\ IF i = 3 THEN ram' = slot[3].of.ram /\ replaced' = TRUE
               ELSE UNCHANGED <<ram, replaced>>
         \/ /\ IF good THEN Trouble ELSE Fine
            /\ task' = [task EXCEPT !.ok = FALSE]
            /\ IF i = 3 THEN ram' \in Half(slot[3].of.ram) /\ replaced' = TRUE
               ELSE UNCHANGED <<ram, replaced>>
      /\ UNCHANGED <<game, state, dirty, idle, ready, battery, slot, moments>>

\* chislink_bridge_state_close, and LoadState only if all of it succeeded
LoadEnds ==
  /\ task.kind = "load" /\ (task.ok => task.done = 3)
  /\ \/ Fine /\ state' = IF task.ok THEN slot[2].of.state ELSE state
     \/ Trouble /\ UNCHANGED state
  /\ task' = NoTask
  /\ UNCHANGED <<game, ram, dirty, idle, ready, battery, slot, moments, replaced>>

\* chislink_remove_state_slot
Removes ==
  /\ Playing
  /\ \/ slot' = <<>> /\ Fine
     \/ Trouble /\ slot' \in {slot, <<>>}
  /\ UNCHANGED <<game, state, ram, dirty, idle, ready, battery, task, moments, replaced>>

-----------------------------------------------------------------------------
NeverWritten == [p \in RamPage |-> Fresh]

GoombaInit ==
  /\ game \in Games /\ state = 0 /\ ram = NeverWritten /\ dirty = {} /\ idle = 0
  /\ ready = TRUE /\ battery = [g \in Games |-> NeverWritten]
  /\ slot = <<>> /\ task = NoTask /\ moments = {} /\ replaced = FALSE /\ trouble = 0

GoombaNext ==
  \/ Play \/ Waits \/ WritesBack \/ SaveBegins \/ SavePart \/ SaveEnds
  \/ LoadBegins \/ LoadPart \/ LoadEnds \/ Removes
  \/ \E g \in Games : Restart(g)
  \/ \E p \in RamPage, v \in RamValues : WriteRam(p, v)

GoombaSpec == GoombaInit /\ [][GoombaNext]_goombaVars

-----------------------------------------------------------------------------
(* Properties.                                                              *)

\* memory.s:114-135, sram.c:239-271: what the game wrote in its battery RAM is on the card
\* or still to be written, whichever writes failed; until a state brings other RAM along.
NothingForgotten ==
  ready /\ ~replaced => \A p \in RamPage \ dirty : battery[game][p] = ram[p]

\* sram.c:68-132, chislink_bridge.c:395-451: a state that loads is one that this game was
\* in when it was saved, with the battery RAM of that moment; never parts of two, after
\* whatever failures, restarts and games of the same name.
LoadsAMoment == [][LoadEnds /\ task.ok /\ Fine => Now' \in moments]_goombaVars
=============================================================================
