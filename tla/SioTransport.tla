----------------------------- MODULE SioTransport -----------------------------
(***************************************************************************)
(* The GBA side of the link (gba/sdk/src/gba_sio_transport.c on top of     *)
(* gba/runtime/src/sio.c): a foreground that exchanges single words or     *)
(* whole payloads, the serial interrupt, and the MCU that clocks the port. *)
(*                                                                         *)
(* An action is what runs between two instants at which an interrupt or a  *)
(* word of the MCU can matter.  The interrupt handler is atomic (it runs   *)
(* with interrupts off) and preempts the foreground; while the foreground  *)
(* holds IME at 0 it stays pending.                                        *)
(*                                                                         *)
(* A word is told apart by what it is for; of a payload the model knows    *)
(* the number of words, a partial last word included.                      *)
(***************************************************************************)
EXTENDS Naturals, Sequences

CONSTANTS
  Word,        \* words the MCU sends
  Idle,        \* idle_word, what a port with nothing to say sends
  Out,         \* the argument of xfer32; word i of a payload is the number i
  MaxWords,    \* longest payload, in words
  MaxHeard     \* bound: words the MCU clocks during one call

ASSUME SioAssumption ==
  /\ Word # {} /\ MaxWords \in Nat \ {0} /\ MaxHeard \in Nat
  /\ Idle # Out /\ Idle \notin Word /\ Out \notin Word

VARIABLES
  \* The port.
  sio,         \* SIODATA32: the word to be sent, after an exchange the one received
  armed,       \* the START bit: the port takes part in the next exchange
  pending,     \* the serial interrupt is requested
  ime,         \* interrupts are on
  vector,      \* the serial interrupt's handler: dispatch or one of the fast ones
  \* The transport.
  waiting, done, inWord,             \* xfer32
  rearm,                             \* g_sio_irq_rearm
  fast, fastDone, fastOffset, buf,   \* g_fast_transport, fast_done, fast_offset, fast_rx_dst
  timeoutTicks,                      \* timeout_ticks is not 0
  \* The foreground.
  pc,
  call,        \* the call under way or just ended: xfer32, or rx or tx of n words
  result,      \* what it returned
  \* History.
  heard,       \* the words the MCU has received during this call
  told,        \* the words the MCU has sent during this call
  fastLost     \* some payload call has timed out

portVars == <<sio, armed, pending, ime, vector>>
wordVars == <<waiting, done, inWord>>
fastVars == <<fast, fastDone, fastOffset, buf>>
historyVars == <<heard, told, fastLost>>
vars == <<portVars, wordVars, rearm, fastVars, timeoutTicks, pc, call, result, historyVars>>

\* The words the GBA sends.
OutWord == {Idle, Out} \cup (1 .. MaxWords)
Call == [kind : {"xfer", "rx", "tx"}, n : 1 .. MaxWords]

Stages == {"idle", "data", "start", "x.wait", "x.rearm", "x.loop", "x.expired",
           "x.giveup", "x.disarm",
           "f.lock", "f.setup", "f.unlock", "f.loop",
           "f.expired", "f.restore", "f.return"}

TypeOK ==
  /\ sio \in OutWord \cup Word /\ armed \in BOOLEAN /\ pending \in BOOLEAN
  /\ ime \in BOOLEAN /\ vector \in {"dispatch", "rx", "tx"}
  /\ waiting \in BOOLEAN /\ done \in BOOLEAN /\ inWord \in OutWord \cup Word
  /\ rearm \in BOOLEAN
  /\ fast \in BOOLEAN /\ fastDone \in BOOLEAN /\ fastOffset \in 0 .. MaxWords + 1
  /\ buf \in Seq(OutWord \cup Word)
  /\ timeoutTicks \in BOOLEAN
  /\ pc \in Stages /\ call \in Call /\ result \in {"none", "ok", "timeout"}
  /\ heard \in Seq(OutWord \cup Word) /\ told \in Seq(Word)
  /\ fastLost \in BOOLEAN

\* After cl_gba_sio_transport_install.
Init ==
  /\ sio = Idle /\ armed = FALSE /\ pending = FALSE
  /\ ime = TRUE /\ vector = "dispatch"
  /\ waiting = FALSE /\ done = FALSE /\ inWord = Idle
  /\ rearm = TRUE
  /\ fast = FALSE /\ fastDone = FALSE /\ fastOffset = 0 /\ buf = <<>>
  /\ timeoutTicks \in BOOLEAN
  /\ pc = "idle" /\ call = [kind |-> "xfer", n |-> 1] /\ result = "none"
  /\ heard = <<>> /\ told = <<>> /\ fastLost = FALSE

-----------------------------------------------------------------------------
(* The port.                                                               *)

\* cl_gba_sio_send32 and fast_disarm_idle, where nothing can come in between.
Send(w) == sio' = w /\ armed' = TRUE
Disarm(w) == sio' = w /\ armed' = FALSE

\* The MCU clocks a word in and out of an armed port.
Exchange(w) ==
  /\ armed /\ Len(heard) < MaxHeard
  /\ heard' = Append(heard, sio)
  /\ told' = Append(told, w)
  /\ sio' = w
  /\ armed' = FALSE
  /\ pending' = TRUE
  /\ UNCHANGED <<ime, vector, wordVars, rearm, fastVars, timeoutTicks, pc, call,
                 result, fastLost>>

Interrupted == pending /\ ime

\* cl_gba_sio_irq_dispatch with cl_gba_sio_transport_irq_word on top.
Dispatch ==
  /\ Interrupted /\ vector = "dispatch"
  /\ pending' = FALSE
  /\ IF waiting
     THEN /\ inWord' = sio /\ done' = TRUE /\ waiting' = FALSE
          /\ rearm' = FALSE
          /\ Disarm(Idle)
     ELSE /\ rearm' = TRUE
          /\ Send(Idle)
          /\ UNCHANGED wordVars
  /\ UNCHANGED <<ime, vector, fastVars, timeoutTicks, pc, call, result, historyVars>>

\* fast_finish_irq
FastFinish == Disarm(Idle) /\ fastDone' = TRUE

\* fast_rx_irq
ReceiveNext ==
  /\ Interrupted /\ vector = "rx"
  /\ pending' = FALSE
  /\ IF fast
     THEN /\ fastOffset' = fastOffset + 1
          /\ buf' = IF fastOffset < call.n THEN Append(buf, sio) ELSE buf
          /\ IF fastOffset + 1 >= call.n THEN FastFinish
                                        ELSE Send(Idle) /\ UNCHANGED fastDone
     ELSE Disarm(Idle) /\ UNCHANGED <<fastDone, fastOffset, buf>>
  /\ UNCHANGED <<ime, vector, wordVars, rearm, fast, timeoutTicks, pc, call, result,
                 historyVars>>

\* fast_tx_irq, fast_window_tx_irq
SendNext ==
  /\ Interrupted /\ vector = "tx"
  /\ pending' = FALSE
  /\ IF fast /\ fastOffset < call.n
     THEN /\ fastOffset' = fastOffset + 1
          /\ Send(fastOffset + 1)
          /\ UNCHANGED fastDone
     ELSE /\ UNCHANGED fastOffset
          /\ IF fast THEN FastFinish ELSE Disarm(Idle) /\ UNCHANGED fastDone
  /\ UNCHANGED <<ime, vector, wordVars, rearm, fast, buf, timeoutTicks, pc, call,
                 result, historyVars>>

Irq == Dispatch \/ ReceiveNext \/ SendNext

-----------------------------------------------------------------------------
(* The foreground: no step of it is taken while an interrupt is due.         *)

At(stage) == pc = stage /\ ~Interrupted
Go(stage) == pc' = stage

\* cl_gba_sio_send32 outside of a handler: the word, then START.
FirstWord == CASE call.kind = "xfer" -> Out
               [] call.kind = "rx" -> Idle
               [] call.kind = "tx" -> 1

SendData ==
  /\ At("data")
  /\ Go("start")
  /\ sio' = FirstWord
  /\ UNCHANGED <<armed, pending, ime, vector, wordVars, rearm, fastVars, timeoutTicks,
                 call, result, historyVars>>

SendStart ==
  /\ At("start")
  /\ Go(CASE call.kind = "xfer" -> "x.loop"
          [] call.kind = "rx" -> "f.loop"
          [] call.kind = "tx" -> "f.unlock")
  /\ armed' = TRUE
  /\ UNCHANGED <<sio, pending, ime, vector, wordVars, rearm, fastVars, timeoutTicks,
                 call, result, historyVars>>

-----------------------------------------------------------------------------
(* cl_gba_sio_transport_xfer32.                                              *)

Xfer ==
  /\ At("idle")
  /\ Go("x.wait")
  /\ call' = [kind |-> "xfer", n |-> 1]
  /\ result' = "none"
  /\ done' = FALSE
  /\ heard' = <<>> /\ told' = <<>>
  /\ UNCHANGED <<portVars, waiting, inWord, rearm, fastVars, timeoutTicks, fastLost>>

\* Mutant of XferWaiting: waiting is left to the next statement's side effect.
XferNotWaiting ==
  /\ At("x.wait")
  /\ Go("x.rearm")
  /\ UNCHANGED <<portVars, wordVars, rearm, fastVars, timeoutTicks, call,
                 result, historyVars>>

XferWaiting ==
  /\ At("x.wait")
  /\ Go("x.rearm")
  /\ waiting' = TRUE
  /\ UNCHANGED <<portVars, done, inWord, rearm, fastVars, timeoutTicks, call,
                 result, historyVars>>

XferRearm ==
  /\ At("x.rearm")
  /\ Go("data")
  /\ rearm' = TRUE
  /\ UNCHANGED <<portVars, wordVars, fastVars, timeoutTicks, call, result, historyVars>>

XferDone ==
  /\ At("x.loop") /\ done
  /\ Go("idle")
  /\ result' = "ok"
  /\ UNCHANGED <<portVars, wordVars, rearm, fastVars, timeoutTicks, call, historyVars>>

\* done was 0 when it was looked at, and the time is up.
XferTimeout ==
  /\ At("x.loop") /\ ~done /\ timeoutTicks
  /\ Go("x.expired")
  /\ UNCHANGED <<portVars, wordVars, rearm, fastVars, timeoutTicks, call, result,
                 historyVars>>

XferExpired ==
  /\ At("x.expired")
  /\ Go("x.giveup")
  /\ waiting' = FALSE
  /\ UNCHANGED <<portVars, done, inWord, rearm, fastVars, timeoutTicks, call, result,
                 historyVars>>

XferGiveUp ==
  /\ At("x.giveup")
  /\ Go("x.disarm")
  /\ rearm' = FALSE
  /\ UNCHANGED <<portVars, wordVars, fastVars, timeoutTicks, call, result, historyVars>>

\* cl_gba_sio_disarm; the mutant forgets it.
XferLeaveArmed ==
  /\ At("x.disarm")
  /\ Go("idle")
  /\ result' = "timeout"
  /\ UNCHANGED <<portVars, wordVars, rearm, fastVars, timeoutTicks, call, historyVars>>

XferDisarm ==
  /\ At("x.disarm")
  /\ Go("idle")
  /\ armed' = FALSE
  /\ result' = "timeout"
  /\ UNCHANGED <<sio, pending, ime, vector, wordVars, rearm, fastVars, timeoutTicks,
                 call, historyVars>>

-----------------------------------------------------------------------------
(* The payload calls: read_payload and read_payload_writer receive,          *)
(* write_payload and write_window_payload send.                              *)

Payload(kind, n) ==
  /\ At("idle")
  /\ Go("f.lock")
  /\ call' = [kind |-> kind, n |-> n]
  /\ result' = "none"
  /\ heard' = <<>> /\ told' = <<>>
  /\ UNCHANGED <<portVars, wordVars, rearm, fastVars, timeoutTicks, fastLost>>

PayloadLock ==
  /\ At("f.lock")
  /\ Go("f.setup")
  /\ ime' = FALSE
  /\ UNCHANGED <<sio, armed, pending, vector, wordVars, rearm, fastVars, timeoutTicks,
                 call, result, historyVars>>

\* fast_offset before the first interrupt: a call that sends has sent a word.
FirstOffset == IF call.kind = "rx" THEN 0 ELSE 1

\* With interrupts off; a call that sends puts its first word out here already.
PayloadSetup ==
  /\ At("f.setup")
  /\ Go(IF call.kind = "rx" THEN "f.unlock" ELSE "data")
  /\ fast' = TRUE /\ fastDone' = FALSE /\ buf' = <<>>
  /\ fastOffset' = FirstOffset
  /\ vector' = call.kind
  /\ UNCHANGED <<sio, armed, pending, ime, wordVars, rearm, timeoutTicks, call, result,
                 historyVars>>

PayloadUnlock ==
  /\ At("f.unlock")
  /\ Go(IF call.kind = "rx" THEN "data" ELSE "f.loop")
  /\ ime' = TRUE
  /\ UNCHANGED <<sio, armed, pending, vector, wordVars, rearm, fastVars, timeoutTicks,
                 call, result, historyVars>>

\* fast_wait: either way out of the loop takes the lock.
PayloadDone ==
  /\ At("f.loop") /\ fastDone
  /\ Go("f.restore")
  /\ ime' = FALSE
  /\ result' = "ok"
  /\ UNCHANGED <<sio, armed, pending, vector, wordVars, rearm, fastVars, timeoutTicks,
                 call, historyVars>>

PayloadTimeout ==
  /\ At("f.loop") /\ ~fastDone /\ timeoutTicks
  /\ Go("f.expired")
  /\ UNCHANGED <<portVars, wordVars, rearm, fastVars, timeoutTicks, call, result,
                 historyVars>>

PayloadExpired ==
  /\ At("f.expired")
  /\ Go("f.restore")
  /\ ime' = FALSE
  /\ result' = "timeout"
  /\ fastLost' = TRUE
  /\ UNCHANGED <<sio, armed, pending, vector, wordVars, rearm, fastVars, timeoutTicks,
                 call, heard, told>>

\* Mutant of FastRestore: the time-out path returns without it.
FastRestoreOnce ==
  IF result = "ok" THEN vector' = "dispatch" /\ fast' = FALSE
                   ELSE UNCHANGED <<vector, fast>>

\* fast_restore_dispatch
FastRestore == vector' = "dispatch" /\ fast' = FALSE

PayloadRestore ==
  /\ At("f.restore")
  /\ Go("f.return")
  /\ FastRestore
  /\ Disarm(Idle)
  /\ UNCHANGED <<pending, ime, wordVars, rearm, fastDone, fastOffset, buf, timeoutTicks,
                 call, result, historyVars>>

PayloadReturn ==
  /\ At("f.return")
  /\ Go("idle")
  /\ ime' = TRUE
  /\ UNCHANGED <<sio, armed, pending, vector, wordVars, rearm, fastVars, timeoutTicks,
                 call, result, historyVars>>

-----------------------------------------------------------------------------
Running ==
  \/ SendData \/ SendStart
  \/ XferWaiting \/ XferRearm \/ XferDone
  \/ XferTimeout \/ XferExpired \/ XferGiveUp \/ XferDisarm
  \/ PayloadLock \/ PayloadSetup \/ PayloadUnlock
  \/ PayloadDone \/ PayloadTimeout \/ PayloadExpired \/ PayloadRestore \/ PayloadReturn

Next ==
  \/ \E w \in Word : Exchange(w)
  \/ Irq
  \/ Xfer
  \/ \E kind \in {"rx", "tx"}, n \in 1 .. MaxWords : Payload(kind, n)
  \/ Running

\* The CPU runs on while the MCU clocks a word (SF: an interrupt may come in
\* between again and again); a due interrupt is taken; the MCU clocks an armed
\* port.
Fairness ==
  /\ SF_vars(Running)
  /\ WF_vars(Irq)
  /\ WF_vars(\E w \in Word : Exchange(w))

Spec == Init /\ [][Next]_vars /\ Fairness

-----------------------------------------------------------------------------
(* Properties.                                                             *)

\* What the foreground gave to the port and got from it in a call that returned
\* success is what the MCU received and sent in that call, word for word.
Exact ==
  CASE call.kind = "xfer" -> heard = <<Out>> /\ told = <<inWord>>
    [] call.kind = "rx"   -> heard = [i \in 1 .. call.n |-> Idle] /\ buf = told
    [] call.kind = "tx"   -> heard = [i \in 1 .. call.n |-> i]

\* As long as no payload call has timed out, every call that succeeds exchanged
\* exactly its words, whatever xfer32 calls timed out before (lines 330-344,
\* 406-428, 96-195).
ExactUntilLost == pc = "idle" /\ result = "ok" /\ ~fastLost => Exact

\* gba_sio_transport.h:97: xfer32 sends out_word, waits for the IRQ response
\* and returns the received word: whatever timed out before.
XferExact == pc = "idle" /\ call.kind = "xfer" /\ result = "ok" => Exact

\* A call that returns exchanged exactly its words (as above), and, in time or not, leaves
\* interrupts on, the vector with the dispatcher and nobody waiting (lines 81-86, 176-195,
\* 412-428).  Until a payload call has timed out it also leaves the port disarmed, with no
\* interrupt due.
Restored ==
  /\ ExactUntilLost
  /\ pc = "idle" =>
       /\ ime /\ vector = "dispatch" /\ ~fast /\ ~waiting
       /\ armed \/ pending => fastLost

\* A late interrupt never writes to the buffer of a call that has returned, nor
\* beyond its end (lines 96-124).
BufferSafe ==
  [][buf' # buf => pc \in {"f.setup", "data", "start", "f.loop", "f.expired"} /\ Len(buf') <= call.n]_vars

\* With an MCU that keeps clocking, every call returns, also with no timeout set:
\* no completion is missed between the interrupt and the loop (lines 406-428,
\* 176-195).
CallReturns == pc # "idle" ~> pc = "idle"
=============================================================================
