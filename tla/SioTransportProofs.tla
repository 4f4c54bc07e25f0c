-------------------------- MODULE SioTransportProofs --------------------------
(***************************************************************************)
(* The SIO transport: types, whom the interrupt serves, and that a call     *)
(* that succeeds exchanged exactly its words, for payloads of any length.   *)
(***************************************************************************)
EXTENDS SioTransport, SequenceTheorems, TLAPS

\* The payload calls, from where their handler is installed until it is taken out.
InFast ==
  \/ pc \in {"f.unlock", "f.loop", "f.expired", "f.restore"}
  \/ pc \in {"data", "start"} /\ call.kind # "xfer"

\* Where the foreground holds IME at 0.
Locked ==
  \/ pc \in {"f.setup", "f.unlock", "f.restore", "f.return"}
  \/ pc \in {"data", "start"} /\ call.kind = "tx"

\* Where xfer32 waits, unless it has been answered.
InXfer ==
  \/ pc \in {"x.rearm", "x.loop", "x.expired"}
  \/ pc \in {"data", "start"} /\ call.kind = "xfer"

Quiet == ~armed /\ ~pending

\* Which handler, lock and flags go with which place of the foreground.
Control ==
  /\ ime <=> ~Locked
  /\ vector = IF InFast THEN call.kind ELSE "dispatch"
  /\ fast <=> InFast
  /\ waiting => InXfer /\ ~done
  /\ pc = "x.wait" => ~done
  /\ pc \in {"x.wait", "x.rearm", "x.loop", "x.expired", "x.giveup", "x.disarm"} =>
       call.kind = "xfer"
  /\ pc \in {"f.lock", "f.setup", "f.unlock", "f.loop", "f.expired", "f.restore", "f.return"} =>
       call.kind \in {"rx", "tx"}

\* How far the interrupt of a receiving call may get, also when words of an earlier call that
\* timed out come in: at most one word past the end.
Bounded ==
  /\ armed /\ pending => InFast /\ call.kind = "tx" /\ pc \notin {"data", "start"}
  /\ InFast /\ call.kind = "rx" =>
       /\ Len(buf) <= fastOffset /\ fastOffset <= call.n + 1
       /\ fastOffset >= call.n /\ pc \in {"f.unlock", "data", "start"} =>
            Quiet /\ fastOffset = call.n
       /\ fastOffset = call.n + 1 => Quiet

SafeInv == TypeOK /\ Control /\ Bounded

-----------------------------------------------------------------------------
(* What has been exchanged, as long as no payload call has timed out.        *)

Nothing == Quiet /\ heard = <<>> /\ told = <<>>
XferBegun == Nothing /\ waiting /\ ~done
PayloadBegun == Nothing /\ ~fastDone /\ fastOffset = FirstOffset /\ buf = <<>>

\* The word of xfer32 is on the port; it has been clocked; the interrupt has taken the answer.
XferUnderWay ==
  \/ armed /\ ~pending /\ waiting /\ ~done /\ sio = Out /\ heard = <<>> /\ told = <<>>
  \/ ~armed /\ pending /\ waiting /\ ~done /\ heard = <<Out>> /\ told = <<sio>>
  \/ Quiet /\ ~waiting /\ done /\ heard = <<Out>> /\ told = <<inWord>>

\* The same for the words of a receiving call, fastOffset of which have been taken.
RxUnderWay ==
  \/ /\ armed /\ ~pending /\ ~fastDone /\ sio = Idle /\ fastOffset < call.n
     /\ heard = [i \in 1 .. fastOffset |-> Idle] /\ told = buf /\ Len(buf) = fastOffset
  \/ /\ ~armed /\ pending /\ ~fastDone /\ fastOffset < call.n
     /\ heard = [i \in 1 .. fastOffset + 1 |-> Idle] /\ told = Append(buf, sio)
     /\ Len(buf) = fastOffset
  \/ /\ Quiet /\ fastDone
     /\ heard = [i \in 1 .. call.n |-> Idle] /\ told = buf

\* And for a sending call, which has put fastOffset words on the port.
TxUnderWay ==
  \/ /\ armed /\ ~pending /\ ~fastDone /\ sio = fastOffset /\ fastOffset \in 1 .. call.n
     /\ heard = [i \in 1 .. fastOffset - 1 |-> i]
  \/ /\ ~armed /\ pending /\ ~fastDone /\ fastOffset \in 1 .. call.n
     /\ heard = [i \in 1 .. fastOffset |-> i]
  \/ Quiet /\ fastDone /\ heard = [i \in 1 .. call.n |-> i]

Progress ==
  /\ pc = "idle" => Quiet /\ (result = "ok" => Exact)
  /\ pc = "x.wait" => Nothing /\ ~done
  /\ pc = "x.rearm" => XferBegun
  /\ pc \in {"f.lock", "f.setup"} => Nothing
  /\ pc \in {"data", "start"} => IF call.kind = "xfer" THEN XferBegun ELSE PayloadBegun
  /\ pc = "f.unlock" /\ call.kind = "rx" => PayloadBegun
  /\ pc = "start" => sio = FirstWord
  /\ pc \in {"x.loop", "x.expired"} => XferUnderWay
  /\ pc \in {"f.loop", "f.expired"} /\ call.kind = "rx" => RxUnderWay
  /\ pc \in {"f.unlock", "f.loop", "f.expired"} /\ call.kind = "tx" => TxUnderWay
  /\ pc \in {"f.restore", "f.return"} => Quiet /\ Exact

SioInv == SafeInv /\ (~fastLost => Progress)
-----------------------------------------------------------------------------
USE DEF vars, portVars, wordVars, fastVars, historyVars, At, Go

LEMMA WordsSent ==
  /\ {Idle, Out} \subseteq OutWord \cup Word /\ 1 .. MaxWords \subseteq OutWord \cup Word
  /\ <<>> \in Seq(OutWord \cup Word) /\ <<>> \in Seq(Word)
BY DEF OutWord

LEMMA Repeating ==
  ASSUME NEW k \in Nat, NEW v
  PROVE  Append([i \in 1 .. k |-> v], v) = [i \in 1 .. k + 1 |-> v]
<1> DEFINE s == [i \in 1 .. k |-> v]
<1>1. s \in Seq({v}) /\ Len(s) = k
  OBVIOUS
<1>2. Append(s, v) = [i \in 1 .. k + 1 |-> IF i <= k THEN s[i] ELSE v]
  BY <1>1
<1> QED
  BY <1>2

LEMMA Counting ==
  ASSUME NEW k \in Nat
  PROVE  Append([i \in 1 .. k |-> i], k + 1) = [i \in 1 .. k + 1 |-> i]
<1> DEFINE s == [i \in 1 .. k |-> i]
<1>1. s \in Seq(Nat) /\ Len(s) = k
  OBVIOUS
<1>2. Append(s, k + 1) = [i \in 1 .. k + 1 |-> IF i <= k THEN s[i] ELSE k + 1]
  BY <1>1
<1> QED
  BY <1>2

LEMMA One == ASSUME NEW S, NEW v \in S PROVE Append(<<>>, v) = <<v>>
  OBVIOUS

LEMMA SafeAtFirst == Init => SafeInv
<1> SUFFICES ASSUME Init PROVE SafeInv
  OBVIOUS
<1> USE SioAssumption DEF Init, SioAssumption
<1>1. TypeOK
  <2>1. armed \in BOOLEAN /\ pending \in BOOLEAN /\ ime \in BOOLEAN /\ waiting \in BOOLEAN
        /\ done \in BOOLEAN
    BY Zenon
  <2>2. rearm \in BOOLEAN /\ fast \in BOOLEAN /\ fastDone \in BOOLEAN /\ timeoutTicks \in BOOLEAN
        /\ fastLost \in BOOLEAN
    BY Zenon
  <2>3. pc \in Stages /\ call \in Call
    BY DEF Stages, Call
  <2> QED
    BY WordsSent, <2>1, <2>2, <2>3 DEF TypeOK
<1>2. Control
  BY DEF Control, InFast, Locked
<1>3. Bounded
  BY DEF Bounded, InFast
<1> QED
  BY <1>1, <1>2, <1>3 DEF SafeInv

LEMMA SafeStep == SafeInv /\ [Next]_vars => SafeInv'
<1> SUFFICES ASSUME SafeInv, [Next]_vars PROVE SafeInv'
  OBVIOUS
<1> USE SioAssumption DEF SafeInv, SioAssumption
<1>1. ASSUME SendData PROVE SafeInv'
  <2>1. TypeOK'
    BY <1>1, WordsSent, SMTT(30) DEF TypeOK, Call, Stages, SendData, FirstWord
  <2>2. Control'
    BY <1>1 DEF TypeOK, Control, InFast, Locked, InXfer, Interrupted, Call, SendData, FirstWord
  <2>3. Bounded'
    BY <1>1 DEF TypeOK, Control, Bounded, InFast, Locked, InXfer, Quiet, Interrupted, Call,
      SendData, FirstWord
  <2> QED
    BY <2>1, <2>2, <2>3
<1>2. ASSUME SendStart PROVE SafeInv'
  <2>1. TypeOK'
    BY <1>2, WordsSent DEF TypeOK, Call, Stages, SendStart
  <2>2. Control'
    BY <1>2 DEF TypeOK, Control, InFast, Locked, InXfer, Interrupted, Call, SendStart
  <2>3. Bounded'
    BY <1>2 DEF TypeOK, Control, Bounded, InFast, Locked, InXfer, Quiet, Interrupted, Call,
      SendStart
  <2> QED
    BY <2>1, <2>2, <2>3
<1>3. ASSUME XferWaiting PROVE SafeInv'
  <2>1. TypeOK'
    BY <1>3, WordsSent DEF TypeOK, Call, Stages, XferWaiting
  <2>2. Control'
    BY <1>3 DEF TypeOK, Control, InFast, Locked, InXfer, Interrupted, Call, XferWaiting
  <2>3. Bounded'
    BY <1>3 DEF TypeOK, Control, Bounded, InFast, Locked, InXfer, Quiet, Interrupted, Call,
      XferWaiting
  <2> QED
    BY <2>1, <2>2, <2>3
<1>4. ASSUME XferRearm PROVE SafeInv'
  <2>1. TypeOK'
    BY <1>4, WordsSent DEF TypeOK, Call, Stages, XferRearm
  <2>2. Control'
    BY <1>4 DEF TypeOK, Control, InFast, Locked, InXfer, Interrupted, Call, XferRearm
  <2>3. Bounded'
    BY <1>4 DEF TypeOK, Control, Bounded, InFast, Locked, InXfer, Quiet, Interrupted, Call,
      XferRearm
  <2> QED
    BY <2>1, <2>2, <2>3
<1>5. ASSUME XferDone PROVE SafeInv'
  <2>1. TypeOK'
    BY <1>5, WordsSent DEF TypeOK, Call, Stages, XferDone
  <2>2. Control'
    BY <1>5 DEF TypeOK, Control, InFast, Locked, InXfer, Interrupted, Call, XferDone
  <2>3. Bounded'
    BY <1>5 DEF TypeOK, Control, Bounded, InFast, Locked, InXfer, Quiet, Interrupted, Call, XferDone
  <2> QED
    BY <2>1, <2>2, <2>3
<1>6. ASSUME XferTimeout PROVE SafeInv'
  <2>1. TypeOK'
    BY <1>6, WordsSent DEF TypeOK, Call, Stages, XferTimeout
  <2>2. Control'
    BY <1>6 DEF TypeOK, Control, InFast, Locked, InXfer, Interrupted, Call, XferTimeout
  <2>3. Bounded'
    BY <1>6 DEF TypeOK, Control, Bounded, InFast, Locked, InXfer, Quiet, Interrupted, Call,
      XferTimeout
  <2> QED
    BY <2>1, <2>2, <2>3
<1>7. ASSUME XferExpired PROVE SafeInv'
  <2>1. TypeOK'
    <3>1. waiting' \in BOOLEAN
      BY <1>7 DEF TypeOK, XferExpired
    <3> QED
      BY <1>7, <3>1, WordsSent DEF TypeOK, Call, Stages, XferExpired
  <2>2. Control'
    BY <1>7 DEF TypeOK, Control, InFast, Locked, InXfer, Interrupted, Call, XferExpired
  <2>3. Bounded'
    BY <1>7 DEF TypeOK, Control, Bounded, InFast, Locked, InXfer, Quiet, Interrupted, Call,
      XferExpired
  <2> QED
    BY <2>1, <2>2, <2>3
<1>8. ASSUME XferGiveUp PROVE SafeInv'
  <2>1. TypeOK'
    <3>1. rearm' \in BOOLEAN
      BY <1>8 DEF TypeOK, XferGiveUp
    <3> QED
      BY <1>8, <3>1, WordsSent DEF TypeOK, Call, Stages, XferGiveUp
  <2>2. Control'
    BY <1>8 DEF TypeOK, Control, InFast, Locked, InXfer, Interrupted, Call, XferGiveUp
  <2>3. Bounded'
    BY <1>8 DEF TypeOK, Control, Bounded, InFast, Locked, InXfer, Quiet, Interrupted, Call,
      XferGiveUp
  <2> QED
    BY <2>1, <2>2, <2>3
<1>9. ASSUME XferDisarm PROVE SafeInv'
  <2>1. TypeOK'
    <3>1. armed' \in BOOLEAN
      BY <1>9 DEF TypeOK, XferDisarm
    <3> QED
      BY <1>9, <3>1, WordsSent DEF TypeOK, Call, Stages, XferDisarm
  <2>2. Control'
    BY <1>9 DEF TypeOK, Control, InFast, Locked, InXfer, Interrupted, Call, XferDisarm
  <2>3. Bounded'
    BY <1>9 DEF TypeOK, Control, Bounded, InFast, Locked, InXfer, Quiet, Interrupted, Call,
      XferDisarm
  <2> QED
    BY <2>1, <2>2, <2>3
<1>10. ASSUME PayloadLock PROVE SafeInv'
  <2>1. TypeOK'
    <3>1. ime' \in BOOLEAN
      BY <1>10 DEF TypeOK, PayloadLock
    <3> QED
      BY <1>10, <3>1, WordsSent DEF TypeOK, Call, Stages, PayloadLock
  <2>2. Control'
    BY <1>10 DEF TypeOK, Control, InFast, Locked, InXfer, Interrupted, Call, PayloadLock
  <2>3. Bounded'
    BY <1>10 DEF TypeOK, Control, Bounded, InFast, Locked, InXfer, Quiet, Interrupted, Call,
      PayloadLock
  <2> QED
    BY <2>1, <2>2, <2>3
<1>11. ASSUME PayloadSetup PROVE SafeInv'
  <2>1. TypeOK'
    <3>1. fastDone' \in BOOLEAN
      BY <1>11 DEF TypeOK, PayloadSetup, FirstOffset
    <3>2. vector' \in {"dispatch", "rx", "tx"}
      BY <1>11 DEF TypeOK, Control, Bounded, InFast, Locked, Quiet, Interrupted, Call,
        PayloadSetup, FirstOffset
    <3>3. fastOffset' \in 0 .. MaxWords + 1
      BY <1>11 DEF TypeOK, Control, Call, PayloadSetup, FirstOffset
    <3>4. buf' \in Seq(OutWord \cup Word)
      BY <1>11, WordsSent DEF TypeOK, PayloadSetup, FirstOffset
    <3> QED
      BY <1>11, <3>1, <3>2, <3>3, <3>4, WordsSent DEF TypeOK, Call, Stages, PayloadSetup,
        FirstOffset
  <2>2. Control'
    BY <1>11 DEF TypeOK, Control, InFast, Locked, InXfer, Interrupted, Call, PayloadSetup,
      FirstOffset
  <2>3. Bounded'
    BY <1>11 DEF TypeOK, Control, Bounded, InFast, Locked, InXfer, Quiet, Interrupted, Call,
      PayloadSetup, FirstOffset
  <2> QED
    BY <2>1, <2>2, <2>3
<1>12. ASSUME PayloadUnlock PROVE SafeInv'
  <2>1. TypeOK'
    BY <1>12, WordsSent DEF TypeOK, Call, Stages, PayloadUnlock
  <2>2. Control'
    BY <1>12 DEF TypeOK, Control, InFast, Locked, InXfer, Interrupted, Call, PayloadUnlock
  <2>3. Bounded'
    BY <1>12 DEF TypeOK, Control, Bounded, InFast, Locked, InXfer, Quiet, Interrupted, Call,
      PayloadUnlock
  <2> QED
    BY <2>1, <2>2, <2>3
<1>13. ASSUME PayloadDone PROVE SafeInv'
  <2>1. TypeOK'
    <3>1. ime' \in BOOLEAN
      BY <1>13 DEF TypeOK, PayloadDone
    <3> QED
      BY <1>13, <3>1, WordsSent DEF TypeOK, Call, Stages, PayloadDone
  <2>2. Control'
    BY <1>13 DEF TypeOK, Control, InFast, Locked, InXfer, Interrupted, Call, PayloadDone
  <2>3. Bounded'
    BY <1>13 DEF TypeOK, Control, Bounded, InFast, Locked, InXfer, Quiet, Interrupted, Call,
      PayloadDone
  <2> QED
    BY <2>1, <2>2, <2>3
<1>14. ASSUME PayloadTimeout PROVE SafeInv'
  <2>1. TypeOK'
    BY <1>14, WordsSent DEF TypeOK, Call, Stages, PayloadTimeout
  <2>2. Control'
    BY <1>14 DEF TypeOK, Control, InFast, Locked, InXfer, Interrupted, Call, PayloadTimeout
  <2>3. Bounded'
    BY <1>14 DEF TypeOK, Control, Bounded, InFast, Locked, InXfer, Quiet, Interrupted, Call,
      PayloadTimeout
  <2> QED
    BY <2>1, <2>2, <2>3
<1>15. ASSUME PayloadExpired PROVE SafeInv'
  <2>1. TypeOK'
    <3>1. ime' \in BOOLEAN
      BY <1>15 DEF TypeOK, PayloadExpired
    <3> QED
      BY <1>15, <3>1, WordsSent DEF TypeOK, Call, Stages, PayloadExpired
  <2>2. Control'
    BY <1>15 DEF TypeOK, Control, InFast, Locked, InXfer, Interrupted, Call, PayloadExpired
  <2>3. Bounded'
    BY <1>15 DEF TypeOK, Control, Bounded, InFast, Locked, InXfer, Quiet, Interrupted, Call,
      PayloadExpired
  <2> QED
    BY <2>1, <2>2, <2>3
<1>16. ASSUME PayloadRestore PROVE SafeInv'
  <2>1. TypeOK'
    <3>1. fast' \in BOOLEAN
      BY <1>16 DEF TypeOK, PayloadRestore, FastRestore, Disarm
    <3>2. armed' \in BOOLEAN
      BY <1>16 DEF TypeOK, PayloadRestore, FastRestore, Disarm
    <3> QED
      BY <1>16, <3>1, <3>2, WordsSent DEF TypeOK, Call, Stages, PayloadRestore, FastRestore, Disarm
  <2>2. Control'
    BY <1>16 DEF TypeOK, Control, InFast, Locked, InXfer, Interrupted, Call, PayloadRestore,
      FastRestore, Disarm
  <2>3. Bounded'
    BY <1>16 DEF TypeOK, Control, Bounded, InFast, Locked, InXfer, Quiet, Interrupted, Call,
      PayloadRestore, FastRestore, Disarm
  <2> QED
    BY <2>1, <2>2, <2>3
<1>17. ASSUME PayloadReturn PROVE SafeInv'
  <2>1. TypeOK'
    BY <1>17, WordsSent DEF TypeOK, Call, Stages, PayloadReturn
  <2>2. Control'
    BY <1>17 DEF TypeOK, Control, InFast, Locked, InXfer, Interrupted, Call, PayloadReturn
  <2>3. Bounded'
    BY <1>17 DEF TypeOK, Control, Bounded, InFast, Locked, InXfer, Quiet, Interrupted, Call,
      PayloadReturn
  <2> QED
    BY <2>1, <2>2, <2>3
<1>18. ASSUME Dispatch PROVE SafeInv'
  <2>1. TypeOK'
    <3>1. pending' \in BOOLEAN
      BY <1>18 DEF TypeOK, Dispatch, Disarm, Send
    <3>2. waiting' \in BOOLEAN
      BY <1>18 DEF TypeOK, Dispatch, Disarm, Send
    <3>3. rearm' \in BOOLEAN
      BY <1>18 DEF TypeOK, Dispatch, Disarm, Send
    <3>4. armed' \in BOOLEAN
      BY <1>18 DEF TypeOK, Dispatch, Disarm, Send
    <3>5. done' \in BOOLEAN
      BY <1>18 DEF TypeOK, Dispatch, Disarm, Send
    <3> QED
      BY <1>18, <3>1, <3>2, <3>3, <3>4, <3>5, WordsSent DEF TypeOK, Call, Stages, Dispatch,
        Disarm, Send
  <2>2. Control'
    BY <1>18 DEF TypeOK, Control, InFast, Locked, InXfer, Interrupted, Call, Dispatch, Disarm, Send
  <2>3. Bounded'
    BY <1>18 DEF TypeOK, Control, Bounded, InFast, Locked, InXfer, Quiet, Interrupted, Call,
      Dispatch, Disarm, Send
  <2> QED
    BY <2>1, <2>2, <2>3
<1>19. ASSUME ReceiveNext PROVE SafeInv'
  <2>1. TypeOK'
    <3>1. pending' \in BOOLEAN
      BY <1>19 DEF TypeOK, ReceiveNext, Disarm, Send, FastFinish
    <3>2. armed' \in BOOLEAN
      BY <1>19 DEF TypeOK, ReceiveNext, Disarm, Send, FastFinish
    <3>3. fastDone' \in BOOLEAN
      BY <1>19 DEF TypeOK, ReceiveNext, Disarm, Send, FastFinish
    <3>4. fastOffset' \in 0 .. MaxWords + 1
      BY <1>19 DEF TypeOK, Control, Bounded, InFast, Locked, Quiet, Interrupted, Call,
        ReceiveNext, Disarm, Send, FastFinish
    <3>5. buf' \in Seq(OutWord \cup Word)
      <4>1. buf \in Seq(OutWord \cup Word) /\ sio \in OutWord \cup Word
        BY DEF TypeOK
      <4>2. Append(buf, sio) \in Seq(OutWord \cup Word)
        BY <4>1
      <4>3. buf' = buf \/ buf' = Append(buf, sio)
        BY <1>19 DEF ReceiveNext
      <4> QED
        BY <4>1, <4>2, <4>3
    <3> QED
      BY <1>19, <3>1, <3>2, <3>3, <3>4, <3>5, WordsSent DEF TypeOK, Call, Stages, ReceiveNext,
        Disarm, Send, FastFinish
  <2>2. Control'
    BY <1>19 DEF TypeOK, Control, InFast, Locked, InXfer, Interrupted, Call, ReceiveNext, Disarm,
      Send, FastFinish
  <2>3. Bounded'
    BY <1>19 DEF TypeOK, Control, Bounded, InFast, Locked, InXfer, Quiet, Interrupted, Call,
      ReceiveNext, Disarm, Send, FastFinish
  <2> QED
    BY <2>1, <2>2, <2>3
<1>20. ASSUME SendNext PROVE SafeInv'
  <2>1. TypeOK'
    <3>1. pending' \in BOOLEAN
      BY <1>20 DEF TypeOK, SendNext, Disarm, Send, FastFinish
    <3>2. armed' \in BOOLEAN
      BY <1>20 DEF TypeOK, SendNext, Disarm, Send, FastFinish
    <3>3. fastDone' \in BOOLEAN
      BY <1>20 DEF TypeOK, SendNext, Disarm, Send, FastFinish
    <3> QED
      BY <1>20, <3>1, <3>2, <3>3, WordsSent DEF TypeOK, Call, Stages, SendNext, Disarm, Send,
        FastFinish
  <2>2. Control'
    BY <1>20 DEF TypeOK, Control, InFast, Locked, InXfer, Interrupted, Call, SendNext, Disarm,
      Send, FastFinish
  <2>3. Bounded'
    BY <1>20 DEF TypeOK, Control, Bounded, InFast, Locked, InXfer, Quiet, Interrupted, Call,
      SendNext, Disarm, Send, FastFinish
  <2> QED
    BY <2>1, <2>2, <2>3
<1>21. ASSUME Xfer PROVE SafeInv'
  <2>1. TypeOK'
    <3>1. done' \in BOOLEAN
      BY <1>21 DEF TypeOK, Xfer
    <3> QED
      BY <1>21, <3>1, WordsSent DEF TypeOK, Call, Stages, Xfer
  <2>2. Control'
    BY <1>21 DEF TypeOK, Control, InFast, Locked, InXfer, Interrupted, Call, Xfer
  <2>3. Bounded'
    BY <1>21 DEF TypeOK, Control, Bounded, InFast, Locked, InXfer, Quiet, Interrupted, Call, Xfer
  <2> QED
    BY <2>1, <2>2, <2>3
<1>22. ASSUME NEW kind \in {"rx", "tx"}, NEW k \in 1 .. MaxWords, Payload(kind, k) PROVE SafeInv'
  <2>1. TypeOK'
    BY <1>22, WordsSent DEF TypeOK, Call, Stages, Payload
  <2>2. Control'
    BY <1>22 DEF TypeOK, Control, InFast, Locked, InXfer, Interrupted, Call, Payload
  <2>3. Bounded'
    BY <1>22 DEF TypeOK, Control, Bounded, InFast, Locked, InXfer, Quiet, Interrupted, Call, Payload
  <2> QED
    BY <2>1, <2>2, <2>3
<1>23. ASSUME NEW w \in Word, Exchange(w) PROVE SafeInv'
  <2>1. TypeOK'
    <3>1. armed' \in BOOLEAN
      BY <1>23 DEF TypeOK, Exchange
    <3> QED
      BY <1>23, <3>1, WordsSent DEF TypeOK, Call, Stages, Exchange
  <2>2. Control'
    BY <1>23 DEF TypeOK, Control, InFast, Locked, InXfer, Interrupted, Call, Exchange
  <2>3. Bounded'
    BY <1>23 DEF TypeOK, Control, Bounded, InFast, Locked, InXfer, Quiet, Interrupted, Call,
      Exchange
  <2> QED
    BY <2>1, <2>2, <2>3
<1>24. CASE UNCHANGED vars
  BY <1>24 DEF TypeOK, Control, Bounded, InFast, Locked, InXfer, Quiet
<1> QED
  BY <1>1, <1>2, <1>3, <1>4, <1>5, <1>6, <1>7, <1>8, <1>9, <1>10, <1>11, <1>12, <1>13, <1>14,
    <1>15, <1>16, <1>17, <1>18, <1>19, <1>20, <1>21, <1>22, <1>23, <1>24 DEF Next, Irq, Running

-----------------------------------------------------------------------------
LEMMA ProgressAtFirst == Init => Progress
BY DEF Init, Progress, Quiet

LEMMA ProgressStep == SafeInv /\ Progress /\ [Next]_vars /\ ~fastLost' => Progress'
<1> SUFFICES ASSUME SafeInv, Progress, [Next]_vars, ~fastLost' PROVE Progress'
  OBVIOUS
<1> USE SioAssumption DEF SafeInv, SioAssumption
<1> USE DEF Quiet, Nothing, XferBegun, PayloadBegun, Exact, FirstWord, FirstOffset
<1>1. ASSUME SendData PROVE Progress'
  BY <1>1 DEF TypeOK, Call, Control, Bounded, InFast, Locked, InXfer, Interrupted, Progress,
    XferUnderWay, RxUnderWay, TxUnderWay, SendData
<1>2. ASSUME SendStart PROVE Progress'
  BY <1>2 DEF TypeOK, Call, Control, Bounded, InFast, Locked, InXfer, Interrupted, Progress,
    XferUnderWay, RxUnderWay, TxUnderWay, SendStart
<1>3. ASSUME XferWaiting PROVE Progress'
  BY <1>3 DEF TypeOK, Call, Control, Bounded, InFast, Locked, InXfer, Interrupted, Progress,
    XferUnderWay, RxUnderWay, TxUnderWay, XferWaiting
<1>4. ASSUME XferRearm PROVE Progress'
  BY <1>4 DEF TypeOK, Call, Control, Bounded, InFast, Locked, InXfer, Interrupted, Progress,
    XferUnderWay, RxUnderWay, TxUnderWay, XferRearm
<1>5. ASSUME XferDone PROVE Progress'
  BY <1>5 DEF TypeOK, Call, Control, Bounded, InFast, Locked, InXfer, Interrupted, Progress,
    XferUnderWay, RxUnderWay, TxUnderWay, XferDone
<1>6. ASSUME XferTimeout PROVE Progress'
  BY <1>6 DEF TypeOK, Call, Control, Bounded, InFast, Locked, InXfer, Interrupted, Progress,
    XferUnderWay, RxUnderWay, TxUnderWay, XferTimeout
<1>7. ASSUME XferExpired PROVE Progress'
  BY <1>7 DEF TypeOK, Call, Control, Bounded, InFast, Locked, InXfer, Interrupted, Progress,
    XferUnderWay, RxUnderWay, TxUnderWay, XferExpired
<1>8. ASSUME XferGiveUp PROVE Progress'
  BY <1>8 DEF TypeOK, Call, Control, Bounded, InFast, Locked, InXfer, Interrupted, Progress,
    XferUnderWay, RxUnderWay, TxUnderWay, XferGiveUp
<1>9. ASSUME XferDisarm PROVE Progress'
  BY <1>9 DEF TypeOK, Call, Control, Bounded, InFast, Locked, InXfer, Interrupted, Progress,
    XferUnderWay, RxUnderWay, TxUnderWay, XferDisarm
<1>10. ASSUME PayloadLock PROVE Progress'
  BY <1>10 DEF TypeOK, Call, Control, Bounded, InFast, Locked, InXfer, Interrupted, Progress,
    XferUnderWay, RxUnderWay, TxUnderWay, PayloadLock
<1>11. ASSUME PayloadSetup PROVE Progress'
  BY <1>11 DEF TypeOK, Call, Control, Bounded, InFast, Locked, InXfer, Interrupted, Progress,
    XferUnderWay, RxUnderWay, TxUnderWay, PayloadSetup
<1>12. ASSUME PayloadUnlock PROVE Progress'
  BY <1>12 DEF TypeOK, Call, Control, Bounded, InFast, Locked, InXfer, Interrupted, Progress,
    XferUnderWay, RxUnderWay, TxUnderWay, PayloadUnlock
<1>13. ASSUME PayloadDone PROVE Progress'
  BY <1>13 DEF TypeOK, Call, Control, Bounded, InFast, Locked, InXfer, Interrupted, Progress,
    XferUnderWay, RxUnderWay, TxUnderWay, PayloadDone
<1>14. ASSUME PayloadTimeout PROVE Progress'
  BY <1>14 DEF TypeOK, Call, Control, Bounded, InFast, Locked, InXfer, Interrupted, Progress,
    XferUnderWay, RxUnderWay, TxUnderWay, PayloadTimeout
<1>15. ASSUME PayloadExpired PROVE Progress'
  BY <1>15 DEF TypeOK, Call, Control, Bounded, InFast, Locked, InXfer, Interrupted, Progress,
    XferUnderWay, RxUnderWay, TxUnderWay, PayloadExpired
<1>16. ASSUME PayloadRestore PROVE Progress'
  BY <1>16 DEF TypeOK, Call, Control, Bounded, InFast, Locked, InXfer, Interrupted, Progress,
    XferUnderWay, RxUnderWay, TxUnderWay, PayloadRestore, FastRestore, Disarm
<1>17. ASSUME PayloadReturn PROVE Progress'
  BY <1>17 DEF TypeOK, Call, Control, Bounded, InFast, Locked, InXfer, Interrupted, Progress,
    XferUnderWay, RxUnderWay, TxUnderWay, PayloadReturn
<1>18. ASSUME Dispatch PROVE Progress'
  BY <1>18 DEF TypeOK, Call, Control, Bounded, InFast, Locked, InXfer, Interrupted, Progress,
    XferUnderWay, RxUnderWay, TxUnderWay, Dispatch, Disarm, Send
<1>19. ASSUME ReceiveNext PROVE Progress'
  <2>1. /\ pc \in {"f.loop", "f.expired"} /\ call.kind = "rx" /\ fast /\ ~armed
        /\ ~fastDone /\ fastOffset \in Nat /\ fastOffset < call.n /\ Len(buf) = fastOffset
        /\ heard = [i \in 1 .. fastOffset + 1 |-> Idle] /\ told = Append(buf, sio)
    BY <1>19 DEF TypeOK, Call, Control, InFast, Progress, RxUnderWay, ReceiveNext, Interrupted
  <2>2. call.n \in 1 .. MaxWords /\ buf \in Seq(OutWord \cup Word) /\ sio \in OutWord \cup Word
    BY DEF TypeOK, Call
  <2>3. /\ ~pending' /\ fastOffset' = fastOffset + 1 /\ buf' = told /\ sio' = Idle
        /\ Len(buf') = fastOffset' /\ UNCHANGED <<pc, call, heard, told>>
    BY <1>19, <2>1, <2>2 DEF ReceiveNext, FastFinish, Disarm, Send
  <2>4. CASE fastOffset + 1 < call.n
    <3>1. armed' /\ ~fastDone'
      BY <1>19, <2>1, <2>2, <2>4 DEF ReceiveNext, Send
    <3>2. RxUnderWay'
      BY <2>1, <2>3, <2>4, <3>1 DEF RxUnderWay
    <3> QED
      BY <2>1, <2>3, <3>2 DEF Progress
  <2>5. CASE fastOffset + 1 = call.n
    <3>1. ~armed' /\ fastDone'
      BY <1>19, <2>1, <2>2, <2>5 DEF ReceiveNext, FastFinish, Disarm
    <3>2. RxUnderWay'
      BY <2>1, <2>3, <2>5, <3>1 DEF RxUnderWay
    <3> QED
      BY <2>1, <2>3, <3>2 DEF Progress
  <2> QED
    BY <2>1, <2>2, <2>4, <2>5
<1>20. ASSUME SendNext PROVE Progress'
  <2>1. /\ pc \in {"f.unlock", "f.loop", "f.expired"} /\ call.kind = "tx" /\ fast /\ ~armed
        /\ ~fastDone /\ fastOffset \in 1 .. call.n /\ heard = [i \in 1 .. fastOffset |-> i]
    BY <1>20 DEF TypeOK, Call, Control, InFast, Progress, TxUnderWay, SendNext, Interrupted
  <2>2. call.n \in 1 .. MaxWords
    BY DEF TypeOK, Call
  <2>3. CASE fastOffset < call.n
    <3>1. /\ armed' /\ ~pending' /\ ~fastDone' /\ sio' = fastOffset' /\ fastOffset' \in 1 .. call.n
          /\ fastOffset' - 1 = fastOffset /\ UNCHANGED <<pc, call, heard>>
      BY <1>20, <2>1, <2>2, <2>3 DEF SendNext, Send
    <3>2. TxUnderWay'
      BY <2>1, <3>1 DEF TxUnderWay
    <3> QED
      BY <2>1, <3>1, <3>2 DEF Progress
  <2>4. CASE fastOffset = call.n
    <3>1. ~armed' /\ ~pending' /\ fastDone' /\ UNCHANGED <<pc, call, heard>>
      BY <1>20, <2>1, <2>2, <2>4 DEF SendNext, FastFinish, Disarm
    <3>2. TxUnderWay'
      BY <2>1, <2>4, <3>1 DEF TxUnderWay
    <3> QED
      BY <2>1, <3>1, <3>2 DEF Progress
  <2> QED
    BY <2>1, <2>2, <2>3, <2>4
<1>21. ASSUME Xfer PROVE Progress'
  BY <1>21 DEF TypeOK, Call, Control, Bounded, InFast, Locked, InXfer, Interrupted, Progress,
    XferUnderWay, RxUnderWay, TxUnderWay, Xfer
<1>22. ASSUME NEW kind \in {"rx", "tx"}, NEW k \in 1 .. MaxWords, Payload(kind, k) PROVE Progress'
  BY <1>22 DEF TypeOK, Call, Control, Bounded, InFast, Locked, InXfer, Interrupted, Progress,
    XferUnderWay, RxUnderWay, TxUnderWay, Payload
<1>23. ASSUME NEW w \in Word, Exchange(w) PROVE Progress'
  <2>1. /\ armed /\ heard' = Append(heard, sio) /\ told' = Append(told, w) /\ sio' = w
        /\ ~armed' /\ pending'
        /\ UNCHANGED <<pc, call, waiting, done, inWord, fastDone, fastOffset, buf>>
    BY <1>23 DEF Exchange
  <2>2. CASE pc \in {"x.loop", "x.expired"}
    <3>1. ~pending /\ waiting /\ ~done /\ sio = Out /\ heard = <<>> /\ told = <<>>
      BY <2>1, <2>2 DEF Progress, XferUnderWay
    <3>2. heard' = <<Out>> /\ told' = <<sio'>>
      BY <2>1, <3>1
    <3>3. XferUnderWay'
      BY <2>1, <3>1, <3>2 DEF XferUnderWay
    <3> QED
      BY <2>1, <2>2, <3>3 DEF Progress
  <2>3. CASE pc \in {"f.loop", "f.expired"} /\ call.kind = "rx"
    <3>1. /\ ~fastDone /\ sio = Idle /\ fastOffset < call.n
          /\ heard = [i \in 1 .. fastOffset |-> Idle] /\ told = buf /\ Len(buf) = fastOffset
      BY <2>1, <2>3 DEF Progress, RxUnderWay
    <3>2. heard' = [i \in 1 .. fastOffset + 1 |-> Idle]
      BY <2>1, <3>1, Repeating DEF TypeOK
    <3>3. RxUnderWay'
      BY <2>1, <3>1, <3>2 DEF RxUnderWay
    <3> QED
      BY <2>1, <2>3, <3>3 DEF Progress
  <2>4. CASE pc \in {"f.unlock", "f.loop", "f.expired"} /\ call.kind = "tx"
    <3>1. /\ ~fastDone /\ sio = fastOffset /\ fastOffset \in 1 .. call.n
          /\ heard = [i \in 1 .. fastOffset - 1 |-> i]
      BY <2>1, <2>4 DEF Progress, TxUnderWay
    <3>2. heard' = [i \in 1 .. fastOffset |-> i]
      BY <2>1, <3>1, Counting DEF TypeOK
    <3>3. TxUnderWay'
      BY <2>1, <3>1, <3>2 DEF TxUnderWay
    <3> QED
      BY <2>1, <2>4, <3>3 DEF Progress
  <2>5. CASE pc \in {"x.giveup", "x.disarm"}
    BY <2>1, <2>5 DEF Progress
  <2> QED
    BY <2>1, <2>2, <2>3, <2>4, <2>5 DEF Progress, TypeOK, Stages, Call
<1>24. CASE UNCHANGED vars
  BY <1>24, ZenonT(60) DEF TypeOK, Call, Control, Bounded, InFast, Locked, InXfer, Interrupted,
    Progress,
    XferUnderWay, RxUnderWay, TxUnderWay
<1> QED
  BY <1>1, <1>2, <1>3, <1>4, <1>5, <1>6, <1>7, <1>8, <1>9, <1>10, <1>11, <1>12, <1>13, <1>14,
    <1>15, <1>16, <1>17, <1>18, <1>19, <1>20, <1>21, <1>22, <1>23, <1>24 DEF Next, Irq, Running

-----------------------------------------------------------------------------
LEMMA LostStays == TypeOK /\ [Next]_vars /\ ~fastLost' => ~fastLost
<1> SUFFICES ASSUME TypeOK, [Next]_vars, ~fastLost' PROVE ~fastLost
  OBVIOUS
<1>1. CASE UNCHANGED vars
  BY <1>1
<1>2. ASSUME NEW w \in Word, Exchange(w) PROVE ~fastLost
  BY <1>2 DEF Exchange
<1>3. CASE Irq
  BY <1>3 DEF Irq, Dispatch, ReceiveNext, SendNext
<1>4. CASE Xfer
  BY <1>4 DEF Xfer
<1>5. ASSUME NEW kind \in {"rx", "tx"}, NEW k \in 1 .. MaxWords, Payload(kind, k)
      PROVE  ~fastLost
  BY <1>5 DEF Payload
<1>6. CASE Running
  BY <1>6 DEF Running, SendData, SendStart, XferWaiting, XferRearm, XferDone, XferTimeout,
    XferExpired, XferGiveUp, XferDisarm, PayloadLock, PayloadSetup, PayloadUnlock, PayloadDone,
    PayloadTimeout, PayloadExpired, PayloadRestore, PayloadReturn
<1> QED
  BY <1>1, <1>2, <1>3, <1>4, <1>5, <1>6 DEF Next

LEMMA SioInvariant == Spec => []SioInv
<1>1. Init => SioInv
  BY SafeAtFirst, ProgressAtFirst DEF SioInv
<1>2. SioInv /\ [Next]_vars => SioInv'
  BY SafeStep, ProgressStep, LostStays DEF SioInv, SafeInv
<1> QED
  BY <1>1, <1>2, PTL DEF Spec

\* Every variable stays in its type: in particular the interrupt of a receiving call never counts
\* past one word beyond the payload (gba_sio_transport.c:96-124).
THEOREM SioTypeCorrect == Spec => []TypeOK
<1>1. SioInv => TypeOK
  BY DEF SioInv, SafeInv
<1> QED
  BY <1>1, SioInvariant, PTL

\* A call of any length that returns, in time or not, leaves interrupts on, the dispatcher in the
\* vector and nobody waiting; and unless some payload call has timed out, one that succeeds has
\* exchanged exactly its words and left the port disarmed (gba_sio_transport.c:81-86, 96-195,
\* 330-344, 406-428).
THEOREM CallsRestore == Spec => []Restored
<1>1. SioInv => Restored
  BY DEF SioInv, SafeInv, TypeOK, Control, InFast, Locked, InXfer, Progress, Quiet, Restored,
    ExactUntilLost
<1> QED
  BY <1>1, SioInvariant, PTL

\* However late an interrupt comes, it never writes to the buffer of a call that has returned, nor
\* beyond the end of the buffer (gba_sio_transport.c:96-124).
THEOREM NoLateWrite == Spec => BufferSafe
<1> DEFINE Within ==
      pc \in {"f.setup", "data", "start", "f.loop", "f.expired"} /\ Len(buf') <= call.n
<1>1. SioInv /\ [Next]_vars => [buf' # buf => Within]_vars
  <2> SUFFICES ASSUME SafeInv, Next, buf' # buf PROVE Within
    BY DEF SioInv
  <2> USE SioAssumption DEF SafeInv, SioAssumption
  <2>1. CASE PayloadSetup
    BY <2>1 DEF PayloadSetup, TypeOK, Call
  <2>2. CASE ReceiveNext
    <3>1. /\ fast /\ pending /\ ime /\ vector = "rx" /\ fastOffset < call.n
          /\ buf' = Append(buf, sio)
      BY <2>2 DEF ReceiveNext, Interrupted
    <3>2. pc \in {"data", "start", "f.loop", "f.expired"} /\ call.kind = "rx"
      BY <3>1 DEF TypeOK, Control, Bounded, InFast, Locked, Quiet, Call
    <3>3. Len(buf) <= fastOffset
      BY <3>1, <3>2 DEF Bounded, InFast
    <3> QED
      BY <3>1, <3>2, <3>3 DEF TypeOK, Call
  <2>3. PayloadSetup \/ ReceiveNext
    <3>1. ~(\E w \in Word : Exchange(w))
      BY DEF Exchange
    <3>2. ~Dispatch /\ ~SendNext /\ ~Xfer
      BY DEF Dispatch, SendNext, Xfer
    <3>3. ~(\E kind \in {"rx", "tx"}, n \in 1 .. MaxWords : Payload(kind, n))
      BY DEF Payload
    <3>4. CASE Running
      BY <3>4 DEF Running, SendData, SendStart, XferWaiting, XferRearm, XferDone, XferTimeout,
        XferExpired, XferGiveUp, XferDisarm, PayloadLock, PayloadUnlock, PayloadDone,
        PayloadTimeout, PayloadExpired, PayloadRestore, PayloadReturn
    <3> QED
      BY <3>1, <3>2, <3>3, <3>4 DEF Next, Irq
  <2> QED
    BY <2>1, <2>2, <2>3
<1> QED
  BY <1>1, SioInvariant, PTL DEF Spec, BufferSafe
=============================================================================
