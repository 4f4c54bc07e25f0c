------------------------------ MODULE WireClient ------------------------------
(***************************************************************************)
(* Commands and answers (gba/sdk/src/wire.c, client.c) between the client   *)
(* and the MCU, word by word.  The MCU holds a queue of answers it has to   *)
(* clock out; the client sends a command and reads words until it finds an  *)
(* answer, eight of them to be skipped at most.  A word may time out: the   *)
(* client reads 0, and the MCU keeps the word or has sent it in vain.       *)
(*                                                                          *)
(* The MCU's firmware is outside this repository: it may answer at once,    *)
(* late or never, with any status and length, or with an ACK, and may keep  *)
(* or drop what it has to say when a command comes.  Left out: words of a   *)
(* payload that look like a whole header of the right number.               *)
(***************************************************************************)
EXTENDS ClientCalls, Sequences, FiniteSets

CONSTANTS
  Calls,        \* the calls made
  SeqMax,       \* the last sequence number, 65535 in the code
  Skips,        \* the words that may be skipped, 8 in the code
  MaxCalls,     \* bound on the calls made
  MaxFaults     \* bound on the words that time out

ASSUME WireAssumption ==
  /\ \A c \in Calls :
       /\ c.op \in STRING /\ c.spoils \in {"nothing", "status", "both", "offline"}
       /\ c.most \in Nat /\ c.part \in Nat
  /\ MaxWords \in Nat /\ Lengths \subseteq 0 .. MaxWords
  /\ SeqMax \in Nat \ {0} /\ Skips \in Nat /\ MaxCalls \in Nat /\ MaxFaults \in Nat

VARIABLES
  client,    \* state, last_status, next_seq and caps of cl_client_t
  call,      \* the call in progress and its number
  skipped,   \* words skipped while it waits
  commands,  \* what the MCU has received and not answered
  line,      \* its answers, each with the index of its next word
  faults,    \* words that timed out in the middle of an answer
  blame      \* why the link may be out of step

wireVars == <<client, call, skipped, commands, line, faults, blame>>

Statuses == {"ok", "refused"}
Command == [id : 1 .. MaxCalls, op : STRING, seq : 1 .. SeqMax]
Reply == [id : 1 .. MaxCalls, op : STRING, seq : 1 .. SeqMax,
          kind : {"ack", "response"}, status : Statuses, length : Lengths, at : 0 .. 4 + MaxWords]

WireTypeOK ==
  /\ client.state \in {"offline", "idle", "busy", "error"}
  /\ client.last_status \in Statuses \cup {"bad_packet", "timeout"}
  /\ client.next_seq \in 0 .. SeqMax /\ client.caps \in BOOLEAN
  /\ call.pc \in {"idle", "await", "answered"} /\ call.id \in 0 .. MaxCalls
  /\ skipped \in 0 .. Skips
  /\ \A i \in 1 .. Len(commands) : commands[i] \in Command
  /\ \A i \in 1 .. Len(line) : line[i] \in Reply
  /\ faults \in 0 .. MaxFaults /\ blame \subseteq {"late", "cut", "left"}

\* What is on the line after k more words of the first answer.
Words(reply) == IF reply.kind = "ack" THEN 1 ELSE 4 + reply.length
Clocked(k) ==
  IF line = <<>> \/ k = 0 THEN line
  ELSE IF Head(line).at + k >= Words(Head(line)) THEN Tail(line)
  ELSE <<[Head(line) EXCEPT !.at = @ + k]>> \o Tail(line)

\* cl_client_init
WireInit ==
  /\ client = [state |-> "offline", last_status |-> "ok", next_seq |-> 0, caps |-> FALSE]
  /\ call = [pc |-> "idle", id |-> 0]
  /\ skipped = 0 /\ commands = <<>> /\ line = <<>> /\ faults = 0 /\ blame = {}

\* client_next_seq; the mutant lets it be 0 after the last one.
NextSeqOrZero(n) == (n + 1) % (SeqMax + 1)
NextSeq(n) == IF n + 1 > SeqMax THEN 1 ELSE n + 1

-----------------------------------------------------------------------------
\* cl_wire_command_chunks and the calls that send their words themselves.  What the
\* MCU clocks out meanwhile is thrown away; it may also have dropped it, and it may
\* miss the command if a word of it timed out.
Send(c) ==
  /\ call.pc = "idle" /\ call.id < MaxCalls
  /\ c.caps => client.caps
  /\ LET id == call.id + 1
         seq == NextSeq(client.next_seq)
     IN  /\ call' = [pc |-> "await", of |-> c, id |-> id]
         /\ client' = [client EXCEPT !.next_seq = seq,
                         !.state = IF c.op = "control.hello" THEN "busy" ELSE @]
         /\ \/ commands' = Append(commands, [id |-> id, op |-> c.op, seq |-> seq])
            \/ UNCHANGED commands
  /\ \E k \in {0, 4} : line' = Clocked(k)
     \/ line' = <<>>
  /\ skipped' = 0
  /\ UNCHANGED <<faults, blame>>

\* The block that is to take the command's payload fails: the call returns and has not
\* looked for an answer.  What the MCU makes of the header it has got is its business.
PushFails ==
  /\ call.pc = "await" /\ call.of.pushes /\ skipped = 0 /\ faults < MaxFaults
  /\ faults' = faults + 1 /\ blame' = blame \cup {"cut"}
  /\ call' = [pc |-> "idle", id |-> call.id]
  /\ client' = [client EXCEPT !.state = "error", !.last_status = "timeout"]
  /\ UNCHANGED <<skipped, commands, line>>

\* The MCU answers the oldest command it has, also when nobody waits for it.
Answer(kind, status, length) ==
  /\ commands # <<>>
  /\ kind = "ack" => length = 0
  /\ LET c == Head(commands)
     IN  /\ line' = Append(line, [id |-> c.id, op |-> c.op, seq |-> c.seq, kind |-> kind,
                                  status |-> status, length |-> length, at |-> 0])
         /\ blame' = IF c.id = call.id /\ call.pc = "await" THEN blame
                     ELSE blame \cup {"late"}
  /\ commands' = Tail(commands)
  /\ UNCHANGED <<client, call, skipped, faults>>

-----------------------------------------------------------------------------
(* cl_wire_read_response                                                    *)

Ended == [pc |-> "idle", id |-> call.id]

\* How a call ends that got no answer it could decode.  Some calls overwrite what
\* is left in the client, and some drain as many words as an uninitialised length
\* says.
Fail(rest) ==
  /\ call' = Ended
  /\ client' = [client EXCEPT !.last_status = "bad_packet",
                  !.state = IF call.of.spoils = "offline" THEN "offline" ELSE "error"]
  /\ \/ line' = rest
     \/ /\ call.of.blind
        /\ \E i \in 1 .. Len(rest) : line' = SubSeq(rest, i + 1, Len(rest))

\* One word that is no answer: an idle word or a time-out, or the middle of an
\* answer somebody left on the line.
Skip ==
  /\ call.pc = "await"
  /\ line # <<>> => Head(line).at > 0
  /\ IF skipped = Skips THEN Fail(Clocked(1)) /\ UNCHANGED skipped
     ELSE /\ skipped' = skipped + 1 /\ line' = Clocked(1)
          /\ UNCHANGED <<client, call>>
  /\ UNCHANGED <<commands, faults, blame>>

\* The first word of an answer times out.
Miss(lost) ==
  /\ call.pc = "await" /\ faults < MaxFaults
  /\ line # <<>> /\ Head(line).at = 0
  /\ faults' = faults + 1 /\ blame' = blame \cup {"cut"}
  /\ LET rest == Clocked(IF lost THEN 1 ELSE 0)
     IN  IF skipped = Skips THEN Fail(rest) /\ UNCHANGED skipped
         ELSE skipped' = skipped + 1 /\ line' = rest /\ UNCHANGED <<client, call>>
  /\ UNCHANGED commands

\* A word in the middle of an answer that looks like one of another kind.
Stray ==
  /\ call.pc = "await"
  /\ line # <<>> /\ Head(line).at > 0
  /\ Fail(Clocked(1))
  /\ UNCHANGED <<skipped, commands, faults, blame>>

\* A header accepted; the words that follow are the call's business.
Accept(via, status, length, rest) ==
  /\ call' = [pc |-> "answered", of |-> call.of, id |-> call.id, by |-> Head(line).id,
              via |-> via, answer |-> [status |-> status, length |-> length]]
  /\ client' = [client EXCEPT !.last_status = status,
                  !.state = IF status = "ok" THEN "idle" ELSE "error"]
  /\ line' = rest

\* An ACK has one word, without a number: the channel and the opcode must do.
TakeAck ==
  /\ call.pc = "await"
  /\ line # <<>> /\ Head(line).at = 0 /\ Head(line).kind = "ack"
  /\ IF Head(line).op = call.of.op THEN Accept("ack", Head(line).status, 0, Clocked(1))
     ELSE Fail(Clocked(1))
  /\ UNCHANGED <<skipped, commands, faults, blame>>

\* A header must be of this call; the mutant does not compare the number.
MatchesAnySeq(reply) == reply.op = call.of.op
Matches(reply) == reply.op = call.of.op /\ reply.seq = client.next_seq

\* A header of four words, none of which times out.
TakeHeader ==
  /\ call.pc = "await"
  /\ line # <<>> /\ Head(line).at = 0 /\ Head(line).kind = "response"
  /\ IF Matches(Head(line))
     THEN Accept("response", Head(line).status, Head(line).length, Clocked(4))
     ELSE Fail(Clocked(4))
  /\ UNCHANGED <<skipped, commands, faults, blame>>

\* Word i of the header times out and is read as 0.  A length of 0 is taken as it
\* is; a number is never 0; if the word is still to come, every later one is read in
\* the place of the one before, and the length is in the place of the number.
TakeBrokenHeader(i, lost) ==
  /\ call.pc = "await" /\ faults < MaxFaults
  /\ line # <<>> /\ Head(line).at = 0 /\ Head(line).kind = "response"
  /\ faults' = faults + 1 /\ blame' = blame \cup {"cut"}
  /\ LET rest == Clocked(IF lost THEN 4 ELSE 3)
         numberRead == i = 3 \/ (i = 1 /\ lost)
     IN  IF numberRead /\ Matches(Head(line))
         THEN Accept("response", Head(line).status,
                     IF i = 1 THEN 0 ELSE Head(line).length, rest)
         ELSE Fail(rest)
  /\ UNCHANGED <<skipped, commands>>

-----------------------------------------------------------------------------
(* What the calls do with a decoded answer.                                 *)

Accepted(c, answer) == (answer.status = "ok" \/ c.any) /\ answer.length \in c.lens

\* The words read of a payload; the mutant leaves what is refused.
TakenLeaving(c, answer) ==
  IF Accepted(c, answer) THEN (IF answer.length < c.most THEN answer.length ELSE c.most)
  ELSE 0
Taken(c, answer) ==
  IF Accepted(c, answer) THEN (IF answer.length < c.most THEN answer.length ELSE c.most)
  ELSE IF (answer.status = "ok" /\ c.bad) \/ (answer.status # "ok" /\ c.err)
  THEN answer.length ELSE 0

\* The answers a call copes with: it drains them, or they have nothing to drain.
Copes(c, answer) ==
  \/ answer.length = 0
  \/ Accepted(c, answer) /\ answer.length <= c.most
  \/ ~Accepted(c, answer) /\ (IF answer.status = "ok" THEN c.bad ELSE c.err)

\* What a refused answer does to the client beyond what reading it did.
Spoiled(c, status) ==
  CASE c.spoils = "both" -> [client EXCEPT !.state = "error", !.last_status = "bad_packet"]
    [] c.spoils = "offline" -> [client EXCEPT !.state = "offline", !.last_status = "bad_packet"]
    [] c.spoils = "status" /\ status = "ok" -> [client EXCEPT !.last_status = "bad_packet"]
    [] OTHER -> client

Refuse ==
  LET answer == call.answer
  IN  /\ call.pc = "answered" /\ ~Accepted(call.of, answer)
      /\ line' = Clocked(Taken(call.of, answer))
      /\ call' = Ended
      /\ client' = Spoiled(call.of, answer.status)
      /\ blame' = IF Copes(call.of, answer) THEN blame ELSE blame \cup {"left"}
      /\ UNCHANGED <<skipped, commands, faults>>

\* The payload as the call wants it.  The answer to hello and to the request for the
\* capabilities says what the MCU can do, and whether it is there at all.
Deliver ==
  LET answer == call.answer
  IN  /\ call.pc = "answered" /\ Accepted(call.of, answer)
      /\ line' = Clocked(Taken(call.of, answer))
      /\ call' = Ended
      /\ \E able \in BOOLEAN :
           client' = [client EXCEPT
             !.caps = IF call.of.any THEN able ELSE @,
             !.state = IF call.of.spoils = "offline" /\ answer.status # "ok"
                       THEN "offline" ELSE @]
      /\ blame' = IF Copes(call.of, answer) THEN blame ELSE blame \cup {"left"}
      /\ UNCHANGED <<skipped, commands, faults>>

\* The payload of an accepted answer makes no sense, and the call stops reading it.
Misread ==
  LET answer == call.answer
  IN  /\ call.pc = "answered" /\ Accepted(call.of, answer) /\ answer.length > 0
      /\ call.of.part > 0
      /\ line' = Clocked(IF call.of.part < answer.length THEN call.of.part ELSE answer.length)
      /\ call' = Ended
      /\ client' = Spoiled(call.of, answer.status)
      /\ blame' = IF call.of.part < answer.length THEN blame \cup {"left"} ELSE blame
      /\ UNCHANGED <<skipped, commands, faults>>

\* A word of the payload times out: word by word the call goes on with a 0 in its
\* place, a block transfer ends there.
Starve(lost, k) ==
  LET answer == call.answer
      taken == Taken(call.of, answer)
  IN  /\ call.pc = "answered" /\ Accepted(call.of, answer) /\ faults < MaxFaults
      /\ taken > 0
      /\ faults' = faults + 1 /\ blame' = blame \cup {"cut"}
      /\ \/ /\ line' = Clocked(IF lost THEN taken ELSE taken - 1)
            /\ call' = Ended
            /\ client' = [client EXCEPT !.caps = @ /\ ~call.of.any]
         \/ /\ call.of.fast /\ k < taken
            /\ line' = Clocked(k)
            /\ call' = Ended
            /\ client' = [client EXCEPT !.state = "error", !.last_status = "timeout"]
      /\ UNCHANGED <<skipped, commands>>

WireNext ==
  \/ \E c \in Calls : Send(c)
  \/ \E kind \in {"ack", "response"}, status \in Statuses, length \in Lengths :
       Answer(kind, status, length)
  \/ PushFails \/ Skip \/ Stray \/ TakeAck \/ TakeHeader \/ Refuse \/ Deliver \/ Misread
  \/ \E lost \in BOOLEAN :
       \/ Miss(lost)
       \/ \E i \in 1 .. 3 : TakeBrokenHeader(i, lost)
       \/ \E k \in Lengths : Starve(lost, k)

WireSpec == WireInit /\ [][WireNext]_wireVars

-----------------------------------------------------------------------------
(* Properties.                                                              *)

\* As long as the MCU answers in time and no word is lost, a call that copes with its
\* answer leaves nothing of it on the line.
InStep == call.pc = "idle" /\ blame = {} => line = <<>>

\* wire.c:80-181, with every call of ClientCalls: an answer with a header is the answer to
\* this very command, or one as old as the numbers reach around: 65535 commands.  An ACK
\* has no number; one that was meant for another command is taken only if the MCU answered
\* that command too late, or with an ACK where the call had lost the step.  The next
\* command finds its own answer first, unless a word was lost or an answer came late.
AnswerIsOwn ==
  /\ call.pc = "answered" /\ call.by # call.id =>
       IF call.via = "response" THEN call.by < call.id /\ (call.id - call.by) % SeqMax = 0
       ELSE blame # {}
  /\ InStep
=============================================================================
