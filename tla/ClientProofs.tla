----------------------------- MODULE ClientProofs -----------------------------
(***************************************************************************)
(* What the client makes of what comes over the link: WireClient,            *)
(* StreamClient, CopyStream and DirListing, for any number of calls and for *)
(* answers, files, buffers, blocks, directories and pages of any size.      *)
(***************************************************************************)
EXTENDS WireClient, StreamClient, CopyStream, DirListing, SequenceTheorems, TLAPS

\* Arithmetic on labels, which are positions modulo StreamWrap.
LEMMA Scale == \A w, d \in Int : w > 0 /\ d >= 1 => w * d >= w
  OBVIOUS

\* A number is its quotient times the divisor, plus its remainder ...
LEMMA Division == \A a \in Nat, w \in Nat \ {0} :
   /\ a \div w \in Nat /\ a % w \in 0 .. w - 1 /\ a = w * (a \div w) + (a % w)
  OBVIOUS

\* ... in one way only ...
LEMMA Unique ==
  ASSUME NEW w \in Nat \ {0}, NEW k \in Int, NEW j \in Int,
         NEW r \in 0 .. w - 1, NEW s \in 0 .. w - 1,
         w * k + r = w * j + s
  PROVE  r = s
<1>1. w * k - w * j = w * (k - j)
  OBVIOUS
<1>2. CASE k > j
  <2>1. w * (k - j) >= w
    BY <1>2, Scale
  <2> QED BY <2>1, <1>1
<1>3. CASE k < j
  <2>1. w * (j - k) >= w
    BY <1>3, Scale
  <2>2. w * (j - k) = w * j - w * k
    OBVIOUS
  <2> QED BY <2>1, <2>2
<1>4. CASE k = j
  BY <1>4
<1> QED BY <1>2, <1>3, <1>4

\* ... so that adding to a remainder and adding to the number leave the same remainder.
LEMMA ModAdd ==
  ASSUME NEW a \in Nat, NEW n \in Nat, NEW w \in Nat \ {0}
  PROVE  ((a % w) + n) % w = (a + n) % w
<1> DEFINE b == (a % w) + n
<1>1. b \in Nat /\ a = w * (a \div w) + (a % w) /\ a \div w \in Nat
  BY Division
<1>2. b \div w \in Nat /\ b % w \in 0 .. w - 1 /\ b = w * (b \div w) + (b % w)
  BY <1>1, Division
<1>3. (a + n) \div w \in Nat /\ (a + n) % w \in 0 .. w - 1
      /\ a + n = w * ((a + n) \div w) + ((a + n) % w)
  <2>1. a + n \in Nat
    OBVIOUS
  <2> QED BY <2>1, Division
<1>4. a + n = w * ((a \div w) + (b \div w)) + (b % w)
  <2> HIDE DEF b
  <2>1. a + n = w * (a \div w) + b
    BY <1>1 DEF b
  <2>2. w * ((a \div w) + (b \div w)) = w * (a \div w) + w * (b \div w)
    BY <1>1, <1>2
  <2> QED BY <2>1, <2>2, <1>1, <1>2
<1> HIDE DEF b
<1>5. b % w = (a + n) % w
  <2> DEFINE i == (a \div w) + (b \div w)
             j == (a + n) \div w
             r == b % w
             s == (a + n) % w
  <2>1. i \in Int /\ j \in Int /\ r \in 0 .. w - 1 /\ s \in 0 .. w - 1
    BY <1>1, <1>2, <1>3
  <2>2. w * i + r = w * j + s
    BY <1>3, <1>4
  <2> HIDE DEF i, j, r, s
  <2>3. r = s
    BY <2>1, <2>2, Unique
  <2> QED BY <2>3 DEF r, s
<1> QED BY <1>5 DEF b

-----------------------------------------------------------------------------
(* WireClient                                                               *)

\* The number of the id-th command: they go round from 1 to SeqMax.
NumberOf(id) == ((id - 1) % SeqMax) + 1

\* The number after that of a command is the next command's ...
LEMMA NextNumber ==
  ASSUME NEW id \in Nat \ {0}
  PROVE  NumberOf(id) \in 1 .. SeqMax /\ NextSeq(NumberOf(id)) = NumberOf(id + 1)
<1> DEFINE w == SeqMax
           a == id - 1
           b == (a % w) + 1
<1>1. w \in Nat \ {0} /\ a \in Nat /\ a % w \in 0 .. w - 1 /\ id - 1 = a /\ (id + 1) - 1 = a + 1
  BY WireAssumption
<1>2. (a + 1) % w = b % w
  <2> HIDE DEF a
  <2> QED
    BY <1>1, ModAdd
<1>3. b \in 1 .. w /\ b % w \in 0 .. w - 1 /\ b \div w \in Nat /\ b = w * (b \div w) + (b % w)
  <2> HIDE DEF a
  <2>1. b \in Nat /\ b \in 1 .. w
    BY <1>1
  <2> QED
    BY <1>1, <2>1, Division
<1>4. CASE b = w
  <2>1. b % w = 0
    <3>1. w * 1 + 0 = w * (b \div w) + (b % w) /\ 0 \in 0 .. w - 1 /\ 1 \in Int /\ b \div w \in Int
      BY <1>1, <1>3, <1>4
    <3> HIDE DEF a, b
    <3> QED
      BY <1>1, <1>3, <3>1, Unique
  <2> QED
    BY <1>1, <1>2, <1>3, <1>4, <2>1 DEF NumberOf, NextSeq
<1>5. CASE b < w
  <2>1. b % w = b
    <3>1. w * 0 + b = w * (b \div w) + (b % w) /\ b \in 0 .. w - 1 /\ 0 \in Int /\ b \div w \in Int
      BY <1>1, <1>3, <1>5
    <3> HIDE DEF a, b
    <3> QED
      BY <1>1, <1>3, <3>1, Unique
  <2> QED
    BY <1>1, <1>2, <1>3, <1>5, <2>1 DEF NumberOf, NextSeq
<1>6. b = w \/ b < w
  <2> HIDE DEF b
  <2> QED
    BY <1>1, <1>3
<1> QED
  BY <1>4, <1>5, <1>6

\* ... and two commands with the same number are SeqMax apart, or twice that, and so on.
LEMMA SameNumber ==
  ASSUME NEW i \in Nat \ {0}, NEW j \in Nat \ {0}, i <= j, NumberOf(i) = NumberOf(j)
  PROVE  (j - i) % SeqMax = 0
<1> DEFINE w == SeqMax
           a == i - 1
           b == j - 1
<1>1. w \in Nat \ {0} /\ a \in Nat /\ b \in Nat /\ a % w = b % w /\ j - i = b - a /\ j - i \in Nat
  <2>1. w \in Nat \ {0} /\ a \in Nat /\ b \in Nat /\ j - i = b - a /\ j - i \in Nat
    BY WireAssumption
  <2>2. a % w \in Int /\ b % w \in Int /\ (a % w) + 1 = (b % w) + 1
    BY <2>1 DEF NumberOf
  <2> QED
    BY <2>1, <2>2
<1> HIDE DEF a, b
<1>2. /\ a = w * (a \div w) + (a % w) /\ b = w * (b \div w) + (b % w)
      /\ a \div w \in Nat /\ b \div w \in Nat /\ a % w \in 0 .. w - 1
  BY <1>1, Division
<1>3. b - a = w * ((b \div w) - (a \div w))
  <2>1. w * ((b \div w) - (a \div w)) = w * (b \div w) - w * (a \div w)
    BY <1>1, <1>2
  <2> QED
    BY <1>1, <1>2, <2>1
<1> DEFINE d == b - a
<1>4. d \in Nat /\ d \div w \in Nat /\ d % w \in 0 .. w - 1 /\ d = w * (d \div w) + (d % w)
  <2>1. d \in Nat
    BY <1>1
  <2> HIDE DEF d
  <2> QED
    BY <1>1, <2>1, Division
<1>5. w * ((b \div w) - (a \div w)) + 0 = w * (d \div w) + (d % w)
  BY <1>1, <1>2, <1>3, <1>4
<1>6. 0 = d % w
  <2>1. (b \div w) - (a \div w) \in Int /\ d \div w \in Int /\ 0 \in 0 .. w - 1
    BY <1>1, <1>2, <1>4
  <2> HIDE DEF d
  <2> QED
    BY <1>1, <1>4, <1>5, <2>1, Unique
<1> QED
  BY <1>1, <1>6

\* What the commands under way and the answers on the line are.
Commands == [id : Nat \ {0}, op : STRING, seq : Nat]
Replies ==
  [id : Nat \ {0}, op : STRING, seq : Nat, kind : {"ack", "response"}, status : Statuses,
   length : Lengths, at : Nat]

WireShape ==
  /\ "next_seq" \in DOMAIN client
  /\ call.pc \in {"idle", "await", "answered"} /\ call.id \in Nat
  /\ call.id = 0 => call.pc = "idle"
  /\ commands \in Seq(Commands) /\ line \in Seq(Replies)

\* A call waits for its own answer or has one.
CallShape ==
  /\ call.pc # "idle" => call.of \in Calls
  /\ call.pc = "answered" =>
       /\ call.by \in 1 .. call.id
       /\ call.answer.length \in Nat

\* Numbers go with the order of the commands, and name them up to SeqMax.
Numbered ==
  /\ client.next_seq = IF call.id = 0 THEN 0 ELSE NumberOf(call.id)
  /\ \A i \in 1 .. Len(commands) :
       commands[i].id <= call.id /\ commands[i].seq = NumberOf(commands[i].id)
  /\ \A i \in 1 .. Len(line) : line[i].id <= call.id /\ line[i].seq = NumberOf(line[i].id)

\* Before the answer to a call is on the line there is one command it can be the answer of.
OneCommand ==
  \A i \in 1 .. Len(commands) :
    call.pc = "await" /\ commands[i].id = call.id =>
      commands[i].op = call.of.op /\ \A j \in 1 .. Len(commands) : commands[j].id = call.id => j = i

\* While nothing has gone wrong, the line has nothing but the answer of the call in progress.
OwnAnswer ==
  blame = {} =>
    /\ call.pc = "idle" => line = <<>>
    /\ call.pc = "await" /\ line # <<>> =>
         /\ Len(line) = 1 /\ line[1].at = 0
         /\ line[1].id = call.id /\ line[1].op = call.of.op
         /\ \A i \in 1 .. Len(commands) : commands[i].id # call.id
    /\ call.pc = "answered" =>
         /\ call.by = call.id
         /\ IF call.answer.length = 0 THEN line = <<>>
            ELSE /\ Len(line) = 1 /\ line[1].kind = "response" /\ line[1].at = 4
                 /\ line[1].length = call.answer.length

\* Who is answered by another's answer.
Answered ==
  call.pc = "answered" /\ call.by # call.id =>
    IF call.via = "response" THEN call.by < call.id /\ (call.id - call.by) % SeqMax = 0
    ELSE blame # {}

WireInv == WireShape /\ CallShape /\ Numbered /\ OneCommand /\ OwnAnswer /\ Answered

\* What may be left of the line: parts of its answers, in words and in number.
Rest(s) ==
  /\ s \in Seq(Replies)
  /\ \A i \in 1 .. Len(s) : \E j \in 1 .. Len(line) : s[i].id = line[j].id /\ s[i].seq = line[j].seq

LEMMA RestsOfLine ==
  ASSUME line \in Seq(Replies)
  PROVE  /\ Rest(line) /\ Rest(<<>>) /\ \A k \in Nat : Rest(Clocked(k))
         /\ \A s : Rest(s) => \A i \in 1 .. Len(s) : Rest(SubSeq(s, i + 1, Len(s)))
<1>1. Rest(line)
  BY DEF Rest
<1>2. Rest(<<>>)
  BY DEF Rest
<1>3. ASSUME NEW k \in Nat PROVE Rest(Clocked(k))
  <2>1. CASE line = <<>> \/ k = 0
    BY <1>1, <2>1 DEF Clocked
  <2>2. CASE line # <<>> /\ k # 0
    <3> DEFINE first == [Head(line) EXCEPT !.at = @ + k]
    <3>1. /\ Len(line) >= 1 /\ Head(line) = line[1] /\ line[1] \in Replies
          /\ Tail(line) \in Seq(Replies) /\ Len(Tail(line)) = Len(line) - 1
          /\ \A i \in 1 .. Len(line) - 1 : Tail(line)[i] = line[i + 1]
      BY <2>2
    <3>2. first \in Replies /\ first.id = line[1].id /\ first.seq = line[1].seq
      <4>1. first = [line[1] EXCEPT !.at = line[1].at + k]
        BY <3>1
      <4>2. line[1].at + k \in Nat
        BY <3>1 DEF Replies
      <4> HIDE DEF first
      <4> QED
        BY <3>1, <4>1, <4>2 DEF Replies
    <3>3. Rest(Tail(line))
      BY <3>1 DEF Rest
    <3> HIDE DEF first
    <3>4. Rest(<<first>> \o Tail(line))
      <4>1. <<first>> \in Seq(Replies) /\ Len(<<first>>) = 1 /\ <<first>>[1] = first
        BY <3>2
      <4>2. /\ <<first>> \o Tail(line) \in Seq(Replies)
            /\ Len(<<first>> \o Tail(line)) = Len(line)
            /\ \A i \in 1 .. Len(line) :
                 (<<first>> \o Tail(line))[i] = IF i <= 1 THEN first ELSE Tail(line)[i - 1]
        BY <3>1, <4>1
      <4>3. ASSUME NEW i \in 1 .. Len(line)
            PROVE  /\ (<<first>> \o Tail(line))[i].id = line[i].id
                   /\ (<<first>> \o Tail(line))[i].seq = line[i].seq
        <5>1. CASE i = 1
          BY <3>1, <3>2, <4>2, <5>1
        <5>2. CASE i > 1
          <6>1. i - 1 \in 1 .. Len(line) - 1 /\ (i - 1) + 1 = i
            BY <3>1, <5>2
          <6>2. Tail(line)[i - 1] = line[i]
            BY <3>1, <6>1
          <6> QED
            BY <3>1, <4>2, <5>2, <6>2
        <5> QED
          BY <5>1, <5>2
      <4> QED
        BY <4>2, <4>3 DEF Rest
    <3> QED
      BY <2>2, <3>3, <3>4 DEF Clocked, first
  <2> QED
    BY <2>1, <2>2
<1>4. ASSUME NEW s, Rest(s), NEW i \in 1 .. Len(s) PROVE Rest(SubSeq(s, i + 1, Len(s)))
  <2>1. s \in Seq(Replies) /\ Len(s) \in Nat /\ i + 1 \in 1 .. Len(s) + 1
    BY <1>4 DEF Rest
  <2>2. /\ SubSeq(s, i + 1, Len(s)) \in Seq(Replies)
        /\ Len(SubSeq(s, i + 1, Len(s))) = Len(s) - i
        /\ \A j \in 1 .. Len(s) - i :
             j + i \in 1 .. Len(s) /\ SubSeq(s, i + 1, Len(s))[j] = s[j + i]
    BY <2>1
  <2>3. ASSUME NEW j \in 1 .. Len(s) - i
        PROVE  \E m \in 1 .. Len(line) : /\ SubSeq(s, i + 1, Len(s))[j].id = line[m].id
                                         /\ SubSeq(s, i + 1, Len(s))[j].seq = line[m].seq
    <3>1. \E m \in 1 .. Len(line) : s[j + i].id = line[m].id /\ s[j + i].seq = line[m].seq
      BY <1>4, <2>2 DEF Rest
    <3> QED
      BY <2>2, <3>1
  <2> QED
    BY <2>2, <2>3 DEF Rest
<1> QED
  BY <1>1, <1>2, <1>3, <1>4, Zenon

\* The invariant of whatever takes words off the line and leaves the commands alone.
LEMMA WordsTaken ==
  ASSUME WireInv, UNCHANGED commands, call'.id = call.id,
         call'.pc \in {"idle", "await", "answered"},
         call.id = 0 => call'.pc = "idle", call'.pc = "await" => call' = call,
         client'.next_seq = client.next_seq, "next_seq" \in DOMAIN client', Rest(line')
  PROVE  WireShape' /\ Numbered' /\ OneCommand'
<1>1. WireShape'
  BY DEF WireInv, WireShape, Rest
<1>2. Numbered'
  <2>1. ASSUME NEW i \in 1 .. Len(line')
        PROVE  line'[i].id <= call.id /\ line'[i].seq = NumberOf(line'[i].id)
    <3>1. PICK j \in 1 .. Len(line) : line'[i].id = line[j].id /\ line'[i].seq = line[j].seq
      BY <2>1 DEF Rest
    <3> QED
      BY <3>1 DEF WireInv, Numbered
  <2> QED
    BY <2>1 DEF WireInv, Numbered, NumberOf
<1>3. OneCommand'
  BY DEF WireInv, OneCommand
<1> QED
  BY <1>1, <1>2, <1>3

\* A call that ends, with nothing on the line if nothing has gone wrong.
LEMMA CallEnds ==
  ASSUME WireInv, UNCHANGED commands, call' = Ended, client'.next_seq = client.next_seq,
         "next_seq" \in DOMAIN client', Rest(line'), blame' = {} => line' = <<>>
  PROVE  WireInv'
<1>1. call'.pc = "idle" /\ call'.id = call.id
  BY DEF Ended
<1>2. WireShape' /\ Numbered' /\ OneCommand'
  BY <1>1, WordsTaken
<1>3. CallShape' /\ OwnAnswer' /\ Answered'
  BY <1>1 DEF CallShape, OwnAnswer, Answered
<1> QED
  BY <1>2, <1>3 DEF WireInv

LEMMA CallFails ==
  ASSUME WireInv, UNCHANGED commands, NEW rest, Rest(rest), Fail(rest), blame' = {} => rest = <<>>
  PROVE  WireInv'
<1>1. client'.next_seq = client.next_seq /\ "next_seq" \in DOMAIN client' /\ call' = Ended
  BY DEF Fail, WireInv, WireShape
<1>2. line' = rest \/ \E i \in 1 .. Len(rest) : line' = SubSeq(rest, i + 1, Len(rest))
  BY DEF Fail
<1>3. Rest(line')
  BY <1>2, RestsOfLine DEF WireInv, WireShape
<1>4. rest = <<>> => line' = rest
  BY <1>2
<1> QED
  BY <1>1, <1>3, <1>4, CallEnds

\* A word skipped.
LEMMA CallWaits ==
  ASSUME WireInv, UNCHANGED <<client, call, commands>>, call.pc = "await", Rest(line'),
         blame' = {} => line' = <<>>
  PROVE  WireInv'
<1>1. WireShape' /\ Numbered' /\ OneCommand'
  BY WordsTaken DEF WireInv, WireShape
<1>2. CallShape' /\ OwnAnswer' /\ Answered'
  BY DEF WireInv, CallShape, OwnAnswer, Answered
<1> QED
  BY <1>1, <1>2 DEF WireInv

\* A header taken for the answer.
LEMMA CallAnswered ==
  ASSUME WireInv, UNCHANGED commands, call.pc = "await", line # <<>>,
         NEW via \in {"ack", "response"}, NEW status, NEW length \in Nat, NEW rest, Rest(rest),
         Accept(via, status, length, rest), via = "response" => Matches(Head(line)),
         blame' = {} =>
           /\ blame = {}
           /\ IF length = 0 THEN rest = <<>>
              ELSE /\ Len(rest) = 1 /\ rest[1].kind = "response" /\ rest[1].at = 4
                   /\ rest[1].length = length
  PROVE  WireInv'
<1>1. /\ call' = [pc |-> "answered", of |-> call.of, id |-> call.id, by |-> Head(line).id,
                  via |-> via, answer |-> [status |-> status, length |-> length]]
      /\ line' = rest
  BY DEF Accept
<1>2. /\ call'.pc = "answered" /\ call'.of = call.of /\ call'.id = call.id
      /\ call'.by = line[1].id /\ call'.via = via /\ call'.answer.length = length
  BY <1>1 DEF WireInv, WireShape
<1>3. client'.next_seq = client.next_seq /\ "next_seq" \in DOMAIN client'
  BY DEF Accept, WireInv, WireShape
<1>4. call.id \in Nat \ {0} /\ line[1] \in Replies /\ line[1].id \in 1 .. call.id
  <2>1. call.id \in Nat \ {0} /\ Len(line) >= 1 /\ line[1] \in Replies
    BY DEF WireInv, WireShape
  <2>2. line[1].id \in Nat \ {0} /\ line[1].id <= call.id
    BY <2>1 DEF WireInv, Numbered, Replies
  <2> QED
    BY <2>1, <2>2
<1>5. WireShape' /\ Numbered' /\ OneCommand'
  BY <1>1, <1>2, <1>3, <1>4, WordsTaken
<1>6. CallShape'
  BY <1>2, <1>4 DEF WireInv, CallShape
<1>7. blame = {} => line[1].id = call.id
  BY DEF WireInv, OwnAnswer
<1>8. OwnAnswer'
  BY <1>1, <1>2, <1>7 DEF OwnAnswer
<1>9. Answered'
  <2>1. CASE via = "response"
    <3>1. line[1].seq = NumberOf(line[1].id) /\ client.next_seq = NumberOf(call.id)
          /\ line[1].seq = client.next_seq
      BY <1>4, <2>1 DEF WireInv, WireShape, Numbered, Matches
    <3>2. (call.id - line[1].id) % SeqMax = 0
      <4>1. line[1].id \in Nat \ {0} /\ line[1].id <= call.id
        BY <1>4
      <4>2. NumberOf(line[1].id) = NumberOf(call.id)
        BY <3>1
      <4> QED
        BY <1>4, <4>1, <4>2, SameNumber
    <3>3. line[1].id # call.id => line[1].id < call.id
      BY <1>4
    <3> QED
      BY <1>2, <2>1, <3>2, <3>3 DEF Answered
  <2>2. CASE via = "ack"
    BY <1>2, <1>7, <2>2 DEF Answered
  <2> QED
    BY <2>1, <2>2
<1> QED
  BY <1>5, <1>6, <1>8, <1>9 DEF WireInv

LEMMA WireAtFirst == WireInit => WireInv
<1> SUFFICES ASSUME WireInit PROVE WireInv
  OBVIOUS
<1>1. WireShape /\ CallShape /\ Numbered
  BY DEF WireInit, WireShape, CallShape, Numbered
<1>2. OneCommand /\ OwnAnswer /\ Answered
  BY DEF WireInit, OneCommand, OwnAnswer, Answered
<1> QED
  BY <1>1, <1>2 DEF WireInv

LEMMA SendKeeps == ASSUME WireInv, NEW c \in Calls, Send(c) PROVE WireInv'
<1> DEFINE id == call.id + 1
           command == [id |-> id, op |-> c.op, seq |-> NextSeq(client.next_seq)]
<1>1. /\ call' = [pc |-> "await", of |-> c, id |-> id]
      /\ client'.next_seq = NextSeq(client.next_seq) /\ "next_seq" \in DOMAIN client'
      /\ call.pc = "idle" /\ blame' = blame
      /\ commands' = commands \/ commands' = Append(commands, command)
  BY DEF Send, WireInv, WireShape
<1>2. call'.pc = "await" /\ call'.of = c /\ call'.id = id /\ id \in Nat \ {0} /\ call.id \in Nat
  BY <1>1 DEF WireInv, WireShape
<1>3. NextSeq(client.next_seq) = NumberOf(id) /\ NumberOf(id) \in Nat
  <2>1. CASE call.id = 0
    <3>1. SeqMax \in Nat \ {0} /\ 0 % SeqMax = 0
      <4>1. SeqMax \in Nat \ {0}
        BY WireAssumption
      <4> QED
        BY <4>1
    <3>2. client.next_seq = 0 /\ id - 1 = 0
      BY <2>1 DEF WireInv, Numbered
    <3> QED
      BY <3>1, <3>2 DEF NextSeq, NumberOf
  <2>2. CASE call.id # 0
    <3>1. call.id \in Nat \ {0} /\ client.next_seq = NumberOf(call.id)
      BY <1>2, <2>2 DEF WireInv, Numbered
    <3>2. /\ NextSeq(NumberOf(call.id)) = NumberOf(call.id + 1)
          /\ NumberOf(call.id + 1) \in 1 .. SeqMax
      BY <1>2, <3>1, NextNumber
    <3> QED
      BY <3>1, <3>2
  <2> QED
    BY <2>1, <2>2
<1>4. Rest(line') /\ (blame = {} => line' = <<>>)
  <2>1. line' = Clocked(0) \/ line' = Clocked(4) \/ line' = <<>>
    BY DEF Send
  <2>2. Rest(line')
    BY <2>1, RestsOfLine DEF WireInv, WireShape
  <2>3. blame = {} => line = <<>>
    BY <1>1 DEF WireInv, OwnAnswer
  <2> QED
    BY <2>1, <2>2, <2>3 DEF Clocked
<1>5. command \in Commands /\ command.id = id /\ command.seq = NumberOf(id) /\ command.op = c.op
  BY <1>2, <1>3, WireAssumption DEF Commands
<1> HIDE DEF command, id
<1>6. /\ commands \in Seq(Commands) /\ commands' \in Seq(Commands)
      /\ Len(commands') = Len(commands) \/ Len(commands') = Len(commands) + 1
      /\ Len(commands') = Len(commands) + 1 => commands'[Len(commands) + 1] = command
      /\ \A i \in 1 .. Len(commands) : commands'[i] = commands[i]
  <2>1. commands \in Seq(Commands)
    BY DEF WireInv, WireShape
  <2>2. CASE commands' = commands
    BY <2>1, <2>2
  <2>3. CASE commands' = Append(commands, command)
    BY <1>5, <2>1, <2>3
  <2> QED
    BY <1>1, <2>2, <2>3
<1>7. \A i \in 1 .. Len(commands') :
        \/ i \in 1 .. Len(commands) /\ commands'[i] = commands[i]
        \/ i = Len(commands) + 1 /\ Len(commands') = Len(commands) + 1 /\ commands'[i] = command
  BY <1>6
<1>8. \A i \in 1 .. Len(commands) :
        commands[i].id \in Nat /\ commands[i].id < id /\ commands[i].seq = NumberOf(commands[i].id)
  <2>1. ASSUME NEW i \in 1 .. Len(commands)
        PROVE  commands[i].id \in Nat /\ commands[i].id <= call.id
               /\ commands[i].seq = NumberOf(commands[i].id)
    <3>1. commands[i] \in Commands
      BY <1>6
    <3> QED
      BY <3>1 DEF WireInv, Numbered, Commands
  <2> QED
    BY <1>2, <2>1 DEF id
<1>9. WireShape'
  BY <1>1, <1>2, <1>4, <1>6 DEF WireShape, Rest
<1>10. CallShape'
  BY <1>2 DEF CallShape
<1>11. Numbered'
  <2>1. ASSUME NEW i \in 1 .. Len(line')
        PROVE  line'[i].id <= id /\ line'[i].seq = NumberOf(line'[i].id)
    <3>1. PICK j \in 1 .. Len(line) : line'[i].id = line[j].id /\ line'[i].seq = line[j].seq
      BY <1>4, <2>1 DEF Rest
    <3>2. line[j] \in Replies /\ line[j].id \in Nat /\ line[j].id <= call.id
          /\ line[j].seq = NumberOf(line[j].id)
      <4>1. line[j] \in Replies
        BY DEF WireInv, WireShape
      <4> QED
        BY <4>1 DEF WireInv, Numbered, Replies
    <3> QED
      BY <1>2, <3>1, <3>2 DEF id
  <2>2. ASSUME NEW i \in 1 .. Len(commands')
        PROVE  commands'[i].id <= id /\ commands'[i].seq = NumberOf(commands'[i].id)
    BY <1>2, <1>5, <1>7, <1>8
  <2>3. client'.next_seq = NumberOf(id)
    BY <1>1, <1>3
  <2> QED
    BY <1>2, <2>1, <2>2, <2>3 DEF Numbered, NumberOf
<1>12. OneCommand'
  <2>1. ASSUME NEW i \in 1 .. Len(commands'), commands'[i].id = id
        PROVE  i = Len(commands) + 1 /\ commands'[i].op = c.op
    BY <1>2, <1>5, <1>7, <1>8, <2>1
  <2> QED
    BY <1>2, <2>1 DEF OneCommand
<1>13. OwnAnswer' /\ Answered'
  BY <1>1, <1>2, <1>4 DEF OwnAnswer, Answered
<1> QED
  BY <1>9, <1>10, <1>11, <1>12, <1>13 DEF WireInv

LEMMA AnswerKeeps ==
  ASSUME WireInv, NEW kind \in {"ack", "response"}, NEW status \in Statuses, NEW length \in Lengths,
         Answer(kind, status, length)
  PROVE  WireInv'
<1> DEFINE c == Head(commands)
           reply == [id |-> c.id, op |-> c.op, seq |-> c.seq, kind |-> kind, status |-> status,
                     length |-> length, at |-> 0]
<1>1. /\ commands # <<>> /\ line' = Append(line, reply) /\ commands' = Tail(commands)
      /\ UNCHANGED <<client, call>>
      /\ blame' = IF c.id = call.id /\ call.pc = "await" THEN blame ELSE blame \cup {"late"}
  BY DEF Answer
<1>2. /\ Len(commands) >= 1 /\ c = commands[1] /\ c \in Commands /\ commands \in Seq(Commands)
      /\ commands' \in Seq(Commands) /\ Len(commands') = Len(commands) - 1
      /\ \A i \in 1 .. Len(commands) - 1 :
           i + 1 \in 1 .. Len(commands) /\ commands'[i] = commands[i + 1]
  BY <1>1 DEF WireInv, WireShape
<1>3. reply \in Replies /\ c.id <= call.id /\ c.seq = NumberOf(c.id)
  BY <1>2 DEF WireInv, Numbered, Commands, Replies
<1> HIDE DEF reply
<1>4. /\ line \in Seq(Replies) /\ line' \in Seq(Replies) /\ Len(line') = Len(line) + 1
      /\ line'[Len(line) + 1] = reply /\ \A i \in 1 .. Len(line) : line'[i] = line[i]
  BY <1>1, <1>3 DEF WireInv, WireShape
<1> HIDE DEF c
<1>5. WireShape' /\ CallShape'
  BY <1>1, <1>2, <1>4 DEF WireInv, WireShape, CallShape
<1>6. Numbered'
  <2>1. ASSUME NEW i \in 1 .. Len(line')
        PROVE  line'[i].id <= call.id /\ line'[i].seq = NumberOf(line'[i].id)
    <3>1. CASE i = Len(line) + 1
      BY <1>3, <1>4, <3>1 DEF reply
    <3>2. CASE i \in 1 .. Len(line)
      BY <1>4, <3>2 DEF WireInv, Numbered
    <3> QED
      BY <1>4, <3>1, <3>2
  <2>2. ASSUME NEW i \in 1 .. Len(commands')
        PROVE  commands'[i].id <= call.id /\ commands'[i].seq = NumberOf(commands'[i].id)
    BY <1>2 DEF WireInv, Numbered
  <2> QED
    BY <1>1, <2>1, <2>2 DEF WireInv, Numbered, NumberOf
<1>7. OneCommand'
  <2> SUFFICES ASSUME NEW i \in 1 .. Len(commands'), call.pc = "await", commands'[i].id = call.id
               PROVE  /\ commands'[i].op = call.of.op
                      /\ \A j \in 1 .. Len(commands') : commands'[j].id = call.id => j = i
    BY <1>1 DEF OneCommand
  <2>1. i \in Nat /\ i + 1 \in 1 .. Len(commands) /\ commands'[i] = commands[i + 1]
    BY <1>2
  <2>2. /\ commands[i + 1].op = call.of.op
        /\ \A j \in 1 .. Len(commands) : commands[j].id = call.id => j = i + 1
    BY <2>1 DEF WireInv, OneCommand
  <2>3. ASSUME NEW j \in 1 .. Len(commands'), commands'[j].id = call.id PROVE j = i
    <3>1. j \in Nat /\ j + 1 \in 1 .. Len(commands) /\ commands'[j] = commands[j + 1]
      BY <1>2
    <3>2. j + 1 = i + 1
      BY <2>2, <2>3, <3>1
    <3> QED
      BY <2>1, <3>1, <3>2
  <2> QED
    BY <2>1, <2>2, <2>3
<1>8. OwnAnswer'
  <2> SUFFICES ASSUME blame' = {} PROVE OwnAnswer'
    BY DEF OwnAnswer
  <2>1. blame = {} /\ c.id = call.id /\ call.pc = "await"
    BY <1>1
  <2>2. line = <<>>
    <3>1. 1 \in 1 .. Len(commands) /\ commands[1].id = call.id
      BY <1>2, <2>1
    <3> QED
      BY <2>1, <3>1 DEF WireInv, OwnAnswer
  <2>3. c.op = call.of.op /\ \A i \in 1 .. Len(commands) : commands[i].id = call.id => i = 1
    BY <1>2, <2>1 DEF WireInv, OneCommand
  <2>4. \A i \in 1 .. Len(commands') : commands'[i].id # call.id
    <3> SUFFICES ASSUME NEW i \in 1 .. Len(commands') PROVE commands'[i].id # call.id
      OBVIOUS
    <3>1. i \in Nat \ {0} /\ i + 1 \in 1 .. Len(commands) /\ commands'[i] = commands[i + 1]
      BY <1>2
    <3>2. i + 1 # 1
      BY <3>1
    <3> QED
      BY <2>3, <3>1, <3>2
  <2>5. Len(line') = 1 /\ line'[1] = reply
    BY <1>4, <2>2
  <2>6. reply.at = 0 /\ reply.id = call.id /\ reply.op = call.of.op
    BY <2>1, <2>3 DEF reply
  <2> QED
    BY <1>1, <2>1, <2>4, <2>5, <2>6 DEF OwnAnswer
<1>9. Answered'
  BY <1>1 DEF WireInv, Answered
<1> QED
  BY <1>5, <1>6, <1>7, <1>8, <1>9 DEF WireInv

LEMMA LengthsAreNat == Lengths \subseteq Nat
  BY WireAssumption

LEMMA OneAnswer ==
  ASSUME line \in Seq(Replies), Len(line) = 1
  PROVE  line # <<>> /\ Head(line) = line[1] /\ line[1] \in Replies /\ Tail(line) = <<>>
<1>0. line # <<>>
  BY EmptySeq
<1>1. line # <<>> /\ Head(line) = line[1] /\ line[1] \in Replies
  BY <1>0
<1>2. Tail(line) \in Seq(Replies) /\ Len(Tail(line)) = 0
  BY <1>1
<1> QED
  BY <1>1, <1>2, EmptySeq

\* The answer on the line while nothing has gone wrong.
LEMMA FirstIsOwn ==
  ASSUME WireInv, blame = {}, call.pc = "await", line # <<>>
  PROVE  /\ Len(line) = 1 /\ Head(line) = line[1] /\ line[1] \in Replies /\ Tail(line) = <<>>
         /\ line[1].at = 0 /\ line[1].id = call.id /\ line[1].op = call.of.op
         /\ line[1].seq = client.next_seq
<1>1. /\ Len(line) = 1 /\ line[1].at = 0 /\ line[1].id = call.id /\ line[1].op = call.of.op
  BY DEF WireInv, OwnAnswer
<1>2. line \in Seq(Replies) /\ Head(line) = line[1] /\ line[1] \in Replies /\ Tail(line) = <<>>
  <2>1. line \in Seq(Replies)
    BY DEF WireInv, WireShape
  <2> QED
    BY <1>1, <2>1, OneAnswer
<1>3. line[1].seq = client.next_seq
  BY <1>1 DEF WireInv, WireShape, Numbered
<1> QED
  BY <1>1, <1>2, <1>3

LEMMA SkipKeeps == ASSUME WireInv, Skip PROVE WireInv'
<1>1. /\ blame' = blame /\ UNCHANGED commands /\ call.pc = "await"
      /\ line # <<>> => Head(line).at > 0
  BY DEF Skip
<1>2. Rest(Clocked(1)) /\ (blame' = {} => Clocked(1) = <<>>)
  <2>1. blame = {} => line = <<>>
    BY <1>1, FirstIsOwn
  <2> QED
    BY <1>1, <2>1, RestsOfLine DEF Clocked, WireInv, WireShape
<1>3. CASE Fail(Clocked(1))
  BY <1>1, <1>2, <1>3, CallFails
<1>4. CASE line' = Clocked(1) /\ UNCHANGED <<client, call>>
  BY <1>1, <1>2, <1>4, CallWaits
<1> QED
  BY <1>3, <1>4 DEF Skip

LEMMA MissKeeps == ASSUME WireInv, NEW lost \in BOOLEAN, Miss(lost) PROVE WireInv'
<1> DEFINE rest == Clocked(IF lost THEN 1 ELSE 0)
<1>1. blame' # {} /\ UNCHANGED commands /\ call.pc = "await"
  BY DEF Miss
<1>2. Rest(rest)
  BY RestsOfLine DEF WireInv, WireShape
<1>3. Fail(rest) \/ (line' = rest /\ UNCHANGED <<client, call>>)
  BY DEF Miss
<1> HIDE DEF rest
<1>4. CASE Fail(rest)
  BY <1>1, <1>2, <1>4, CallFails
<1>5. CASE line' = rest /\ UNCHANGED <<client, call>>
  BY <1>1, <1>2, <1>5, CallWaits
<1> QED
  BY <1>3, <1>4, <1>5

LEMMA PushFailsKeeps == ASSUME WireInv, PushFails PROVE WireInv'
<1>1. /\ call.pc = "await" /\ UNCHANGED <<commands, line>> /\ call' = Ended /\ blame' # {}
      /\ client' = [client EXCEPT !.state = "error", !.last_status = "timeout"]
  BY DEF PushFails, Ended
<1>2. client'.next_seq = client.next_seq /\ "next_seq" \in DOMAIN client'
  BY <1>1 DEF WireInv, WireShape
<1>3. Rest(line')
  BY <1>1, RestsOfLine DEF WireInv, WireShape, Clocked
<1> QED
  BY <1>1, <1>2, <1>3, CallEnds

LEMMA StrayKeeps == ASSUME WireInv, Stray PROVE WireInv'
<1>1. /\ blame' = blame /\ UNCHANGED commands /\ call.pc = "await" /\ line # <<>>
      /\ Head(line).at > 0 /\ Fail(Clocked(1))
  BY DEF Stray
<1>2. Rest(Clocked(1)) /\ blame # {}
  BY <1>1, FirstIsOwn, RestsOfLine DEF WireInv, WireShape
<1> QED
  BY <1>1, <1>2, CallFails

LEMMA TakeAckKeeps == ASSUME WireInv, TakeAck PROVE WireInv'
<1>1. /\ blame' = blame /\ UNCHANGED commands /\ call.pc = "await" /\ line # <<>>
      /\ Head(line).kind = "ack" /\ Head(line).at = 0
  BY DEF TakeAck
<1>2. Rest(Clocked(1))
  BY RestsOfLine DEF WireInv, WireShape
<1>3. blame = {} => Clocked(1) = <<>> /\ Head(line).op = call.of.op
  BY <1>1, FirstIsOwn DEF Clocked, Words
<1>4. CASE Head(line).op # call.of.op
  <2>1. Fail(Clocked(1))
    BY <1>4 DEF TakeAck
  <2> QED
    BY <1>1, <1>2, <1>3, <1>4, <2>1, CallFails
<1>5. CASE Head(line).op = call.of.op
  <2>1. Accept("ack", Head(line).status, 0, Clocked(1))
    BY <1>5 DEF TakeAck
  <2> QED
    BY <1>1, <1>2, <1>3, <2>1, CallAnswered
<1> QED
  BY <1>4, <1>5

LEMMA TakeHeaderKeeps == ASSUME WireInv, TakeHeader PROVE WireInv'
<1>1. /\ blame' = blame /\ UNCHANGED commands /\ call.pc = "await" /\ line # <<>>
      /\ Head(line).kind = "response" /\ Head(line).at = 0
  BY DEF TakeHeader
<1>2. Rest(Clocked(4)) /\ line[1] \in Replies /\ Head(line) = line[1] /\ line[1].length \in Nat
  <2>1. line[1] \in Replies /\ Head(line) = line[1]
    BY <1>1 DEF WireInv, WireShape
  <2>2. line[1].length \in Nat
    BY <2>1, LengthsAreNat DEF Replies
  <2>3. Rest(Clocked(4))
    BY RestsOfLine DEF WireInv, WireShape
  <2> QED
    BY <2>1, <2>2, <2>3
<1>3. blame = {} =>
        /\ Matches(Head(line))
        /\ IF line[1].length = 0 THEN Clocked(4) = <<>>
           ELSE /\ Len(Clocked(4)) = 1 /\ Clocked(4)[1].kind = "response" /\ Clocked(4)[1].at = 4
                /\ Clocked(4)[1].length = line[1].length
  <2> SUFFICES ASSUME blame = {}
               PROVE  /\ Matches(Head(line))
                      /\ IF line[1].length = 0 THEN Clocked(4) = <<>>
                         ELSE /\ Len(Clocked(4)) = 1 /\ Clocked(4)[1].kind = "response"
                              /\ Clocked(4)[1].at = 4 /\ Clocked(4)[1].length = line[1].length
    OBVIOUS
  <2>1. Matches(Head(line)) /\ Tail(line) = <<>> /\ line[1].at = 0 /\ line[1].kind = "response"
    BY <1>1, FirstIsOwn DEF Matches
  <2>2. CASE line[1].length = 0
    BY <1>1, <1>2, <2>1, <2>2 DEF Clocked, Words
  <2>3. CASE line[1].length > 0
    <3> DEFINE later == [line[1] EXCEPT !.at = 4]
    <3>1. later.kind = "response" /\ later.at = 4 /\ later.length = line[1].length
      BY <1>2, <2>1 DEF Replies
    <3>2. Clocked(4) = <<[Head(line) EXCEPT !.at = @ + 4]>> \o Tail(line)
      BY <1>1, <1>2, <2>1, <2>3 DEF Clocked, Words
    <3>3. [Head(line) EXCEPT !.at = @ + 4] = later
      BY <1>2, <2>1 DEF Replies
    <3> HIDE DEF later
    <3>4. Clocked(4) = <<later>>
      <4>1. <<later>> \o <<>> = <<later>>
        BY ConcatEmptySeq
      <4> QED
        BY <2>1, <3>2, <3>3, <4>1
    <3> QED
      BY <2>1, <2>3, <3>1, <3>4
  <2> QED
    BY <1>2, <2>1, <2>2, <2>3
<1>4. CASE ~Matches(Head(line))
  <2>1. Fail(Clocked(4)) /\ blame # {}
    BY <1>3, <1>4 DEF TakeHeader
  <2> QED
    BY <1>1, <1>2, <2>1, CallFails
<1>5. CASE Matches(Head(line))
  <2>1. Accept("response", Head(line).status, line[1].length, Clocked(4))
    BY <1>2, <1>5 DEF TakeHeader
  <2> QED
    BY <1>1, <1>2, <1>3, <1>5, <2>1, CallAnswered
<1> QED
  BY <1>4, <1>5

LEMMA TakeBrokenHeaderKeeps ==
  ASSUME WireInv, NEW i \in 1 .. 3, NEW lost \in BOOLEAN, TakeBrokenHeader(i, lost)
  PROVE  WireInv'
<1> DEFINE rest == Clocked(IF lost THEN 4 ELSE 3)
           length == IF i = 1 THEN 0 ELSE Head(line).length
<1>1. blame' # {} /\ UNCHANGED commands /\ call.pc = "await" /\ line # <<>>
  BY DEF TakeBrokenHeader
<1>2. Rest(rest) /\ length \in Nat
  <2>1. Head(line) \in Replies
    BY <1>1 DEF WireInv, WireShape
  <2> QED
    <3>1. length \in Nat
      BY <2>1, LengthsAreNat DEF Replies
    <3>2. Rest(rest)
      BY RestsOfLine DEF WireInv, WireShape
    <3> QED
      BY <3>1, <3>2
<1>3. \/ Fail(rest)
      \/ Matches(Head(line)) /\ Accept("response", Head(line).status, length, rest)
  BY DEF TakeBrokenHeader
<1> HIDE DEF rest, length
<1>4. CASE Fail(rest)
  BY <1>1, <1>2, <1>4, CallFails
<1>5. CASE Matches(Head(line)) /\ Accept("response", Head(line).status, length, rest)
  BY <1>1, <1>2, <1>5, CallAnswered
<1> QED
  BY <1>3, <1>4, <1>5

\* The words left of an answer nothing has gone wrong with, and the words the call takes.
LEMMA PayloadTaken ==
  ASSUME WireInv, blame = {}, call.pc = "answered", NEW k \in Nat,
         k >= call.answer.length
  PROVE  Clocked(k) = <<>>
<1>1. call.answer.length \in Nat
  BY DEF WireInv, CallShape
<1>2. CASE call.answer.length = 0
  BY <1>2 DEF WireInv, OwnAnswer, Clocked
<1>3. CASE call.answer.length > 0
  <2>1. /\ Len(line) = 1 /\ line[1].kind = "response" /\ line[1].at = 4
        /\ line[1].length = call.answer.length
    BY <1>1, <1>3 DEF WireInv, OwnAnswer
  <2>2. line \in Seq(Replies) /\ line # <<>> /\ Head(line) = line[1] /\ Tail(line) = <<>>
    BY <2>1, OneAnswer DEF WireInv, WireShape
  <2>3. Head(line).at + k >= Words(Head(line)) /\ k # 0
    BY <1>1, <1>3, <2>1, <2>2 DEF Words
  <2> QED
    BY <2>2, <2>3 DEF Clocked
<1> QED
  BY <1>1, <1>2, <1>3

\* The call of an answer, and how it is spoiled.
LEMMA AnsweredCall ==
  ASSUME WireInv, call.pc = "answered"
  PROVE  /\ call.of \in Calls /\ call.of.most \in Nat /\ call.of.part \in Nat
         /\ call.answer.length \in Nat /\ Taken(call.of, call.answer) \in Nat
         /\ \A k \in Nat : Rest(Clocked(k))
         /\ \A status : /\ Spoiled(call.of, status).next_seq = client.next_seq
                        /\ "next_seq" \in DOMAIN Spoiled(call.of, status)
<1>1. call.of \in Calls /\ call.answer.length \in Nat
  BY DEF WireInv, CallShape
<1>2. call.of.most \in Nat /\ call.of.part \in Nat
  BY <1>1, WireAssumption
<1>3. Taken(call.of, call.answer) \in Nat
  BY <1>1, <1>2 DEF Taken
<1>4. \A k \in Nat : Rest(Clocked(k))
  BY RestsOfLine DEF WireInv, WireShape
<1>5. ASSUME NEW status
      PROVE  /\ Spoiled(call.of, status).next_seq = client.next_seq
             /\ "next_seq" \in DOMAIN Spoiled(call.of, status)
  <2>1. "next_seq" \in DOMAIN client
    BY DEF WireInv, WireShape
  <2>2. \/ Spoiled(call.of, status) =
             [client EXCEPT !.state = "error", !.last_status = "bad_packet"]
        \/ Spoiled(call.of, status) =
             [client EXCEPT !.state = "offline", !.last_status = "bad_packet"]
        \/ Spoiled(call.of, status) = [client EXCEPT !.last_status = "bad_packet"]
        \/ Spoiled(call.of, status) = client
    BY DEF Spoiled
  <2> QED
    BY <2>1, <2>2
<1> QED
  BY <1>1, <1>2, <1>3, <1>4, <1>5

LEMMA RefuseKeeps == ASSUME WireInv, Refuse PROVE WireInv'
<1> DEFINE taken == Taken(call.of, call.answer)
<1>1. /\ call.pc = "answered" /\ ~Accepted(call.of, call.answer) /\ UNCHANGED commands
      /\ line' = Clocked(taken) /\ call' = Ended /\ client' = Spoiled(call.of, call.answer.status)
      /\ blame' = IF Copes(call.of, call.answer) THEN blame ELSE blame \cup {"left"}
  BY DEF Refuse
<1>2. /\ taken \in Nat /\ call.answer.length \in Nat /\ Rest(line')
      /\ client'.next_seq = client.next_seq /\ "next_seq" \in DOMAIN client'
  BY <1>1, AnsweredCall
<1>3. blame' = {} => line' = <<>>
  <2> SUFFICES ASSUME blame' = {} PROVE line' = <<>>
    OBVIOUS
  <2>1. blame = {} /\ Copes(call.of, call.answer)
    BY <1>1
  <2>2. taken >= call.answer.length
    BY <1>1, <1>2, <2>1 DEF Taken, Copes
  <2> HIDE DEF taken
  <2> QED
    BY <1>1, <1>2, <2>1, <2>2, PayloadTaken
<1> HIDE DEF taken
<1> QED
  BY <1>1, <1>2, <1>3, CallEnds

LEMMA DeliverKeeps == ASSUME WireInv, Deliver PROVE WireInv'
<1> DEFINE taken == Taken(call.of, call.answer)
<1>1. /\ call.pc = "answered" /\ Accepted(call.of, call.answer) /\ UNCHANGED commands
      /\ line' = Clocked(taken) /\ call' = Ended
      /\ blame' = IF Copes(call.of, call.answer) THEN blame ELSE blame \cup {"left"}
  BY DEF Deliver
<1>2. client'.next_seq = client.next_seq /\ "next_seq" \in DOMAIN client'
  <2>1. PICK caps, state : client' = [client EXCEPT !.caps = caps, !.state = state]
    BY DEF Deliver
  <2>2. "next_seq" \in DOMAIN client
    BY DEF WireInv, WireShape
  <2> QED
    BY <2>1, <2>2
<1>3. taken \in Nat /\ call.answer.length \in Nat /\ call.of.most \in Nat /\ Rest(line')
  BY <1>1, AnsweredCall
<1>4. blame' = {} => line' = <<>>
  <2> SUFFICES ASSUME blame' = {} PROVE line' = <<>>
    OBVIOUS
  <2>1. blame = {} /\ Copes(call.of, call.answer)
    BY <1>1
  <2>2. taken >= call.answer.length
    BY <1>1, <1>3, <2>1 DEF Taken, Copes
  <2> HIDE DEF taken
  <2> QED
    BY <1>1, <1>3, <2>1, <2>2, PayloadTaken
<1> HIDE DEF taken
<1> QED
  BY <1>1, <1>2, <1>3, <1>4, CallEnds

LEMMA MisreadKeeps == ASSUME WireInv, Misread PROVE WireInv'
<1> DEFINE part == call.of.part
           length == call.answer.length
           taken == IF part < length THEN part ELSE length
<1>1. /\ call.pc = "answered" /\ UNCHANGED commands /\ line' = Clocked(taken) /\ call' = Ended
      /\ client' = Spoiled(call.of, call.answer.status)
      /\ blame' = IF part < length THEN blame \cup {"left"} ELSE blame
  BY DEF Misread
<1>2. /\ part \in Nat /\ length \in Nat /\ taken \in Nat
      /\ client'.next_seq = client.next_seq /\ "next_seq" \in DOMAIN client'
  BY <1>1, AnsweredCall
<1>3. Rest(line')
  BY <1>1, <1>2, AnsweredCall
<1>4. blame' = {} => blame = {} /\ taken >= length
  BY <1>1, <1>2
<1> HIDE DEF taken
<1>5. blame' = {} => line' = <<>>
  BY <1>1, <1>2, <1>4, PayloadTaken
<1> QED
  BY <1>1, <1>2, <1>3, <1>5, CallEnds

LEMMA StarveKeeps ==
  ASSUME WireInv, NEW lost \in BOOLEAN, NEW k \in Lengths, Starve(lost, k)
  PROVE  WireInv'
<1> DEFINE taken == Taken(call.of, call.answer)
<1>1. /\ call.pc = "answered" /\ UNCHANGED commands /\ call' = Ended /\ blame' # {} /\ taken > 0
      /\ line' = Clocked(taken) \/ line' = Clocked(taken - 1) \/ line' = Clocked(k)
      /\ \/ client' = [client EXCEPT !.caps = @ /\ ~call.of.any]
         \/ client' = [client EXCEPT !.state = "error", !.last_status = "timeout"]
  BY DEF Starve
<1>2. client'.next_seq = client.next_seq /\ "next_seq" \in DOMAIN client'
  <2>1. "next_seq" \in DOMAIN client
    BY DEF WireInv, WireShape
  <2> QED
    BY <1>1, <2>1
<1>3. taken \in Nat /\ taken - 1 \in Nat /\ k \in Nat
  <2>1. taken \in Nat
    BY <1>1, AnsweredCall
  <2> HIDE DEF taken
  <2> QED
    BY <1>1, <2>1, LengthsAreNat
<1> HIDE DEF taken
<1>4. Rest(line')
  BY <1>1, <1>3, AnsweredCall
<1> QED
  BY <1>1, <1>2, <1>4, CallEnds

LEMMA WireStep == WireInv /\ [WireNext]_wireVars => WireInv'
<1> SUFFICES ASSUME WireInv, [WireNext]_wireVars PROVE WireInv'
  OBVIOUS
<1>1. CASE UNCHANGED wireVars
  <2>1. UNCHANGED <<client, call, commands, line, blame>>
    BY <1>1 DEF wireVars
  <2>2. WireShape' /\ CallShape' /\ Numbered'
    BY <2>1 DEF WireInv, WireShape, CallShape, Numbered
  <2>3. OneCommand' /\ OwnAnswer' /\ Answered'
    BY <2>1 DEF WireInv, OneCommand, OwnAnswer, Answered
  <2> QED
    BY <2>2, <2>3 DEF WireInv
<1>2. CASE WireNext
  BY <1>2, SendKeeps, AnswerKeeps, SkipKeeps, StrayKeeps, TakeAckKeeps, TakeHeaderKeeps,
    RefuseKeeps, PushFailsKeeps,
    DeliverKeeps, MisreadKeeps, MissKeeps, TakeBrokenHeaderKeeps, StarveKeeps DEF WireNext
<1> QED
  BY <1>1, <1>2

\* wire.c:80-181, client.c: for any set of calls, numbers up to any limit, answers of any length
\* and any number of words lost, a call that takes an answer takes its own, or one SeqMax commands
\* old, or an ACK out of step; and while nothing went wrong nothing is left on the line.
THEOREM AnswersAreOwn == WireSpec => []AnswerIsOwn
<1>1. WireInv => AnswerIsOwn
  BY DEF WireInv, Answered, OwnAnswer, AnswerIsOwn, InStep
<1> QED
  BY <1>1, WireAtFirst, WireStep, PTL DEF WireSpec

-----------------------------------------------------------------------------
(* StreamClient                                                             *)

Streams ==
  [id : Ids \cup {0}, state : {"idle", "open", "closed", "error"}, rx : 0 .. StreamWrap - 1,
   ring : Seq(StreamBlock)]
ServerShape ==
  DOMAIN server \subseteq Ids /\ \A id \in DOMAIN server : server[id] \in 0 .. FileSize
RestShape ==
  /\ want \in 0 .. FileSize + 1 /\ next \in 0 .. FileSize
  /\ flaws \subseteq {"lost", "moved", "trunc", "bypass", "orphan"}
StreamShape == stream \in Streams /\ Len(Ring) <= Slots /\ ServerShape /\ RestShape

\* Blocks end within the file.
InFile == \A i \in 1 .. Len(Ring) : Ring[i].pos + Ring[i].len <= FileSize

\* Blocks follow each other, with their offsets, if nothing went wrong.
Exact ==
  flaws \subseteq {"orphan"} /\ stream.id # 0 /\ stream.id \in DOMAIN server =>
    /\ \A i \in 1 .. Len(Ring) :
         Ring[i].pos = EndOf(i - 1) /\ Ring[i].label = Ring[i].pos % StreamWrap
    /\ Here = EndOf(Len(Ring)) /\ stream.rx = Here % StreamWrap

StreamInv == StreamShape /\ InFile /\ NoOrphans /\ Exact

\* What the steps do to the MCU's table ...
LEMMA PutIn ==
  ASSUME ServerShape, NEW id \in Ids, NEW v \in 0 .. FileSize, server' = Put(server, id, v)
  PROVE  ServerShape' /\ DOMAIN server' = DOMAIN server \cup {id} /\ server'[id] = v
BY DEF ServerShape, Put

LEMMA DropOut ==
  ASSUME ServerShape, NEW id, server' = Drop(server, id)
  PROVE  ServerShape' /\ DOMAIN server' = DOMAIN server \ {id}
BY DEF ServerShape, Drop

\* ... and to the client's stream: it fails, starts anew, or has received n bytes.
LEMMA FailedStream ==
  ASSUME stream \in Streams, stream' = Failed(stream)
  PROVE  stream' \in Streams /\ stream'.id = stream.id /\ stream'.rx = stream.rx /\ Ring' = Ring
BY DEF Streams, Failed, Ring

LEMMA NewStream ==
  ASSUME NEW id \in Ids \cup {0}, NEW rx \in 0 .. StreamWrap - 1,
         NEW state \in {"idle", "open", "closed", "error"},
         stream' = [id |-> id, state |-> state, rx |-> rx, ring |-> <<>>]
  PROVE  stream' \in Streams /\ stream'.id = id /\ stream'.rx = rx /\ Ring' = <<>> /\ Len(Ring') = 0
<1>1. <<>> \in Seq(StreamBlock) /\ Len(<<>>) = 0
  OBVIOUS
<1>2. stream' \in Streams
  BY <1>1 DEF Streams
<1> QED
  BY <1>1, <1>2 DEF Ring

LEMMA ReceivedStream ==
  ASSUME stream \in Streams, NEW n \in Nat, NEW ring \in Seq(StreamBlock),
         stream' = [stream EXCEPT !.rx = (@ + n) % StreamWrap, !.ring = ring]
  PROVE  /\ stream' \in Streams /\ stream'.id = stream.id
         /\ stream'.rx = (stream.rx + n) % StreamWrap /\ Ring' = ring
<1>1. (stream.rx + n) % StreamWrap \in 0 .. StreamWrap - 1
  BY StreamAssumption DEF Streams
<1> QED
  BY <1>1 DEF Streams, Ring

\* Nothing in the ring and nothing handed over since the offset of an open or a seek.
LEMMA NothingYet ==
  ASSUME stream'.rx = next' % StreamWrap, Len(Ring') = 0, stream'.id \in DOMAIN server',
         server'[stream'.id] = next'
  PROVE  Exact'
BY DEF Exact, EndOf, Here

LEMMA StreamAtFirst == StreamInit => StreamInv
<1> SUFFICES ASSUME StreamInit PROVE StreamInv
  OBVIOUS
<1>1. <<>> \in Seq(StreamBlock) /\ Len(<<>>) = 0
  OBVIOUS
<1>2. StreamShape
  BY <1>1, StreamAssumption DEF StreamInit, StreamShape, Streams, Ring, ServerShape, RestShape,
    Fresh
<1>3. InFile /\ NoOrphans /\ Exact
  BY <1>1 DEF StreamInit, InFile, NoOrphans, Exact, Ring, Fresh
<1> QED
  BY <1>2, <1>3 DEF StreamInv

LEMMA StreamStep == StreamInv /\ [StreamNext]_streamVars => StreamInv'
<1> SUFFICES ASSUME StreamInv, [StreamNext]_streamVars PROVE StreamInv'
  OBVIOUS
<1> USE StreamAssumption DEF StreamInv, Idle, Open
<1>0. /\ stream \in Streams /\ stream.id \in Ids \cup {0} /\ stream.rx \in 0 .. StreamWrap - 1
      /\ Ring \in Seq(StreamBlock) /\ Len(Ring) <= Slots /\ Len(Ring) \in Nat
  BY DEF StreamShape, Streams, Ring
<1>a. 0 \in 0 .. FileSize /\ 0 \in 0 .. StreamWrap - 1
  OBVIOUS
<1>1. ASSUME NEW id \in Ids, OpenOk(id) PROVE StreamInv'
  <2>1. stream' = [id |-> id, state |-> "open", rx |-> 0, ring |-> <<>>]
    BY <1>1 DEF OpenOk, Fresh
  <2>2. /\ stream' \in Streams /\ stream'.id = id /\ stream'.rx = 0 /\ Ring' = <<>>
        /\ Len(Ring') = 0
    BY <1>a, <2>1, NewStream
  <2>3. ServerShape' /\ DOMAIN server' = DOMAIN server \cup {id} /\ server'[id] = 0
    BY <1>a, <1>1, PutIn DEF OpenOk, StreamShape
  <2>4. StreamShape' /\ InFile'
    BY <1>1, <2>2, <2>3 DEF StreamShape, RestShape, InFile, OpenOk
  <2>5. NoOrphans'
    BY <1>1, <2>2, <2>3 DEF OpenOk, NoOrphans, StreamShape, ServerShape
  <2>6. Exact'
    BY <1>1, <2>2, <2>3, NothingYet DEF OpenOk
  <2> QED
    BY <2>4, <2>5, <2>6
<1>2. ASSUME NEW id \in Ids, OpenFails(id) PROVE StreamInv'
  <2>1. stream' = [id |-> 0, state |-> "error", rx |-> 0, ring |-> <<>>]
    BY <1>2 DEF OpenFails, Fresh, Failed
  <2>2. stream' \in Streams /\ stream'.id = 0 /\ Ring' = <<>> /\ Len(Ring') = 0
    BY <1>a, <2>1, NewStream
  <2>3. ServerShape'
    <3>1. CASE UNCHANGED server
      BY <3>1 DEF StreamShape, ServerShape
    <3>2. CASE server' = Put(server, id, 0)
      BY <1>a, <3>2, PutIn DEF StreamShape
    <3> QED
      BY <1>2, <3>1, <3>2 DEF OpenFails
  <2>4. StreamShape' /\ InFile' /\ Exact'
    BY <1>2, <2>2, <2>3 DEF StreamShape, RestShape, InFile, Exact, OpenFails
  <2>5. NoOrphans'
    BY <1>2, <2>2 DEF OpenFails, NoOrphans
  <2> QED
    BY <2>4, <2>5
<1>3. CASE Close
  <2>1. CASE stream' = Failed(stream) /\ UNCHANGED server
    <3>1. stream' \in Streams /\ stream'.id = stream.id /\ stream'.rx = stream.rx /\ Ring' = Ring
      BY <1>0, <2>1, FailedStream
    <3>2. UNCHANGED <<want, next>> /\ (flaws' = flaws \/ flaws' = flaws \cup {"lost"})
      BY <1>3 DEF Close
    <3> QED
      BY <2>1, <3>1, <3>2 DEF StreamShape, ServerShape, RestShape, InFile, NoOrphans, Exact,
        EndOf, Here
  <2>2. CASE stream.id \in DOMAIN server /\ server' = Drop(server, stream.id)
    <3>1. ServerShape' /\ DOMAIN server' = DOMAIN server \ {stream.id}
      BY <2>2, DropOut DEF StreamShape
    <3>2. /\ stream' \in Streams /\ Ring' = Ring /\ stream'.id \in {stream.id, 0}
          /\ UNCHANGED <<want, next>> /\ (flaws' = flaws \/ flaws' = flaws \cup {"lost"})
      <4>1. CASE stream' = Failed(stream)
        BY <1>0, <1>3, <4>1, FailedStream DEF Close
      <4>2. CASE stream' = [stream EXCEPT !.id = 0, !.state = "closed"]
        BY <1>0, <1>3, <4>2 DEF Close, Streams, Ring
      <4> QED
        BY <1>3, <2>2, <4>1, <4>2 DEF Close
    <3> QED
      BY <3>1, <3>2 DEF StreamShape, ServerShape, RestShape, InFile, NoOrphans, Exact
  <2> QED
    BY <1>3, <2>1, <2>2 DEF Close
<1>4. CASE Ask
  <2>1. stream' \in Streams /\ stream'.id = stream.id /\ stream'.rx = stream.rx /\ Ring' = Ring
    BY <1>0, <1>4, FailedStream DEF Ask
  <2> QED
    BY <1>4, <2>1 DEF Ask, StreamShape, ServerShape, RestShape, InFile, NoOrphans, Exact,
      EndOf, Here
<1>5. CASE StreamReset
  <2>1. stream' = [id |-> 0, state |-> "idle", rx |-> 0, ring |-> <<>>]
    BY <1>5 DEF StreamReset, Fresh
  <2>2. stream' \in Streams /\ stream'.id = 0 /\ Ring' = <<>> /\ Len(Ring') = 0
    BY <1>a, <2>1, NewStream
  <2>3. StreamShape' /\ InFile' /\ Exact'
    BY <1>5, <2>2 DEF StreamShape, ServerShape, RestShape, InFile, Exact, StreamReset
  <2>4. NoOrphans'
    BY <1>5, <2>2 DEF StreamReset, NoOrphans
  <2> QED
    BY <2>3, <2>4
<1>s. ServerShape
  BY <1>0 DEF StreamShape
<1>6. ASSUME NEW offset \in 0 .. FileSize, Seek(offset) PROVE StreamInv'
  <2>0. UNCHANGED want /\ stream.id # 0 /\ stream.id \in Ids
    BY <1>0, <1>6 DEF Seek
  <2>1. CASE stream' = Failed(stream) /\ UNCHANGED server /\ UNCHANGED <<next, flaws>>
    <3>1. stream' \in Streams /\ stream'.id = stream.id /\ stream'.rx = stream.rx /\ Ring' = Ring
      BY <1>0, <2>1, FailedStream
    <3> QED
      BY <2>0, <2>1, <3>1 DEF StreamShape, ServerShape, RestShape, InFile, NoOrphans, Exact,
        EndOf, Here
  <2>2. CASE /\ stream.id \in DOMAIN server /\ server' = Put(server, stream.id, offset)
             /\ stream' = Failed(stream) /\ flaws' = flaws \cup {"moved"} /\ UNCHANGED next
    <3>1. stream' \in Streams /\ stream'.id = stream.id /\ Ring' = Ring
      BY <1>0, <2>2, FailedStream
    <3>2. ServerShape' /\ DOMAIN server' = DOMAIN server
      <4>1. ServerShape' /\ DOMAIN server' = DOMAIN server \cup {stream.id}
        BY <1>6, <1>s, <2>0, <2>2, PutIn
      <4>2. DOMAIN server \cup {stream.id} = DOMAIN server
        BY <2>2
      <4> QED
        BY <4>1, <4>2
    <3> QED
      BY <2>0, <2>2, <3>1, <3>2 DEF StreamShape, RestShape, InFile, NoOrphans, Exact
  <2>3. CASE /\ stream.id \in DOMAIN server /\ server' = Put(server, stream.id, offset)
             /\ stream' = [Fresh EXCEPT !.id = stream.id, !.rx = offset % StreamWrap,
                                        !.state = "open"]
             /\ next' = offset /\ flaws' = flaws \cap {"orphan"}
    <3>1. offset % StreamWrap \in 0 .. StreamWrap - 1
      OBVIOUS
    <3>2. /\ stream' \in Streams /\ stream'.id = stream.id /\ stream'.rx = offset % StreamWrap
          /\ Ring' = <<>> /\ Len(Ring') = 0
      <4>1. stream' = [id |-> stream.id, state |-> "open", rx |-> offset % StreamWrap,
                       ring |-> <<>>]
        BY <2>3 DEF Fresh
      <4> QED
        BY <2>0, <3>1, <4>1, NewStream
    <3>3. ServerShape' /\ DOMAIN server' = DOMAIN server /\ server'[stream.id] = offset
      <4>1. /\ ServerShape' /\ DOMAIN server' = DOMAIN server \cup {stream.id}
            /\ server'[stream.id] = offset
        BY <1>6, <1>s, <2>0, <2>3, PutIn
      <4>2. DOMAIN server \cup {stream.id} = DOMAIN server
        BY <2>3
      <4> QED
        BY <4>1, <4>2
    <3>4. Exact'
      BY <2>3, <3>2, <3>3, NothingYet
    <3> QED
      BY <2>0, <2>3, <3>2, <3>3, <3>4 DEF StreamShape, RestShape, InFile, NoOrphans
  <2> QED
    BY <1>6, <2>1, <2>2, <2>3 DEF Seek
<1>7. ASSUME NEW n \in 0 .. Most, RecvSlot(n) PROVE StreamInv'
  <2>1. /\ stream.id \in DOMAIN server /\ stream.id \in Ids /\ Here \in 0 .. FileSize
        /\ Here \in Nat /\ n \in Nat /\ Here + n \in 0 .. FileSize
    BY <1>7 DEF RecvSlot, StreamShape, ServerShape, Here
  <2>2. ServerShape' /\ DOMAIN server' = DOMAIN server /\ server'[stream.id] = Here + n
    BY <1>7, <2>1, PutIn DEF RecvSlot, StreamShape
  <2>3. CASE n = 0
    BY <1>7, <2>1, <2>2, <2>3 DEF RecvSlot, StreamShape, RestShape, Ring, InFile, NoOrphans,
      Exact, EndOf, Here
  <2>4. CASE n > 0
    <3> DEFINE block == [label |-> stream.rx, pos |-> Here, len |-> n]
    <3>1. block \in StreamBlock
      BY <1>0, <2>1, <2>4 DEF StreamBlock
    <3>2. stream' = [stream EXCEPT !.rx = (@ + n) % StreamWrap, !.ring = Append(Ring, block)]
      BY <1>7, <2>4 DEF RecvSlot, Ring
    <3>3. Append(Ring, block) \in Seq(StreamBlock)
      BY <1>0, <3>1
    <3>4. /\ stream' \in Streams /\ stream'.id = stream.id
          /\ stream'.rx = (stream.rx + n) % StreamWrap /\ Ring' = Append(Ring, block)
      BY <1>0, <2>1, <3>2, <3>3, ReceivedStream
    <3>5. /\ Len(Ring') = Len(Ring) + 1 /\ Ring'[Len(Ring) + 1] = block
          /\ \A i \in 1 .. Len(Ring) : Ring'[i] = Ring[i]
      BY <1>0, <3>4
    <3>6. StreamShape'
      BY <1>0, <1>7, <2>2, <2>4, <3>4, <3>5 DEF RecvSlot, MayReceive, StreamShape, RestShape
    <3>7. InFile'
      <4> SUFFICES ASSUME NEW i \in 1 .. Len(Ring) + 1 PROVE Ring'[i].pos + Ring'[i].len <= FileSize
        BY <3>5 DEF InFile
      <4>1. CASE i = Len(Ring) + 1
        BY <2>1, <3>5, <4>1
      <4>2. CASE i \in 1 .. Len(Ring)
        BY <3>5, <4>2 DEF InFile
      <4> QED
        BY <1>0, <4>1, <4>2
    <3>8. NoOrphans'
      BY <1>7, <2>2, <3>4 DEF RecvSlot, NoOrphans
    <3>9. Exact'
      <4> SUFFICES ASSUME flaws \subseteq {"orphan"}, stream.id # 0 PROVE Exact'
        BY <1>7, <2>1, <2>2, <3>4 DEF Exact, RecvSlot
      <4>1. /\ \A i \in 1 .. Len(Ring) :
                 Ring[i].pos = EndOf(i - 1) /\ Ring[i].label = Ring[i].pos % StreamWrap
            /\ Here = EndOf(Len(Ring)) /\ stream.rx = Here % StreamWrap
        BY <2>1 DEF Exact
      <4>2. /\ next' = next /\ Here' = Here + n
            /\ stream'.rx = (Here + n) % StreamWrap
        <5>1. ((Here % StreamWrap) + n) % StreamWrap = (Here + n) % StreamWrap
          BY <2>1, StreamAssumption, ModAdd, ZenonT(60)
        <5> QED
          BY <1>7, <2>2, <3>4, <4>1, <5>1 DEF RecvSlot, Here
      <4>3. \A i \in 0 .. Len(Ring) : EndOf(i)' = EndOf(i)
        BY <1>0, <3>5, <4>2 DEF EndOf
      <4>4. EndOf(Len(Ring))' = Here + n
        BY <1>0, <3>5 DEF EndOf
      <4>5. ASSUME NEW i \in 1 .. Len(Ring) + 1
            PROVE  /\ Ring'[i].pos = EndOf(i - 1)'
                   /\ Ring'[i].label = Ring'[i].pos % StreamWrap
        <5>1. CASE i = Len(Ring) + 1
          BY <1>0, <3>5, <4>1, <4>3, <5>1
        <5>2. CASE i \in 1 .. Len(Ring)
          <6>1. i - 1 \in 0 .. Len(Ring)
            BY <1>0, <5>2
          <6>2. Ring'[i] = Ring[i] /\ EndOf(i - 1)' = EndOf(i - 1)
            BY <3>5, <4>3, <5>2, <6>1
          <6>3. Ring[i].pos = EndOf(i - 1) /\ Ring[i].label = Ring[i].pos % StreamWrap
            BY <4>1, <5>2
          <6> QED
            BY <6>2, <6>3, Zenon
        <5> QED
          BY <1>0, <5>1, <5>2
      <4> QED
        BY <3>5, <4>2, <4>4, <4>5 DEF Exact
    <3> QED
      BY <3>6, <3>7, <3>8, <3>9
  <2> QED
    BY <2>3, <2>4
<1>8. ASSUME NEW n \in 0 .. Most, RecvInto(n) PROVE StreamInv'
  <2>1. /\ stream.id \in DOMAIN server /\ stream.id \in Ids /\ Here \in 0 .. FileSize
        /\ Here \in Nat /\ n \in Nat /\ Here + n \in 0 .. FileSize
    BY <1>8 DEF RecvInto, StreamShape, ServerShape, Here
  <2>2. ServerShape' /\ DOMAIN server' = DOMAIN server /\ server'[stream.id] = Here + n
    BY <1>8, <2>1, PutIn DEF RecvInto, StreamShape
  <2>3. stream' = [stream EXCEPT !.rx = (@ + n) % StreamWrap, !.ring = Ring]
    BY <1>0, <1>8 DEF RecvInto, Streams, Ring
  <2>4. /\ stream' \in Streams /\ stream'.id = stream.id
        /\ stream'.rx = (stream.rx + n) % StreamWrap /\ Ring' = Ring
    BY <1>0, <2>1, <2>3, ReceivedStream
  <2>5. StreamShape'
    BY <1>0, <1>8, <2>1, <2>2, <2>4 DEF RecvInto, StreamShape, RestShape
  <2>6. InFile'
    BY <2>4 DEF InFile
  <2>7. NoOrphans'
    BY <1>8, <2>2, <2>4 DEF RecvInto, NoOrphans
  <2>8. Exact'
    <3> SUFFICES ASSUME flaws' \subseteq {"orphan"} PROVE Exact'
      BY DEF Exact
    <3>1. flaws \subseteq {"orphan"} /\ (n > 0 => Ring = <<>>) /\ flaws' = flaws
      BY <1>8 DEF RecvInto
    <3>2. /\ \A i \in 1 .. Len(Ring) :
               Ring[i].pos = EndOf(i - 1) /\ Ring[i].label = Ring[i].pos % StreamWrap
          /\ Here = EndOf(Len(Ring)) /\ stream.rx = Here % StreamWrap
      BY <1>8, <2>1, <3>1 DEF Exact, RecvInto
    <3>3. stream'.rx = (Here + n) % StreamWrap /\ Here' = Here + n
      <4>1. ((Here % StreamWrap) + n) % StreamWrap = (Here + n) % StreamWrap
        BY <2>1, StreamAssumption, ModAdd, ZenonT(60)
      <4> QED
        BY <2>2, <2>4, <3>2, <4>1 DEF Here
    <3>4. CASE n = 0
      BY <1>8, <2>1, <2>4, <3>2, <3>3, <3>4 DEF RecvInto, Exact, EndOf
    <3>5. CASE n > 0
      <4>1. Len(Ring') = 0 /\ next' = Here + n
        BY <1>8, <2>4, <3>1, <3>5 DEF RecvInto
      <4> QED
        BY <3>3, <4>1 DEF Exact, EndOf
    <3> QED
      BY <2>1, <3>4, <3>5
  <2> QED
    BY <2>5, <2>6, <2>7, <2>8
<1>9. ASSUME NEW n \in 0 .. Most, RecvFails(n) PROVE StreamInv'
  <2>0. want' = 0 /\ next' = next
    BY <1>9 DEF RecvFails
  <2>1. CASE stream' = Failed(stream) /\ UNCHANGED <<server, flaws>>
    <3>1. stream' \in Streams /\ stream'.id = stream.id /\ stream'.rx = stream.rx /\ Ring' = Ring
      BY <1>0, <2>1, FailedStream
    <3> QED
      BY <2>0, <2>1, <3>1 DEF StreamShape, ServerShape, RestShape, InFile, NoOrphans, Exact,
        EndOf, Here
  <2>2. CASE /\ stream.id \in DOMAIN server /\ n \in 1 .. FileSize - Here
             /\ server' = Put(server, stream.id, Here + n)
             /\ \/ stream' = Failed(stream) /\ flaws' = flaws \cup {"lost"}
                \/ UNCHANGED stream /\ flaws' = flaws \cup {"trunc"}
    <3>1. stream' \in Streams /\ stream'.id = stream.id /\ Ring' = Ring
      <4>1. CASE stream' = Failed(stream)
        BY <1>0, <4>1, FailedStream
      <4>2. CASE UNCHANGED stream
        BY <1>0, <4>2 DEF Ring
      <4> QED
        BY <2>2, <4>1, <4>2
    <3>2. stream.id \in Ids /\ Here \in 0 .. FileSize /\ Here + n \in 0 .. FileSize
      BY <2>2 DEF StreamShape, ServerShape, Here
    <3>3. ServerShape' /\ DOMAIN server' = DOMAIN server
      <4>1. ServerShape /\ stream.id \in DOMAIN server /\ server' = Put(server, stream.id, Here + n)
        BY <2>2 DEF StreamShape
      <4> QED
        BY <3>2, <4>1, PutIn
    <3>4. RestShape'
      <4>1. flaws' \subseteq {"lost", "moved", "trunc", "bypass", "orphan"}
        BY <2>2 DEF StreamShape, RestShape
      <4> QED
        BY <2>0, <4>1 DEF StreamShape, RestShape
    <3>5. ~(flaws' \subseteq {"orphan"})
      BY <2>2
    <3> QED
      BY <1>0, <2>2, <3>1, <3>3, <3>4, <3>5 DEF StreamShape, InFile, NoOrphans, Exact
  <2> QED
    BY <1>9, <2>1, <2>2 DEF RecvFails
<1>10. ASSUME NEW n \in 1 .. FileSize + 1, Read(n) PROVE StreamInv'
  <2>1. UNCHANGED <<stream, server, next, flaws>> /\ want' \in 0 .. FileSize + 1
    BY <1>10 DEF Read
  <2>2. Ring' = Ring /\ Here' = Here /\ ServerShape' /\ RestShape'
    BY <2>1 DEF Ring, Here, ServerShape, RestShape, StreamShape
  <2>3. \A i : EndOf(i)' = EndOf(i)
    BY <2>1, <2>2 DEF EndOf
  <2>4. StreamShape'
    BY <2>1, <2>2 DEF StreamShape
  <2>5. InFile' /\ NoOrphans' /\ Exact'
    BY <2>1, <2>2, <2>3 DEF InFile, NoOrphans, Exact
  <2> QED
    BY <2>4, <2>5
<1>11. ASSUME NEW n \in 1 .. Most, Take(n) PROVE StreamInv'
  <2> DEFINE first == Head(Ring)
             left == [label |-> (first.label + n) % StreamWrap, pos |-> first.pos + n,
                      len |-> first.len - n]
  <2>1. /\ Len(Ring) >= 1 /\ first = Ring[1] /\ first \in StreamBlock /\ n <= first.len
        /\ first.pos + first.len <= FileSize /\ Tail(Ring) \in Seq(StreamBlock)
        /\ Len(Tail(Ring)) = Len(Ring) - 1
        /\ \A i \in 1 .. Len(Ring) - 1 : Tail(Ring)[i] = Ring[i + 1]
    <3>1. Ring # <<>> /\ n <= Head(Ring).len
      BY <1>11 DEF Take
    <3>2. /\ Len(Ring) >= 1 /\ first = Ring[1] /\ first \in StreamBlock
          /\ Tail(Ring) \in Seq(StreamBlock)
      BY <1>0, <3>1
    <3>3. /\ Len(Tail(Ring)) = Len(Ring) - 1
          /\ \A i \in 1 .. Len(Ring) - 1 : Tail(Ring)[i] = Ring[i + 1]
      BY <1>0, <3>1
    <3> QED
      BY <3>1, <3>2, <3>3 DEF InFile
  <2>2. /\ first.pos \in Nat /\ first.len \in Nat /\ first.label \in 0 .. StreamWrap - 1
        /\ first.len >= 1 /\ first.len <= Most
    BY <2>1 DEF StreamBlock
  <2>3. /\ next' = first.pos + n /\ UNCHANGED <<server, flaws>>
        /\ want' \in 0 .. FileSize + 1 /\ next' \in 0 .. FileSize
    <3>1. next' = first.pos + n /\ UNCHANGED <<server, flaws>>
      BY <1>11 DEF Take
    <3>2. want' \in 0 .. FileSize + 1
      <4>1. /\ want \in 0 .. FileSize + 1
            /\ want > 0 => n = IF want < first.len THEN want ELSE first.len
            /\ want' = IF want > 0 THEN want - n ELSE 0
        BY <1>0, <1>11 DEF Take, StreamShape, RestShape
      <4> HIDE DEF first
      <4>2. CASE want > 0
        <5>1. n <= want
          BY <2>2, <4>1, <4>2
        <5> QED
          BY <4>1, <4>2, <5>1
      <4>3. CASE want = 0
        BY <4>1, <4>3
      <4> QED
        BY <4>1, <4>2, <4>3
    <3> QED
      BY <2>1, <2>2, <3>1, <3>2, SMTT(30)
  <2>4. /\ stream' = [stream EXCEPT !.ring = Ring']
        /\ Ring' = IF n = first.len THEN Tail(Ring) ELSE <<left>> \o Tail(Ring)
    BY <1>0, <1>11 DEF Take, Ring, Streams
  <2>5. CASE n = first.len
    <3>1. Ring' = Tail(Ring) /\ Len(Ring') = Len(Ring) - 1
      BY <2>1, <2>4, <2>5
    <3>2. stream' \in Streams /\ stream'.id = stream.id /\ stream'.rx = stream.rx
      BY <1>0, <2>1, <2>4, <3>1 DEF Streams
    <3>3. StreamShape'
      BY <1>0, <2>3, <3>1, <3>2 DEF StreamShape, ServerShape, RestShape
    <3>4. InFile'
      BY <1>0, <2>1, <3>1 DEF InFile
    <3>5. NoOrphans'
      BY <2>3, <3>2 DEF NoOrphans
    <3>6. Exact'
      <4> SUFFICES ASSUME flaws \subseteq {"orphan"}, stream.id # 0, stream.id \in DOMAIN server
                   PROVE  Exact'
        BY <2>3, <3>2 DEF Exact
      <4>1. /\ \A i \in 1 .. Len(Ring) :
                 Ring[i].pos = EndOf(i - 1) /\ Ring[i].label = Ring[i].pos % StreamWrap
            /\ Here = EndOf(Len(Ring)) /\ stream.rx = Here % StreamWrap
        BY DEF Exact
      <4>2. \A i \in 0 .. Len(Ring) - 1 : EndOf(i)' = EndOf(i + 1)
        BY <1>0, <2>1, <2>3, <2>5, <3>1 DEF EndOf
      <4>3. \A i \in 1 .. Len(Ring) - 1 :
              Ring'[i].pos = EndOf(i - 1)' /\ Ring'[i].label = Ring'[i].pos % StreamWrap
        <5> SUFFICES ASSUME NEW i \in 1 .. Len(Ring) - 1
                     PROVE  /\ Ring'[i].pos = EndOf(i - 1)'
                            /\ Ring'[i].label = Ring'[i].pos % StreamWrap
          OBVIOUS
        <5>1. Ring'[i] = Ring[i + 1] /\ i + 1 \in 1 .. Len(Ring) /\ i - 1 \in 0 .. Len(Ring) - 1
          BY <1>0, <2>1, <3>1
        <5>2. EndOf(i - 1)' = EndOf(i) /\ (i + 1) - 1 = i
          BY <1>0, <4>2, <5>1
        <5> QED
          BY <4>1, <5>1, <5>2
      <4>4. Here' = EndOf(Len(Ring))' /\ stream'.rx = Here' % StreamWrap
        <5>1. Here' = Here /\ Here = Ring[Len(Ring)].pos + Ring[Len(Ring)].len
          BY <1>0, <2>1, <2>3, <3>2, <4>1 DEF EndOf, Here
        <5>0. stream'.rx = Here' % StreamWrap
          BY <3>2, <4>1, <5>1
        <5>2. CASE Len(Ring) = 1
          BY <2>1, <2>3, <2>5, <3>1, <5>0, <5>1, <5>2 DEF EndOf
        <5>3. CASE Len(Ring) > 1
          <6>1. Len(Ring) - 1 \in 1 .. Len(Ring) - 1 /\ (Len(Ring) - 1) + 1 = Len(Ring)
            BY <1>0, <5>3
          <6>2. Ring'[Len(Ring')] = Ring[Len(Ring)] /\ Len(Ring') # 0
            BY <2>1, <3>1, <6>1
          <6> QED
            BY <5>0, <5>1, <6>2 DEF EndOf
        <5> QED
          BY <1>0, <2>1, <5>2, <5>3
      <4> QED
        BY <3>1, <4>3, <4>4 DEF Exact
    <3> QED
      BY <3>3, <3>4, <3>5, <3>6
  <2>6. CASE n < first.len
    <3>1. left \in StreamBlock
      <4> HIDE DEF first
      <4>1. (first.label + n) % StreamWrap \in 0 .. StreamWrap - 1
        BY <2>2
      <4>2. first.pos + first.len <= FileSize
        BY <2>1
      <4>3. first.pos + n \in 0 .. FileSize /\ first.len - n \in 1 .. Most
        BY <2>2, <2>6, <4>2, StreamAssumption
      <4> QED
        BY <4>1, <4>3 DEF StreamBlock
    <3>2. /\ Ring' = <<left>> \o Tail(Ring) /\ Ring' \in Seq(StreamBlock) /\ Len(Ring') = Len(Ring)
          /\ Ring'[1] = left /\ \A i \in 2 .. Len(Ring) : Ring'[i] = Ring[i]
      <4> HIDE DEF left
      <4>1. <<left>> \in Seq(StreamBlock) /\ Len(<<left>>) = 1 /\ <<left>>[1] = left
        BY <3>1
      <4>2. Ring' = <<left>> \o Tail(Ring)
        BY <2>4, <2>6
      <4>3. /\ Ring' \in Seq(StreamBlock) /\ Len(Ring') = 1 + Len(Tail(Ring)) /\ Ring'[1] = left
            /\ \A i \in 2 .. 1 + Len(Tail(Ring)) : Ring'[i] = Tail(Ring)[i - 1]
        BY <2>1, <4>1, <4>2
      <4>4. \A i \in 2 .. Len(Ring) : Tail(Ring)[i - 1] = Ring[i]
        <5> SUFFICES ASSUME NEW i \in 2 .. Len(Ring) PROVE Tail(Ring)[i - 1] = Ring[i]
          OBVIOUS
        <5>1. i - 1 \in 1 .. Len(Ring) - 1 /\ (i - 1) + 1 = i
          BY <1>0
        <5> QED
          BY <2>1, <5>1
      <4> QED
        BY <1>0, <2>1, <4>2, <4>3, <4>4
    <3>3. stream' \in Streams /\ stream'.id = stream.id /\ stream'.rx = stream.rx
      BY <1>0, <2>4, <3>2 DEF Streams
    <3>4. StreamShape'
      BY <1>0, <2>3, <3>2, <3>3 DEF StreamShape, ServerShape, RestShape
    <3>5. InFile'
      <4> SUFFICES ASSUME NEW i \in 1 .. Len(Ring) PROVE Ring'[i].pos + Ring'[i].len <= FileSize
        BY <3>2 DEF InFile
      <4>1. CASE i = 1
        BY <2>1, <2>2, <3>2, <4>1
      <4>2. CASE i \in 2 .. Len(Ring)
        BY <3>2, <4>2 DEF InFile
      <4> QED
        BY <1>0, <4>1, <4>2
    <3>6. NoOrphans'
      BY <2>3, <3>3 DEF NoOrphans
    <3>7. Exact'
      <4> SUFFICES ASSUME flaws \subseteq {"orphan"}, stream.id # 0, stream.id \in DOMAIN server
                   PROVE  Exact'
        BY <2>3, <3>3 DEF Exact
      <4>1. /\ \A i \in 1 .. Len(Ring) :
                 Ring[i].pos = EndOf(i - 1) /\ Ring[i].label = Ring[i].pos % StreamWrap
            /\ Here = EndOf(Len(Ring)) /\ stream.rx = Here % StreamWrap
        BY DEF Exact
      <4>2. left.label = left.pos % StreamWrap
        <5>1. first.label = first.pos % StreamWrap
          BY <1>0, <2>1, <4>1
        <5> QED
          BY <2>2, <5>1, ModAdd
      <4>3. EndOf(0)' = left.pos /\ \A i \in 1 .. Len(Ring) : EndOf(i)' = EndOf(i)
        <5>1. EndOf(0)' = left.pos
          BY <2>3 DEF EndOf
        <5>2. EndOf(1)' = EndOf(1)
          BY <2>1, <2>2, <3>2 DEF EndOf
        <5>3. \A i \in 2 .. Len(Ring) : EndOf(i)' = EndOf(i)
          BY <3>2 DEF EndOf
        <5> QED
          BY <1>0, <5>1, <5>2, <5>3
      <4>4. ASSUME NEW i \in 1 .. Len(Ring)
            PROVE  /\ Ring'[i].pos = EndOf(i - 1)'
                   /\ Ring'[i].label = Ring'[i].pos % StreamWrap
        <5>1. CASE i = 1
          BY <3>2, <4>2, <4>3, <5>1
        <5>2. CASE i \in 2 .. Len(Ring)
          <6>1. Ring'[i] = Ring[i] /\ i - 1 \in 1 .. Len(Ring) /\ i \in 1 .. Len(Ring)
            BY <1>0, <3>2, <5>2
          <6> QED
            BY <4>1, <4>3, <6>1
        <5> QED
          BY <1>0, <5>1, <5>2
      <4>5. Here' = EndOf(Len(Ring))' /\ stream'.rx = Here' % StreamWrap
        <5>1. Here' = Here /\ Here = Ring[Len(Ring)].pos + Ring[Len(Ring)].len
          BY <1>0, <2>1, <2>3, <3>3, <4>1 DEF EndOf, Here
        <5>0. stream'.rx = Here' % StreamWrap
          BY <3>3, <4>1, <5>1
        <5>2. CASE Len(Ring) = 1
          <6>1. Ring'[1].pos = first.pos + n /\ Ring'[1].len = first.len - n
            BY <3>2
          <6>2. Len(Ring') = 1 /\ Ring[1] = first
            BY <2>1, <3>2, <5>2
          <6>3. Ring'[1].pos + Ring'[1].len = first.pos + first.len
            BY <2>2, <6>1
          <6> QED
            BY <5>0, <5>1, <5>2, <6>2, <6>3 DEF EndOf
        <5>3. CASE Len(Ring) > 1
          <6>1. Ring'[Len(Ring')] = Ring[Len(Ring)] /\ Len(Ring') # 0
            BY <1>0, <3>2, <5>3
          <6> QED
            BY <5>0, <5>1, <6>1 DEF EndOf
        <5> QED
          BY <1>0, <2>1, <5>2, <5>3
      <4> QED
        BY <3>2, <4>4, <4>5 DEF Exact
    <3> QED
      BY <3>4, <3>5, <3>6, <3>7
  <2> QED
    BY <2>1, <2>2, <2>5, <2>6
<1>12. CASE UNCHANGED streamVars
  BY <1>12 DEF streamVars, StreamShape, ServerShape, RestShape, Ring, InFile, NoOrphans,
    Exact,
    EndOf, Here
<1> QED
  BY <1>1, <1>2, <1>3, <1>4, <1>5, <1>6, <1>7, <1>8, <1>9, <1>10, <1>11, <1>12 DEF StreamNext

LEMMA StreamInvariant == StreamSpec => []StreamInv
BY StreamAtFirst, StreamStep, PTL DEF StreamSpec

\* stream_client.c:134, 195-205: for any number of streams, the MCU has none open but the client's,
\* unless an open was not answered or the application reset the stream.
THEOREM NoStreamIsOrphaned == StreamSpec => []NoOrphans
<1>1. StreamInv => NoOrphans
  BY DEF StreamInv
<1> QED
  BY <1>1, StreamInvariant, PTL

\* What holds whatever went wrong: the order, the labels, and that a loss is seen.
Streaming == stream.id # 0 /\ stream.id \in DOMAIN server
OrderInv == Streaming => FileOrder /\ Labelled /\ LossSeen

LEMMA BlockEnds == ASSUME StreamShape, NEW i \in 0 .. Len(Ring) PROVE EndOf(i) \in Nat
<1>1. next \in Nat /\ Ring \in Seq(StreamBlock) /\ Len(Ring) \in Nat
  BY StreamAssumption DEF StreamShape, RestShape, Streams, Ring
<1>2. CASE i = 0
  BY <1>1, <1>2 DEF EndOf
<1>3. CASE i # 0
  <2>1. Ring[i] \in StreamBlock
    BY <1>1, <1>3
  <2> QED
    BY <1>3, <2>1, StreamAssumption DEF EndOf, StreamBlock
<1> QED
  BY <1>2, <1>3

\* A new beginning has no order to keep; a stream that only fails keeps the one it has.
LEMMA OrderAnew ==
  ASSUME stream'.rx = next' % StreamWrap, Len(Ring') = 0, stream'.id \in DOMAIN server',
         server'[stream'.id] = next', next' \in Nat, flaws' \subseteq {"orphan"}
  PROVE  OrderInv'
BY DEF OrderInv, Streaming, FileOrder, Labelled, LossSeen, EndOf, Here

LEMMA OrderFails ==
  ASSUME OrderInv, stream \in Streams, stream' = Failed(stream), UNCHANGED <<server, next, flaws>>
  PROVE  OrderInv'
<1>1. /\ stream'.id = stream.id /\ stream'.rx = stream.rx /\ Ring' = Ring
      /\ stream'.state = "error"
  BY FailedStream DEF Streams, Failed
<1>2. Here' = Here
  BY <1>1 DEF Here
<1>3. \A i : EndOf(i)' = EndOf(i)
  BY <1>1 DEF EndOf
<1> QED
  BY <1>1, <1>2, <1>3 DEF OrderInv, Streaming, FileOrder, Labelled, LossSeen

\* A receive that is lost or too long moves the MCU's position and leaves a mark.
LEMMA OrderLoses ==
  ASSUME StreamInv, OrderInv, NEW n \in Nat, Streaming, Here + n \in Nat,
         UNCHANGED next, stream'.id = stream.id, stream'.rx = stream.rx, Ring' = Ring,
         stream.id \in DOMAIN server', server'[stream.id] = Here + n,
         \/ stream'.state = "error" /\ flaws' = flaws \cup {"lost"}
         \/ stream'.state = stream.state /\ flaws' = flaws \cup {"trunc"}
  PROVE  OrderInv'
<1>1. Here' = Here + n /\ Here \in Nat /\ Len(Ring) \in Nat
  BY DEF Here, StreamInv, StreamShape, ServerShape, Streaming, Streams, Ring
<1>2. \A i : EndOf(i)' = EndOf(i)
  BY DEF EndOf
<1>3. ASSUME NEW i \in 0 .. Len(Ring) PROVE EndOf(i) \in Nat
  BY BlockEnds DEF StreamInv
<1>4. FileOrder'
  <2> SUFFICES ASSUME "moved" \notin flaws
               PROVE  /\ \A i \in 1 .. Len(Ring) : i > 1 \/ "bypass" \notin flaws =>
                                                   EndOf(i - 1) <= Ring[i].pos
                      /\ \A i \in 0 .. Len(Ring) : EndOf(i) <= Here + n
    BY <1>1, <1>2 DEF FileOrder
  <2>1. /\ \A i \in 1 .. Len(Ring) : i > 1 \/ "bypass" \notin flaws => EndOf(i - 1) <= Ring[i].pos
        /\ \A i \in 0 .. Len(Ring) : EndOf(i) <= Here
    BY DEF OrderInv, FileOrder
  <2>2. ASSUME NEW i \in 0 .. Len(Ring) PROVE EndOf(i) <= Here + n
    <3> HIDE DEF EndOf, Here
    <3>1. EndOf(i) \in Nat /\ EndOf(i) <= Here
      BY <1>3, <2>1
    <3> QED
      BY <1>1, <3>1
  <2> QED
    BY <2>1, <2>2
<1>5. Labelled'
  BY DEF Labelled
<1>6. LossSeen'
  <2>1. LossSeen
    BY DEF OrderInv
  <2>2. CASE stream'.state = "error"
    BY <2>2 DEF LossSeen
  <2>3. CASE stream'.state = stream.state /\ flaws' = flaws \cup {"trunc"}
    BY <2>1, <2>3 DEF LossSeen
  <2> QED
    BY <2>2, <2>3
<1> QED
  BY <1>4, <1>5, <1>6 DEF OrderInv

LEMMA OrderStays ==
  ASSUME OrderInv, UNCHANGED <<stream, server, next, flaws>> PROVE OrderInv'
BY DEF OrderInv, Streaming, FileOrder, Labelled, LossSeen, EndOf, Here, Ring

LEMMA OrderOpens ==
  ASSUME StreamInv, OrderInv,
         \/ \E id \in Ids : OpenOk(id) \/ OpenFails(id)
         \/ Close \/ Ask \/ StreamReset
  PROVE  OrderInv'
<1> USE StreamAssumption DEF StreamInv
<1>0. /\ stream \in Streams /\ ServerShape /\ 0 \in 0 .. FileSize /\ 0 % StreamWrap = 0
      /\ 0 \in 0 .. StreamWrap - 1
  BY DEF StreamShape
<1>1. ASSUME NEW id \in Ids, OpenOk(id) PROVE OrderInv'
  <2>1. stream' = [id |-> id, state |-> "open", rx |-> 0, ring |-> <<>>]
    BY <1>1 DEF OpenOk, Fresh
  <2>2. stream'.id = id /\ stream'.rx = 0 /\ Len(Ring') = 0
    BY <1>0, <2>1, NewStream
  <2>3. DOMAIN server' = DOMAIN server \cup {id} /\ server'[id] = 0
    BY <1>0, <1>1, PutIn DEF OpenOk
  <2>4. next' = 0 /\ next' \in Nat /\ flaws' \subseteq {"orphan"}
    BY <1>1 DEF OpenOk
  <2>5. /\ stream'.rx = next' % StreamWrap /\ stream'.id \in DOMAIN server'
        /\ server'[stream'.id] = next'
    BY <1>0, <2>2, <2>3, <2>4
  <2> QED
    BY <2>2, <2>4, <2>5, OrderAnew
<1>2. ASSUME NEW id \in Ids, OpenFails(id) PROVE OrderInv'
  BY <1>2 DEF OpenFails, Fresh, Failed, OrderInv, Streaming
<1>3. CASE Close
  <2>1. CASE stream' = Failed(stream) /\ UNCHANGED <<server, flaws>>
    BY <1>0, <1>3, <2>1, OrderFails DEF Close
  <2>2. CASE stream.id \in DOMAIN server /\ server' = Drop(server, stream.id)
    <3>1. stream'.id \in {stream.id, 0}
      <4>1. CASE stream' = Failed(stream)
        BY <1>0, <4>1, FailedStream
      <4>2. CASE stream' = [stream EXCEPT !.id = 0, !.state = "closed"]
        BY <1>0, <4>2 DEF Streams
      <4> QED
        BY <1>3, <2>2, <4>1, <4>2 DEF Close
    <3>2. DOMAIN server' = DOMAIN server \ {stream.id}
      BY <1>0, <2>2, DropOut
    <3> QED
      BY <3>1, <3>2 DEF OrderInv, Streaming
  <2> QED
    BY <1>3, <2>1, <2>2 DEF Close
<1>4. CASE Ask
  BY <1>0, <1>4, OrderFails DEF Ask
<1>5. CASE StreamReset
  BY <1>5 DEF StreamReset, Fresh, OrderInv, Streaming
<1> QED
  BY <1>1, <1>2, <1>3, <1>4, <1>5

LEMMA OrderSeeks ==
  ASSUME StreamInv, OrderInv, NEW offset \in 0 .. FileSize, Seek(offset) PROVE OrderInv'
<1> USE StreamAssumption DEF StreamInv
<1>0. stream \in Streams /\ ServerShape /\ stream.id \in Ids
  BY DEF StreamShape, Streams, Seek, Open
<1>1. CASE stream' = Failed(stream) /\ UNCHANGED <<server, next, flaws>>
  BY <1>0, <1>1, OrderFails
<1>2. CASE stream' = Failed(stream) /\ flaws' = flaws \cup {"moved"}
  <2>1. stream'.state = "error"
    BY <1>0, <1>2 DEF Streams, Failed
  <2> QED
    BY <1>2, <2>1 DEF OrderInv, FileOrder, Labelled, LossSeen
<1>3. CASE /\ server' = Put(server, stream.id, offset)
           /\ stream' = [Fresh EXCEPT !.id = stream.id, !.rx = offset % StreamWrap,
                                      !.state = "open"]
           /\ next' = offset /\ flaws' = flaws \cap {"orphan"}
  <2>1. stream' = [id |-> stream.id, state |-> "open", rx |-> offset % StreamWrap, ring |-> <<>>]
    BY <1>3 DEF Fresh
  <2>2. stream'.id = stream.id /\ stream'.rx = offset % StreamWrap /\ Len(Ring') = 0
    <3>1. offset % StreamWrap \in 0 .. StreamWrap - 1
      OBVIOUS
    <3> QED
      BY <1>0, <2>1, <3>1, NewStream
  <2>3. DOMAIN server' = DOMAIN server \cup {stream.id} /\ server'[stream.id] = offset
    BY <1>0, <1>3, PutIn
  <2>4. next' = offset /\ next' \in Nat /\ flaws' \subseteq {"orphan"}
    BY <1>3
  <2>5. /\ stream'.rx = next' % StreamWrap /\ stream'.id \in DOMAIN server'
        /\ server'[stream'.id] = next'
    BY <2>2, <2>3, <2>4
  <2> QED
    BY <2>2, <2>4, <2>5, OrderAnew
<1> QED
  BY <1>1, <1>2, <1>3 DEF Seek

LEMMA OrderRecvFails ==
  ASSUME StreamInv, OrderInv, NEW n \in 0 .. Most, RecvFails(n) PROVE OrderInv'
<1> USE StreamAssumption DEF StreamInv
<1>0. stream \in Streams /\ ServerShape /\ next' = next
  BY DEF StreamShape, RecvFails
<1>1. CASE stream' = Failed(stream) /\ UNCHANGED <<server, flaws>>
  BY <1>0, <1>1, OrderFails
<1>2. CASE /\ stream.id \in DOMAIN server /\ n \in 1 .. FileSize - Here
           /\ server' = Put(server, stream.id, Here + n)
           /\ \/ stream' = Failed(stream) /\ flaws' = flaws \cup {"lost"}
              \/ UNCHANGED stream /\ flaws' = flaws \cup {"trunc"}
  <2>1. /\ stream.id \in Ids /\ Here \in 0 .. FileSize /\ Here + n \in 0 .. FileSize
        /\ n \in Nat /\ Here + n \in Nat
    BY <1>0, <1>2 DEF ServerShape, Here
  <2>2. stream.id \in DOMAIN server' /\ server'[stream.id] = Here + n
    BY <1>0, <1>2, <2>1, PutIn
  <2>3. stream'.id = stream.id /\ stream'.rx = stream.rx /\ Ring' = Ring
    <3>1. CASE stream' = Failed(stream)
      BY <1>0, <3>1, FailedStream
    <3>2. CASE UNCHANGED stream
      BY <3>2 DEF Ring
    <3> QED
      BY <1>2, <3>1, <3>2
  <2>4. \/ stream'.state = "error" /\ flaws' = flaws \cup {"lost"}
        \/ stream'.state = stream.state /\ flaws' = flaws \cup {"trunc"}
    BY <1>0, <1>2 DEF Streams, Failed
  <2>5. Streaming
    BY <1>2, <2>1 DEF Streaming
  <2> QED
    BY <1>0, <2>1, <2>2, <2>3, <2>4, <2>5, OrderLoses
<1> QED
  BY <1>1, <1>2 DEF RecvFails

LEMMA OrderRecvInto ==
  ASSUME StreamInv, OrderInv, NEW n \in 0 .. Most, RecvInto(n) PROVE OrderInv'
<1> USE StreamAssumption DEF StreamInv
<1>0. stream \in Streams /\ ServerShape /\ stream.id \in DOMAIN server /\ StreamShape
  BY DEF StreamShape, RecvInto
<1>1. /\ stream.id \in Ids /\ stream.id # 0 /\ Here \in Nat /\ n \in Nat
      /\ Here + n \in 0 .. FileSize
  BY <1>0 DEF RecvInto, ServerShape, Here
<1>2. stream.id \in DOMAIN server' /\ server'[stream.id] = Here + n
  BY <1>0, <1>1, PutIn DEF RecvInto
<1>3. stream' = [stream EXCEPT !.rx = (@ + n) % StreamWrap, !.ring = Ring]
  BY <1>0 DEF RecvInto, Streams, Ring
<1>4. /\ stream'.id = stream.id /\ stream'.rx = (stream.rx + n) % StreamWrap /\ Ring' = Ring
      /\ stream'.state = stream.state /\ Ring \in Seq(StreamBlock) /\ Len(Ring) \in Nat
  <2>1. Ring \in Seq(StreamBlock) /\ Len(Ring) \in Nat
    BY <1>0 DEF Streams, Ring
  <2> QED
    BY <1>0, <1>1, <1>3, <2>1, ReceivedStream DEF Streams
<1>5. Here' = Here + n
  BY <1>2, <1>4 DEF Here
<1>6. FileOrder /\ Labelled /\ LossSeen
  BY <1>0, <1>1 DEF OrderInv, Streaming
<1>7. FileOrder'
  <2> SUFFICES ASSUME "moved" \notin flaws' PROVE FileOrder'
    BY DEF FileOrder
  <2>1. /\ \A i \in 1 .. Len(Ring) : i > 1 \/ "bypass" \notin flaws => EndOf(i - 1) <= Ring[i].pos
        /\ \A i \in 0 .. Len(Ring) : EndOf(i) <= Here
        /\ "bypass" \notin flaws' => "bypass" \notin flaws /\ (n = 0 \/ Ring = <<>>)
    BY <1>6 DEF FileOrder, RecvInto
  <2>2. ASSUME NEW i \in 1 .. Len(Ring), i > 1 \/ "bypass" \notin flaws'
        PROVE  EndOf(i - 1)' <= Ring'[i].pos
    <3>1. EndOf(i - 1)' = EndOf(i - 1)
      <4>1. CASE i > 1
        BY <1>4, <4>1 DEF EndOf
      <4>2. CASE n = 0
        BY <1>4, <4>2 DEF EndOf, RecvInto
      <4>3. CASE Ring = <<>>
        BY <4>3
      <4> QED
        BY <1>1, <2>1, <2>2, <4>1, <4>2, <4>3
    <3> QED
      BY <1>4, <2>1, <2>2, <3>1
  <2>3. ASSUME NEW i \in 0 .. Len(Ring) PROVE EndOf(i)' <= Here + n
    <3>1. EndOf(i) \in Nat /\ EndOf(i) <= Here
      BY <1>0, <2>1, BlockEnds
    <3>2. EndOf(i)' = EndOf(i) \/ EndOf(i)' = Here + n
      BY <1>1, <1>4 DEF EndOf, RecvInto
    <3> HIDE DEF EndOf, Here
    <3> QED
      BY <1>1, <3>1, <3>2
  <2> QED
    BY <1>4, <1>5, <2>2, <2>3 DEF FileOrder
<1>8. Labelled'
  <2> SUFFICES ASSUME flaws' \subseteq {"bypass", "orphan"} PROVE Labelled'
    BY DEF Labelled
  <2>1. flaws \subseteq {"bypass", "orphan"}
    BY DEF RecvInto
  <2>2. /\ \A i \in 1 .. Len(Ring) : Ring[i].label = Ring[i].pos % StreamWrap
        /\ stream.rx = Here % StreamWrap
    BY <1>6, <2>1 DEF Labelled
  <2>3. ((Here % StreamWrap) + n) % StreamWrap = (Here + n) % StreamWrap
    BY <1>1, ModAdd, ZenonT(60)
  <2> QED
    BY <1>4, <1>5, <2>2, <2>3 DEF Labelled
<1>9. LossSeen'
  <2>1. flaws' \cap {"lost", "moved"} = flaws \cap {"lost", "moved"}
    BY DEF RecvInto
  <2> QED
    BY <1>4, <1>6, <2>1 DEF LossSeen
<1> QED
  BY <1>7, <1>8, <1>9 DEF OrderInv

LEMMA OrderRecvSlot ==
  ASSUME StreamInv, OrderInv, NEW n \in 0 .. Most, RecvSlot(n) PROVE OrderInv'
<1> USE StreamAssumption DEF StreamInv
<1>0. /\ stream \in Streams /\ ServerShape /\ stream.id \in DOMAIN server /\ StreamShape
      /\ UNCHANGED <<next, flaws>>
  BY DEF StreamShape, RecvSlot
<1>1. /\ stream.id \in Ids /\ stream.id # 0 /\ Here \in Nat /\ n \in Nat
      /\ Here \in 0 .. FileSize /\ Here + n \in 0 .. FileSize
  BY <1>0 DEF RecvSlot, ServerShape, Here
<1>2. stream.id \in DOMAIN server' /\ server'[stream.id] = Here + n
  BY <1>0, <1>1, PutIn DEF RecvSlot
<1>3. CASE n = 0
  <2>1. stream' = stream
    BY <1>3 DEF RecvSlot
  <2>2. Here' = Here /\ Ring' = Ring
    BY <1>1, <1>2, <1>3, <2>1 DEF Here, Ring
  <2>3. \A i : EndOf(i)' = EndOf(i)
    BY <1>0, <2>2 DEF EndOf
  <2>4. FileOrder /\ Labelled /\ LossSeen
    BY <1>0, <1>1 DEF OrderInv, Streaming
  <2> QED
    BY <1>0, <2>1, <2>2, <2>3, <2>4 DEF OrderInv, FileOrder, Labelled, LossSeen
<1>4. CASE n > 0
  <2> DEFINE block == [label |-> stream.rx, pos |-> Here, len |-> n]
  <2>1. block \in StreamBlock /\ Ring \in Seq(StreamBlock) /\ Len(Ring) \in Nat
    BY <1>0, <1>1, <1>4 DEF StreamBlock, Streams, Ring
  <2>2. stream' = [stream EXCEPT !.rx = (@ + n) % StreamWrap, !.ring = Append(Ring, block)]
    BY <1>4 DEF RecvSlot, Ring
  <2>3. Append(Ring, block) \in Seq(StreamBlock)
    BY <2>1
  <2>4. /\ stream'.id = stream.id /\ stream'.rx = (stream.rx + n) % StreamWrap
        /\ Ring' = Append(Ring, block) /\ stream'.state = stream.state
    BY <1>0, <1>1, <2>2, <2>3, ReceivedStream DEF Streams
  <2>5. /\ Len(Ring') = Len(Ring) + 1 /\ Ring'[Len(Ring) + 1] = block
        /\ \A i \in 1 .. Len(Ring) : Ring'[i] = Ring[i]
    BY <2>1, <2>4
  <2>6. Here' = Here + n
    BY <1>2, <2>4 DEF Here
  <2>7. FileOrder /\ Labelled /\ LossSeen
    BY <1>0, <1>1 DEF OrderInv, Streaming
  <2>8. \A i \in 0 .. Len(Ring) : EndOf(i)' = EndOf(i)
    BY <1>0, <2>1, <2>5 DEF EndOf
  <2>9. \A i : i = Len(Ring) + 1 => EndOf(i)' = Here + n
    BY <2>1, <2>5 DEF EndOf
  <2> HIDE DEF block
  <2>10. FileOrder'
    <3> SUFFICES ASSUME "moved" \notin flaws PROVE FileOrder'
      BY <1>0 DEF FileOrder
    <3>1. /\ \A i \in 1 .. Len(Ring) :
               i > 1 \/ "bypass" \notin flaws => EndOf(i - 1) <= Ring[i].pos
          /\ \A i \in 0 .. Len(Ring) : EndOf(i) <= Here
      BY <2>7 DEF FileOrder
    <3>2. ASSUME NEW i \in 1 .. Len(Ring) + 1, i > 1 \/ "bypass" \notin flaws'
          PROVE  EndOf(i - 1)' <= Ring'[i].pos
      <4>1. i - 1 \in 0 .. Len(Ring)
        BY <2>1
      <4>2. EndOf(i - 1)' = EndOf(i - 1) /\ EndOf(i - 1) <= Here
        BY <2>8, <3>1, <4>1
      <4>3. CASE i = Len(Ring) + 1
        BY <2>5, <4>2, <4>3 DEF block
      <4>4. CASE i \in 1 .. Len(Ring)
        BY <1>0, <2>5, <3>1, <3>2, <4>2, <4>4
      <4> QED
        BY <2>1, <4>3, <4>4
    <3>3. ASSUME NEW i \in 0 .. Len(Ring) + 1 PROVE EndOf(i)' <= Here + n
      <4>1. CASE i = Len(Ring) + 1
        BY <1>1, <2>9, <4>1
      <4>2. CASE i \in 0 .. Len(Ring)
        <5>1. EndOf(i)' = EndOf(i) /\ EndOf(i) <= Here /\ EndOf(i) \in Nat
          BY <1>0, <2>8, <3>1, <4>2, BlockEnds
        <5> HIDE DEF EndOf, Here
        <5> QED
          BY <1>1, <5>1
      <4> QED
        BY <2>1, <4>1, <4>2
    <3> QED
      BY <2>5, <2>6, <3>2, <3>3 DEF FileOrder
  <2>11. Labelled'
    <3> SUFFICES ASSUME flaws \subseteq {"bypass", "orphan"} PROVE Labelled'
      BY <1>0 DEF Labelled
    <3>1. /\ \A i \in 1 .. Len(Ring) : Ring[i].label = Ring[i].pos % StreamWrap
          /\ stream.rx = Here % StreamWrap
      BY <2>7 DEF Labelled
    <3>2. ((Here % StreamWrap) + n) % StreamWrap = (Here + n) % StreamWrap
      BY <1>1, ModAdd, ZenonT(60)
    <3>3. block.label = block.pos % StreamWrap
      BY <3>1 DEF block
    <3>4. \A i \in 1 .. Len(Ring) + 1 : Ring'[i].label = Ring'[i].pos % StreamWrap
      BY <2>1, <2>5, <3>1, <3>3
    <3> QED
      BY <2>4, <2>5, <2>6, <3>1, <3>2, <3>4 DEF Labelled
  <2>12. LossSeen'
    BY <1>0, <2>4, <2>7 DEF LossSeen
  <2> QED
    BY <2>10, <2>11, <2>12 DEF OrderInv
<1> QED
  BY <1>1, <1>3, <1>4

LEMMA OrderTake ==
  ASSUME StreamInv, OrderInv, NEW n \in 1 .. Most, Take(n) PROVE OrderInv'
<1> USE StreamAssumption DEF StreamInv
<1> DEFINE first == Head(Ring)
           left == [label |-> (first.label + n) % StreamWrap, pos |-> first.pos + n,
                    len |-> first.len - n]
<1>0. /\ stream \in Streams /\ ServerShape /\ StreamShape /\ Ring \in Seq(StreamBlock)
      /\ Len(Ring) \in Nat /\ UNCHANGED <<server, flaws>> /\ next' = first.pos + n
      /\ Ring # <<>> /\ n <= first.len
  BY DEF StreamShape, Streams, Ring, Take
<1>1. /\ Len(Ring) >= 1 /\ first = Ring[1] /\ first \in StreamBlock
      /\ Tail(Ring) \in Seq(StreamBlock) /\ Len(Tail(Ring)) = Len(Ring) - 1
      /\ \A i \in 1 .. Len(Ring) - 1 : Tail(Ring)[i] = Ring[i + 1]
  BY <1>0
<1>2. /\ first.pos \in Nat /\ first.len \in Nat /\ first.label \in 0 .. StreamWrap - 1
      /\ n \in Nat
  BY <1>1 DEF StreamBlock
<1>3. /\ stream' = [stream EXCEPT !.ring = Ring']
      /\ Ring' = IF n = first.len THEN Tail(Ring) ELSE <<left>> \o Tail(Ring)
  BY <1>0 DEF Take, Ring, Streams
<1>4. stream'.id = stream.id /\ stream'.rx = stream.rx /\ stream'.state = stream.state
  BY <1>0, <1>3 DEF Streams
<1>5. SUFFICES ASSUME Streaming PROVE FileOrder' /\ Labelled' /\ LossSeen'
  BY <1>0, <1>4 DEF OrderInv, Streaming
<1>6. FileOrder /\ Labelled /\ LossSeen /\ Here' = Here /\ Here \in Nat
  BY <1>0, <1>4, <1>5 DEF OrderInv, Here, Streaming, ServerShape
<1>7. LossSeen'
  BY <1>0, <1>4, <1>6 DEF LossSeen
<1>8. CASE n = first.len
  <2>1. /\ Ring' = Tail(Ring) /\ Len(Ring') = Len(Ring) - 1
        /\ \A i \in 1 .. Len(Ring) - 1 : Ring'[i] = Ring[i + 1]
    BY <1>1, <1>3, <1>8
  <2>2. \A i \in 0 .. Len(Ring) - 1 : EndOf(i)' = EndOf(i + 1)
    BY <1>0, <1>1, <1>8, <2>1 DEF EndOf
  <2>3. FileOrder'
    <3> SUFFICES ASSUME "moved" \notin flaws PROVE FileOrder'
      BY <1>0 DEF FileOrder
    <3>1. /\ \A i \in 1 .. Len(Ring) :
               i > 1 \/ "bypass" \notin flaws => EndOf(i - 1) <= Ring[i].pos
          /\ \A i \in 0 .. Len(Ring) : EndOf(i) <= Here
      BY <1>6 DEF FileOrder
    <3>2. ASSUME NEW i \in 1 .. Len(Ring) - 1 PROVE EndOf(i - 1)' <= Ring'[i].pos
      <4>1. /\ i - 1 \in 0 .. Len(Ring) - 1 /\ (i - 1) + 1 = i /\ i + 1 \in 1 .. Len(Ring)
            /\ i + 1 > 1 /\ (i + 1) - 1 = i
        BY <1>0
      <4>2. EndOf(i - 1)' = EndOf(i) /\ Ring'[i] = Ring[i + 1]
        BY <2>1, <2>2, <4>1
      <4>3. EndOf(i) <= Ring[i + 1].pos
        BY <3>1, <4>1
      <4> QED
        BY <4>2, <4>3
    <3>3. ASSUME NEW i \in 0 .. Len(Ring) - 1 PROVE EndOf(i)' <= Here
      <4>1. i + 1 \in 0 .. Len(Ring)
        BY <1>0
      <4> QED
        BY <2>2, <3>1, <4>1
    <3> QED
      BY <1>6, <2>1, <3>2, <3>3 DEF FileOrder
  <2>4. Labelled'
    <3> SUFFICES ASSUME flaws \subseteq {"bypass", "orphan"} PROVE Labelled'
      BY <1>0 DEF Labelled
    <3>1. /\ \A i \in 1 .. Len(Ring) : Ring[i].label = Ring[i].pos % StreamWrap
          /\ stream.rx = Here % StreamWrap
      BY <1>6 DEF Labelled
    <3>2. \A i \in 1 .. Len(Ring) - 1 : i + 1 \in 1 .. Len(Ring)
      BY <1>0
    <3> QED
      BY <1>4, <1>6, <2>1, <3>1, <3>2 DEF Labelled
  <2> QED
    BY <1>7, <2>3, <2>4
<1>9. CASE n # first.len
  <2>1. n < first.len /\ n <= first.len
    BY <1>0, <1>2, <1>9
  <2>2. /\ Len(Ring') = Len(Ring) /\ Ring'[1] = left
        /\ \A i \in 2 .. Len(Ring) : Ring'[i] = Ring[i]
    <3> HIDE DEF left, first
    <3>1. Ring' = <<left>> \o Tail(Ring)
      BY <1>3, <1>9
    <3>2. /\ Len(Ring') = 1 + Len(Tail(Ring)) /\ Ring'[1] = left
          /\ \A i \in 2 .. 1 + Len(Tail(Ring)) : Ring'[i] = Tail(Ring)[i - 1]
      BY <1>1, <3>1
    <3>3. \A i \in 2 .. Len(Ring) : i - 1 \in 1 .. Len(Ring) - 1 /\ (i - 1) + 1 = i
      BY <1>0
    <3> QED
      BY <1>0, <1>1, <3>2, <3>3
  <2>3. left.pos = first.pos + n /\ left.pos + left.len = first.pos + first.len
    <3>1. left.pos = first.pos + n /\ left.len = first.len - n
      OBVIOUS
    <3> HIDE DEF left, first
    <3> QED
      BY <1>2, <3>1
  <2>4. left.label = (first.label + n) % StreamWrap
    OBVIOUS
  <2>5. EndOf(0)' = left.pos /\ \A i \in 1 .. Len(Ring) : EndOf(i)' = EndOf(i)
    <3>1. EndOf(0)' = left.pos
      BY <1>0, <2>3 DEF EndOf
    <3>2. ASSUME NEW i \in 1 .. Len(Ring) PROVE EndOf(i)' = EndOf(i)
      <4> HIDE DEF left, first
      <4>1. CASE i = 1
        BY <1>1, <2>2, <2>3, <4>1 DEF EndOf
      <4>2. CASE i # 1
        BY <2>2, <4>2 DEF EndOf
      <4> QED
        BY <4>1, <4>2
    <3> QED
      BY <3>1, <3>2
  <2> HIDE DEF left, first
  <2>6. FileOrder'
    <3> SUFFICES ASSUME "moved" \notin flaws PROVE FileOrder'
      BY <1>0 DEF FileOrder
    <3>1. /\ \A i \in 1 .. Len(Ring) :
               i > 1 \/ "bypass" \notin flaws => EndOf(i - 1) <= Ring[i].pos
          /\ \A i \in 0 .. Len(Ring) : EndOf(i) <= Here
      BY <1>6 DEF FileOrder
    <3>2. ASSUME NEW i \in 1 .. Len(Ring) PROVE EndOf(i - 1)' <= Ring'[i].pos
      <4>1. CASE i = 1
        BY <1>2, <2>2, <2>3, <2>5, <4>1
      <4>2. CASE i > 1
        <5>1. i - 1 \in 1 .. Len(Ring) /\ i \in 2 .. Len(Ring)
          BY <4>2
        <5>2. EndOf(i - 1)' = EndOf(i - 1) /\ Ring'[i] = Ring[i]
          BY <2>2, <2>5, <5>1
        <5> QED
          BY <3>1, <4>2, <5>2
      <4> QED
        BY <4>1, <4>2
    <3>3. EndOf(0)' <= Here
      <4>1. EndOf(1) = first.pos + first.len
        BY <1>1 DEF EndOf
      <4>2. first.pos + first.len <= Here
        BY <1>0, <1>1, <3>1, <4>1
      <4> QED
        BY <1>2, <1>6, <2>1, <2>3, <2>5, <4>2
    <3>4. ASSUME NEW i \in 1 .. Len(Ring) PROVE EndOf(i)' <= Here
      BY <2>5, <3>1
    <3>5. \A i \in 0 .. Len(Ring) : i = 0 \/ i \in 1 .. Len(Ring)
      BY <1>0
    <3>6. \A i \in 0 .. Len(Ring) : EndOf(i)' <= Here
      BY <3>3, <3>4, <3>5
    <3> QED
      BY <1>6, <2>2, <3>2, <3>6 DEF FileOrder
  <2>7. Labelled'
    <3> SUFFICES ASSUME flaws \subseteq {"bypass", "orphan"} PROVE Labelled'
      BY <1>0 DEF Labelled
    <3>1. /\ \A i \in 1 .. Len(Ring) : Ring[i].label = Ring[i].pos % StreamWrap
          /\ stream.rx = Here % StreamWrap
      BY <1>6 DEF Labelled
    <3>2. left.label = left.pos % StreamWrap
      <4>1. first.label = first.pos % StreamWrap
        BY <1>1, <3>1
      <4> QED
        BY <1>2, <2>3, <2>4, <4>1, ModAdd
    <3>3. ASSUME NEW i \in 1 .. Len(Ring) PROVE Ring'[i].label = Ring'[i].pos % StreamWrap
      <4>1. CASE i = 1
        BY <2>2, <3>2, <4>1
      <4>2. CASE i # 1
        BY <2>2, <3>1, <4>2
      <4> QED
        BY <4>1, <4>2
    <3> QED
      BY <1>4, <1>6, <2>2, <3>1, <3>3 DEF Labelled
  <2> QED
    BY <1>7, <2>6, <2>7
<1> QED
  BY <1>8, <1>9

LEMMA OrderStep == StreamInv /\ OrderInv /\ [StreamNext]_streamVars => OrderInv'
<1> SUFFICES ASSUME StreamInv, OrderInv, [StreamNext]_streamVars PROVE OrderInv'
  OBVIOUS
<1>1. CASE \/ \E id \in Ids : OpenOk(id) \/ OpenFails(id)
           \/ Close \/ Ask \/ StreamReset
  BY <1>1, OrderOpens
<1>2. CASE \E offset \in 0 .. FileSize : Seek(offset)
  BY <1>2, OrderSeeks
<1>3. CASE \E n \in 0 .. Most : RecvSlot(n) \/ RecvInto(n) \/ RecvFails(n)
  BY <1>3, OrderRecvSlot, OrderRecvInto, OrderRecvFails
<1>4. CASE \E n \in 1 .. FileSize + 1 : Read(n)
  BY <1>4, OrderStays DEF Read
<1>5. CASE \E n \in 1 .. Most : Take(n)
  BY <1>5, OrderTake
<1>6. CASE UNCHANGED streamVars
  BY <1>6, OrderStays DEF streamVars
<1> QED
  BY <1>1, <1>2, <1>3, <1>4, <1>5, <1>6 DEF StreamNext

LEMMA OrderInvariant == StreamSpec => []OrderInv
<1>1. StreamInit => OrderInv
  BY DEF StreamInit, OrderInv, Streaming, Fresh
<1> QED
  BY <1>1, StreamInvariant, OrderStep, PTL DEF StreamSpec

\* stream_client.c:84-128, 264-387: for files, slots and wraps of any size, whatever receive or
\* seek loses its answer, the ring and the application get bytes of the file in their order,
\* without holes where no receive failed, and labelled with their offsets; a receive past the
\* ring leaves the ring and the offsets as they are; a loss shows in the stream's state.
THEOREM BytesAreConsecutive == StreamSpec => []Consecutive
<1>1. StreamInv /\ OrderInv => Consecutive
  BY DEF StreamInv, Exact, OrderInv, Streaming, Consecutive, NoHoles
<1> QED
  BY <1>1, StreamInvariant, OrderInvariant, PTL

-----------------------------------------------------------------------------
(* CopyStream                                                               *)

CopyShape ==
  /\ setup \in Setups /\ pc \in {"start", "fetch", "write", "close", "closed"}
  /\ at \in Nat /\ got \in Nat /\ written \in Nat /\ done \in Nat /\ window \in BOOLEAN
  /\ sink \in Seq(Nat)

\* What the sink has is in order, ...
InOrder == \A i \in 1 .. Len(sink) : sink[i] = i - 1

\* ... and ends where the copy is.
Placed ==
  /\ pc \in {"start", "fetch"} => at = done /\ Len(sink) = done
  /\ pc = "write" => written <= got /\ at = done + got /\ Len(sink) = done + written
  /\ pc \in {"start", "fetch", "write"} => result = "ok"
  /\ pc = "start" => done = 0
  /\ pc \in {"close", "closed"} /\ result = "ok" =>
       Len(sink) = done /\ (setup.size # 0 => done = setup.size)

\* A window is held only while its block is written, or if its release failed.
WindowKept ==
  /\ pc # "write" /\ window => pc \in {"close", "closed"} /\ result = "release"
  /\ pc = "closed" => open = {}

CopyInv == CopyShape /\ InOrder /\ Placed /\ WindowKept

LEMMA BlocksAreNat == ASSUME setup \in Setups PROVE Block(setup) \in Nat
<1>1. /\ setup.limit \in Nat /\ setup.buffer \in Nat /\ Unit \in Nat \ {0}
  BY CopyAssumption DEF Setups
<1>2. Least(setup.limit, setup.buffer) \in Nat
  BY <1>1 DEF Least
<1>3. Least(setup.limit, setup.buffer) \div Unit \in Nat
  BY <1>1, <1>2
<1> QED
  BY <1>1, <1>3 DEF Block

\* The sink takes the next n bytes of the block.
LEMMA SinkTakes ==
  ASSUME CopyInv, pc = "write", NEW n \in Nat, sink' = sink \o From(written, n)
  PROVE  sink' \in Seq(Nat) /\ InOrder' /\ Len(sink') = done + written + n
<1> DEFINE more == From(written, n)
<1>1. /\ at = done + got /\ Len(sink) = done + written /\ sink \in Seq(Nat) /\ InOrder
      /\ at \in Nat /\ got \in Nat /\ written \in Nat /\ done \in Nat
  BY DEF CopyInv, CopyShape, Placed
<1>2. at - got = done
  BY <1>1
<1>3. more = [i \in 1 .. n |-> done + written + i - 1]
  BY <1>2 DEF From
<1>4. \A i \in 1 .. n : done + written + i - 1 \in Nat
  BY <1>1
<1>5. more \in Seq(Nat) /\ Len(more) = n /\ \A i \in 1 .. n : more[i] = done + written + i - 1
  BY <1>3, <1>4
<1> HIDE DEF more
<1>6. /\ sink' \in Seq(Nat) /\ Len(sink') = Len(sink) + n
      /\ \A i \in 1 .. Len(sink) + n :
           sink'[i] = IF i <= Len(sink) THEN sink[i] ELSE more[i - Len(sink)]
  <2>1. sink' = sink \o more
    BY DEF more
  <2>2. /\ sink \o more \in Seq(Nat) /\ Len(sink \o more) = Len(sink) + Len(more)
        /\ \A i \in 1 .. Len(sink) + Len(more) :
             (sink \o more)[i] = IF i <= Len(sink) THEN sink[i] ELSE more[i - Len(sink)]
    BY <1>1, <1>5, ConcatProperties
  <2> QED
    BY <1>5, <2>1, <2>2
<1>7. ASSUME NEW i \in 1 .. Len(sink) + n PROVE sink'[i] = i - 1
  <2>0. i \in Nat /\ Len(sink) \in Nat /\ i >= 1 /\ i <= Len(sink) + n
    BY <1>1
  <2>1. CASE i <= Len(sink)
    <3>1. i \in 1 .. Len(sink)
      BY <2>0, <2>1
    <3> QED
      BY <1>1, <1>6, <2>1, <3>1 DEF InOrder
  <2>2. CASE ~(i <= Len(sink))
    <3>1. i - Len(sink) \in 1 .. n
      BY <2>0, <2>2
    <3>2. sink'[i] = more[i - Len(sink)]
      BY <1>6, <2>2
    <3>3. more[i - Len(sink)] = done + written + (i - Len(sink)) - 1
      BY <1>5, <3>1
    <3> QED
      BY <1>1, <2>0, <3>2, <3>3
  <2> QED
    BY <2>1, <2>2
<1> QED
  BY <1>1, <1>6, <1>7 DEF InOrder

LEMMA CopyAtFirst == CopyInit => CopyInv
<1> SUFFICES ASSUME CopyInit PROVE CopyInv
  OBVIOUS
<1>1. sink = <<>> /\ sink \in Seq(Nat) /\ Len(sink) = 0
  BY DEF CopyInit
<1>2. CopyShape
  BY <1>1 DEF CopyInit, CopyShape
<1>3. InOrder /\ Placed /\ WindowKept
  BY <1>1 DEF CopyInit, InOrder, Placed, WindowKept
<1> QED
  BY <1>2, <1>3 DEF CopyInv

LEMMA CopyStep == CopyInv /\ [CopyNext]_copyVars => CopyInv'
<1> SUFFICES ASSUME CopyInv, [CopyNext]_copyVars PROVE CopyInv'
  OBVIOUS
<1> USE DEF CopyInv, Return, blockVars
<1>0. Block(setup) \in Nat /\ setup.size \in Nat /\ setup.real \in Nat
  BY BlocksAreNat, CopyAssumption DEF CopyShape, Setups
<1>1. CASE OpenFiles
  BY <1>1 DEF OpenFiles, CopyShape, InOrder, Placed, WindowKept
<1>2. CASE CloseFiles
  BY <1>2 DEF CloseFiles, CloseBoth, CopyShape, InOrder, Placed, WindowKept
<1>3. ASSUME NEW n \in 1 .. Block(setup), FetchDirect(n) \/ FetchPlain(n) PROVE CopyInv'
  <2>1. /\ pc = "fetch" /\ at' = at + n /\ got' = n /\ written' = 0 /\ pc' = "write"
        /\ UNCHANGED <<setup, done, sink, result, open>>
    BY <1>3 DEF FetchDirect, FetchPlain, Fetched
  <2>2. CopyShape'
    <3>1. window' \in BOOLEAN
      BY <1>3, Zenon DEF FetchDirect, FetchPlain, Fetched
    <3>2. n \in Nat
      BY <1>0
    <3> QED
      BY <2>1, <3>1, <3>2 DEF CopyShape
  <2>3. InOrder' /\ Placed' /\ WindowKept'
    BY <2>1 DEF CopyShape, InOrder, Placed, WindowKept
  <2> QED
    BY <2>2, <2>3
<1>4. CASE FetchTooMuch
  <2>1. Want \in Nat
    <3>1. done \in Nat
      BY DEF CopyShape
    <3>2. setup.size = 0 \/ done < setup.size
      BY <1>4 DEF FetchTooMuch, More
    <3>3. setup.size = 0 \/ setup.size - done \in Nat
      BY <1>0, <3>1, <3>2
    <3> QED
      BY <1>0, <3>3 DEF Want, Least
  <2>2. at' \in Nat
    <3>1. at' = at + Want + 1
      BY <1>4 DEF FetchTooMuch
    <3>2. at \in Nat
      BY DEF CopyShape
    <3> QED
      BY <2>1, <3>1, <3>2
  <2> QED
    BY <1>4, <2>2 DEF FetchTooMuch, CopyShape, InOrder, Placed, WindowKept
<1>5. CASE FetchFails
  BY <1>5 DEF FetchFails, CopyShape, InOrder, Placed, WindowKept
<1>6. CASE End
  BY <1>6 DEF End, CopyShape, InOrder, Placed, WindowKept
<1>7. ASSUME NEW n \in 1 .. Block(setup), Write(n) PROVE CopyInv'
  <2>1. n \in Nat /\ written + n <= got
    BY <1>0, <1>7 DEF Write, Offered, Through, Least, CopyShape
  <2>2. sink' \in Seq(Nat) /\ InOrder' /\ Len(sink') = done + written + n
    BY <1>7, <2>1, SinkTakes DEF Write
  <2> QED
    BY <1>7, <2>1, <2>2 DEF Write, CopyShape, Placed, WindowKept
<1>8. ASSUME NEW n \in 0 .. Block(setup), WriteFails(n) PROVE CopyInv'
  <2>1. n \in Nat
    BY <1>0
  <2>2. sink' \in Seq(Nat) /\ InOrder'
    BY <1>8, <2>1, SinkTakes DEF WriteFails
  <2> QED
    BY <1>8, <2>1, <2>2 DEF WriteFails, CopyShape, Placed, WindowKept
<1>9. ASSUME NEW how \in {"ok", "release", "progress"}, BlockDone(how) PROVE CopyInv'
  BY <1>9 DEF BlockDone, CopyShape, InOrder, Placed, WindowKept
<1>10. CASE UNCHANGED copyVars
  BY <1>10 DEF copyVars, CopyShape, InOrder, Placed, WindowKept
<1> QED
  BY <1>1, <1>2, <1>3, <1>4, <1>5, <1>6, <1>7, <1>8, <1>9, <1>10 DEF CopyNext

\* copy.c:91-141, file.c:489-500: for files, blocks and buffers of any size, whatever the reads and
\* partial writes are, the sink has the first bytes of the source, each once and in order, all of
\* them if the copy succeeds; a copy that has returned holds no window, unless its release failed,
\* and has closed what it opened.
THEOREM CopiesAreClean == CopySpec => []CopyIsClean
<1>1. CopyInv => CopyIsClean
  BY DEF CopyInv, InOrder, Placed, WindowKept, CopyIsClean, CopyExact, NothingHeld
<1> QED
  BY <1>1, CopyAtFirst, CopyStep, PTL DEF CopySpec

-----------------------------------------------------------------------------
(* DirListing: what has been told, what is left of the page and what comes  *)
(* after it follow each other.                                              *)

Entry == [name : Nat, cost : Nat]
DirRec == [open : BOOLEAN, next_index : Nat \cup {LIST_DONE}, entry_count : Nat,
           rest : Seq(Entry), guard : Nat]

DirTypeOK ==
  /\ way \in {"paged", "local", "whole"}
  /\ entries \in Seq(Entry) /\ given \in Nat /\ atOpening \in 0 .. given
  /\ shifted \in BOOLEAN /\ dir \in DirRec /\ told \in Seq(Nat)
  /\ last \in {"none", "open", "error", "entry", "end", "closed", "page"}

\* The names of a part of a directory rise.
Rising(s) == \A i, j \in 1 .. Len(s) : i < j => s[i].name < s[j].name

\* The directory is in order of creation, and complete until a file goes.
EntriesInOrder ==
  /\ Rising(entries)
  /\ \A i \in 1 .. Len(entries) : entries[i].name <= given
  /\ ~shifted => Len(entries) = given /\ \A i \in 1 .. Len(entries) : entries[i].name = i

ToldInOrder ==
  /\ \A i, j \in 1 .. Len(told) : i < j => told[i] < told[j]
  /\ ~shifted => \A i \in 1 .. Len(told) : told[i] = i

\* What has been told, what is left of page d and what comes after it follow each other.
Following(d) ==
  /\ Rising(d.rest)
  /\ \A i \in 1 .. Len(told), j \in 1 .. Len(d.rest) : told[i] < d.rest[j].name
  /\ ~shifted => \A j \in 1 .. Len(d.rest) : d.rest[j].name = Len(told) + j
  /\ \A i \in 1 .. Len(told) : told[i] <= given
  /\ \A j \in 1 .. Len(d.rest) : d.rest[j].name <= given
Ahead(d) ==
  /\ d.next_index # LIST_DONE =>
       /\ \A j \in 1 .. Len(entries) : j > d.next_index =>
            /\ \A i \in 1 .. Len(told) : told[i] < entries[j].name
            /\ \A i \in 1 .. Len(d.rest) : d.rest[i].name < entries[j].name
       /\ ~shifted => d.next_index = Len(told) + Len(d.rest)
  /\ ~shifted /\ d.next_index = LIST_DONE => Len(told) + Len(d.rest) >= atOpening

\* A page without entries is the last one.
EmptyIsLast(d) == d.entry_count = 0 => d.rest = <<>> /\ d.next_index = LIST_DONE

DirPhase ==
  /\ last = "none" => told = <<>> /\ ~shifted /\ dir = NoneListed
  /\ way = "whole" => dir.rest = <<>> /\ (dir.open => last = "page")
  /\ last \in {"none", "page"} => dir.next_index # LIST_DONE
  /\ last = "page" => way = "whole"
  /\ way # "whole" /\ dir.open => EmptyIsLast(dir)
  /\ last = "end" /\ ~shifted => Len(told) >= atOpening

DirInv ==
  /\ DirTypeOK /\ EntriesInOrder /\ ToldInOrder /\ DirPhase
  /\ dir.open \/ last \in {"none", "page"} => Following(dir) /\ Ahead(dir)

-----------------------------------------------------------------------------
LEMMA LeastOfTwo ==
  ASSUME NEW a \in Int, NEW b \in Int
  PROVE  Min({a, b}) = IF a <= b THEN a ELSE b
<1>1. \E x \in {a, b} : \A y \in {a, b} : x <= y
  <2>1. CASE a <= b
    BY <2>1
  <2>2. CASE b <= a
    BY <2>2
  <2> QED BY <2>1, <2>2
<1>2. Min({a, b}) \in {a, b} /\ \A y \in {a, b} : Min({a, b}) <= y
  BY <1>1 DEF Min
<1> QED BY <1>2

\* Part of a directory.
LEMMA SliceIs ==
  ASSUME NEW S, NEW s \in Seq(S), NEW from \in Nat, NEW n \in Nat
  PROVE  /\ Slice(s, from, n) \in Seq(S)
         /\ Len(Slice(s, from, n)) = IF from + n <= Len(s) THEN n
                                     ELSE IF from <= Len(s) THEN Len(s) - from ELSE 0
         /\ \A i \in 1 .. Len(Slice(s, from, n)) : Slice(s, from, n)[i] = s[from + i]
<1> DEFINE upto == IF from + n <= Len(s) THEN from + n ELSE Len(s)
<1>1. Len(s) \in Nat /\ \A i \in 1 .. Len(s) : s[i] \in S
  BY LenProperties, ElementOfSeq
<1>2. Min({from + n, Len(s)}) = upto
  BY <1>1, LeastOfTwo
<1>3. Slice(s, from, n) = SubSeq(s, from + 1, upto)
  BY <1>2 DEF Slice
<1>4. upto \in Int /\ from + 1 \in Int /\ upto <= Len(s) /\ upto <= from + n
  BY <1>1
<1>5. \A i \in from + 1 .. upto : s[i] \in S
  BY <1>1, <1>4
<1> HIDE DEF upto
<1>6. /\ SubSeq(s, from + 1, upto) \in Seq(S)
      /\ Len(SubSeq(s, from + 1, upto)) = IF from + 1 <= upto THEN upto - (from + 1) + 1 ELSE 0
      /\ \A i \in 1 .. upto - (from + 1) + 1 : SubSeq(s, from + 1, upto)[i] = s[from + 1 + i - 1]
  BY <1>4, <1>5, SubSeqProperties
<1>7. Len(SubSeq(s, from + 1, upto)) = IF from + n <= Len(s) THEN n
                                       ELSE IF from <= Len(s) THEN Len(s) - from ELSE 0
  BY <1>1, <1>6 DEF upto
<1>8. \A i \in 1 .. Len(SubSeq(s, from + 1, upto)) : SubSeq(s, from + 1, upto)[i] = s[from + i]
  <2> TAKE i \in 1 .. Len(SubSeq(s, from + 1, upto))
  <2>1. i \in 1 .. upto - (from + 1) + 1 /\ from + 1 + i - 1 = from + i
    BY <1>4, <1>6
  <2>2. SubSeq(s, from + 1, upto)[i] = s[from + 1 + i - 1]
    BY <1>6, <2>1
  <2> QED BY <2>1, <2>2
<1> QED
  BY <1>3, <1>6, <1>7, <1>8

LEMMA SliceOfEntries ==
  \A s \in Seq(Entry) : \A from, n \in Nat :
    /\ Slice(s, from, n) \in Seq(Entry)
    /\ Len(Slice(s, from, n)) = IF from + n <= Len(s) THEN n
                                ELSE IF from <= Len(s) THEN Len(s) - from ELSE 0
    /\ \A i \in 1 .. Len(Slice(s, from, n)) : Slice(s, from, n)[i] = s[from + i]
BY SliceIs, Zenon

\* A directory without its entry i.
LEMMA RemoveIs ==
  ASSUME NEW S, NEW s \in Seq(S), NEW i \in 1 .. Len(s)
  PROVE  /\ RemoveAt(s, i) \in Seq(S) /\ Len(RemoveAt(s, i)) = Len(s) - 1
         /\ \A j \in 1 .. Len(s) - 1 : RemoveAt(s, i)[j] = IF j < i THEN s[j] ELSE s[j + 1]
<1> DEFINE a == SubSeq(s, 1, i - 1)
           b == SubSeq(s, i + 1, Len(s))
<1>1. Len(s) \in Nat /\ \A j \in 1 .. Len(s) : s[j] \in S
  BY LenProperties, ElementOfSeq
<1>2. a \in Seq(S) /\ Len(a) = i - 1 /\ \A j \in 1 .. i - 1 : a[j] = s[j]
  <2>1. /\ a \in Seq(S) /\ Len(a) = IF 1 <= i - 1 THEN i - 1 - 1 + 1 ELSE 0
        /\ \A j \in 1 .. i - 1 - 1 + 1 : a[j] = s[1 + j - 1]
    BY <1>1, SubSeqProperties
  <2> QED BY <2>1, <1>1
<1>3. b \in Seq(S) /\ Len(b) = Len(s) - i /\ \A j \in 1 .. Len(s) - i : b[j] = s[i + j]
  <2>1. /\ b \in Seq(S) /\ Len(b) = IF i + 1 <= Len(s) THEN Len(s) - (i + 1) + 1 ELSE 0
        /\ \A j \in 1 .. Len(s) - (i + 1) + 1 : b[j] = s[i + 1 + j - 1]
    BY <1>1, SubSeqProperties
  <2> QED BY <2>1, <1>1
<1> HIDE DEF a, b
<1>4. /\ a \o b \in Seq(S) /\ Len(a \o b) = Len(a) + Len(b)
      /\ \A j \in 1 .. Len(a) + Len(b) : (a \o b)[j] = IF j <= Len(a) THEN a[j] ELSE b[j - Len(a)]
  BY <1>2, <1>3, ConcatProperties
<1>5. RemoveAt(s, i) = a \o b
  BY DEF RemoveAt, a, b
<1>6. \A j \in 1 .. Len(s) - 1 : (a \o b)[j] = IF j < i THEN s[j] ELSE s[j + 1]
  <2> TAKE j \in 1 .. Len(s) - 1
  <2>1. (a \o b)[j] = IF j <= Len(a) THEN a[j] ELSE b[j - Len(a)]
    BY <1>1, <1>2, <1>3, <1>4
  <2>2. CASE j < i
    BY <1>1, <1>2, <2>1, <2>2
  <2>3. CASE ~(j < i)
    <3>1. j - Len(a) \in 1 .. Len(s) - i /\ ~(j <= Len(a)) /\ i + (j - Len(a)) = j + 1
      BY <1>1, <1>2, <2>3
    <3> QED BY <1>3, <2>1, <2>3, <3>1
  <2> QED BY <2>2, <2>3
<1>7. Len(a \o b) = Len(s) - 1
  BY <1>1, <1>2, <1>3, <1>4
<1> QED
  BY <1>4, <1>5, <1>6, <1>7, Zenon

\* What a page of entries from `from` on is.
IsPage(p, from) ==
  /\ p.listed \in Seq(Entry) /\ p.next_index \in Nat \cup {LIST_DONE}
  /\ \A i \in 1 .. Len(p.listed) :
       from + i \in 1 .. Len(entries) /\ p.listed[i] = entries[from + i]
  /\ p.next_index = LIST_DONE => from + Len(p.listed) >= Len(entries)
  /\ p.next_index # LIST_DONE => p.next_index = from + Len(p.listed) /\ p.listed # <<>>

LEMMA AnswersArePages ==
  ASSUME DirTypeOK, ListingAssumption, NEW from \in Nat, NEW p \in Answers(from)
  PROVE  IsPage(p, from)
<1> DEFINE left == Slice(entries, from, Len(entries))
           page(n) == [listed |-> SubSeq(left, 1, n),
                       next_index |-> IF n = Len(left) THEN LIST_DONE ELSE from + n]
<1>0. entries \in Seq(Entry) /\ Len(entries) \in Nat
  BY LenProperties DEF DirTypeOK
<1>1. /\ left \in Seq(Entry)
      /\ Len(left) = IF from <= Len(entries) THEN Len(entries) - from ELSE 0
      /\ \A i \in 1 .. Len(left) : left[i] = entries[from + i]
  <2>1. /\ left \in Seq(Entry)
        /\ Len(left) = IF from + Len(entries) <= Len(entries) THEN Len(entries)
                       ELSE IF from <= Len(entries) THEN Len(entries) - from ELSE 0
        /\ \A i \in 1 .. Len(left) : left[i] = entries[from + i]
    BY <1>0, SliceOfEntries
  <2> QED BY <2>1, <1>0
<1>2. \A i \in 1 .. Len(left) : left[i] \in Entry
  BY <1>1, ElementOfSeq
<1>3. PICK n \in 0 .. Len(left) : p = page(n) /\ (n = 0 => left = <<>>)
  <2>1. Len(left) \in Nat /\ 0 \in 0 .. Len(left)
    BY <1>0, <1>1
  <2>2. PageMax \in Nat
    BY DEF ListingAssumption
  <2>3. Answers(from) = LET fits == {n \in 1 .. PageMax : n <= Len(left) /\ RoomOf(SubSeq(left, 1, n)) <= AnswerRoom}
                        IN  IF left = <<>> THEN {page(0)} ELSE {page(n) : n \in fits}
    BY DEF Answers
  <2> HIDE DEF left, page
  <2>4. CASE left = <<>>
    BY <2>1, <2>3, <2>4
  <2>5. CASE left # <<>>
    <3>1. PICK n \in 1 .. PageMax : n <= Len(left) /\ p = page(n)
      BY <2>3, <2>5
    <3> QED BY <2>1, <2>2, <3>1
  <2> QED BY <2>4, <2>5
<1> HIDE DEF left
<1>4. Len(left) \in Nat
  BY <1>0, <1>1
<1>5. /\ SubSeq(left, 1, n) \in Seq(Entry) /\ Len(SubSeq(left, 1, n)) = n
      /\ \A i \in 1 .. n : SubSeq(left, 1, n)[i] = left[i]
  <2>1. /\ SubSeq(left, 1, n) \in Seq(Entry)
        /\ Len(SubSeq(left, 1, n)) = IF 1 <= n THEN n - 1 + 1 ELSE 0
        /\ \A i \in 1 .. n - 1 + 1 : SubSeq(left, 1, n)[i] = left[1 + i - 1]
    BY <1>2, <1>4, SubSeqProperties
  <2> QED BY <2>1, <1>4
<1>6. p.listed = SubSeq(left, 1, n) /\ p.next_index = IF n = Len(left) THEN LIST_DONE ELSE from + n
  BY <1>3
<1>7. \A i \in 1 .. n : i \in 1 .. Len(left) /\ from + i \in 1 .. Len(entries)
                        /\ p.listed[i] = entries[from + i]
  <2> TAKE i \in 1 .. n
  <2>1. i \in 1 .. Len(left)
    BY <1>4
  <2>2. from + i \in 1 .. Len(entries)
    BY <1>0, <1>1, <2>1
  <2> QED BY <1>1, <1>5, <1>6, <2>1, <2>2
<1>8. from + n \in Nat /\ (n = Len(left) => from + n >= Len(entries))
      /\ (n # Len(left) => n # 0 /\ from + n # LIST_DONE)
  BY <1>0, <1>1, <1>3, <1>4, EmptySeq DEF LIST_DONE
<1>9. n # 0 => p.listed # <<>>
  BY <1>5, <1>6, EmptySeq
<1> QED
  BY <1>5, <1>6, <1>7, <1>8, <1>9 DEF IsPage

LEMMA PagesArePages ==
  ASSUME DirTypeOK, ListingAssumption, NEW from \in Nat
  PROVE  /\ \A p \in Pages(from) : IsPage(p, from)
         /\ \A p \in RemotePages(from) : IsPage(p, from)
<1>1. \A p \in RemotePages(from) : IsPage(p, from)
  BY AnswersArePages DEF RemotePages
<1>2. ASSUME NEW p \in FallbackPage(from)
      PROVE  IsPage(p, from)
  <2>0. entries \in Seq(Entry) /\ Len(entries) \in Nat /\ PageMax \in Nat \ {0} /\ PageMax \in Nat
    BY LenProperties DEF DirTypeOK, ListingAssumption
  <2>1. p.listed = Slice(entries, from, PageMax)
        /\ p.next_index = IF Len(entries) > from + PageMax THEN from + PageMax ELSE LIST_DONE
    BY DEF FallbackPage
  <2>2. /\ p.listed \in Seq(Entry)
        /\ Len(p.listed) = IF from + PageMax <= Len(entries) THEN PageMax
                           ELSE IF from <= Len(entries) THEN Len(entries) - from ELSE 0
        /\ \A i \in 1 .. Len(p.listed) : p.listed[i] = entries[from + i]
    <3>1. LET s == Slice(entries, from, PageMax)
          IN  /\ s \in Seq(Entry)
              /\ Len(s) = IF from + PageMax <= Len(entries) THEN PageMax
                          ELSE IF from <= Len(entries) THEN Len(entries) - from ELSE 0
              /\ \A i \in 1 .. Len(s) : s[i] = entries[from + i]
      BY <2>0, SliceOfEntries
    <3> QED BY <2>1, <3>1
  <2>3. \A i \in 1 .. Len(p.listed) : from + i \in 1 .. Len(entries)
    BY <2>0, <2>2
  <2>4. CASE Len(entries) > from + PageMax
    <3>1. p.next_index = from + PageMax /\ Len(p.listed) = PageMax /\ from + PageMax \in Nat
          /\ from + PageMax # LIST_DONE
      BY <2>0, <2>1, <2>2, <2>4 DEF LIST_DONE
    <3>2. p.listed # <<>>
      BY <2>0, <3>1, EmptySeq
    <3> QED BY <2>2, <2>3, <3>1, <3>2 DEF IsPage
  <2>5. CASE ~(Len(entries) > from + PageMax)
    <3>1. p.next_index = LIST_DONE /\ from + Len(p.listed) >= Len(entries)
      BY <2>0, <2>1, <2>2, <2>5
    <3> QED BY <2>2, <2>3, <3>1 DEF IsPage
  <2> QED BY <2>4, <2>5
<1> QED
  BY <1>1, <1>2 DEF Pages

-----------------------------------------------------------------------------
\* A page fetched where the last one ended follows what was told.
LEMMA PageFollows ==
  ASSUME DirTypeOK, EntriesInOrder, ToldInOrder, Following(dir), Ahead(dir), ListingAssumption,
         dir.rest = <<>>, dir.next_index # LIST_DONE, NEW p, IsPage(p, dir.next_index)
  PROVE  /\ WithPage(p) \in DirRec /\ EmptyIsLast(WithPage(p))
         /\ WithPage(p).rest = p.listed /\ WithPage(p).next_index = p.next_index
         /\ WithPage(p).open = dir.open
         /\ Following(WithPage(p)) /\ Ahead(WithPage(p))
<1> DEFINE w == WithPage(p)
           from == dir.next_index
<1>1. /\ w \in DirRec /\ w.rest = p.listed /\ w.next_index = p.next_index
      /\ w.open = dir.open /\ w.entry_count = Len(p.listed)
  <2>1. p.listed \in Seq(Entry) /\ p.next_index \in Nat \cup {LIST_DONE} /\ Len(p.listed) \in Nat
    BY LenProperties DEF IsPage
  <2> QED BY <2>1 DEF WithPage, DirTypeOK, DirRec
<1>2. /\ from \in Nat /\ Len(p.listed) \in Nat /\ Len(told) \in Nat /\ Len(entries) \in Nat
      /\ given \in Nat /\ atOpening \in Nat /\ atOpening <= given /\ Len(dir.rest) = 0
  BY LenProperties, EmptySeq DEF DirTypeOK, IsPage, DirRec
<1>3. \A i \in 1 .. Len(p.listed) :
        from + i \in 1 .. Len(entries) /\ p.listed[i] = entries[from + i] /\ from + i > from
  BY <1>2 DEF IsPage
<1> HIDE DEF from
<1>4. \A j \in 1 .. Len(entries) : j > from => \A i \in 1 .. Len(told) : told[i] < entries[j].name
  BY DEF Ahead, from
<1>5. ~shifted => from = Len(told)
  BY <1>2 DEF Ahead, from
<1>6. Rising(p.listed)
  <2>1. \A i, j \in 1 .. Len(p.listed) : i < j => from + i < from + j
    BY <1>2
  <2>2. Rising(entries)
    BY DEF EntriesInOrder
  <2> QED BY <1>3, <2>1, <2>2 DEF Rising
<1>7. \A i \in 1 .. Len(told), j \in 1 .. Len(p.listed) : told[i] < p.listed[j].name
  BY <1>3, <1>4
<1>8. ~shifted => \A j \in 1 .. Len(p.listed) : p.listed[j].name = Len(told) + j
  BY <1>3, <1>5 DEF EntriesInOrder
<1>9. p.next_index # LIST_DONE =>
        /\ p.next_index = from + Len(p.listed) /\ p.listed # <<>>
        /\ \A j \in 1 .. Len(entries) : j > p.next_index =>
             /\ \A i \in 1 .. Len(told) : told[i] < entries[j].name
             /\ \A i \in 1 .. Len(p.listed) : p.listed[i].name < entries[j].name
  <2> SUFFICES ASSUME p.next_index # LIST_DONE
               PROVE  /\ p.next_index = from + Len(p.listed) /\ p.listed # <<>>
                      /\ \A j \in 1 .. Len(entries) : j > p.next_index =>
                           /\ \A i \in 1 .. Len(told) : told[i] < entries[j].name
                           /\ \A i \in 1 .. Len(p.listed) : p.listed[i].name < entries[j].name
    OBVIOUS
  <2>1. p.next_index = from + Len(p.listed) /\ p.listed # <<>>
    BY DEF IsPage, from
  <2>2. ASSUME NEW j \in 1 .. Len(entries), j > p.next_index, NEW i \in 1 .. Len(p.listed)
        PROVE  p.listed[i].name < entries[j].name
    <3>1. from + i < j /\ from + i \in 1 .. Len(entries) /\ p.listed[i] = entries[from + i]
      BY <1>2, <1>3, <2>1, <2>2
    <3> QED BY <3>1 DEF EntriesInOrder, Rising
  <2> QED BY <1>2, <1>4, <2>1, <2>2
<1>10. p.next_index = LIST_DONE /\ ~shifted => Len(told) + Len(p.listed) >= atOpening
  <2>1. p.next_index = LIST_DONE => from + Len(p.listed) >= Len(entries)
    BY DEF IsPage, from
  <2>2. ~shifted => Len(entries) = given
    BY DEF EntriesInOrder
  <2> QED BY <1>2, <1>5, <2>1, <2>2
<1>11. Len(p.listed) = 0 => p.listed = <<>> /\ p.next_index = LIST_DONE
  <2>1. p.listed \in Seq(Entry)
    BY DEF IsPage
  <2> QED BY <1>9, <2>1, EmptySeq
<1>b. \A i \in 1 .. Len(told) : told[i] <= given
  BY DEF Following
<1>c. \A j \in 1 .. Len(p.listed) : p.listed[j].name <= given
  BY <1>3 DEF EntriesInOrder
<1> HIDE DEF w
<1>12. Following(w)
  BY <1>1, <1>6, <1>7, <1>8, <1>b, <1>c DEF Following
<1>13. Ahead(w)
  BY <1>1, <1>5, <1>9, <1>10 DEF Ahead
<1>14. EmptyIsLast(w)
  BY <1>1, <1>11 DEF EmptyIsLast
<1> QED
  BY <1>1, <1>12, <1>13, <1>14 DEF w

\* Taking an entry from a page tells the next name.
LEMMA TakingTells ==
  ASSUME DirTypeOK, EntriesInOrder, ToldInOrder, NEW d \in DirRec, Following(d), Ahead(d),
         EmptyIsLast(d), d.rest # <<>>, TakeEntry(d), UNCHANGED <<entries, given, atOpening, shifted>>
  PROVE  /\ dir' \in DirRec /\ told' \in Seq(Nat) /\ last' \in {"error", "entry"}
         /\ ToldInOrder' /\ EmptyIsLast(dir')
         /\ dir'.open => Following(dir)' /\ Ahead(dir)'
<1>1. d.rest \in Seq(Entry) /\ told \in Seq(Nat) /\ Len(told) \in Nat /\ Len(d.rest) \in Nat \ {0}
      /\ Len(entries) \in Nat
  BY LenProperties, EmptySeq DEF DirTypeOK, DirRec
<1>2. CASE Head(d.rest).cost = 0
  <2>1. dir' = [d EXCEPT !.open = FALSE] /\ last' = "error" /\ told' = told
    BY <1>2 DEF TakeEntry
  <2>2. dir' \in DirRec /\ dir'.open = FALSE /\ dir'.rest = d.rest /\ dir'.next_index = d.next_index
        /\ dir'.entry_count = d.entry_count
    BY <2>1 DEF DirRec
  <2> QED BY <1>1, <2>1, <2>2 DEF ToldInOrder, EmptyIsLast
<1>3. CASE Head(d.rest).cost # 0
  <2>1. /\ dir' = [d EXCEPT !.rest = Tail(@)] /\ last' = "entry"
        /\ told' = Append(told, Head(d.rest).name)
    BY <1>3 DEF TakeEntry
  <2>2. /\ Head(d.rest) = d.rest[1] /\ d.rest[1] \in Entry
        /\ Tail(d.rest) \in Seq(Entry) /\ Len(Tail(d.rest)) = Len(d.rest) - 1
        /\ \A i \in 1 .. Len(d.rest) - 1 : Tail(d.rest)[i] = d.rest[i + 1]
    <3>1. Head(d.rest) = d.rest[1]
      BY <1>1
    <3>2. d.rest[1] \in Entry
      BY <1>1, ElementOfSeq
    <3> QED BY <1>1, <3>1, <3>2, HeadTailProperties
  <2> DEFINE n == d.rest[1].name
             tail == Tail(d.rest)
  <2>3. n \in Nat
    BY <2>2 DEF Entry
  <2> HIDE DEF n, tail
  <2>4. /\ told' \in Seq(Nat) /\ Len(told') = Len(told) + 1
        /\ \A i \in 1 .. Len(told) : told'[i] = told[i]
        /\ told'[Len(told) + 1] = n
    <3>1. told' = Append(told, n)
      BY <2>1, <2>2 DEF n
    <3> QED BY <1>1, <2>3, <3>1, AppendProperties
  <2>5. /\ dir' \in DirRec /\ dir'.rest = tail /\ dir'.next_index = d.next_index
        /\ dir'.entry_count = d.entry_count
    BY <2>1, <2>2 DEF DirRec, tail
  <2>6. /\ Len(tail) = Len(d.rest) - 1 /\ \A i \in 1 .. Len(d.rest) - 1 : tail[i] = d.rest[i + 1]
    BY <2>2 DEF tail
  <2>a. PICK T \in Nat, R \in Nat : /\ T = Len(told) /\ R = Len(d.rest) /\ R >= 1
                                    /\ Len(told') = T + 1 /\ Len(tail) = R - 1
    BY <1>1, <2>4, <2>6
  <2>b. Len(told') + Len(tail) = Len(told) + Len(d.rest)
    <3>1. Len(told') + Len(tail) = (T + 1) + (R - 1)
      BY <2>a
    <3>2. (T + 1) + (R - 1) = T + R
      OBVIOUS
    <3> QED BY <2>a, <3>1, <3>2
  <2>7. /\ \A i \in 1 .. Len(told) : told[i] < n
        /\ \A i \in 2 .. Len(d.rest) : n < d.rest[i].name
        /\ ~shifted => n = Len(told) + 1
    BY <1>1 DEF Following, Rising, n
  <2>8. \A i \in 1 .. Len(told) : told[i] \in Nat
    BY <1>1, ElementOfSeq
  <2>9. ToldInOrder'
    <3>1. ASSUME NEW i \in 1 .. Len(told'), NEW j \in 1 .. Len(told'), i < j
          PROVE  told'[i] < told'[j]
      <4>1. i \in 1 .. Len(told) /\ (j \in 1 .. Len(told) \/ j = Len(told) + 1)
        BY <2>a, <3>1
      <4> QED BY <2>4, <2>7, <3>1, <4>1 DEF ToldInOrder
    <3>2. ASSUME ~shifted', NEW i \in 1 .. Len(told')
          PROVE  told'[i] = i
      <4>1. ~shifted /\ (i \in 1 .. Len(told) \/ i = Len(told) + 1)
        BY <1>1, <2>4, <3>2
      <4> QED BY <2>4, <2>7, <4>1 DEF ToldInOrder
    <3> QED BY <3>1, <3>2 DEF ToldInOrder
  <2>10. Following(dir)'
    <3>1. Rising(tail)
      <4>1. \A i \in 1 .. Len(tail) : i + 1 \in 1 .. Len(d.rest) /\ tail[i] = d.rest[i + 1]
        BY <2>a, <2>6
      <4>2. \A i, j \in 1 .. Len(tail) : i < j => i + 1 < j + 1
        BY <2>a
      <4>3. Rising(d.rest)
        BY DEF Following
      <4> QED BY <4>1, <4>2, <4>3 DEF Rising
    <3>2. ASSUME NEW i \in 1 .. Len(told'), NEW j \in 1 .. Len(tail)
          PROVE  told'[i] < tail[j].name
      <4>1. i \in 1 .. Len(told) \/ i = Len(told) + 1
        BY <1>1, <2>4
      <4>2. j + 1 \in 2 .. Len(d.rest) /\ tail[j] = d.rest[j + 1] /\ j + 1 \in 1 .. Len(d.rest)
        BY <1>1, <2>6
      <4> QED BY <2>4, <2>7, <4>1, <4>2 DEF Following
    <3>3. ASSUME ~shifted', NEW j \in 1 .. Len(tail)
          PROVE  tail[j].name = Len(told') + j
      <4>1. j + 1 \in 1 .. Len(d.rest) /\ tail[j] = d.rest[j + 1]
        BY <1>1, <2>6
      <4>2. d.rest[j + 1].name = Len(told) + (j + 1)
        BY <3>3, <4>1 DEF Following
      <4> QED BY <1>1, <2>4, <4>1, <4>2
    <3>4. \A i \in 1 .. Len(told') : told'[i] <= given'
      <4>1. n <= given /\ \A i \in 1 .. Len(told) : told[i] <= given
        BY <1>1 DEF Following, n
      <4>2. \A i \in 1 .. Len(told') : i \in 1 .. Len(told) \/ i = Len(told) + 1
        BY <2>a
      <4> QED BY <2>4, <4>1, <4>2
    <3>5. \A j \in 1 .. Len(tail) : tail[j].name <= given'
      <4>1. \A i \in 1 .. Len(tail) : i + 1 \in 1 .. Len(d.rest) /\ tail[i] = d.rest[i + 1]
        BY <2>a, <2>6
      <4> QED BY <4>1 DEF Following
    <3> QED BY <2>5, <3>1, <3>2, <3>3, <3>4, <3>5 DEF Following
  <2>11. Ahead(dir)'
    <3>1. ASSUME d.next_index # LIST_DONE, NEW j \in 1 .. Len(entries), j > d.next_index
          PROVE  /\ \A i \in 1 .. Len(told') : told'[i] < entries[j].name
                 /\ \A i \in 1 .. Len(tail) : tail[i].name < entries[j].name
      <4>1. /\ \A i \in 1 .. Len(told) : told[i] < entries[j].name
            /\ \A i \in 1 .. Len(d.rest) : d.rest[i].name < entries[j].name
        BY <3>1 DEF Ahead
      <4>2. n < entries[j].name
        BY <1>1, <4>1 DEF n
      <4>3. \A i \in 1 .. Len(told') : i \in 1 .. Len(told) \/ i = Len(told) + 1
        BY <1>1, <2>4
      <4>4. \A i \in 1 .. Len(tail) : i + 1 \in 1 .. Len(d.rest) /\ tail[i] = d.rest[i + 1]
        BY <1>1, <2>6
      <4> QED BY <2>4, <4>1, <4>2, <4>3, <4>4
    <3>2. ~shifted /\ d.next_index # LIST_DONE => d.next_index = Len(told') + Len(tail)
      BY <2>b DEF Ahead
    <3>3. ~shifted /\ d.next_index = LIST_DONE => Len(told') + Len(tail) >= atOpening
      <4>1. ~shifted /\ d.next_index = LIST_DONE => Len(told) + Len(d.rest) >= atOpening
        BY DEF Ahead
      <4> QED BY <2>b, <4>1
    <3> QED BY <2>5, <3>1, <3>2, <3>3 DEF Ahead
  <2>12. EmptyIsLast(dir')
    <3>1. d.entry_count # 0
      BY DEF EmptyIsLast
    <3> QED BY <2>5, <3>1 DEF EmptyIsLast
  <2> QED BY <2>1, <2>4, <2>5, <2>9, <2>10, <2>11, <2>12
<1> QED
  BY <1>2, <1>3

-----------------------------------------------------------------------------
\* The whole listing: the names of a page, or of its first entry, are told at once.
LEMMA ListingTells ==
  ASSUME DirTypeOK, EntriesInOrder, ToldInOrder, Following(dir), Ahead(dir), ListingAssumption,
         dir.rest = <<>>, dir.next_index # LIST_DONE, NEW p, IsPage(p, dir.next_index),
         NEW k \in 0 .. Len(p.listed), NEW names, names \in Seq(Nat), Len(names) = k,
         \A i \in 1 .. k : names[i] = p.listed[i].name,
         told' = told \o names, UNCHANGED <<entries, given, shifted>>
  PROVE  /\ told' \in Seq(Nat) /\ ToldInOrder' /\ \A i \in 1 .. Len(told') : told'[i] <= given
         /\ k = Len(p.listed) /\ p.next_index = LIST_DONE /\ ~shifted => Len(told') >= given
         /\ k = Len(p.listed) /\ p.next_index # LIST_DONE =>
              /\ \A j \in 1 .. Len(entries) : j > p.next_index =>
                   \A i \in 1 .. Len(told') : told'[i] < entries[j].name
              /\ ~shifted => p.next_index = Len(told')
<1> DEFINE w == WithPage(p)
<1>1. /\ w.rest = p.listed /\ w.next_index = p.next_index /\ Following(w) /\ Ahead(w)
  BY PageFollows
<1> HIDE DEF w
<1>2. /\ told \in Seq(Nat) /\ Len(told) \in Nat /\ Len(entries) \in Nat /\ k \in Nat
      /\ Len(p.listed) \in Nat /\ given \in Nat /\ dir.next_index \in Nat /\ Len(dir.rest) = 0
  BY LenProperties, EmptySeq DEF DirTypeOK, IsPage, DirRec
<1>3. /\ told \o names \in Seq(Nat) /\ Len(told \o names) = Len(told) + k
      /\ \A i \in 1 .. Len(told) + k :
           (told \o names)[i] = IF i <= Len(told) THEN told[i] ELSE names[i - Len(told)]
  <2>1. PICK t \in Seq(Nat), m \in Seq(Nat) : t = told /\ m = names
    BY <1>2
  <2>2. /\ t \o m \in Seq(Nat) /\ Len(t \o m) = Len(t) + Len(m)
        /\ \A i \in 1 .. Len(t) + Len(m) : (t \o m)[i] = IF i <= Len(t) THEN t[i] ELSE m[i - Len(t)]
    BY ConcatProperties
  <2> QED BY <2>1, <2>2, Zenon
<1>4. /\ told' \in Seq(Nat) /\ Len(told') = Len(told) + k
      /\ \A i \in 1 .. Len(told) : told'[i] = told[i]
      /\ \A i \in 1 .. k : told'[Len(told) + i] = p.listed[i].name
  <2>1. \A i \in 1 .. Len(told) : i \in 1 .. Len(told) + k /\ i <= Len(told)
    BY <1>2
  <2>2. \A i \in 1 .. k : /\ Len(told) + i \in 1 .. Len(told) + k /\ ~(Len(told) + i <= Len(told))
                           /\ Len(told) + i - Len(told) = i
    BY <1>2
  <2> QED BY <1>3, <2>1, <2>2
<1>5. \A i \in 1 .. Len(told') : i \in 1 .. Len(told) \/ \E j \in 1 .. k : i = Len(told) + j
  <2> TAKE i \in 1 .. Len(told')
  <2>1. CASE i > Len(told)
    <3>1. i - Len(told) \in 1 .. k /\ i = Len(told) + (i - Len(told))
      BY <1>2, <1>4, <2>1
    <3> QED BY <3>1
  <2>2. CASE ~(i > Len(told))
    BY <1>2, <1>4, <2>2
  <2> QED BY <2>1, <2>2
<1>6. \A i \in 1 .. k : i \in 1 .. Len(p.listed)
  BY <1>2
<1>7. ToldInOrder'
  <2>1. ASSUME NEW i \in 1 .. Len(told'), NEW j \in 1 .. Len(told'), i < j
        PROVE  told'[i] < told'[j]
    <3>1. CASE i \in 1 .. Len(told) /\ j \in 1 .. Len(told)
      BY <1>4, <2>1, <3>1 DEF ToldInOrder
    <3>2. CASE i \in 1 .. Len(told) /\ \E b \in 1 .. k : j = Len(told) + b
      BY <1>1, <1>4, <1>6, <3>2 DEF Following
    <3>3. CASE (\E a \in 1 .. k : i = Len(told) + a) /\ \E b \in 1 .. k : j = Len(told) + b
      <4>1. PICK a \in 1 .. k, b \in 1 .. k : i = Len(told) + a /\ j = Len(told) + b
        BY <3>3
      <4>2. a < b
        BY <1>2, <2>1, <4>1
      <4> QED BY <1>1, <1>4, <1>6, <4>1, <4>2 DEF Following, Rising
    <3>4. CASE j \in 1 .. Len(told) /\ \E a \in 1 .. k : i = Len(told) + a
      BY <1>2, <2>1, <3>4
    <3> QED BY <1>5, <3>1, <3>2, <3>3, <3>4
  <2>2. ASSUME ~shifted', NEW i \in 1 .. Len(told')
        PROVE  told'[i] = i
    <3>1. CASE i \in 1 .. Len(told)
      BY <1>4, <2>2, <3>1 DEF ToldInOrder
    <3>2. CASE \E j \in 1 .. k : i = Len(told) + j
      BY <1>1, <1>4, <1>6, <2>2, <3>2 DEF Following
    <3> QED BY <1>5, <3>1, <3>2
  <2> QED BY <2>1, <2>2 DEF ToldInOrder
<1>8. k = Len(p.listed) /\ p.next_index = LIST_DONE /\ ~shifted => Len(told') >= given
  <2>1. p.next_index = LIST_DONE => dir.next_index + Len(p.listed) >= Len(entries)
    BY DEF IsPage
  <2>2. ~shifted => Len(entries) = given /\ dir.next_index = Len(told)
    BY <1>2 DEF EntriesInOrder, Ahead
  <2> QED BY <1>2, <1>4, <2>1, <2>2
<1>9. ASSUME k = Len(p.listed), p.next_index # LIST_DONE
      PROVE  /\ \A j \in 1 .. Len(entries) : j > p.next_index =>
                  \A i \in 1 .. Len(told') : told'[i] < entries[j].name
             /\ ~shifted => p.next_index = Len(told')
  <2>1. /\ \A j \in 1 .. Len(entries) : j > p.next_index =>
             /\ \A i \in 1 .. Len(told) : told[i] < entries[j].name
             /\ \A i \in 1 .. Len(p.listed) : p.listed[i].name < entries[j].name
        /\ ~shifted => p.next_index = Len(told) + Len(p.listed)
    BY <1>1, <1>9 DEF Ahead
  <2>2. ASSUME NEW j \in 1 .. Len(entries), j > p.next_index, NEW i \in 1 .. Len(told')
        PROVE  told'[i] < entries[j].name
    <3>1. CASE i \in 1 .. Len(told)
      BY <1>4, <2>1, <2>2, <3>1
    <3>2. CASE \E m \in 1 .. k : i = Len(told) + m
      BY <1>4, <1>6, <2>1, <2>2, <3>2
    <3> QED BY <1>5, <3>1, <3>2
  <2>3. ~shifted => p.next_index = Len(told')
    BY <1>4, <1>9, <2>1
  <2> QED BY <2>2, <2>3
<1>10. \A i \in 1 .. Len(told') : told'[i] <= given
  <2>1. /\ \A i \in 1 .. Len(told) : told[i] <= given
        /\ \A i \in 1 .. Len(p.listed) : p.listed[i].name <= given
    BY <1>1 DEF Following
  <2> QED BY <1>4, <1>5, <1>6, <2>1
<1> QED
  BY <1>4, <1>7, <1>8, <1>9, <1>10

-----------------------------------------------------------------------------
LEMMA DirInvInit == DirInit => DirInv
<1> SUFFICES ASSUME DirInit PROVE DirInv
  OBVIOUS
<1> USE DEF DirInit
<1>1. Len(entries) = 0 /\ Len(told) = 0 /\ Len(dir.rest) = 0 /\ dir.next_index = 0
  BY EmptySeq DEF NoneListed
<1>2. DirTypeOK
  <2>1. <<>> \in Seq(Nat) /\ <<>> \in Seq(Entry)
    BY EmptySeq
  <2>2. dir \in DirRec
    BY <2>1 DEF NoneListed, DirRec
  <2>3. atOpening \in 0 .. given /\ given \in Nat
    OBVIOUS
  <2> QED BY <2>1, <2>2, <2>3 DEF DirTypeOK
<1>3. DirPhase
  BY DEF DirPhase, NoneListed, LIST_DONE
<1>4. EntriesInOrder /\ ToldInOrder
  BY <1>1 DEF EntriesInOrder, ToldInOrder, Rising
<1>5. Following(dir) /\ Ahead(dir)
  BY <1>1 DEF Following, Ahead, Rising, LIST_DONE
<1> QED
  BY <1>2, <1>3, <1>4, <1>5 DEF DirInv

LEMMA DirInvNext == ListingAssumption /\ DirInv /\ [DirNext]_dirVars => DirInv'
<1> SUFFICES ASSUME ListingAssumption, DirInv, [DirNext]_dirVars PROVE DirInv'
  OBVIOUS
<1> USE DEF DirInv
<1>0. /\ entries \in Seq(Entry) /\ Len(entries) \in Nat /\ given \in Nat /\ Len(told) \in Nat
      /\ Costs \subseteq Nat /\ dir \in DirRec /\ Len(dir.rest) \in Nat /\ atOpening \in Nat
  BY LenProperties DEF DirTypeOK, DirRec, ListingAssumption
<1>1. ASSUME NEW cost \in Costs, CreateFile(cost)
      PROVE  DirInv'
  <2> DEFINE e == [name |-> given + 1, cost |-> cost]
  <2>1. /\ given' = given + 1 /\ entries' = Append(entries, e)
        /\ UNCHANGED <<way, atOpening, shifted, dir, told, last>>
    BY <1>1 DEF CreateFile
  <2>2. e \in Entry /\ e.name = given + 1
    BY <1>0 DEF Entry
  <2> HIDE DEF e
  <2>3. /\ entries' \in Seq(Entry) /\ Len(entries') = Len(entries) + 1
        /\ \A i \in 1 .. Len(entries) : entries'[i] = entries[i]
        /\ entries'[Len(entries) + 1] = e
    BY <1>0, <2>1, <2>2, AppendProperties
  <2>4. \A i \in 1 .. Len(entries') : i \in 1 .. Len(entries) \/ i = Len(entries) + 1
    BY <1>0, <2>3
  <2>5. \A i \in 1 .. Len(entries) : entries[i] \in Entry /\ entries[i].name \in Nat /\ entries[i].name <= given
    <3>1. \A i \in 1 .. Len(entries) : entries[i] \in Entry
      BY <1>0, ElementOfSeq
    <3> QED BY <3>1 DEF EntriesInOrder, Entry
  <2>6. DirTypeOK'
    BY <1>0, <2>1, <2>3 DEF DirTypeOK
  <2>7. EntriesInOrder'
    <3>1. Rising(entries')
      <4> SUFFICES ASSUME NEW i \in 1 .. Len(entries'), NEW j \in 1 .. Len(entries'), i < j
                   PROVE  entries'[i].name < entries'[j].name
        BY DEF Rising
      <4>1. i \in 1 .. Len(entries)
        BY <1>0, <2>3
      <4>2. CASE j \in 1 .. Len(entries)
        BY <2>3, <4>1, <4>2 DEF EntriesInOrder, Rising
      <4>3. CASE j = Len(entries) + 1
        BY <1>0, <2>2, <2>3, <2>5, <4>1, <4>3
      <4> QED BY <2>4, <4>2, <4>3
    <3>2. \A i \in 1 .. Len(entries') : entries'[i].name <= given'
      BY <1>0, <2>1, <2>2, <2>3, <2>4, <2>5
    <3>3. ASSUME ~shifted' 
          PROVE  Len(entries') = given' /\ \A i \in 1 .. Len(entries') : entries'[i].name = i
      <4>1. Len(entries) = given /\ \A i \in 1 .. Len(entries) : entries[i].name = i
        BY <2>1, <3>3 DEF EntriesInOrder
      <4> QED BY <2>1, <2>2, <2>3, <2>4, <4>1
    <3> QED BY <3>1, <3>2, <3>3 DEF EntriesInOrder
  <2>8. ToldInOrder' /\ DirPhase'
    BY <2>1 DEF ToldInOrder, DirPhase, EmptyIsLast
  <2>9. ASSUME Following(dir), Ahead(dir)
        PROVE  Following(dir)' /\ Ahead(dir)'
    <3>2. /\ \A i \in 1 .. Len(told) : told[i] \in Nat /\ told[i] < given + 1
          /\ \A i \in 1 .. Len(dir.rest) : dir.rest[i].name \in Nat /\ dir.rest[i].name < given + 1
      <4>1. /\ \A i \in 1 .. Len(told) : told[i] \in Nat
            /\ \A i \in 1 .. Len(dir.rest) : dir.rest[i] \in Entry
        <5>1. told \in Seq(Nat) /\ dir.rest \in Seq(Entry)
          BY DEF DirTypeOK, DirRec
        <5> QED BY <5>1, ElementOfSeq
      <4> QED BY <1>0, <2>9, <4>1 DEF Following, Entry
    <3>1. Following(dir)'
      <4>1. /\ \A i \in 1 .. Len(told) : told[i] <= given + 1
            /\ \A i \in 1 .. Len(dir.rest) : dir.rest[i].name <= given + 1
        BY <1>0, <3>2
      <4> QED BY <2>1, <2>9, <4>1 DEF Following
    <3>3. ASSUME dir.next_index # LIST_DONE, NEW j \in 1 .. Len(entries'), j > dir.next_index
          PROVE  /\ \A i \in 1 .. Len(told) : told[i] < entries'[j].name
                 /\ \A i \in 1 .. Len(dir.rest) : dir.rest[i].name < entries'[j].name
      <4>1. CASE j \in 1 .. Len(entries)
        BY <2>3, <2>9, <3>3, <4>1 DEF Ahead
      <4>2. CASE j = Len(entries) + 1
        BY <2>2, <2>3, <3>2, <4>2
      <4> QED BY <2>4, <4>1, <4>2
    <3>4. Ahead(dir)'
      BY <2>1, <2>9, <3>3 DEF Ahead
    <3> QED BY <3>1, <3>4
  <2> QED BY <2>1, <2>6, <2>7, <2>8, <2>9
<1>2. ASSUME NEW i \in 1 .. MaxNames, RemoveFile(i)
      PROVE  DirInv'
  <2>1. /\ dir.open /\ ~shifted /\ shifted' = TRUE /\ i \in DOMAIN entries
        /\ entries' = RemoveAt(entries, i)
        /\ UNCHANGED <<way, given, atOpening, dir, told, last>>
    BY <1>2 DEF RemoveFile
  <2>2. i \in 1 .. Len(entries)
    BY <1>0, <2>1
  <2>3. /\ entries' \in Seq(Entry) /\ Len(entries') = Len(entries) - 1
        /\ \A j \in 1 .. Len(entries) - 1 : entries'[j] = IF j < i THEN entries[j] ELSE entries[j + 1]
    BY <1>0, <2>1, <2>2, RemoveIs
  <2>4. \A j \in 1 .. Len(entries') :
          \E k \in {j, j + 1} : k \in 1 .. Len(entries) /\ entries'[j] = entries[k] /\ k = IF j < i THEN j ELSE j + 1
    BY <1>0, <2>3
  <2>5. DirTypeOK'
    BY <1>0, <2>1, <2>3 DEF DirTypeOK
  <2>6. EntriesInOrder'
    <3>1. \A j \in 1 .. Len(entries') : entries'[j].name <= given'
      BY <2>1, <2>4 DEF EntriesInOrder
    <3>2. Rising(entries')
      <4> SUFFICES ASSUME NEW a \in 1 .. Len(entries'), NEW b \in 1 .. Len(entries'), a < b
                   PROVE  entries'[a].name < entries'[b].name
        BY DEF Rising
      <4>1. PICK k \in 1 .. Len(entries) : entries'[a] = entries[k] /\ k = IF a < i THEN a ELSE a + 1
        BY <2>4
      <4>2. PICK l \in 1 .. Len(entries) : entries'[b] = entries[l] /\ l = IF b < i THEN b ELSE b + 1
        BY <2>4
      <4>3. k < l
        BY <4>1, <4>2
      <4> QED BY <4>1, <4>2, <4>3 DEF EntriesInOrder, Rising
    <3> QED BY <2>1, <3>1, <3>2 DEF EntriesInOrder
  <2>7. ToldInOrder' /\ DirPhase'
    <3>1. last # "none"
      BY <2>1 DEF DirPhase, NoneListed
    <3> QED BY <2>1, <3>1 DEF ToldInOrder, DirPhase, EmptyIsLast
  <2>8. Following(dir)' /\ Ahead(dir)'
    <3>1. Following(dir)'
      BY <2>1 DEF Following
    <3>2. ASSUME dir.next_index # LIST_DONE, NEW j \in 1 .. Len(entries'), j > dir.next_index
          PROVE  /\ \A k \in 1 .. Len(told) : told[k] < entries'[j].name
                 /\ \A k \in 1 .. Len(dir.rest) : dir.rest[k].name < entries'[j].name
      <4>1. PICK l \in 1 .. Len(entries) : entries'[j] = entries[l] /\ l = IF j < i THEN j ELSE j + 1
        BY <2>4
      <4>2. l > dir.next_index
        <5>1. dir.next_index \in Nat
          BY <1>0, <3>2 DEF DirRec
        <5> QED BY <3>2, <4>1, <5>1
      <4> QED BY <2>1, <3>2, <4>1, <4>2 DEF Ahead
    <3>3. Ahead(dir)'
      BY <2>1, <3>2 DEF Ahead
    <3> QED BY <3>1, <3>3
  <2> QED BY <2>5, <2>6, <2>7, <2>8
<1>3. ASSUME NEW fails \in BOOLEAN, OpenDir(fails)
      PROVE  DirInv'
  <2>1. /\ way # "whole" /\ ~dir.open /\ last = "none" /\ told = <<>> /\ ~shifted /\ dir = NoneListed
        /\ atOpening' = given /\ UNCHANGED <<way, entries, given, shifted, told>>
    BY <1>3 DEF OpenDir, DirPhase
  <2>2. EntriesInOrder' /\ ToldInOrder'
    BY <2>1 DEF EntriesInOrder, ToldInOrder, Rising
  <2>3. CASE dir' = NoneListed /\ last' = "error"
    <3>1. DirTypeOK'
      BY <1>0, <2>1, <2>3 DEF DirTypeOK
    <3> QED BY <2>1, <2>2, <2>3, <3>1 DEF DirPhase, NoneListed
  <2>4. CASE last' = "open" /\ \E p \in Pages(0) : dir' = [WithPage(p) EXCEPT !.open = TRUE]
    <3>1. PICK p \in Pages(0) : dir' = [WithPage(p) EXCEPT !.open = TRUE]
      BY <2>4
    <3>2. IsPage(p, dir.next_index)
      BY <2>1, <3>1, PagesArePages DEF NoneListed
    <3>3. Following(dir) /\ Ahead(dir) /\ dir.rest = <<>> /\ dir.next_index = 0 /\ dir.next_index # LIST_DONE
      BY <2>1 DEF NoneListed, LIST_DONE
    <3>4. /\ WithPage(p) \in DirRec /\ EmptyIsLast(WithPage(p))
          /\ Following(WithPage(p)) /\ Ahead(WithPage(p))
          /\ WithPage(p).rest = p.listed /\ WithPage(p).next_index = p.next_index
      BY <3>2, <3>3, PageFollows
    <3>5. PICK w \in DirRec : w = WithPage(p)
      BY <3>4
    <3>6. /\ dir' \in DirRec /\ dir'.open /\ dir'.rest = w.rest /\ dir'.next_index = w.next_index
          /\ dir'.entry_count = w.entry_count
      BY <3>1, <3>5 DEF DirRec
    <3>7. Following(dir)'
      BY <2>1, <3>4, <3>5, <3>6 DEF Following
    <3>8. Ahead(dir)'
      <4>1. IsPage(p, 0)
        BY <3>2, <3>3
      <4>2. ~shifted /\ p.next_index = LIST_DONE => Len(p.listed) >= given
        <5>1. Len(p.listed) \in Nat
          BY <4>1, LenProperties DEF IsPage
        <5> QED BY <1>0, <4>1, <5>1 DEF IsPage, EntriesInOrder
      <4>3. Len(told) = 0 /\ Len(p.listed) \in Nat
        BY <2>1, <4>1, EmptySeq, LenProperties DEF IsPage
      <4> QED BY <1>0, <2>1, <3>4, <3>5, <3>6, <4>2, <4>3 DEF Ahead
    <3>9. DirTypeOK'
      BY <1>0, <2>1, <2>4, <3>6 DEF DirTypeOK
    <3>10. EmptyIsLast(dir)'
      BY <3>4, <3>5, <3>6 DEF EmptyIsLast
    <3>11. DirPhase'
      BY <2>1, <2>4, <3>10 DEF DirPhase
    <3> QED BY <2>2, <3>7, <3>8, <3>9, <3>11
  <2> QED BY <1>3, <2>3, <2>4 DEF OpenDir
<1>4. ASSUME NEW fails \in BOOLEAN, ReadDir(fails)
      PROVE  DirInv'
  <2>1. /\ way # "whole" /\ dir.open /\ UNCHANGED <<way, entries, given, atOpening, shifted>>
        /\ Following(dir) /\ Ahead(dir) /\ EmptyIsLast(dir) /\ last # "none"
    BY <1>4 DEF ReadDir, DirPhase, NoneListed
  <2>2. EntriesInOrder'
    BY <2>1 DEF EntriesInOrder, Rising
  <2>3. ASSUME NEW d \in DirRec, Following(d), Ahead(d), EmptyIsLast(d), d.rest # <<>>, TakeEntry(d)
        PROVE  DirInv'
    <3>1. /\ dir' \in DirRec /\ told' \in Seq(Nat) /\ last' \in {"error", "entry"}
          /\ ToldInOrder' /\ EmptyIsLast(dir')
          /\ dir'.open => Following(dir)' /\ Ahead(dir)'
      BY <2>1, <2>3, TakingTells
    <3>2. DirTypeOK'
      BY <2>1, <3>1 DEF DirTypeOK
    <3>3. DirPhase'
      BY <2>1, <3>1 DEF DirPhase
    <3> QED BY <2>2, <3>1, <3>2, <3>3
  <2>4. CASE dir.rest # <<>> /\ TakeEntry(dir)
    BY <1>0, <2>1, <2>3, <2>4
  <2>5. CASE UNCHANGED <<dir, told>> /\ last' \in {"end", "error"}
             /\ (last' = "end" => dir.rest = <<>> /\ dir.next_index = LIST_DONE)
    <3>1. DirTypeOK'
      BY <2>1, <2>5 DEF DirTypeOK
    <3>2. DirPhase'
      <4>1. last' = "end" /\ ~shifted => Len(told) >= atOpening
        <5>1. dir.rest = <<>> => Len(dir.rest) = 0
          BY EmptySeq
        <5> QED BY <1>0, <2>1, <2>5, <5>1 DEF Ahead
      <4> QED BY <2>1, <2>5, <4>1 DEF DirPhase, EmptyIsLast
    <3>3. Following(dir)' /\ Ahead(dir)' /\ ToldInOrder'
      BY <2>1, <2>5 DEF Following, Ahead, ToldInOrder
    <3> QED BY <2>2, <3>1, <3>2, <3>3
  <2>6. ASSUME dir.rest = <<>>, dir.next_index # LIST_DONE, NEW p \in Pages(dir.next_index),
               IF p.listed = <<>> THEN dir' = WithPage(p) /\ last' = "end" /\ UNCHANGED told
               ELSE TakeEntry(WithPage(p))
        PROVE  DirInv'
    <3>1. dir.next_index \in Nat
      BY <1>0, <2>6 DEF DirRec
    <3>2. IsPage(p, dir.next_index)
      BY <2>6, <3>1, PagesArePages
    <3>3. /\ WithPage(p) \in DirRec /\ EmptyIsLast(WithPage(p))
          /\ Following(WithPage(p)) /\ Ahead(WithPage(p)) /\ WithPage(p).open = dir.open
          /\ WithPage(p).rest = p.listed /\ WithPage(p).next_index = p.next_index
      BY <2>1, <2>6, <3>2, PageFollows
    <3>4. CASE p.listed # <<>>
      BY <2>3, <2>6, <3>3, <3>4
    <3>5. CASE p.listed = <<>>
      <4>1. dir' = WithPage(p) /\ last' = "end" /\ told' = told
        BY <2>6, <3>5
      <4>2. DirTypeOK'
        BY <2>1, <3>3, <4>1 DEF DirTypeOK
      <4>3. p.next_index = LIST_DONE
        BY <3>2, <3>5 DEF IsPage
      <4>4. ~shifted => Len(told) >= atOpening
        <5>1. Len(p.listed) = 0
          BY <3>5, EmptySeq
        <5> QED BY <1>0, <3>3, <4>3, <5>1 DEF Ahead
      <4>5. DirPhase'
        BY <2>1, <3>3, <4>1, <4>4 DEF DirPhase
      <4>6. Following(dir)' /\ Ahead(dir)' /\ ToldInOrder'
        BY <2>1, <3>3, <4>1 DEF Following, Ahead, ToldInOrder
      <4> QED BY <2>2, <4>2, <4>5, <4>6
    <3> QED BY <3>4, <3>5
  <2> QED BY <1>4, <2>1, <2>4, <2>5, <2>6 DEF ReadDir, EmptyIsLast
<1>5. ASSUME CloseDir
      PROVE  DirInv'
  <2>1. /\ way # "whole" /\ dir' = NoneListed /\ last' = "closed"
        /\ UNCHANGED <<way, entries, given, atOpening, shifted, told>>
    BY <1>5 DEF CloseDir
  <2>2. NoneListed \in DirRec /\ ~NoneListed.open
    BY EmptySeq DEF NoneListed, DirRec
  <2>3. DirTypeOK' /\ EntriesInOrder' /\ ToldInOrder' /\ DirPhase'
    BY <2>1, <2>2 DEF DirTypeOK, EntriesInOrder, ToldInOrder, DirPhase, Rising
  <2> QED BY <2>1, <2>2, <2>3
<1>6. ASSUME NEW fails \in BOOLEAN, ListDir(fails)
      PROVE  DirInv'
  <2>1. /\ way = "whole" /\ last \in {"none", "page"} /\ UNCHANGED <<way, entries, given, shifted>>
        /\ atOpening' = IF last = "none" THEN given ELSE atOpening
        /\ dir.rest = <<>> /\ dir.next_index # LIST_DONE /\ Following(dir) /\ Ahead(dir)
    BY <1>6 DEF ListDir, DirPhase
  <2>2. EntriesInOrder' /\ atOpening' \in 0 .. given
    <3>1. EntriesInOrder'
      BY <2>1 DEF EntriesInOrder, Rising
    <3>2. atOpening' \in 0 .. given
      BY <1>0, <2>1 DEF DirTypeOK
    <3> QED BY <3>1, <3>2
  <2>3. NoneListed \in DirRec /\ ~NoneListed.open /\ NoneListed.rest = <<>>
    BY EmptySeq DEF NoneListed, DirRec
  <2>4. CASE last' = "error" /\ dir' = NoneListed /\ UNCHANGED told
    <3>1. DirTypeOK' /\ ToldInOrder' /\ DirPhase'
      BY <2>1, <2>2, <2>3, <2>4 DEF DirTypeOK, ToldInOrder, DirPhase
    <3> QED BY <2>2, <2>3, <2>4, <3>1
  <2>5. ASSUME NEW p \in RemotePages(dir.next_index), NEW stop \in BOOLEAN,
               told' = told \o NamesOf(IF stop THEN Slice(p.listed, 0, 1) ELSE p.listed),
               IF stop /\ p.listed # <<>> THEN last' = "error" /\ dir' = NoneListed
               ELSE IF p.next_index = LIST_DONE THEN last' = "end" /\ dir' = NoneListed
               ELSE IF dir.guard + 1 > GuardMax THEN last' = "error" /\ dir' = NoneListed
               ELSE /\ last' = "page"
                    /\ dir' = [dir EXCEPT !.open = TRUE, !.next_index = p.next_index, !.guard = @ + 1]
        PROVE  DirInv'
    <3>1. IsPage(p, dir.next_index)
      <4>1. dir.next_index \in Nat
        BY <1>0, <2>1 DEF DirRec
      <4> QED BY <4>1, PagesArePages
    <3>2. p.listed \in Seq(Entry) /\ Len(p.listed) \in Nat /\ p.next_index \in Nat \cup {LIST_DONE}
      BY <3>1, LenProperties DEF IsPage
    <3> DEFINE s == IF stop THEN Slice(p.listed, 0, 1) ELSE p.listed
    <3>3. /\ s \in Seq(Entry) /\ Len(s) \in 0 .. Len(p.listed)
          /\ \A i \in 1 .. Len(s) : s[i] = p.listed[i]
          /\ ~(stop /\ p.listed # <<>>) => Len(s) = Len(p.listed)
      <4>1. PICK l \in Seq(Entry) : l = p.listed
        BY <3>2
      <4>2. /\ Slice(l, 0, 1) \in Seq(Entry) /\ Len(Slice(l, 0, 1)) \in 0 .. Len(l)
            /\ \A i \in 1 .. Len(Slice(l, 0, 1)) : Slice(l, 0, 1)[i] = l[i]
            /\ l = <<>> => Len(Slice(l, 0, 1)) = Len(l)
        <5>1. PICK z \in Nat, o \in Nat : z = 0 /\ o = 1
          OBVIOUS
        <5>2. /\ Slice(l, z, o) \in Seq(Entry)
              /\ Len(Slice(l, z, o)) = IF z + o <= Len(l) THEN o
                                       ELSE IF z <= Len(l) THEN Len(l) - z ELSE 0
              /\ \A i \in 1 .. Len(Slice(l, z, o)) : Slice(l, z, o)[i] = l[z + i]
          BY SliceOfEntries
        <5>3. Slice(l, z, o) = Slice(l, 0, 1)
          BY <5>1
        <5>4. Len(l) \in Nat /\ (l = <<>> => Len(l) = 0)
          BY <3>2, <4>1, EmptySeq
        <5>5. Len(Slice(l, z, o)) \in 0 .. Len(l) /\ (l = <<>> => Len(Slice(l, z, o)) = Len(l))
          BY <5>1, <5>2, <5>4
        <5>6. \A i \in 1 .. Len(Slice(l, z, o)) : z + i = i
          BY <5>1, <5>4, <5>5
        <5> QED BY <5>2, <5>3, <5>5, <5>6
      <4>3. CASE stop
        BY <3>2, <4>1, <4>2, <4>3, EmptySeq
      <4>4. CASE ~stop
        BY <3>2, <4>4
      <4> QED BY <4>3, <4>4
    <3> HIDE DEF s
    <3> DEFINE names == NamesOf(s)
    <3>4. names \in Seq(Nat) /\ Len(names) = Len(s) /\ \A i \in 1 .. Len(s) : names[i] = p.listed[i].name
      <4>1. \A i \in 1 .. Len(s) : s[i].name \in Nat
        <5>1. \A i \in 1 .. Len(s) : s[i] \in Entry
          BY <3>3, ElementOfSeq
        <5> QED BY <5>1 DEF Entry
      <4>2. names = [i \in 1 .. Len(s) |-> s[i].name] /\ Len(s) \in Nat
        BY <3>2, <3>3 DEF NamesOf
      <4> HIDE DEF names
      <4>3. names \in Seq(Nat) /\ Len(names) = Len(s)
        BY <4>1, <4>2
      <4> QED BY <3>3, <4>2, <4>3
    <3>5. told' = told \o names
      BY <2>5 DEF s
    <3> HIDE DEF names
    <3> DEFINE k == Len(s)
    <3>6. k \in 0 .. Len(p.listed) /\ Len(names) = k /\ \A i \in 1 .. k : names[i] = p.listed[i].name
      BY <3>3, <3>4
    <3> HIDE DEF k
    <3>7. /\ told' \in Seq(Nat) /\ ToldInOrder' /\ \A i \in 1 .. Len(told') : told'[i] <= given
          /\ k = Len(p.listed) /\ p.next_index = LIST_DONE /\ ~shifted => Len(told') >= given
          /\ k = Len(p.listed) /\ p.next_index # LIST_DONE =>
               /\ \A j \in 1 .. Len(entries) : j > p.next_index =>
                    \A i \in 1 .. Len(told') : told'[i] < entries[j].name
               /\ ~shifted => p.next_index = Len(told')
      BY <2>1, <3>1, <3>4, <3>5, <3>6, ListingTells
    <3>8. CASE last' \in {"error", "end"} /\ dir' = NoneListed
               /\ (last' = "end" => p.next_index = LIST_DONE /\ ~(stop /\ p.listed # <<>>))
      <4>1. last' = "end" /\ ~shifted => Len(told') >= atOpening'
        <5>1. Len(told') \in Nat
          BY <3>7, LenProperties
        <5> QED BY <1>0, <2>2, <3>3, <3>7, <3>8, <5>1 DEF k
      <4>2. DirTypeOK' /\ DirPhase'
        BY <2>1, <2>2, <2>3, <3>7, <3>8, <4>1 DEF DirTypeOK, DirPhase
      <4> QED BY <2>2, <2>3, <3>7, <3>8, <4>2
    <3>9. CASE /\ ~(stop /\ p.listed # <<>>) /\ p.next_index # LIST_DONE /\ last' = "page"
               /\ dir' = [dir EXCEPT !.open = TRUE, !.next_index = p.next_index, !.guard = @ + 1]
      <4>1. /\ dir' \in DirRec /\ dir'.open /\ dir'.rest = <<>> /\ dir'.next_index = p.next_index
            /\ Len(dir'.rest) = 0
        <5>1. dir' \in DirRec /\ dir'.open /\ dir'.rest = <<>> /\ dir'.next_index = p.next_index
          <6>1. dir.guard + 1 \in Nat
            BY <1>0 DEF DirRec
          <6> QED BY <1>0, <2>1, <3>2, <3>9, <6>1 DEF DirRec
        <5> QED BY <5>1, EmptySeq
      <4>2. DirTypeOK' /\ DirPhase'
        BY <2>1, <2>2, <3>7, <3>9, <4>1 DEF DirTypeOK, DirPhase
      <4>3. k = Len(p.listed)
        BY <3>3, <3>9 DEF k
      <4>4. Following(dir)'
        BY <2>1, <3>7, <4>1 DEF Following, Rising
      <4>5. Ahead(dir)'
        <5>1. Len(told') \in Nat
          BY <3>7, LenProperties
        <5>2. p.next_index = Len(told') \/ shifted'
          BY <2>1, <3>7, <3>9, <4>3
        <5>3. Len(told') + Len(dir'.rest) = Len(told')
          BY <4>1, <5>1
        <5>4. \A j \in 1 .. Len(entries') : j > dir'.next_index =>
                 \A i \in 1 .. Len(told') : told'[i] < entries'[j].name
          BY <2>1, <3>7, <3>9, <4>1, <4>3
        <5>5. \A i \in 1 .. Len(dir'.rest) : FALSE
          BY <4>1
        <5> QED BY <3>9, <4>1, <5>2, <5>3, <5>4, <5>5 DEF Ahead
      <4> QED BY <2>2, <3>7, <4>2, <4>4, <4>5
    <3> QED BY <2>5, <3>8, <3>9
  <2> QED BY <1>6, <2>4, <2>5 DEF ListDir
<1>7. CASE UNCHANGED dirVars
  BY <1>7 DEF dirVars, DirTypeOK, EntriesInOrder, ToldInOrder, DirPhase, Following, Ahead, Rising, EmptyIsLast
<1> QED
  BY <1>1, <1>2, <1>3, <1>4, <1>5, <1>6, <1>7 DEF DirNext

LEMMA DirInvGives == DirInv => ListedOnce
<1> SUFFICES ASSUME DirInv PROVE ListedOnce
  OBVIOUS
<1>1. told \in Seq(Nat)
  BY DEF DirInv, DirTypeOK
<1>2. Len(told) \in Nat /\ told \in [1 .. Len(told) -> Nat]
  BY <1>1, LenProperties
<1>3. \A i \in 2 .. Len(told) : i - 1 \in 1 .. Len(told) /\ i \in 1 .. Len(told) /\ i - 1 < i
  BY <1>2
<1>4. \A i \in 2 .. Len(told) : told[i - 1] < told[i]
  BY <1>3 DEF DirInv, ToldInOrder
<1>5. ~shifted => told = [i \in 1 .. Len(told) |-> i]
  BY <1>2 DEF DirInv, ToldInOrder
<1> QED
  BY <1>4, <1>5 DEF ListedOnce, DirInv, DirPhase

\* file.c:950-1080, storage_client.c:818-935: however the pages fall, whichever of them fail,
\* and whatever comes and goes meanwhile, no name is told twice or out of order, and none is
\* left out before the first file goes.
THEOREM ListingToldOnce == DirSpec => []ListedOnce
<1>1. DirInv /\ [DirNext]_dirVars => DirInv'
  BY DirInvNext, ListingAssumption
<1>2. DirSpec => []DirInv
  BY DirInvInit, <1>1, PTL DEF DirSpec
<1> QED
  BY <1>2, DirInvGives, PTL
=============================================================================
