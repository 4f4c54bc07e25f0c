------------------------------ MODULE SocketCalls ------------------------------
(***************************************************************************)
(* What the calls of socket_compat.c (gba/sdk/src) that move or wait for    *)
(* data tell their caller: send, sendto, recv, recvfrom, poll and select.   *)
(* The sockets are UDP ones on the MCU, where datagrams arrive and room for *)
(* sending comes and goes while select asks for one after the other; a      *)
(* datagram is its sender.  SocketTable has the descriptors themselves.     *)
(***************************************************************************)
EXTENDS Integers, Sequences, FiniteSets

CONSTANTS
  Descriptors,   \* 1 .. fd_count
  Senders,       \* peers
  Nobody,        \* remote of a socket that has none
  Waiting,       \* bound on datagrams that wait
  Rounds,        \* poll_attempts
  Asks           \* what select is asked for: nfds and the sets read, write and except

ASSUME CallsAssumption ==
  /\ Descriptors = 1 .. Cardinality(Descriptors) /\ Nobody \notin Senders
  /\ Waiting \in Nat /\ Rounds \in Nat \ {0}
  /\ \A ask \in Asks : ask.nfds \in Nat /\ ask.read \cup ask.write \cup ask.except \subseteq Nat \ {0}

VARIABLES
  slots,      \* of each descriptor: free, unopened or open, and its remote
  inbox,      \* datagrams the MCU has for each socket; from Nobody is one without a byte
  writable,   \* sockets the MCU can send on
  sel,        \* the select in progress
  polled,     \* what its last round has found: descriptor and flag
  told_of,    \* what a call that returned in the last step told its caller; for a select, what
              \* had been asked and found, for data, the datagram it took
  last_from   \* history: who sent the last bytes recvfrom has handed out of each socket

callVars == <<slots, inbox, writable, sel, polled, told_of, last_from>>

NoSelect == [round |-> FALSE, nfds |-> 0, read |-> {}, write |-> {}, except |-> {}, attempts |-> 0,
             fd |-> 0, ready_read |-> {}, ready_write |-> {}, ready_count |-> 0]
Nothing == [ret |-> 0, read |-> {}, write |-> {}, addr |-> Nobody, error |-> "none",
            asked |-> NoSelect, found |-> {}, call |-> "none", fd |-> 0, took |-> <<>>]

CallInit ==
  /\ slots \in [Descriptors -> [state : {"free", "unopened", "open"}, remote : {Nobody}]]
  /\ inbox = [fd \in Descriptors |-> <<>>] /\ writable = {}
  /\ sel = NoSelect /\ polled = {} /\ told_of = Nothing
  /\ last_from = [fd \in Descriptors |-> Nobody]

-----------------------------------------------------------------------------
\* The world, at any time.
Arrives(fd, sender) ==
  /\ slots[fd].state = "open" /\ Len(inbox[fd]) < Waiting
  /\ inbox' = [inbox EXCEPT ![fd] = Append(@, sender)]
  /\ told_of' = Nothing /\ UNCHANGED <<slots, writable, sel, polled, last_from>>

RoomChanges(fd) ==
  /\ slots[fd].state = "open"
  /\ writable' = (writable \ {fd}) \cup ({fd} \ writable)
  /\ told_of' = Nothing /\ UNCHANGED <<slots, inbox, sel, polled, last_from>>

PollFlags(fd) == (IF inbox[fd] # <<>> THEN {"readable"} ELSE {})
             \cup (IF fd \in writable THEN {"writable"} ELSE {})

-----------------------------------------------------------------------------
(* The other calls, in one step each.  Data: send, sendto, recv, recvfrom.  *)

DataCalls == {"send", "sendto", "recv", "recvfrom"}
FailsWith(error) == told_of' = [Nothing EXCEPT !.ret = -1, !.error = error]
Succeeds(answer) == told_of' = answer
BesideCall == UNCHANGED <<writable, sel, polled>>

\* socket_fail: no such descriptor, or none of the MCU's handles behind it.
RefusedCall(kind, fd) ==
  /\ sel = NoSelect
  /\ \/ slots[fd].state = "free" /\ FailsWith("EBADF")
     \/ slots[fd].state = "unopened" /\ kind \in {"send", "recv", "poll"} /\ FailsWith("ENOTCONN")
  /\ BesideCall /\ UNCHANGED <<slots, inbox, last_from>>

\* The command of a call is refused by the MCU, or is not answered; a datagram may be gone.
CommandFails(kind, fd) ==
  /\ slots[fd].state = "open" /\ sel = NoSelect
  /\ \/ UNCHANGED inbox
     \/ /\ kind \in {"recv", "recvfrom"} /\ inbox[fd] # <<>>
        /\ inbox' = [inbox EXCEPT ![fd] = Tail(@)]
  /\ FailsWith("failed") /\ BesideCall /\ UNCHANGED <<slots, last_from>>

\* sendto and recvfrom open the socket they need, and go on with it open.
OpensFirst(fd, fails) ==
  /\ slots[fd].state = "unopened" /\ sel = NoSelect
  /\ IF fails THEN FailsWith("failed") /\ UNCHANGED slots
     ELSE /\ slots' = [slots EXCEPT ![fd].state = "open"]
          /\ told_of' = Nothing
  /\ BesideCall /\ UNCHANGED <<inbox, last_from>>

\* send, sendto
SendData(fd) ==
  /\ slots[fd].state = "open" /\ sel = NoSelect
  /\ IF fd \in writable THEN Succeeds([Nothing EXCEPT !.ret = 1]) ELSE FailsWith("EAGAIN")
  /\ BesideCall /\ UNCHANGED <<slots, inbox, last_from>>

\* recv and recvfrom: what comes back is as long as the datagram and the caller's buffer allow;
\* without any byte it is an error, unless the buffer was empty too.  recvfrom keeps who sent it,
\* if there is a byte, and tells what it has kept.  The mutant keeps who sent it in any case.
RemoteAlways(fd, some) == IF inbox[fd] # <<>> THEN Head(inbox[fd]) ELSE slots[fd].remote
RemoteNow(fd, some) == IF some THEN Head(inbox[fd]) ELSE slots[fd].remote

ReceiveData(kind, fd, capacity) ==
  LET took == IF inbox[fd] = <<>> THEN <<>> ELSE <<Head(inbox[fd])>>
      some == took \notin {<<>>, <<Nobody>>} /\ capacity # 0
      now == RemoteNow(fd, some)
      told == [Nothing EXCEPT !.call = kind, !.fd = fd, !.took = took]
  IN  /\ slots[fd].state = "open" /\ sel = NoSelect
      /\ inbox' = [inbox EXCEPT ![fd] = IF @ = <<>> THEN @ ELSE Tail(@)]
      /\ slots' = IF kind = "recv" THEN slots ELSE [slots EXCEPT ![fd].remote = now]
      /\ last_from' = IF kind = "recvfrom" /\ some THEN [last_from EXCEPT ![fd] = Head(inbox[fd])]
                      ELSE last_from
      /\ told_of' = IF ~some /\ capacity # 0 THEN [told EXCEPT !.ret = -1, !.error = "EAGAIN"]
                    ELSE [told EXCEPT !.ret = IF some THEN 1 ELSE 0,
                                      !.addr = IF kind = "recv" THEN Nobody ELSE now]
      /\ BesideCall

PollOne(fd) ==
  /\ slots[fd].state = "open" /\ sel = NoSelect
  /\ Succeeds(Nothing)
  /\ BesideCall /\ UNCHANGED <<slots, inbox, last_from>>

-----------------------------------------------------------------------------
(* cl_socket_select                                                         *)

Requested == sel.read \cup sel.write \cup sel.except

\* The caller's sets are empty from here on.
SelectBegins(ask) ==
  /\ sel = NoSelect /\ polled' = {} /\ told_of' = Nothing
  /\ sel' = IF ask.nfds = 0 \/ ask.read \cup ask.write \cup ask.except = {} THEN NoSelect
            ELSE [NoSelect EXCEPT !.round = TRUE, !.nfds = ask.nfds, !.read = ask.read,
                    !.write = ask.write, !.except = ask.except, !.attempts = Rounds, !.fd = 1]
  /\ UNCHANGED <<slots, inbox, writable, last_from>>

SelectFails(error) == FailsWith(error) /\ sel' = NoSelect /\ polled' = {}

\* One descriptor is asked for or skipped.
Marked(fd, flags) ==
  LET r == "readable" \in flags /\ fd \in sel.read
      w == "writable" \in flags /\ fd \in sel.write
  IN  [sel EXCEPT !.fd = @ + 1, !.ready_read = IF r THEN @ \cup {fd} ELSE @,
                  !.ready_write = IF w THEN @ \cup {fd} ELSE @,
                  !.ready_count = IF r \/ w THEN @ + 1 ELSE @]

SelectNext(fails) ==
  LET fd == sel.fd
  IN  /\ sel.round /\ fd < sel.nfds
      /\ IF fd \notin Requested
         THEN /\ ~fails /\ sel' = [sel EXCEPT !.fd = fd + 1]
              /\ told_of' = Nothing /\ UNCHANGED <<polled>>
         ELSE IF fd \notin Descriptors THEN SelectFails("EBADF")
         ELSE IF slots[fd].state = "free" THEN SelectFails("EBADF")
         ELSE IF slots[fd].state = "unopened" THEN SelectFails("ENOTCONN")
         ELSE IF fails THEN SelectFails("failed")
         ELSE /\ polled' = polled \cup {<<fd, flag>> : flag \in PollFlags(fd)}
              /\ sel' = Marked(fd, PollFlags(fd))
              /\ told_of' = Nothing
      /\ UNCHANGED <<slots, inbox, writable, last_from>>

\* The round is over: something is ready, or it was the last, or another one begins.
RoundOver ==
  /\ sel.round /\ sel.fd >= sel.nfds
  /\ IF sel.ready_count # 0 \/ sel.attempts = 1
     THEN /\ Succeeds([Nothing EXCEPT !.ret = sel.ready_count, !.read = sel.ready_read,
                         !.write = sel.ready_write, !.asked = sel, !.found = polled])
          /\ sel' = NoSelect /\ polled' = {}
     ELSE /\ sel' = [sel EXCEPT !.attempts = @ - 1, !.fd = 1]
          /\ polled' = {} /\ told_of' = Nothing
  /\ UNCHANGED <<slots, inbox, writable, last_from>>

CallNext ==
  \/ \E fd \in Descriptors :
       \/ RoomChanges(fd) \/ PollOne(fd) \/ SendData(fd)
       \/ \E sender \in Senders \cup {Nobody} : Arrives(fd, sender)
       \/ \E capacity \in 0 .. 1, kind \in {"recv", "recvfrom"} : ReceiveData(kind, fd, capacity)
       \/ \E kind \in DataCalls \cup {"poll"} : RefusedCall(kind, fd) \/ CommandFails(kind, fd)
       \/ \E fails \in BOOLEAN : OpensFirst(fd, fails)
  \/ \E ask \in Asks : SelectBegins(ask)
  \/ \E fails \in BOOLEAN : SelectNext(fails)
  \/ RoundOver

CallSpec == CallInit /\ [][CallNext]_callVars

-----------------------------------------------------------------------------
\* socket_compat.c:548-826: whatever arrives while descriptors are asked one after the other,
\* select tells exactly what of the things asked for its last round has found ready, counts
\* each descriptor once, and tells nothing when it fails.  A receive that returns bytes has
\* taken a datagram that has some, and one that says there is nothing has taken none but an empty one;
\* the address that comes back is who sent the last bytes, whatever empty datagrams, failures
\* and other receives came between.
ToldTrue ==
  LET asked == told_of.asked
  IN  /\ told_of.read = {fd \in asked.read : fd < asked.nfds /\ <<fd, "readable">> \in told_of.found}
      /\ told_of.write = {fd \in asked.write : fd < asked.nfds /\ <<fd, "writable">> \in told_of.found}
      /\ asked # NoSelect => told_of.ret = Cardinality(told_of.read \cup told_of.write)
      /\ told_of.ret < 0 => told_of.read \cup told_of.write = {}
      /\ told_of.error = "EAGAIN" => told_of.took \in {<<>>, <<Nobody>>}
      /\ told_of.call # "none" /\ told_of.ret > 0 => told_of.took \notin {<<>>, <<Nobody>>}
      /\ told_of.call = "recvfrom" /\ told_of.ret >= 0 => told_of.addr = last_from[told_of.fd]
=============================================================================
