-------------------------------- MODULE BleLink --------------------------------
(***************************************************************************)
(* The calls of ble.c that consist of several commands, and the game link   *)
(* between two ChisLinks (ble.c, ble_link_io.c; gba/sdk/src): what becomes  *)
(* of connections, scans and the link's attributes, whichever command       *)
(* fails, and of the messages a host receives, which share one queue of     *)
(* events with everything else.                                             *)
(*                                                                          *)
(* The MCU does a command and says so, or refuses it, or does it and the    *)
(* answer is lost.  Connections do not end by themselves.  Left out: what a *)
(* call returns, what is read from or written to a device, notifications,   *)
(* pairing, and calls of one command without an effect kept here.           *)
(***************************************************************************)
EXTENDS Naturals, Sequences, FiniteSets

CONSTANTS
  Conns,       \* connection handles the MCU gives to this side
  Peers,       \* connection handles of those that connect to the host
  NoOne,       \* handle and attribute 0
  Polls,       \* most events a call looks at: 600, or poll_attempts
  QueueMax,    \* bound on the MCU's queue of events
  MaxWrites    \* bound on the messages of the peers

ASSUME BleAssumption ==
  /\ NoOne \notin Conns \cup Peers
  /\ Polls \in Nat \ {0} /\ QueueMax \in Nat \ {0} /\ MaxWrites \in Nat

VARIABLES
  session,   \* the call in progress
  conns,     \* the MCU's connections as a central
  kept,      \* those the application has been given
  scanning, serving,   \* the MCU scans; its GATT server is started
  link,      \* link_rx_attr and link_notify_attr, each the connection it was found on,
             \* and whether link_tx_chr is set
  queue,     \* the MCU's events
  value,     \* the last message written to the host's attribute
  message,   \* what link_io_recv returned last
  flawed     \* an answer was lost or ignored; a long message came

bleVars == <<session, conns, kept, scanning, serving, link, queue, value, message, flawed>>
mcuVars == <<conns, scanning, serving>>
dataVars == <<queue, value, message>>

\* visit: probe_device_name, read_chr16 and write_chr16; notify: collect_notify_chr16;
\* collect: scan_collect; join and host: link_start.
Procedures == {"visit", "notify", "collect", "join", "host"}
Steps == {"scan", "poll", "stop", "connect", "find", "use", "service", "rx", "tx",
          "subscribe", "unsubscribe", "disconnect", "reset", "start", "adv", "idle"}
Event == [kind : {"scan", "complete"}]
         \cup [kind : {"subscribe"}, peer : Peers]
         \cup [kind : {"write"}, peer : Peers, n : 1 .. MaxWrites, long : BOOLEAN]

BleTypeOK ==
  /\ session \in [kind : Procedures \cup {"none"}, step : Steps,
                  conn : Conns \cup {NoOne}, polls : 0 .. Polls, found : BOOLEAN]
  /\ conns \subseteq Conns /\ kept \subseteq Conns
  /\ scanning \in BOOLEAN /\ serving \in BOOLEAN
  /\ link \in [rx : Conns \cup {NoOne}, notify : Conns \cup {NoOne}, tx : BOOLEAN]
  /\ Len(queue) <= QueueMax /\ \A i \in 1 .. Len(queue) : queue[i] \in Event
  /\ value \in 0 .. MaxWrites
  /\ message \in [asked : Peers \cup {NoOne}, from : Peers \cup {NoOne}, n : 0 .. MaxWrites,
              before : 0 .. MaxWrites]
  /\ flawed \subseteq {"lost", "long"}

Rest == [kind |-> "none", step |-> "idle", conn |-> NoOne, polls |-> 0, found |-> FALSE]

BleInit ==
  /\ session = Rest
  /\ conns = {} /\ kept = {} /\ scanning = FALSE /\ serving = FALSE
  /\ link = [rx |-> NoOne, notify |-> NoOne, tx |-> FALSE]
  /\ queue = <<>> /\ value = 0 /\ flawed = {}
  /\ message = [asked |-> NoOne, from |-> NoOne, n |-> 0, before |-> 0]

Rests == session.step = "idle"
In(step) == session.step = step
Joining == session.kind = "join"
Losing == flawed' = flawed \cup {"lost"}

-----------------------------------------------------------------------------
(* The order of the commands.                                               *)

\* After a command that worked.
Onward(kind, step) ==
  CASE step = "scan" -> "poll"
    [] step = "stop" -> IF kind = "join" THEN "connect" ELSE "idle"
    [] step = "connect" -> IF kind = "join" THEN "service" ELSE "find"
    [] step = "find" -> IF kind = "visit" THEN "use" ELSE "subscribe"
    [] step \in {"use", "unsubscribe"} -> "disconnect"
    [] step = "reset" -> "service"
    [] step = "service" -> "rx"
    [] step = "rx" -> "tx"
    [] step = "tx" -> IF kind = "host" THEN "start" ELSE "subscribe"
    [] step = "subscribe" -> IF kind = "join" THEN "idle" ELSE "poll"
    [] step = "poll" -> IF kind = "notify" THEN "unsubscribe" ELSE "stop"
    [] step = "start" -> "adv"
    [] step \in {"adv", "disconnect"} -> "idle"

\* After one that failed: a scan is stopped and a connection given up, if there is one.  The
\* mutant returns at once when the device has not what is looked for.
BackAtOnce(kind, step) == IF step = "poll" THEN Onward(kind, step) ELSE "idle"
Back(kind, step) ==
  IF step = "poll" THEN Onward(kind, step)
  ELSE IF step = "stop" /\ kind = "join" THEN "connect"
  ELSE IF kind \in {"visit", "notify", "join"}
          /\ step \notin {"scan", "stop", "connect", "disconnect"} THEN "disconnect"
  ELSE "idle"

\* JOIN goes on when the stop of its scan failed, and ends after it if it found nobody.
Ends(step, ok) ==
  LET to == IF Joining /\ step = "stop" /\ ~session.found THEN "idle"
            ELSE IF ok THEN Onward(session.kind, step) ELSE Back(session.kind, step)
  IN  IF to = "idle" THEN Rest ELSE [session EXCEPT !.step = to]

-----------------------------------------------------------------------------
\* A call begins; link_start forgets the last link.
Forgotten == [rx |-> NoOne, notify |-> NoOne, tx |-> FALSE]

Begin(kind) ==
  /\ Rests
  /\ session' = [kind |-> kind, conn |-> NoOne, polls |-> Polls, found |-> FALSE,
                 step |-> CASE kind \in {"visit", "notify"} -> "connect"
                            [] kind \in {"collect", "join"} -> "scan"
                            [] kind = "host" -> "reset"]
  /\ link' = IF kind \in {"join", "host"} THEN Forgotten ELSE link
  /\ UNCHANGED <<mcuVars, kept, dataVars, flawed>>

\* A command that changes nothing outside the call.  The attributes of a JOIN are kept
\* as they are found, the one of a HOST once the server is started.
Plain(ok) ==
  /\ session.step \in {"find", "use", "service", "rx", "tx", "subscribe", "unsubscribe", "adv"}
  /\ session' = Ends(session.step, ok)
  /\ link' = IF ~ok \/ ~Joining THEN link
             ELSE IF In("rx") THEN [link EXCEPT !.rx = session.conn]
             ELSE IF In("subscribe") THEN [link EXCEPT !.notify = session.conn] ELSE link
  /\ kept' = IF ok /\ Joining /\ In("subscribe") THEN kept \cup {session.conn} ELSE kept
  /\ UNCHANGED <<mcuVars, dataVars, flawed>>

Connect(c) ==
  /\ In("connect") /\ c \notin conns
  /\ \/ /\ session' = [Ends("connect", TRUE) EXCEPT !.conn = c]
        /\ conns' = conns \cup {c} /\ UNCHANGED flawed
     \/ session' = Ends("connect", FALSE) /\ UNCHANGED <<conns, flawed>>
     \/ session' = Ends("connect", FALSE) /\ conns' = conns \cup {c} /\ Losing
  /\ UNCHANGED <<kept, scanning, serving, link, dataVars>>

Disconnect ==
  /\ In("disconnect")
  /\ \E ok \in BOOLEAN :
       /\ session' = Ends("disconnect", ok)
       /\ \/ conns' = conns \ {session.conn} /\ UNCHANGED flawed
          \/ ~ok /\ UNCHANGED conns /\ Losing
  /\ UNCHANGED <<kept, scanning, serving, link, dataVars>>

\* scan_start, scan_stop
Scan(on) ==
  /\ In(IF on THEN "scan" ELSE "stop")
  /\ \E ok \in BOOLEAN :
       /\ session' = Ends(session.step, ok)
       /\ \/ scanning' = on
          \/ ~ok /\ UNCHANGED scanning
       /\ IF ~ok /\ scanning' THEN Losing ELSE UNCHANGED flawed
  /\ UNCHANGED <<conns, kept, serving, link, dataVars>>

\* gatts_reset ends the server, gatts_start starts it.
Serve(on) ==
  /\ In(IF on THEN "start" ELSE "reset")
  /\ \E ok \in BOOLEAN :
       /\ session' = Ends(session.step, ok)
       /\ serving' \in IF ok THEN {on} ELSE {on, serving}
       /\ link' = IF ok /\ on THEN [link EXCEPT !.tx = TRUE] ELSE link
  /\ UNCHANGED <<conns, kept, scanning, dataVars, flawed>>

\* One event looked at, or none there.  A JOIN stops at the first error, also at the
\* one that says there is no event yet; the others go on then.
Poll ==
  LET last == session.polls = 1
      Goes(ok, found) ==
        session' = IF ok THEN [session EXCEPT !.polls = @ - 1]
                   ELSE [Ends("poll", TRUE) EXCEPT !.found = found]
  IN  /\ In("poll")
      /\ \/ /\ queue # <<>> /\ queue' = Tail(queue)
            /\ \/ Goes(~last /\ (Head(queue).kind = "complete" => session.kind = "notify"), FALSE)
               \/ Joining /\ Head(queue).kind = "scan" /\ Goes(FALSE, TRUE)
         \/ /\ queue = <<>> /\ UNCHANGED queue
            /\ Goes(~last /\ ~Joining, FALSE) \/ Goes(~last, FALSE)
         \/ /\ queue' \in {queue, IF queue = <<>> THEN queue ELSE Tail(queue)}
            /\ session' = Ends("poll", FALSE)
  /\ UNCHANGED <<mcuVars, kept, link, value, message, flawed>>

-----------------------------------------------------------------------------
(* The application and the MCU.                                             *)

\* cl_ble_connect and cl_ble_disconnect by the application itself.
OwnConnect(c) ==
  /\ Rests /\ c \notin conns
  /\ conns' = conns \cup {c}
  /\ \/ kept' = kept \cup {c} /\ UNCHANGED flawed
     \/ UNCHANGED kept /\ Losing
  /\ UNCHANGED <<session, scanning, serving, link, dataVars>>

OwnDisconnect(c) ==
  /\ Rests /\ c \in kept
  /\ \/ conns' = conns \ {c} /\ UNCHANGED flawed
     \/ UNCHANGED conns /\ Losing
  /\ kept' = kept \ {c}
  /\ UNCHANGED <<session, scanning, serving, link, dataVars>>

\* cl_ble_link_stop with the handle of a JOIN, or of a HOST's peer, and whatever the MCU
\* says.
LinkStop(c) ==
  /\ Rests /\ c \in kept \cup {NoOne}
  /\ link' = Forgotten
  /\ kept' = kept \ {c}
  /\ \/ conns' = conns \ {c} /\ UNCHANGED flawed
     \/ c # NoOne /\ UNCHANGED conns /\ Losing
  /\ serving' \in {FALSE, serving}
  /\ UNCHANGED <<session, scanning, dataVars>>

Tells(event) == Len(queue) < QueueMax /\ queue' = Append(queue, event)

\* A scan finds a device or ends; a peer of the host subscribes or writes.
Found(kind) ==
  /\ scanning /\ Tells([kind |-> kind])
  /\ UNCHANGED <<session, mcuVars, kept, link, value, message, flawed>>
Subscribes(p) ==
  /\ serving /\ Tells([kind |-> "subscribe", peer |-> p])
  /\ UNCHANGED <<session, mcuVars, kept, link, value, message, flawed>>
Writes(p, long) ==
  /\ serving /\ value < MaxWrites
  /\ value' = value + 1
  /\ Tells([kind |-> "write", peer |-> p, n |-> value + 1, long |-> long])
  /\ flawed' = IF long THEN flawed \cup {"long"} ELSE flawed
  /\ UNCHANGED <<session, mcuVars, kept, link, message>>

\* cl_ble_link_peer_ready: any event but a subscription is gone; the answer may be, too.
PeerReady ==
  /\ Rests /\ queue # <<>>
  /\ queue' = Tail(queue)
  /\ UNCHANGED <<session, mcuVars, kept, link, value, message, flawed>>

\* Whether an event is a message for handle p; the mutant does not look at the peer.
OfAnyone(event, p) == event.kind = "write"
OfPeer(event, p) == event.kind = "write" /\ event.peer = p

\* cl_ble_link_io_recv: an event of another kind or peer is gone.  Of a long message the
\* attribute's present value is read, which may be that of a later one.
Recv(p) ==
  /\ Rests /\ queue # <<>>
  /\ queue' = Tail(queue)
  /\ LET e == Head(queue)
     IN  message' = IF OfPeer(e, p)
                THEN [asked |-> p, from |-> e.peer, n |-> IF e.long THEN value ELSE e.n,
                      before |-> IF message.asked = p THEN message.n ELSE 0]
                ELSE message
  /\ UNCHANGED <<session, mcuVars, kept, link, value, flawed>>

BleNext ==
  \/ \E kind \in Procedures : Begin(kind)
  \/ \E ok \in BOOLEAN : Plain(ok) \/ Scan(ok) \/ Serve(ok)
  \/ \E c \in Conns : Connect(c) \/ OwnConnect(c) \/ OwnDisconnect(c)
  \/ Disconnect \/ Poll
  \/ \E c \in Conns \cup {NoOne} : LinkStop(c)
  \/ \E kind \in {"scan", "complete"} : Found(kind)
  \/ \E p \in Peers : Subscribes(p) \/ Recv(p) \/ \E long \in BOOLEAN : Writes(p, long)
  \/ PeerReady

BleSpec == BleInit /\ [][BleNext]_bleVars

-----------------------------------------------------------------------------
(* Properties.                                                              *)

\* ble.c:395-577, 950-984, 1636-1698: whichever command of a call fails, it leaves no
\* connection behind that the application was not given, and no scan running.
NothingLeftBehind ==
  "lost" \notin flawed =>
    /\ conns = kept \cup ({session.conn} \ {NoOne})
    /\ Rests => ~scanning

\* ble.c:1607-1610, 1683-1695, 1711-1723: a link that reports notifications sends on the
\* connection they come from; a link that is a host's has a server to notify with.
LinkIsWhole ==
  /\ link.notify # NoOne => link.rx = link.notify /\ ~link.tx
  /\ link.tx => serving /\ link.rx = NoOne

\* ble_link_io.c:29-72: messages come from the peer they are asked of, in the order he
\* sent them and each at most once, as long as none is longer than its event shows.
LinkInOrder ==
  "long" \notin flawed /\ message.asked # NoOne =>
    message.from = message.asked /\ message.n > message.before

\* ble.c:1607-1698, ble_link_io.c:29-72: all three, after every command of a call.
NothingDangles == NothingLeftBehind /\ LinkIsWhole /\ LinkInOrder
=============================================================================
