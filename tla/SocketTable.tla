----------------------------- MODULE SocketTable -----------------------------
(***************************************************************************)
(* Who has the MCU's network handles: the descriptors of socket_compat.c,   *)
(* the application, when it uses net.c itself, or one of net.c's requests,  *)
(* which open a handle, use it and close it (udp_send, open_tcp_host_wait,  *)
(* tcp_request_host; gba/sdk/src).                                          *)
(*                                                                          *)
(* The MCU does a command and says so, or refuses it, or does it and the    *)
(* answer is lost.  The MCU never gives up a handle by itself.  Addresses,  *)
(* errno and readiness flags are left out, and with them select, poll and   *)
(* the calls that change nothing else; a request sends bytes 1, 2, ... and  *)
(* waits for something to receive.                                          *)
(***************************************************************************)
EXTENDS Naturals, Sequences, FiniteSets, Tables

CONSTANTS
  MaxFds,      \* fd_count
  NetHandles,     \* handles of the MCU
  NoHandle,    \* handle 0
  TxLength,    \* tx_length
  Attempts,    \* connect_attempts, io_attempts
  FrameMax     \* CLP_NET_SEND_FRAME_MAX_DATA

ASSUME SocketAssumption ==
  /\ MaxFds \in Nat \ {0} /\ NoHandle \notin NetHandles
  /\ TxLength \in Nat \ {0} /\ Attempts \in Nat \ {0} /\ FrameMax \in Nat \ {0}

VARIABLES
  fds,      \* ctx->fds
  mcu,      \* the MCU's handles: protocol, and whether it listens
  held,     \* handles the application got from net.c
  request,  \* the request of net.c in progress, or the last one
  wire,     \* the bytes of it the MCU took
  mishap    \* an answer was lost, or a handle could not be closed

socketVars == <<fds, mcu, held, request, wire, mishap>>

Fd == 1 .. MaxFds
Unused == [used |-> FALSE]
Descriptor == [used : {TRUE}, proto : {"tcp", "udp"}, handle : NetHandles \cup {NoHandle},
               listening : BOOLEAN]
Requests == {"udp_send", "tcp_open", "tcp_request"}

SocketTypeOK ==
  /\ DOMAIN fds = Fd /\ \A fd \in Fd : fds[fd] \in Descriptor \cup {Unused}
  /\ DOMAIN mcu \subseteq NetHandles
  /\ \A h \in DOMAIN mcu : mcu[h] \in [proto : {"tcp", "udp"}, listening : BOOLEAN]
  /\ held \subseteq NetHandles
  /\ request.pc \in {"idle", "connect", "send", "full", "recv", "empty", "close"}
  /\ request.kind \in Requests /\ request.handle \in NetHandles \cup {NoHandle}
  /\ request.sent \in 0 .. TxLength /\ request.budget \in 0 .. Attempts
  /\ request.result \in {"ok", "failed"}
  /\ Len(wire) <= TxLength
  /\ mishap \in BOOLEAN

\* cl_socket_init, and no request yet.
SocketInit ==
  /\ fds = [fd \in Fd |-> Unused] /\ mcu = <<>> /\ held = {}
  /\ request = [pc |-> "idle", kind |-> "udp_send", handle |-> NoHandle, sent |-> 0,
                budget |-> 0, result |-> "ok"]
  /\ wire = <<>> /\ mishap = FALSE

Quiet == request.pc = "idle"
Has(fd, proto) == fds[fd].used /\ fds[fd].proto = proto
Bound(fd) == fds[fd].used /\ fds[fd].handle # NoHandle
FirstUnused == CHOOSE fd \in Fd : ~fds[fd].used /\ \A e \in Fd : ~fds[e].used => fd <= e
NewFd(proto, h, listening) == [used |-> TRUE, proto |-> proto, handle |-> h,
                               listening |-> listening]

-----------------------------------------------------------------------------
(* What the MCU can do with a command that opens or closes a handle.        *)

Gives(h, proto) ==
  /\ h \in NetHandles \ DOMAIN mcu
  /\ mcu' = Put(mcu, h, [proto |-> proto, listening |-> FALSE])
  /\ UNCHANGED mishap

GivesUnseen(h, proto) ==
  /\ h \in NetHandles \ DOMAIN mcu
  /\ mcu' = Put(mcu, h, [proto |-> proto, listening |-> FALSE])
  /\ mishap' = TRUE

\* Closed, closed without an answer, or not closed.
CloseCommand(h) ==
  \/ mcu' = Drop(mcu, h) /\ UNCHANGED mishap
  \/ UNCHANGED mcu /\ mishap' = TRUE

-----------------------------------------------------------------------------
(* The descriptors.                                                         *)

Socket(proto) ==
  /\ Quiet /\ \E fd \in Fd : ~fds[fd].used
  /\ fds' = [fds EXCEPT ![FirstUnused] = NewFd(proto, NoHandle, FALSE)]
  /\ UNCHANGED <<mcu, held, request, wire, mishap>>

\* connect and bind; sendto and recvfrom on a UDP socket that has no handle yet, which
\* they keep also when nothing is sent or received through it.
Obtain(fd, h) ==
  /\ Quiet /\ fds[fd].used /\ fds[fd].handle = NoHandle
  /\ \/ Gives(h, fds[fd].proto) /\ fds' = [fds EXCEPT ![fd].handle = h]
     \/ GivesUnseen(h, fds[fd].proto) /\ UNCHANGED fds
  /\ UNCHANGED <<held, request, wire>>

\* listen; without an answer it is not known that the MCU listens.
Listen(fd) ==
  /\ Quiet /\ Bound(fd) /\ Has(fd, "tcp")
  /\ fds[fd].handle \in DOMAIN mcu
  /\ mcu' = [mcu EXCEPT ![fds[fd].handle].listening = TRUE]
  /\ \/ fds' = [fds EXCEPT ![fd].listening = TRUE]
     \/ UNCHANGED fds
  /\ UNCHANGED <<held, request, wire, mishap>>

\* The descriptor of a new connection.
AcceptedFd(fd, h) == NewFd("tcp", h, FALSE)

\* accept: the descriptor is chosen first, so a connection is never taken in vain.  If
\* the caller's address is too small for the peer's, the connection is closed again,
\* which may fail.
AcceptConn(fd, h) ==
  /\ Quiet /\ Bound(fd) /\ Has(fd, "tcp") /\ fds[fd].listening
  /\ \E e \in Fd : ~fds[e].used
  /\ \/ Gives(h, "tcp") /\ fds' = [fds EXCEPT ![FirstUnused] = AcceptedFd(fd, h)]
     \/ GivesUnseen(h, "tcp") /\ UNCHANGED fds
  /\ UNCHANGED <<held, request, wire>>

\* cl_socket_close: the descriptor is free also if the handle could not be closed.
CloseSocket(fd) ==
  /\ Quiet /\ fds[fd].used
  /\ IF Bound(fd) THEN CloseCommand(fds[fd].handle) ELSE UNCHANGED <<mcu, mishap>>
  /\ fds' = [fds EXCEPT ![fd] = Unused]
  /\ UNCHANGED <<held, request, wire>>

-----------------------------------------------------------------------------
\* cl_net_open, cl_net_open_udp, cl_net_open_host, cl_net_bind, cl_net_accept and
\* cl_net_close, called by the application.
NetOpen(h, proto) ==
  /\ Quiet
  /\ \/ Gives(h, proto) /\ held' = held \cup {h}
     \/ GivesUnseen(h, proto) /\ UNCHANGED held
  /\ UNCHANGED <<fds, request, wire>>

NetClose(h) ==
  /\ Quiet /\ h \in held
  /\ CloseCommand(h)
  /\ held' = held \ {h}
  /\ UNCHANGED <<fds, request, wire>>

-----------------------------------------------------------------------------
(* The requests.                                                            *)

To(pc) == request' = [request EXCEPT !.pc = pc]

\* A step fails; the mutant returns at once.
FailsAtOnce == request' = [request EXCEPT !.pc = "idle", !.result = "failed",
                                          !.handle = NoHandle]
Fails == request' = [request EXCEPT !.pc = "close", !.result = "failed"]

\* The name is resolved and the handle opened.
RequestOpen(kind, h) ==
  /\ Quiet
  /\ LET udp == kind = "udp_send"
         proto == IF udp THEN "udp" ELSE "tcp"
     IN  \/ /\ Gives(h, proto)
            /\ request' = [pc |-> IF udp THEN "send" ELSE "connect", kind |-> kind,
                           handle |-> h, sent |-> 0, budget |-> Attempts, result |-> "ok"]
         \/ GivesUnseen(h, proto) /\ UNCHANGED request
  /\ wire' = <<>>
  /\ UNCHANGED <<fds, held>>

\* One poll of net_wait_flags_budget: until the handle is connected, can be written to
\* or has something to read.
RequestPoll(ready) ==
  /\ request.pc \in {"connect", "full", "empty"}
  /\ IF request.budget = 0 THEN ~ready /\ Fails
     ELSE LET asked == [request EXCEPT !.budget = @ - 1]
          IN  request' =
                IF ~ready THEN asked
                ELSE [asked EXCEPT
                  !.pc = CASE @ = "full" -> "send" [] @ = "empty" -> "recv"
                           [] @ = "connect" -> IF request.kind = "tcp_open" THEN "idle"
                                               ELSE "send",
                  !.budget = IF request.pc = "connect" THEN Attempts ELSE @,
                  !.handle = IF request.pc = "connect" /\ request.kind = "tcp_open"
                             THEN NoHandle ELSE @]
  /\ held' = IF request'.pc = "idle" THEN held \cup {request.handle} ELSE held
  /\ UNCHANGED <<fds, mcu, wire, mishap>>

\* Bytes from where send_all is; the mutant starts from the front again.
ChunkFromFront(n) == [i \in 1 .. n |-> i]
Chunk(n) == [i \in 1 .. n |-> request.sent + i]

\* cl_net_send of what is left, of which the MCU takes n; udp_send does it once.
RequestSend(n) ==
  /\ request.pc = "send"
  /\ n <= FrameMax /\ n <= TxLength - request.sent
  /\ wire' = wire \o Chunk(n)
  /\ request' =
       LET sent == [request EXCEPT !.sent = @ + n]
       IN  CASE request.kind = "udp_send" -> [sent EXCEPT !.pc = "close"]
             [] n = 0 -> [sent EXCEPT !.pc = "full"]
             [] OTHER -> [sent EXCEPT !.budget = Attempts,
                            !.pc = IF sent.sent = TxLength THEN "recv" ELSE "send"]
  /\ UNCHANGED <<fds, mcu, held, mishap>>

\* The answer to a send is lost.
RequestSendLost(n) ==
  /\ request.pc = "send"
  /\ n <= FrameMax /\ n <= TxLength - request.sent
  /\ wire' = wire \o Chunk(n)
  /\ Fails
  /\ UNCHANGED <<fds, mcu, held, mishap>>

\* cl_net_recv; the budget of its polls is not renewed.
RequestRecv(some) ==
  /\ request.pc = "recv"
  /\ To(IF some THEN "close" ELSE "empty")
  /\ UNCHANGED <<fds, mcu, held, wire, mishap>>

\* A poll, a send or a receive is refused.
RequestFails ==
  /\ request.pc \notin {"idle", "close"}
  /\ Fails
  /\ UNCHANGED <<fds, mcu, held, wire, mishap>>

\* The handle is closed whatever happened; what failed first counts.
RequestClose ==
  /\ request.pc = "close"
  /\ CloseCommand(request.handle)
  /\ \E result \in {request.result, "failed"} :
       request' = [request EXCEPT !.pc = "idle", !.handle = NoHandle, !.result = result]
  /\ UNCHANGED <<fds, held, wire>>

SocketNext ==
  \/ \E proto \in {"tcp", "udp"} : Socket(proto) \/ \E h \in NetHandles : NetOpen(h, proto)
  \/ \E fd \in Fd : Listen(fd) \/ CloseSocket(fd)
                    \/ \E h \in NetHandles : Obtain(fd, h) \/ AcceptConn(fd, h)
  \/ \E h \in NetHandles : NetClose(h) \/ \E kind \in Requests : RequestOpen(kind, h)
  \/ \E ready \in BOOLEAN : RequestPoll(ready) \/ RequestRecv(ready)
  \/ \E n \in 0 .. TxLength : RequestSend(n) \/ RequestSendLost(n)
  \/ RequestFails \/ RequestClose

SocketSpec == SocketInit /\ [][SocketNext]_socketVars

-----------------------------------------------------------------------------
(* Properties.                                                              *)

\* socket_compat.c:401-622, 827-843, net.c:591-652, 855-900: every handle of the MCU
\* belongs to one descriptor, to the request in progress or to the application, and to
\* one of them only, unless an answer was lost or a close failed; whichever step of a
\* request fails, the handle it opened is given back.
HandleOwners(h) ==
  {<<"fd", fd>> : fd \in {fd \in Fd : fds[fd].used /\ fds[fd].handle = h}}
  \cup {<<"application", 0>> : x \in held \cap {h}}
  \cup {<<"request", 0>> : x \in {request.handle} \cap {h}}
HandleOwned ==
  ~mishap => \A h \in NetHandles :
    Cardinality(HandleOwners(h)) = IF h \in DOMAIN mcu THEN 1 ELSE 0

\* socket_compat.c:476-547: a descriptor that accepts connections is one whose handle
\* the MCU listens on; the descriptors of its connections do not.
ListenersListen ==
  ~mishap => \A fd \in Fd : fds[fd].used /\ fds[fd].listening =>
    fds[fd].handle \in DOMAIN mcu /\ mcu[fds[fd].handle].listening

\* net.c:817-853: whatever the sizes of the partial writes, the peer gets the bytes of
\* a request once and in order, and all of them if it succeeded.
SentInOrder ==
  /\ \A i \in 1 .. Len(wire) : wire[i] = i
  /\ request.pc \in {"recv", "empty"} => Len(wire) = TxLength

\* socket_compat.c:401-622, net.c:817-853: all three, after every step of a request.
DescriptorsOwned == HandleOwned /\ ListenersListen /\ SentInOrder
=============================================================================
