----------------------------- MODULE RelayServer -----------------------------
(***************************************************************************)
(* The ChisLink relay server (servers/relay-server/main.go).               *)
(*                                                                         *)
(* One goroutine per connection runs serveConn, a second one writerLoop;   *)
(* the admin HTTP handlers run in goroutines of their own.  They share the *)
(* room table under s.mu and every client's outbound channel under that    *)
(* client's outMu.  An action is one stretch of code between two points    *)
(* at which the goroutine may wait: for a lock, for room in a channel, for *)
(* the network.  What runs under s.mu without waiting is one action.       *)
(*                                                                         *)
(* A packet is what routing looks at, its type and its target; once routed *)
(* it is its type.  A connection serves one client and is not used again.  *)
(***************************************************************************)
EXTENDS Naturals, Sequences, FiniteSets

CONSTANTS
  Conn,            \* accepted TCP connections; each is one client object
  Dev,             \* device ids (16 bits in the code)
  Bcast,           \* the target ids 0 and 0xffff
  Room,            \* room numbers
  Auth,            \* values of room_auth
  Key,             \* server keys
  Sent,            \* the packets the peers send: type and target
  Readers,         \* connections whose peer reads all it is sent while it is there
  MaxClients,      \* -max-clients
  MaxRooms,        \* -max-rooms
  MaxRoomClients,  \* maxRoomClients
  OutQueue,        \* defaultOutQueue
  Nobody, Admin,   \* no connection; an admin goroutine (as the owner of s.mu)
  None             \* an absent record

\* The packet types the routing distinguishes.  "control" stands for every
\* other one, DISCONNECT and CHILD_DATA included.
PacketTypes == {"announce", "discover", "data", "control"}
Target == Dev \cup {Bcast}
Packet == [typ : PacketTypes, target : Target]

Hello == [dev : Dev, room : Room, auth : Auth]

\* The disconnection of some clients of a room by the holder of s.mu: one
\* leaving client, one kicked client, or all of a deleted room.
Task == [kind : {"leave", "kick", "delete"}, room : Room,
         dev : Dev \cup {None}, todo : SUBSET Conn]

\* One call of enqueue: the client it is for and the packet's type.
Send == [to : Conn, typ : PacketTypes]

ASSUME RelayAssumption ==
  /\ IsFiniteSet(Conn) /\ IsFiniteSet(Dev) /\ IsFiniteSet(Room)
  /\ Conn \cap {Nobody, Admin, None} = {}
  /\ Nobody # Admin
  /\ Sent \subseteq Packet /\ Readers \subseteq Conn
  /\ None \notin Auth \cup Dev \cup Packet
  /\ None \notin Hello \cup Send \cup Task
  /\ MaxClients \in Nat /\ MaxRooms \in Nat
  /\ MaxRoomClients \in Nat \ {0}
  /\ OutQueue \in Nat \ {0}

VARIABLES
  pc,         \* where serveConn of a connection is
  hello,      \* what its client hello said: device, room, room_auth
  up,         \* the TCP connection works: the peer is there, nobody closed it
  serverKey,  \* s.key
  clients,    \* s.stats.clients
  mu,         \* who holds s.mu
  roomAuth,   \* s.rooms: the room_auth of each room, None if there is no room
  members,    \* relayRoom.clients
  hostAnn,    \* the keys of relayRoom.hostAnn: devices with a cached announcement
  pkt,        \* the packet a reader is routing
  anns,       \* devices whose cached announcement it still enqueues to itself
  dests,      \* clients it still has to enqueue the packet to
  wait,       \* the enqueue it is blocked in, None if it is not
  outMu,      \* who holds client.outMu
  out,        \* client.out, the channel's contents
  done,       \* client.done is closed
  closed,     \* client.closed is set and client.out is closed
  stopped,    \* writerLoop has returned
  task,       \* the disconnection the holder of s.mu is carrying out
  removed     \* history: the admin API has thrown a client out

roomVars == <<roomAuth, members, hostAnn>>
routeVars == <<pkt, anns, dests, wait>>
chanVars == <<outMu, out, done, closed>>
vars == <<pc, hello, up, serverKey, clients, mu, roomVars, routeVars,
          chanVars, stopped, task, removed>>

Stages == {"idle", "hello", "join", "joined", "read", "route", "send",
           "leave", "close", "gone"}

TypeOK ==
  /\ pc \in [Conn -> Stages]
  /\ hello \in [Conn -> Hello \cup {None}]
  /\ up \in [Conn -> BOOLEAN]
  /\ serverKey \in Key
  /\ clients \in Nat
  /\ mu \in Conn \cup {Nobody, Admin}
  /\ roomAuth \in [Room -> Auth \cup {None}]
  /\ members \in [Room -> [Dev -> Conn \cup {Nobody}]]
  /\ hostAnn \in [Room -> SUBSET Dev]
  /\ pkt \in [Conn -> Packet \cup {None}]
  /\ anns \in [Conn -> SUBSET Dev]
  /\ dests \in [Conn -> SUBSET Conn]
  /\ wait \in [Conn -> Send \cup {None}]
  /\ outMu \in [Conn -> Conn \cup {Nobody}]
  /\ out \in [Conn -> Seq(PacketTypes)]
  /\ done \in [Conn -> BOOLEAN]
  /\ closed \in [Conn -> BOOLEAN]
  /\ stopped \in [Conn -> BOOLEAN]
  /\ task \in Task \cup {None}
  /\ removed \in BOOLEAN

NoMembers == [d \in Dev |-> Nobody]

Init ==
  /\ pc = [c \in Conn |-> "idle"]
  /\ hello = [c \in Conn |-> None]
  /\ up = [c \in Conn |-> TRUE]
  /\ serverKey \in Key
  /\ clients = 0
  /\ mu = Nobody
  /\ roomAuth = [r \in Room |-> None]
  /\ members = [r \in Room |-> NoMembers]
  /\ hostAnn = [r \in Room |-> {}]
  /\ pkt = [c \in Conn |-> None]
  /\ anns = [c \in Conn |-> {}]
  /\ dests = [c \in Conn |-> {}]
  /\ wait = [c \in Conn |-> None]
  /\ outMu = [c \in Conn |-> Nobody]
  /\ out = [c \in Conn |-> <<>>]
  /\ done = [c \in Conn |-> FALSE]
  /\ closed = [c \in Conn |-> FALSE]
  /\ stopped = [c \in Conn |-> FALSE]
  /\ task = None
  /\ removed = FALSE

-----------------------------------------------------------------------------
(* The room table.                                                         *)

Exists(r) == roomAuth[r] # None
Rooms == {r \in Room : Exists(r)}
Members(r) == {members[r][d] : d \in Dev} \ {Nobody}
Devices(r) == {d \in Dev : members[r][d] # Nobody}

\* Mutants of MayJoin: the room_auth is not compared; a client with a device
\* id that is in use replaces the one that has it.
MayJoinAnyAuth(h) ==
  /\ Exists(h.room) \/ Cardinality(Rooms) < MaxRooms
  /\ Cardinality(Devices(h.room)) < MaxRoomClients
  /\ members[h.room][h.dev] = Nobody

MayJoinTwice(h) ==
  /\ \/ ~Exists(h.room) /\ Cardinality(Rooms) < MaxRooms
     \/ roomAuth[h.room] = h.auth
  /\ Cardinality(Devices(h.room)) < MaxRoomClients

\* addClient accepts hello h: its room exists with the same room_auth or may
\* be created, has a free place, and no client with this device id.
MayJoin(h) ==
  /\ \/ ~Exists(h.room) /\ Cardinality(Rooms) < MaxRooms
     \/ roomAuth[h.room] = h.auth
  /\ Cardinality(Devices(h.room)) < MaxRoomClients
  /\ members[h.room][h.dev] = Nobody

\* Mutants of DropDevice: only one of the two maps is cleaned up.
DropAnnouncementOnly(r, d) ==
  /\ hostAnn' = [hostAnn EXCEPT ![r] = @ \ {d}]
  /\ UNCHANGED <<roomAuth, members>>

DropClientOnly(r, d) ==
  LET left == [members[r] EXCEPT ![d] = Nobody]
  IN  /\ members' = [members EXCEPT ![r] = left]
      /\ roomAuth' = [roomAuth EXCEPT ![r] = IF left = NoMembers THEN None ELSE @]
      /\ UNCHANGED hostAnn

\* delete(r.clients, dev); delete(r.hostAnn, dev); drop the room when empty.
\* A device id says which entry goes, whoever it belongs to.
DropDevice(r, d) ==
  LET left == [members[r] EXCEPT ![d] = Nobody]
      last == left = NoMembers
  IN  IF Exists(r)
      THEN /\ members' = [members EXCEPT ![r] = left]
           /\ hostAnn' = [hostAnn EXCEPT ![r] =
                            IF last THEN {} ELSE @ \ {d}]
           /\ roomAuth' = [roomAuth EXCEPT ![r] = IF last THEN None ELSE @]
      ELSE UNCHANGED roomVars

DropRoom(r) ==
  /\ roomAuth' = [roomAuth EXCEPT ![r] = None]
  /\ members' = [members EXCEPT ![r] = NoMembers]
  /\ hostAnn' = [hostAnn EXCEPT ![r] = {}]

-----------------------------------------------------------------------------
(* Accepting and authenticating a connection: main, serveConn, addClient.   *)

\* The accept loop compares the count of authenticated clients, which the
\* connections still in the handshake are not part of.
Accept(c) ==
  /\ pc[c] = "idle"
  /\ pc' = [pc EXCEPT ![c] = IF clients >= MaxClients THEN "gone" ELSE "hello"]
  /\ up' = [up EXCEPT ![c] = clients < MaxClients]
  /\ UNCHANGED <<hello, serverKey, clients, mu, roomVars, routeVars, chanVars,
                 stopped, task, removed>>

\* A network error, the 15 s deadline, a bad magic or version, an empty room.
HandshakeFails(c) ==
  /\ pc[c] = "hello"
  /\ pc' = [pc EXCEPT ![c] = "gone"]
  /\ up' = [up EXCEPT ![c] = FALSE]
  /\ UNCHANGED <<hello, serverKey, clients, mu, roomVars, routeVars, chanVars,
                 stopped, task, removed>>

\* The client hello arrives; its HMAC is checked with the key of this moment.
ClientHello(c, h, k) ==
  /\ pc[c] = "hello"
  /\ IF k = serverKey
     THEN /\ pc' = [pc EXCEPT ![c] = "join"]
          /\ hello' = [hello EXCEPT ![c] = h]
          /\ UNCHANGED up
     ELSE /\ pc' = [pc EXCEPT ![c] = "gone"]
          /\ up' = [up EXCEPT ![c] = FALSE]
          /\ UNCHANGED hello
  /\ UNCHANGED <<serverKey, clients, mu, roomVars, routeVars, chanVars,
                 stopped, task, removed>>

AddClient(c) ==
  /\ pc[c] = "join" /\ mu = Nobody
  /\ LET h == hello[c]
     IN  IF MayJoin(h)
         THEN /\ pc' = [pc EXCEPT ![c] = "joined"]
              /\ roomAuth' = [roomAuth EXCEPT ![h.room] = h.auth]
              /\ members' = [members EXCEPT ![h.room][h.dev] = c]
              /\ UNCHANGED <<hello, up>>
         ELSE /\ pc' = [pc EXCEPT ![c] = "gone"]
              /\ hello' = [hello EXCEPT ![c] = None]
              /\ up' = [up EXCEPT ![c] = FALSE]
              /\ UNCHANGED <<roomAuth, members>>
  /\ UNCHANGED <<serverKey, clients, mu, hostAnn, routeVars, chanVars,
                 stopped, task, removed>>

\* The OK reply, stats.clients.Add(1), the deadline lifted, writerLoop started.
Authenticated(c) ==
  /\ pc[c] = "joined"
  /\ pc' = [pc EXCEPT ![c] = "read"]
  /\ clients' = clients + 1
  /\ UNCHANGED <<hello, up, serverKey, mu, roomVars, routeVars, chanVars,
                 stopped, task, removed>>

-----------------------------------------------------------------------------
(* readLoop and routePacket.                                               *)

\* io.ReadFull returns a packet that validPacket accepts; the others are skipped.
Read(c, p) ==
  /\ pc[c] = "read" /\ up[c]
  /\ pc' = [pc EXCEPT ![c] = "route"]
  /\ pkt' = [pkt EXCEPT ![c] = p]
  /\ UNCHANGED <<hello, up, serverKey, clients, mu, roomVars, anns, dests,
                 wait, chanVars, stopped, task, removed>>

\* The read fails, readLoop returns and the deferred Add(-1) runs.
ReadFails(c) ==
  /\ pc[c] = "read" /\ ~up[c]
  /\ pc' = [pc EXCEPT ![c] = "leave"]
  /\ clients' = clients - 1
  /\ UNCHANGED <<hello, up, serverKey, mu, roomVars, routeVars, chanVars,
                 stopped, task, removed>>

IsBroadcast(p) == p.target = Bcast /\ p.typ \in {"announce", "discover"}

\* An ANNOUNCE or DISCOVER for everybody: remember the announcement or collect
\* those of the others, and go through the rest of the room with s.mu held.
RouteBroadcast(c) ==
  LET r == hello[c].room
      d == hello[c].dev
      p == pkt[c]
  IN  /\ pc[c] = "route" /\ mu = Nobody
      /\ Exists(r) /\ IsBroadcast(p)
      /\ mu' = c
      /\ hostAnn' = [hostAnn EXCEPT ![r] = IF p.typ = "announce" THEN @ \cup {d} ELSE @]
      /\ anns' = [anns EXCEPT ![c] =
                    IF p.typ = "discover"
                    THEN hostAnn[r] \ {d} ELSE {}]
      /\ dests' = [dests EXCEPT ![c] =
                     {members[r][e] : e \in Dev \ {d}} \ {Nobody}]
      /\ pc' = [pc EXCEPT ![c] = "send"]
      /\ UNCHANGED <<hello, up, serverKey, clients, roomAuth, members, pkt,
                     wait, chanVars, stopped, task, removed>>

\* The client of the room that has the packet's target as its device id.
RouteTarget(c) ==
  IF pkt[c].target \in Dev THEN members[hello[c].room][pkt[c].target] ELSE Nobody

\* Any other packet goes to its target's client with s.mu already released.
RouteUnicast(c) ==
  /\ pc[c] = "route" /\ mu = Nobody
  /\ Exists(hello[c].room) /\ ~IsBroadcast(pkt[c])
  /\ RouteTarget(c) # Nobody
  /\ dests' = [dests EXCEPT ![c] = {RouteTarget(c)}]
  /\ pc' = [pc EXCEPT ![c] = "send"]
  /\ UNCHANGED <<hello, up, serverKey, clients, mu, roomVars, pkt, anns, wait,
                 chanVars, stopped, task, removed>>

\* The room is gone, or (droppedUnknown) nobody in it has the target's id.
RouteNowhere(c) ==
  /\ pc[c] = "route" /\ mu = Nobody
  /\ ~Exists(hello[c].room) \/ (~IsBroadcast(pkt[c]) /\ RouteTarget(c) = Nobody)
  /\ pc' = [pc EXCEPT ![c] = "read"]
  /\ pkt' = [pkt EXCEPT ![c] = None]
  /\ UNCHANGED <<hello, up, serverKey, clients, mu, roomVars, anns, dests,
                 wait, chanVars, stopped, task, removed>>

\* Unlocking s.mu after a broadcast; the mutant forgets to.
MuKept(c) == mu
MuAfter(c) == IF mu = c THEN Nobody ELSE mu

\* Nothing left to enqueue: a broadcast releases s.mu, the reader reads on.
RouteDone(c) ==
  /\ pc[c] = "send" /\ wait[c] = None
  /\ anns[c] = {} /\ dests[c] = {}
  /\ mu' = MuAfter(c)
  /\ pc' = [pc EXCEPT ![c] = "read"]
  /\ pkt' = [pkt EXCEPT ![c] = None]
  /\ UNCHANGED <<hello, up, serverKey, clients, roomVars, anns, dests, wait,
                 chanVars, stopped, task, removed>>

-----------------------------------------------------------------------------
(* enqueue.                                                                *)

\* What routePacket passes to enqueue next: the cached announcements go first,
\* to the sender itself; Go leaves the order within each of the two open.
NextSends(c) ==
  IF anns[c] # {} THEN {[to |-> c, typ |-> "announce"]}
                  ELSE {[to |-> t, typ |-> pkt[c].typ] : t \in dests[c]}

SendTaken(c, s) ==
  IF anns[c] # {}
  THEN /\ \E d \in anns[c] : anns' = [anns EXCEPT ![c] = @ \ {d}]
       /\ UNCHANGED dests
  ELSE /\ dests' = [dests EXCEPT ![c] = @ \ {s.to}]
       /\ UNCHANGED anns

Full(t) == Len(out[t]) >= OutQueue
Droppable(typ) == typ = "data"

\* The channel takes a packet at once; the mutant does not look at c.closed.
TakesIfClosed(t) == ~Full(t)
Takes(t) == ~closed[t] /\ ~Full(t)

\* One call of enqueue that does not block: the client is closed, or its
\* channel takes the packet, or the packet is DATA and is dropped.
Enqueue(c, s) ==
  /\ pc[c] = "send" /\ wait[c] = None
  /\ s \in NextSends(c)
  /\ outMu[s.to] = Nobody
  /\ Takes(s.to) \/ closed[s.to] \/ Droppable(s.typ)
  /\ out' = IF Takes(s.to) THEN [out EXCEPT ![s.to] = Append(@, s.typ)] ELSE out
  /\ SendTaken(c, s)
  /\ UNCHANGED <<pc, hello, up, serverKey, clients, mu, roomVars, pkt, wait,
                 outMu, done, closed, stopped, task, removed>>

\* A full channel and a packet that must not be dropped: enqueue blocks in its
\* second select, with outMu held.
EnqueueBlocks(c, s) ==
  /\ pc[c] = "send" /\ wait[c] = None
  /\ s \in NextSends(c)
  /\ outMu[s.to] = Nobody
  /\ ~closed[s.to] /\ Full(s.to) /\ ~Droppable(s.typ)
  /\ outMu' = [outMu EXCEPT ![s.to] = c]
  /\ wait' = [wait EXCEPT ![c] = s]
  /\ SendTaken(c, s)
  /\ UNCHANGED <<pc, hello, up, serverKey, clients, mu, roomVars, pkt, out,
                 done, closed, stopped, task, removed>>

\* The second select: room in the channel, or the client's done is closed.
UnblockBySpace(c) ==
  /\ wait[c] # None
  /\ LET t == wait[c].to
     IN  /\ ~Full(t)
         /\ out' = [out EXCEPT ![t] = Append(@, wait[c].typ)]
         /\ outMu' = [outMu EXCEPT ![t] = Nobody]
  /\ wait' = [wait EXCEPT ![c] = None]
  /\ UNCHANGED <<pc, hello, up, serverKey, clients, mu, roomVars, pkt, anns,
                 dests, done, closed, stopped, task, removed>>

UnblockByDone(c) ==
  /\ wait[c] # None
  /\ done[wait[c].to]
  /\ outMu' = [outMu EXCEPT ![wait[c].to] = Nobody]
  /\ wait' = [wait EXCEPT ![c] = None]
  /\ UNCHANGED <<pc, hello, up, serverKey, clients, mu, roomVars, pkt, anns,
                 dests, out, done, closed, stopped, task, removed>>

-----------------------------------------------------------------------------
(* writerLoop and the network.                                             *)

\* writerLoop is started with the read loop and drains out until a write fails.
Writing(c) ==
  pc[c] \notin {"idle", "hello", "join", "joined"} /\ ~stopped[c] /\ out[c] # <<>>

\* The packet being written counts as the head of the channel until conn.Write
\* returns.  A peer that does not read leaves this action untaken.
WriterSends(c) ==
  /\ Writing(c) /\ up[c]
  /\ out' = [out EXCEPT ![c] = Tail(@)]
  /\ UNCHANGED <<pc, hello, up, serverKey, clients, mu, roomVars, routeVars,
                 outMu, done, closed, stopped, task, removed>>

\* The write fails: writerLoop closes the connection and returns.
WriterFails(c) ==
  /\ Writing(c) /\ ~up[c]
  /\ out' = [out EXCEPT ![c] = Tail(@)]
  /\ stopped' = [stopped EXCEPT ![c] = TRUE]
  /\ UNCHANGED <<pc, hello, up, serverKey, clients, mu, roomVars, routeVars,
                 outMu, done, closed, task, removed>>

\* The client switches off, resets or loses its network.
PeerVanishes(c) ==
  /\ pc[c] # "idle" /\ up[c]
  /\ up' = [up EXCEPT ![c] = FALSE]
  /\ UNCHANGED <<pc, hello, serverKey, clients, mu, roomVars, routeVars,
                 chanVars, stopped, task, removed>>

-----------------------------------------------------------------------------
(* Disconnections, all of them with s.mu held: removeClient from serveConn,  *)
(* kickClient and deleteRoom from the admin API.                             *)

\* closeOnce: the clients that are still to be closed.
StillOpen(cs) == {c \in cs : ~done[c]}

Leave(c) ==
  /\ pc[c] = "leave" /\ mu = Nobody
  /\ mu' = c
  /\ pc' = [pc EXCEPT ![c] = "close"]
  /\ task' = [kind |-> "leave", room |-> hello[c].room, dev |-> hello[c].dev,
              todo |-> StillOpen({c})]
  /\ UNCHANGED <<hello, up, serverKey, clients, roomVars, routeVars, chanVars,
                 stopped, removed>>

Kick(r, d) ==
  /\ mu = Nobody /\ Exists(r) /\ members[r][d] # Nobody
  /\ mu' = Admin
  /\ task' = [kind |-> "kick", room |-> r, dev |-> d,
              todo |-> StillOpen({members[r][d]})]
  /\ removed' = TRUE
  /\ UNCHANGED <<pc, hello, up, serverKey, clients, roomVars, routeVars,
                 chanVars, stopped>>

DeleteRoom(r) ==
  /\ mu = Nobody /\ Exists(r)
  /\ mu' = Admin
  /\ task' = [kind |-> "delete", room |-> r, dev |-> None,
              todo |-> StillOpen(Members(r))]
  /\ removed' = TRUE
  /\ UNCHANGED <<pc, hello, up, serverKey, clients, roomVars, routeVars,
                 chanVars, stopped>>

\* When closeClient may go on: to close(done), the clients of a room one after
\* the other; and to close(out), with outMu.  The mutants take outMu before
\* close(done), and never.
DoneUnderOutMu(c) == outMu[c] = Nobody
MayCloseDone(c) == \A x \in task.todo : ~done[x]

OutWithoutOutMu(c) == done[c]
MayCloseOut(c) == done[c] /\ outMu[c] = Nobody

\* closeClient, first half: close(done), which wakes a sender that holds outMu.
CloseDone(c) ==
  /\ task # None
  /\ c \in task.todo /\ ~done[c] /\ MayCloseDone(c)
  /\ done' = [done EXCEPT ![c] = TRUE]
  /\ UNCHANGED <<pc, hello, up, serverKey, clients, mu, roomVars, routeVars,
                 outMu, out, closed, stopped, task, removed>>

\* Second half, once outMu is free: closed = true; close(out); conn.Close().
\* What is still in the channel can no longer be written and is lost: all that
\* is left to writerLoop is to return, which touches nothing others can see.
CloseOut(c) ==
  /\ task # None
  /\ c \in task.todo /\ MayCloseOut(c)
  /\ closed' = [closed EXCEPT ![c] = TRUE]
  /\ out' = [out EXCEPT ![c] = <<>>]
  /\ stopped' = [stopped EXCEPT ![c] = TRUE]
  /\ up' = [up EXCEPT ![c] = FALSE]
  /\ task' = [task EXCEPT !.todo = @ \ {c}]
  /\ UNCHANGED <<pc, hello, serverKey, clients, mu, roomVars, routeVars,
                 outMu, done, removed>>

\* All closed: the room table is brought up to date and s.mu released.
TaskDone ==
  /\ task # None /\ task.todo = {}
  /\ IF task.kind = "delete" THEN DropRoom(task.room)
                             ELSE DropDevice(task.room, task.dev)
  /\ mu' = Nobody
  /\ task' = None
  /\ IF mu \in Conn
     THEN /\ pc' = [pc EXCEPT ![mu] = "gone"]
          /\ hello' = [hello EXCEPT ![mu] = None]
     ELSE UNCHANGED <<pc, hello>>
  /\ UNCHANGED <<up, serverKey, clients, routeVars, chanVars, stopped, removed>>

\* POST /admin/server-key/rotate
RotateServerKey(k) ==
  /\ k # serverKey
  /\ serverKey' = k
  /\ UNCHANGED <<pc, hello, up, clients, mu, roomVars, routeVars, chanVars,
                 stopped, task, removed>>

-----------------------------------------------------------------------------
Serve(c) ==
  \/ Accept(c) \/ HandshakeFails(c) \/ AddClient(c) \/ Authenticated(c)
  \/ \E h \in Hello, k \in Key : ClientHello(c, h, k)

Route(c) ==
  \/ RouteBroadcast(c) \/ RouteUnicast(c) \/ RouteNowhere(c) \/ RouteDone(c)
  \/ \E s \in NextSends(c) : Enqueue(c, s) \/ EnqueueBlocks(c, s)
  \/ UnblockBySpace(c) \/ UnblockByDone(c)

Write(c) == WriterSends(c) \/ WriterFails(c)

Close == TaskDone \/ \E c \in Conn : CloseDone(c) \/ CloseOut(c)

AdminCall ==
  \/ \E r \in Room : DeleteRoom(r) \/ \E d \in Dev : Kick(r, d)
  \/ \E k \in Key : RotateServerKey(k)

Next ==
  \/ \E c \in Conn :
       \/ Serve(c) \/ Route(c) \/ Write(c) \/ Leave(c)
       \/ ReadFails(c) \/ PeerVanishes(c)
       \/ \E p \in Sent : Read(c, p)
  \/ Close
  \/ AdminCall

Spec == Init /\ [][Next]_vars

\* What the goroutine of serveConn does by itself, its handshake apart: Read and
\* the handshake wait for the peer.
ServeConn(c) ==
  AddClient(c) \/ Authenticated(c) \/ ReadFails(c) \/ Route(c) \/ Leave(c)

\* The Go scheduler runs every goroutine that can run; a sync.Mutex in
\* starvation mode is handed to its waiters in order, so a goroutine that waits
\* for a lock that is free again and again gets it (SF).  A conn.Write to a peer
\* that is gone ends with an error.  serveConn has lifted the deadline (line
\* 223), so a write to a peer that is there ends only if that peer reads: the
\* Readers do, the others may stop at any time.  Peers and the admin owe nothing
\* else.
Fairness ==
  /\ \A c \in Conn : SF_vars(ServeConn(c)) /\ WF_vars(WriterFails(c))
  /\ \A c \in Readers : WF_vars(WriterSends(c))
  /\ SF_vars(Close)

FairSpec == Spec /\ Fairness

-----------------------------------------------------------------------------
(* Properties.                                                             *)

\* A connection whose client is in the service of the relay: addClient has
\* accepted it and its reader has not given up.
Serving(c) == pc[c] \in {"joined", "read", "route", "send"}

\* The room table (lines 245-276, 294-306, 544-576): a room exists exactly
\* while it has members, there are never more rooms or members than allowed,
\* and each member joined this room, under its own device id, with the
\* room_auth of the client that created it.
RoomInv ==
  /\ Cardinality(Rooms) <= MaxRooms
  /\ \A r \in Room :
       /\ Exists(r) <=> Devices(r) # {}
       /\ Cardinality(Devices(r)) <= MaxRoomClients
       /\ hostAnn[r] # {} => Exists(r)
       /\ \A d \in Devices(r) :
            hello[members[r][d]] = [dev |-> d, room |-> r, auth |-> roomAuth[r]]

\* Outside of a disconnection no member's channel is closed or being closed
\* (lines 278-306): a routed packet never meets a client that is listed and shut.
MembersAreOpen ==
  task = None => \A r \in Room : \A c \in Members(r) : ~done[c]

\* Unless the admin API has thrown somebody out, a client in service is the
\* one its room lists under its device id: no goroutine's late clean-up
\* (removeClient, by device id) takes another client's entry away.
MembershipExact ==
  removed \/ \A c \in Conn : Serving(c) => members[hello[c].room][hello[c].dev] = c

\* README.md:21: the server forwards packets inside the room by target_id.
\* So a client in service whose channel is open is found by routePacket.
ConnectedAreRouted ==
  task = None =>
    \A c \in Conn : Serving(c) /\ ~done[c] => members[hello[c].room][hello[c].dev] = c

\* README.md:76: -max-clients is the maximum number of authenticated clients.
AuthenticatedBound == clients <= MaxClients

\* The goroutine of c is in room r as device d: from addClient to the end of
\* removeClient, which after a kick is long after the table has lost it.
RunsAs(c, r, d) ==
  /\ Serving(c) \/ pc[c] \in {"leave", "close"}
  /\ hello[c].room = r /\ hello[c].dev = d

\* A cached announcement (lines 299-300, 666) belongs to a client that is still
\* in the room, so DISCOVER never presents a host that has left.  A client the
\* admin has thrown out may still cache one, a packet it had sent before; that
\* one is gone again when its goroutine ends.
AnnouncersAreMembers ==
  \A r \in Room : \A d \in hostAnn[r] :
    \/ d \in Devices(r)
    \/ removed /\ \E c \in Conn : RunsAs(c, r, d)

\* The locks (lines 278-292, 695-723): outMu is held exactly by a sender that
\* is blocked on that client's full channel, and then the channel is open; s.mu
\* is held by a broadcast or by a disconnection and by nothing else.
LockInv ==
  /\ \A c, t \in Conn : outMu[t] = c <=> (wait[c] # None /\ wait[c].to = t)
  /\ \A t \in Conn : outMu[t] # Nobody => ~closed[t]
  /\ \A t \in Conn : closed[t] => done[t]
  /\ \A t \in Conn : done[t] /\ ~closed[t] => task # None /\ t \in task.todo
  /\ task # None <=> (mu = Admin \/ (mu \in Conn /\ pc[mu] = "close"))
  /\ mu \in Conn => pc[mu] \in {"send", "close"}

\* Each client's channel, whatever goroutines use it and close it, is a
\* mailbox: in particular nothing is ever sent on a closed channel, which in Go
\* would panic and stop the server.
Mail == INSTANCE Mailbox WITH
  Client <- Conn, Item <- PacketTypes, Cap <- OutQueue,
  box <- out, open <- [c \in Conn |-> ~closed[c]]
MailboxSpec == Mail!Spec

\* A disconnection always completes, however full the channels are and whatever
\* the peers do: close(done) comes before outMu.Lock (line 283), so a sender
\* that is blocked with outMu in its hands lets go.
DisconnectionCompletes == (task # None) ~> (task = None)

\* A queue that only the end of its client, or the loss of its connection, will
\* empty: it is full and its writer has failed, or its peer may have stopped
\* reading.
Clogged(x) == ~done[x] /\ Full(x) /\ (stopped[x] \/ x \notin Readers)

\* c waits for room in a clogged queue or for the lock of a client whose queue is
\* clogged with another sender waiting, or for s.mu, whose holder does.
HeldUp(c) ==
  \E b \in {c, mu} \cap Conn, x \in Conn :
    /\ Clogged(x) /\ outMu[x] # Nobody
    /\ \/ outMu[x] = b
       \/ pc[b] = "send" /\ wait[b] = None /\ \E s \in NextSends(b) : s.to = x

\* routePacket (lines 641-695) comes to an end, and the sender reads on, unless
\* it is held up by a clogged queue; and when that queue's client is thrown out
\* it does after all.  A slow peer, a vanished one, a locked s.mu or two senders
\* that fill each other's queues hold nobody up for ever.
Routing(c) == pc[c] \in {"route", "send"}
RoutingCompletes ==
  \A c \in Conn : Routing(c) ~> (~Routing(c) \/ HeldUp(c))

\* README.md:21 again, for the server as a whole: a broadcast ends, and s.mu,
\* without which nothing is forwarded in any room, is released.
BroadcastCompletes == \A c \in Conn : mu = c ~> mu # c
=============================================================================
