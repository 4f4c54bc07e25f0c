-------------------------- MODULE RelayServerProofs --------------------------
(***************************************************************************)
(* Theorems about RelayServer, for every number of connections, devices    *)
(* and rooms and every limit: its type, the discipline of its two kinds of *)
(* lock, and that every client's channel is a mailbox.                     *)
(*                                                                         *)
(* None of the three is inductive alone.  The type needs to know at which  *)
(* stages a connection has said hello and holds a packet, and that         *)
(* s.stats.clients counts the connections whose reader runs; the locks     *)
(* need to know that what is still to be closed is not closed yet.         *)
(***************************************************************************)
EXTENDS RelayServer, FiniteSetTheorems, TLAPS

\* The connections s.stats.clients counts: between its Add(1) and its Add(-1).
Counted == {c \in Conn : pc[c] \in {"read", "route", "send"}}

\* What the code knows of a connection at each stage, and of a disconnection.
Known ==
  /\ \A c \in Conn : pc[c] \notin {"idle", "hello", "gone"} => hello[c] \in Hello
  /\ \A c \in Conn : pc[c] \in {"route", "send"} => pkt[c] \in Packet
  /\ mu = Nobody => task = None
  /\ mu \in Conn => (task # None <=> pc[mu] = "close")
  /\ task # None /\ task.kind # "delete" => task.dev \in Dev

TypeIInv == TypeOK /\ Known /\ clients = Cardinality(Counted)

LEMMA CountedFinite == IsFiniteSet(Counted) /\ Cardinality(Counted) \in Nat
  BY FS_Subset, FS_CardinalityType, RelayAssumption DEF Counted

LEMMA TypeInit == Init => TypeIInv
  <1> SUFFICES ASSUME Init PROVE TypeIInv
    OBVIOUS
  <1>1. TypeOK
    <2>1. out \in [Conn -> Seq(PacketTypes)]
      BY DEF Init
    <2>2. members \in [Room -> [Dev -> Conn \cup {Nobody}]]
      BY DEF Init, NoMembers
    <2> QED
      BY <2>1, <2>2 DEF Init, TypeOK, Stages
  <1>2. Known
    BY RelayAssumption DEF Init, Known
  <1>3. Counted = {}
    BY DEF Init, Counted
  <1> QED
    BY <1>1, <1>2, <1>3, FS_EmptySet DEF TypeIInv, Init

\* What routePacket hands to enqueue is a client and a packet type.
LEMMA SendTyped ==
  ASSUME TypeOK, Known, NEW c \in Conn, pc[c] = "send", NEW s \in NextSends(c)
  PROVE  s \in Send
  <1>1. pkt[c].typ \in PacketTypes /\ dests[c] \subseteq Conn
    BY DEF TypeOK, Known, Packet
  <1>2. "announce" \in PacketTypes
    BY DEF PacketTypes
  <1> QED
    BY <1>1, <1>2 DEF NextSends, Send

LEMMA SendTakenTyped ==
  ASSUME TypeOK, NEW c \in Conn, NEW s, SendTaken(c, s)
  PROVE  anns' \in [Conn -> SUBSET Dev] /\ dests' \in [Conn -> SUBSET Conn]
  <1>1. CASE anns[c] # {}
    <2>1. PICK d \in anns[c] : anns' = [anns EXCEPT ![c] = @ \ {d}]
      BY <1>1 DEF SendTaken
    <2> QED
      BY <1>1, <2>1 DEF TypeOK, SendTaken
  <1>2. CASE anns[c] = {}
    <2>1. dests' = [dests EXCEPT ![c] = @ \ {s.to}] /\ anns' = anns
      BY <1>2 DEF SendTaken
    <2> QED
      BY <2>1 DEF TypeOK
  <1> QED
    BY <1>1, <1>2

\* Taking a device or a room out keeps the type of the room table.
LEMMA TableTyped ==
  ASSUME TypeOK, NEW r \in Room, NEW d, DropRoom(r) \/ DropDevice(r, d)
  PROVE  /\ roomAuth' \in [Room -> Auth \cup {None}]
         /\ hostAnn' \in [Room -> SUBSET Dev]
         /\ members' \in [Room -> [Dev -> Conn \cup {Nobody}]]
  <1>1. NoMembers \in [Dev -> Conn \cup {Nobody}]
    BY DEF NoMembers
  <1>2. [members[r] EXCEPT ![d] = Nobody] \in [Dev -> Conn \cup {Nobody}]
    BY DEF TypeOK
  <1>3. CASE DropRoom(r)
    BY <1>1, <1>3 DEF TypeOK, DropRoom
  <1>4. CASE DropDevice(r, d)
    <2>1. CASE Exists(r)
      <3>1. \E last \in BOOLEAN :
              /\ members' = [members EXCEPT ![r] = [members[r] EXCEPT ![d] = Nobody]]
              /\ hostAnn' = [hostAnn EXCEPT ![r] = IF last THEN {} ELSE @ \ {d}]
              /\ roomAuth' = [roomAuth EXCEPT ![r] = IF last THEN None ELSE @]
        BY <1>4, <2>1 DEF DropDevice
      <3> QED
        BY <1>2, <3>1 DEF TypeOK
    <2>2. CASE ~Exists(r)
      BY <1>4, <2>2 DEF TypeOK, DropDevice, roomVars
    <2> QED
      BY <2>1, <2>2
  <1> QED
    BY <1>3, <1>4

LEMMA TypeStep == TypeIInv /\ [Next]_vars => TypeIInv'
  <1> SUFFICES ASSUME TypeIInv, [Next]_vars PROVE TypeIInv'
    OBVIOUS
  <1>a. TypeOK /\ Known /\ clients = Cardinality(Counted)
    BY DEF TypeIInv
  <1> USE <1>a
  <1>1. ASSUME NEW c \in Conn, Accept(c) PROVE TypeIInv'
    <2>1. TypeOK'
      BY <1>1, RelayAssumption DEF Accept, TypeOK, Known, Stages, roomVars, routeVars, chanVars
    <2>2. Known'
      BY <1>1, RelayAssumption DEF Accept, TypeOK, Known, Stages, roomVars, routeVars, chanVars
    <2>3. Counted' = Counted /\ clients' = clients
      BY <1>1 DEF Accept, TypeOK, Known, Counted
    <2> QED
      BY <2>1, <2>2, <2>3 DEF TypeIInv
  <1>2. ASSUME NEW c \in Conn, HandshakeFails(c) PROVE TypeIInv'
    <2>1. TypeOK'
      BY <1>2, RelayAssumption DEF HandshakeFails, TypeOK, Known, Stages, roomVars, routeVars, chanVars
    <2>2. Known'
      BY <1>2, RelayAssumption DEF HandshakeFails, TypeOK, Known, Stages, roomVars, routeVars, chanVars
    <2>3. Counted' = Counted /\ clients' = clients
      BY <1>2 DEF HandshakeFails, TypeOK, Known, Counted
    <2> QED
      BY <2>1, <2>2, <2>3 DEF TypeIInv
  <1>3. ASSUME NEW c \in Conn, NEW h \in Hello, NEW k \in Key, ClientHello(c, h, k)
        PROVE TypeIInv'
    <2>1. UNCHANGED <<serverKey, clients, mu, roomVars, routeVars, chanVars,
                      stopped, task, removed>>
      BY <1>3 DEF ClientHello
    <2>2. CASE k = serverKey
      <3>1. pc' = [pc EXCEPT ![c] = "join"] /\ hello' = [hello EXCEPT ![c] = h] /\ up' = up
        BY <1>3, <2>2 DEF ClientHello
      <3>2. TypeOK'
        BY <2>1, <3>1 DEF TypeOK, Stages, roomVars, routeVars, chanVars
      <3>3. Known' /\ Counted' = Counted
        BY <1>3, <2>1, <3>1, RelayAssumption
        DEF ClientHello, TypeOK, Known, Counted, routeVars
      <3> QED
        BY <2>1, <3>2, <3>3 DEF TypeIInv
    <2>3. CASE k # serverKey
      <3>1. pc' = [pc EXCEPT ![c] = "gone"] /\ up' = [up EXCEPT ![c] = FALSE] /\ hello' = hello
        BY <1>3, <2>3 DEF ClientHello
      <3>2. TypeOK'
        BY <2>1, <3>1 DEF TypeOK, Stages, roomVars, routeVars, chanVars
      <3>3. Known' /\ Counted' = Counted
        BY <1>3, <2>1, <3>1, RelayAssumption
        DEF ClientHello, TypeOK, Known, Counted, routeVars
      <3> QED
        BY <2>1, <3>2, <3>3 DEF TypeIInv
    <2> QED
      BY <2>2, <2>3
  <1>4. ASSUME NEW c \in Conn, AddClient(c) PROVE TypeIInv'
    <2> DEFINE h == hello[c]
    <2>1. h \in Hello /\ h.room \in Room /\ h.dev \in Dev /\ h.auth \in Auth /\ mu = Nobody
      BY <1>4 DEF AddClient, Known, Hello
    <2> HIDE DEF h
    <2>2. UNCHANGED <<serverKey, clients, mu, hostAnn, routeVars, chanVars,
                      stopped, task, removed>>
      BY <1>4 DEF AddClient
    <2>3. CASE MayJoin(h)
      <3>1. /\ pc' = [pc EXCEPT ![c] = "joined"]
            /\ roomAuth' = [roomAuth EXCEPT ![h.room] = h.auth]
            /\ members' = [members EXCEPT ![h.room][h.dev] = c]
            /\ hello' = hello /\ up' = up
        BY <1>4, <2>3 DEF AddClient, h
      <3>2. TypeOK'
        BY <2>1, <2>2, <3>1 DEF TypeOK, Stages, routeVars, chanVars
      <3>3. Known' /\ Counted' = Counted
        BY <1>4, <2>1, <2>2, <3>1, RelayAssumption
        DEF AddClient, TypeOK, Known, Counted, routeVars
      <3> QED
        BY <2>2, <3>2, <3>3 DEF TypeIInv
    <2>4. CASE ~MayJoin(h)
      <3>1. /\ pc' = [pc EXCEPT ![c] = "gone"]
            /\ hello' = [hello EXCEPT ![c] = None]
            /\ up' = [up EXCEPT ![c] = FALSE]
            /\ roomAuth' = roomAuth /\ members' = members
        BY <1>4, <2>4 DEF AddClient, h
      <3>2. TypeOK'
        BY <2>2, <3>1 DEF TypeOK, Stages, routeVars, chanVars
      <3>3. Known' /\ Counted' = Counted
        BY <1>4, <2>1, <2>2, <3>1, RelayAssumption
        DEF AddClient, TypeOK, Known, Counted, routeVars
      <3> QED
        BY <2>2, <3>2, <3>3 DEF TypeIInv
    <2> QED
      BY <2>3, <2>4
  <1>5. ASSUME NEW c \in Conn, Authenticated(c) PROVE TypeIInv'
    <2>1. TypeOK'
      BY <1>5, RelayAssumption DEF Authenticated, TypeOK, Known, Stages, roomVars, routeVars, chanVars
    <2>2. Known'
      BY <1>5, RelayAssumption DEF Authenticated, TypeOK, Known, Stages, roomVars, routeVars, chanVars
    <2>3. Counted' = Counted \cup {c} /\ c \notin Counted
      BY <1>5 DEF Authenticated, TypeOK, Counted
    <2> QED
      BY <1>5, <2>1, <2>2, <2>3, CountedFinite, FS_AddElement DEF TypeIInv, Authenticated
  <1>6. ASSUME NEW c \in Conn, NEW p \in Sent, Read(c, p) PROVE TypeIInv'
    <2>1. TypeOK'
      BY <1>6, RelayAssumption DEF Read, TypeOK, Known, Stages, roomVars, routeVars, chanVars
    <2>2. Known'
      BY <1>6, RelayAssumption DEF Read, TypeOK, Known, Stages, roomVars, routeVars, chanVars
    <2>3. Counted' = Counted /\ clients' = clients
      BY <1>6 DEF Read, TypeOK, Known, Counted
    <2> QED
      BY <2>1, <2>2, <2>3 DEF TypeIInv
  <1>7. ASSUME NEW c \in Conn, ReadFails(c) PROVE TypeIInv'
    <2>1. Counted' = Counted \ {c} /\ c \in Counted
      BY <1>7 DEF ReadFails, TypeOK, Counted
    <2>2. Cardinality(Counted') = Cardinality(Counted) - 1 /\ Cardinality(Counted') \in Nat
      BY <2>1, CountedFinite, FS_RemoveElement, FS_CardinalityType
    <2>3. clients' = Cardinality(Counted')
      BY <1>7, <2>2 DEF ReadFails
    <2>4. TypeOK'
      BY <1>7, <2>2, <2>3 DEF ReadFails, TypeOK, Stages, roomVars, routeVars, chanVars
    <2>5. Known'
      BY <1>7, RelayAssumption DEF ReadFails, TypeOK, Known, routeVars
    <2> QED
      BY <2>3, <2>4, <2>5 DEF TypeIInv
  <1>8. ASSUME NEW c \in Conn, RouteBroadcast(c) PROVE TypeIInv'
    <2>1. hello[c].room \in Room /\ hello[c].dev \in Dev
      BY <1>8 DEF RouteBroadcast, Known, Hello
    <2>2. hostAnn' \in [Room -> SUBSET Dev]
      BY <1>8, <2>1 DEF RouteBroadcast, TypeOK
    <2>3. anns' \in [Conn -> SUBSET Dev]
      BY <1>8, <2>1 DEF RouteBroadcast, TypeOK
    <2>4. dests' \in [Conn -> SUBSET Conn]
      <3>1. {members[hello[c].room][e] : e \in Dev \ {hello[c].dev}} \ {Nobody} \subseteq Conn
        BY <2>1 DEF TypeOK
      <3> QED
        BY <1>8, <3>1 DEF RouteBroadcast, TypeOK
    <2>5. TypeOK'
      BY <1>8, <2>2, <2>3, <2>4 DEF RouteBroadcast, TypeOK, Stages, chanVars
    <2>6. Known' /\ Counted' = Counted /\ clients' = clients
      BY <1>8, RelayAssumption DEF RouteBroadcast, TypeOK, Known, Counted
    <2> QED
      BY <2>5, <2>6 DEF TypeIInv
  <1>9. ASSUME NEW c \in Conn, RouteUnicast(c) PROVE TypeIInv'
    <2>1. RouteTarget(c) \in Conn
      <3>1. hello[c].room \in Room /\ mu = Nobody
        BY <1>9 DEF RouteUnicast, Known, Hello
      <3>2. pkt[c].target \in Dev /\ RouteTarget(c) = members[hello[c].room][pkt[c].target]
        BY <1>9 DEF RouteUnicast, RouteTarget
      <3>3. RouteTarget(c) # Nobody
        BY <1>9 DEF RouteUnicast
      <3> QED
        BY <3>1, <3>2, <3>3 DEF TypeOK
    <2>2. TypeOK'
      BY <1>9, <2>1 DEF RouteUnicast, TypeOK, Stages, roomVars, chanVars
    <2>3. Known' /\ Counted' = Counted /\ clients' = clients
      BY <1>9, RelayAssumption DEF RouteUnicast, TypeOK, Known, Counted
    <2> QED
      BY <2>2, <2>3 DEF TypeIInv
  <1>10. ASSUME NEW c \in Conn, RouteNowhere(c) PROVE TypeIInv'
    <2>1. TypeOK'
      BY <1>10, RelayAssumption DEF RouteNowhere, TypeOK, Known, Stages, roomVars, routeVars, chanVars
    <2>2. Known'
      BY <1>10, RelayAssumption DEF RouteNowhere, TypeOK, Known, Stages, roomVars, routeVars, chanVars
    <2>3. Counted' = Counted /\ clients' = clients
      BY <1>10 DEF RouteNowhere, TypeOK, Known, Counted
    <2> QED
      BY <2>1, <2>2, <2>3 DEF TypeIInv
  <1>11. ASSUME NEW c \in Conn, RouteDone(c) PROVE TypeIInv'
    <2>1. TypeOK'
      BY <1>11, RelayAssumption DEF RouteDone, TypeOK, Known, Stages, roomVars, routeVars, chanVars, MuAfter
    <2>2. Known'
      BY <1>11, RelayAssumption DEF RouteDone, TypeOK, Known, Stages, roomVars, routeVars, chanVars, MuAfter
    <2>3. Counted' = Counted /\ clients' = clients
      BY <1>11 DEF RouteDone, TypeOK, Known, Counted
    <2> QED
      BY <2>1, <2>2, <2>3 DEF TypeIInv
  <1>12. ASSUME NEW c \in Conn, NEW s \in NextSends(c), Enqueue(c, s) PROVE TypeIInv'
    <2>1. s \in Send
      BY <1>12, SendTyped DEF Enqueue
    <2>2. anns' \in [Conn -> SUBSET Dev] /\ dests' \in [Conn -> SUBSET Conn]
      BY <1>12, SendTakenTyped DEF Enqueue
    <2>3. out' \in [Conn -> Seq(PacketTypes)]
      BY <1>12, <2>1 DEF Enqueue, TypeOK, Send
    <2>4. TypeOK'
      BY <1>12, <2>2, <2>3 DEF Enqueue, TypeOK, roomVars
    <2>5. Known' /\ Counted' = Counted /\ clients' = clients
      BY <1>12 DEF Enqueue, Known, Counted
    <2> QED
      BY <2>4, <2>5 DEF TypeIInv
  <1>13. ASSUME NEW c \in Conn, NEW s \in NextSends(c), EnqueueBlocks(c, s) PROVE TypeIInv'
    <2>1. s \in Send
      BY <1>13, SendTyped DEF EnqueueBlocks
    <2>2. anns' \in [Conn -> SUBSET Dev] /\ dests' \in [Conn -> SUBSET Conn]
      BY <1>13, SendTakenTyped DEF EnqueueBlocks
    <2>3. outMu' \in [Conn -> Conn \cup {Nobody}] /\ wait' \in [Conn -> Send \cup {None}]
      BY <1>13, <2>1 DEF EnqueueBlocks, TypeOK
    <2>4. TypeOK'
      BY <1>13, <2>2, <2>3 DEF EnqueueBlocks, TypeOK, roomVars
    <2>5. Known' /\ Counted' = Counted /\ clients' = clients
      BY <1>13 DEF EnqueueBlocks, Known, Counted
    <2> QED
      BY <2>4, <2>5 DEF TypeIInv
  <1>14. ASSUME NEW c \in Conn, UnblockBySpace(c) PROVE TypeIInv'
    <2>1. TypeOK'
      BY <1>14, RelayAssumption DEF UnblockBySpace, TypeOK, Known, Stages, roomVars, routeVars, chanVars, Send
    <2>2. Known'
      BY <1>14, RelayAssumption DEF UnblockBySpace, TypeOK, Known, Stages, roomVars, routeVars, chanVars, Send
    <2>3. Counted' = Counted /\ clients' = clients
      BY <1>14 DEF UnblockBySpace, TypeOK, Known, Counted
    <2> QED
      BY <2>1, <2>2, <2>3 DEF TypeIInv
  <1>15. ASSUME NEW c \in Conn, UnblockByDone(c) PROVE TypeIInv'
    <2>1. TypeOK'
      BY <1>15, RelayAssumption DEF UnblockByDone, TypeOK, Known, Stages, roomVars, routeVars, chanVars, Send
    <2>2. Known'
      BY <1>15, RelayAssumption DEF UnblockByDone, TypeOK, Known, Stages, roomVars, routeVars, chanVars, Send
    <2>3. Counted' = Counted /\ clients' = clients
      BY <1>15 DEF UnblockByDone, TypeOK, Known, Counted
    <2> QED
      BY <2>1, <2>2, <2>3 DEF TypeIInv
  <1>16. ASSUME NEW c \in Conn, WriterSends(c) PROVE TypeIInv'
    <2>1. TypeOK'
      BY <1>16, RelayAssumption DEF WriterSends, TypeOK, Known, Stages, roomVars, routeVars, chanVars, Writing
    <2>2. Known'
      BY <1>16, RelayAssumption DEF WriterSends, TypeOK, Known, Stages, roomVars, routeVars, chanVars, Writing
    <2>3. Counted' = Counted /\ clients' = clients
      BY <1>16 DEF WriterSends, TypeOK, Known, Counted
    <2> QED
      BY <2>1, <2>2, <2>3 DEF TypeIInv
  <1>17. ASSUME NEW c \in Conn, WriterFails(c) PROVE TypeIInv'
    <2>1. TypeOK'
      BY <1>17, RelayAssumption DEF WriterFails, TypeOK, Known, Stages, roomVars, routeVars, chanVars, Writing
    <2>2. Known'
      BY <1>17, RelayAssumption DEF WriterFails, TypeOK, Known, Stages, roomVars, routeVars, chanVars, Writing
    <2>3. Counted' = Counted /\ clients' = clients
      BY <1>17 DEF WriterFails, TypeOK, Known, Counted
    <2> QED
      BY <2>1, <2>2, <2>3 DEF TypeIInv
  <1>18. ASSUME NEW c \in Conn, PeerVanishes(c) PROVE TypeIInv'
    <2>1. TypeOK'
      BY <1>18, RelayAssumption DEF PeerVanishes, TypeOK, Known, Stages, roomVars, routeVars, chanVars
    <2>2. Known'
      BY <1>18, RelayAssumption DEF PeerVanishes, TypeOK, Known, Stages, roomVars, routeVars, chanVars
    <2>3. Counted' = Counted /\ clients' = clients
      BY <1>18 DEF PeerVanishes, TypeOK, Known, Counted
    <2> QED
      BY <2>1, <2>2, <2>3 DEF TypeIInv
  <1>19. ASSUME NEW c \in Conn, Leave(c) PROVE TypeIInv'
    <2>1. hello[c].room \in Room /\ hello[c].dev \in Dev
      BY <1>19 DEF Leave, Known, Hello
    <2>2. task' \in Task /\ task'.dev \in Dev
      BY <1>19, <2>1 DEF Leave, Task, StillOpen
    <2>3. TypeOK'
      BY <1>19, <2>2 DEF Leave, TypeOK, Stages, roomVars, routeVars, chanVars
    <2>4. Known' /\ Counted' = Counted /\ clients' = clients
      <3>1. task' # None
        BY <2>2, RelayAssumption
      <3> HIDE DEF Leave
      <3> QED
        BY <1>19, <2>2, <3>1, RelayAssumption DEF Leave, TypeOK, Known, Counted, routeVars
    <2> QED
      BY <2>3, <2>4 DEF TypeIInv
  <1>20. ASSUME NEW r \in Room, NEW d \in Dev, Kick(r, d) PROVE TypeIInv'
    <2>1. TypeOK'
      BY <1>20, RelayAssumption DEF Kick, TypeOK, Known, Stages, roomVars, routeVars, chanVars, Task, StillOpen
    <2>2. Known'
      BY <1>20, RelayAssumption DEF Kick, TypeOK, Known, Stages, roomVars, routeVars, chanVars, Task, StillOpen
    <2>3. Counted' = Counted /\ clients' = clients
      BY <1>20 DEF Kick, TypeOK, Known, Counted
    <2> QED
      BY <2>1, <2>2, <2>3 DEF TypeIInv
  <1>21. ASSUME NEW r \in Room, DeleteRoom(r) PROVE TypeIInv'
    <2>1. TypeOK'
      BY <1>21, RelayAssumption DEF DeleteRoom, TypeOK, Known, Stages, roomVars, routeVars, chanVars, Task, StillOpen, Members
    <2>2. Known'
      BY <1>21, RelayAssumption DEF DeleteRoom, TypeOK, Known, Stages, roomVars, routeVars, chanVars, Task, StillOpen, Members
    <2>3. Counted' = Counted /\ clients' = clients
      BY <1>21 DEF DeleteRoom, TypeOK, Known, Counted
    <2> QED
      BY <2>1, <2>2, <2>3 DEF TypeIInv
  <1>22. ASSUME NEW c \in Conn, CloseDone(c) PROVE TypeIInv'
    <2>1. TypeOK'
      BY <1>22, RelayAssumption DEF CloseDone, TypeOK, Known, Stages, roomVars, routeVars, chanVars
    <2>2. Known'
      BY <1>22, RelayAssumption DEF CloseDone, TypeOK, Known, Stages, roomVars, routeVars, chanVars
    <2>3. Counted' = Counted /\ clients' = clients
      BY <1>22 DEF CloseDone, TypeOK, Known, Counted
    <2> QED
      BY <2>1, <2>2, <2>3 DEF TypeIInv
  <1>23. ASSUME NEW c \in Conn, CloseOut(c) PROVE TypeIInv'
    <2>1. task \in Task /\ task' = [task EXCEPT !.todo = @ \ {c}]
      BY <1>23 DEF CloseOut, TypeOK
    <2>2. task' \in Task /\ task'.kind = task.kind /\ task'.dev = task.dev
      BY <2>1 DEF Task
    <2>3. TypeOK'
      BY <1>23, <2>2 DEF CloseOut, TypeOK, roomVars, routeVars
    <2>4. Known' /\ Counted' = Counted /\ clients' = clients
      BY <1>23, <2>1, <2>2, RelayAssumption DEF CloseOut, Known, Counted, routeVars
    <2> QED
      BY <2>3, <2>4 DEF TypeIInv
  <1>24. ASSUME TaskDone PROVE TypeIInv'
    <2>1. task \in Task /\ mu' = Nobody /\ task' = None
      BY <1>24 DEF TaskDone, TypeOK
    <2>2. roomAuth' \in [Room -> Auth \cup {None}] /\ hostAnn' \in [Room -> SUBSET Dev]
          /\ members' \in [Room -> [Dev -> Conn \cup {Nobody}]]
      BY <1>24, <2>1, TableTyped DEF TaskDone, Task
    <2>3. CASE mu \in Conn
      <3>1. pc' = [pc EXCEPT ![mu] = "gone"] /\ hello' = [hello EXCEPT ![mu] = None]
            /\ pc[mu] = "close"
        BY <1>24, <2>3 DEF TaskDone, Known
      <3>2. TypeOK'
        BY <1>24, <2>1, <2>2, <2>3, <3>1 DEF TaskDone, TypeOK, Stages, routeVars, chanVars
      <3>3. Known' /\ Counted' = Counted
        BY <1>24, <2>1, <2>3, <3>1, RelayAssumption DEF TaskDone, TypeOK, Known, Counted, routeVars
      <3> QED
        BY <1>24, <3>2, <3>3 DEF TypeIInv, TaskDone
    <2>4. CASE mu \notin Conn
      <3>1. pc' = pc /\ hello' = hello
        BY <1>24, <2>4 DEF TaskDone
      <3>2. TypeOK'
        BY <1>24, <2>1, <2>2, <3>1 DEF TaskDone, TypeOK, routeVars, chanVars
      <3>3. Known' /\ Counted' = Counted
        BY <1>24, <2>1, <3>1, RelayAssumption DEF TaskDone, Known, Counted, routeVars
      <3> QED
        BY <1>24, <3>2, <3>3 DEF TypeIInv, TaskDone
    <2> QED
      BY <2>3, <2>4
  <1>25. ASSUME NEW k \in Key, RotateServerKey(k) PROVE TypeIInv'
    <2>1. TypeOK'
      BY <1>25, RelayAssumption DEF RotateServerKey, TypeOK, Known, Stages, roomVars, routeVars, chanVars
    <2>2. Known'
      BY <1>25, RelayAssumption DEF RotateServerKey, TypeOK, Known, Stages, roomVars, routeVars, chanVars
    <2>3. Counted' = Counted /\ clients' = clients
      BY <1>25 DEF RotateServerKey, TypeOK, Known, Counted
    <2> QED
      BY <2>1, <2>2, <2>3 DEF TypeIInv
  <1>26. CASE UNCHANGED vars
    BY <1>26 DEF TypeIInv, TypeOK, Known, Counted, vars, roomVars, routeVars, chanVars
  <1> QED
    BY <1>1, <1>2, <1>3, <1>4, <1>5, <1>6, <1>7, <1>8, <1>9, <1>10, <1>11, <1>12, <1>13, <1>14, <1>15, <1>16, <1>17, <1>18, <1>19, <1>20, <1>21, <1>22, <1>23, <1>24, <1>25, <1>26
    DEF Next, Serve, Route, Write, Close, AdminCall

LEMMA Typed == Spec => []TypeIInv
  BY TypeInit, TypeStep, PTL DEF Spec

\* Every value the server's state takes is of its declared type, and the client
\* counter never goes below zero (lines 220-221).
THEOREM TypeCorrect == Spec => []TypeOK
  BY Typed, PTL DEF TypeIInv

-----------------------------------------------------------------------------
(* The locks.  A sender blocked in enqueue is at the stage that blocks, and a *)
(* client still to be closed is not closed: what makes LockInv inductive.     *)

LockIInv ==
  /\ LockInv
  /\ \A c \in Conn : wait[c] # None => pc[c] = "send"
  /\ task # None => \A t \in task.todo : ~closed[t]

LEMMA LockInit == Init => LockIInv
  BY RelayAssumption DEF Init, LockIInv, LockInv

LEMMA LockStep == TypeIInv /\ LockIInv /\ [Next]_vars => LockIInv'
  <1> SUFFICES ASSUME TypeIInv, LockIInv, [Next]_vars PROVE LockIInv'
    OBVIOUS
  <1>a. TypeIInv'
    BY TypeStep
  <1> USE RelayAssumption DEF TypeIInv, LockIInv
  <1>1. ASSUME NEW c \in Conn, Accept(c) PROVE LockIInv'
    BY <1>1 DEF Accept, LockInv, TypeOK, Known, roomVars, routeVars, chanVars
  <1>2. ASSUME NEW c \in Conn, HandshakeFails(c) PROVE LockIInv'
    BY <1>2 DEF HandshakeFails, LockInv, TypeOK, Known, roomVars, routeVars, chanVars
  <1>3. ASSUME NEW c \in Conn, NEW h \in Hello, NEW k \in Key, ClientHello(c, h, k) PROVE LockIInv'
    BY <1>3 DEF ClientHello, LockInv, TypeOK, Known, roomVars, routeVars, chanVars
  <1>4. ASSUME NEW c \in Conn, AddClient(c) PROVE LockIInv'
    BY <1>4 DEF AddClient, LockInv, TypeOK, Known, roomVars, routeVars, chanVars
  <1>5. ASSUME NEW c \in Conn, Authenticated(c) PROVE LockIInv'
    BY <1>5 DEF Authenticated, LockInv, TypeOK, Known, roomVars, routeVars, chanVars
  <1>6. ASSUME NEW c \in Conn, NEW p \in Sent, Read(c, p) PROVE LockIInv'
    BY <1>6 DEF Read, LockInv, TypeOK, Known, roomVars, routeVars, chanVars
  <1>7. ASSUME NEW c \in Conn, ReadFails(c) PROVE LockIInv'
    BY <1>7 DEF ReadFails, LockInv, TypeOK, Known, roomVars, routeVars, chanVars
  <1>8. ASSUME NEW c \in Conn, RouteBroadcast(c) PROVE LockIInv'
    BY <1>8 DEF RouteBroadcast, LockInv, TypeOK, Known, roomVars, routeVars, chanVars
  <1>9. ASSUME NEW c \in Conn, RouteUnicast(c) PROVE LockIInv'
    BY <1>9 DEF RouteUnicast, LockInv, TypeOK, Known, roomVars, routeVars, chanVars
  <1>10. ASSUME NEW c \in Conn, RouteNowhere(c) PROVE LockIInv'
    BY <1>10 DEF RouteNowhere, LockInv, TypeOK, Known, roomVars, routeVars, chanVars
  <1>11. ASSUME NEW c \in Conn, RouteDone(c) PROVE LockIInv'
    BY <1>11 DEF RouteDone, LockInv, TypeOK, Known, roomVars, routeVars, chanVars, MuAfter
  <1>12. ASSUME NEW c \in Conn, NEW s \in NextSends(c), Enqueue(c, s) PROVE LockIInv'
    BY <1>12 DEF Enqueue, LockInv, TypeOK, Known, roomVars, routeVars, chanVars
  <1>13. ASSUME NEW c \in Conn, NEW s \in NextSends(c), EnqueueBlocks(c, s) PROVE LockIInv'
    <2>1. s \in Send /\ s.to \in Conn /\ s # None
      BY <1>13, SendTyped DEF EnqueueBlocks, Send
    <2>2. /\ outMu' = [outMu EXCEPT ![s.to] = c] /\ wait' = [wait EXCEPT ![c] = s]
          /\ outMu[s.to] = Nobody /\ wait[c] = None /\ ~closed[s.to] /\ pc[c] = "send"
          /\ UNCHANGED <<pc, mu, task, done, closed>>
      BY <1>13 DEF EnqueueBlocks
    <2> QED
      BY <2>1, <2>2 DEF LockInv, TypeOK
  <1>14. ASSUME NEW c \in Conn, UnblockBySpace(c) PROVE LockIInv'
    BY <1>14 DEF UnblockBySpace, LockInv, TypeOK, Known, roomVars, routeVars, chanVars
  <1>15. ASSUME NEW c \in Conn, UnblockByDone(c) PROVE LockIInv'
    BY <1>15 DEF UnblockByDone, LockInv, TypeOK, Known, roomVars, routeVars, chanVars
  <1>16. ASSUME NEW c \in Conn, WriterSends(c) PROVE LockIInv'
    BY <1>16 DEF WriterSends, LockInv, TypeOK, Known, roomVars, routeVars, chanVars
  <1>17. ASSUME NEW c \in Conn, WriterFails(c) PROVE LockIInv'
    BY <1>17 DEF WriterFails, LockInv, TypeOK, Known, roomVars, routeVars, chanVars
  <1>18. ASSUME NEW c \in Conn, PeerVanishes(c) PROVE LockIInv'
    BY <1>18 DEF PeerVanishes, LockInv, TypeOK, Known, roomVars, routeVars, chanVars
  <1>19. ASSUME NEW c \in Conn, Leave(c) PROVE LockIInv'
    <2>1. task' # None /\ task = None /\ mu' = c /\ pc' = [pc EXCEPT ![c] = "close"]
      BY <1>19, <1>a DEF Leave, TypeOK, Known
    <2>2. \A t \in task'.todo : ~closed[t]
      BY <1>19 DEF Leave, StillOpen, LockInv
    <2>3. UNCHANGED <<wait, outMu, done, closed>> /\ pc[c] = "leave"
      BY <1>19 DEF Leave, routeVars, chanVars
    <2>4. \A t \in Conn : ~(done[t] /\ ~closed[t])
      BY <2>1 DEF LockInv
    <2>5. LockInv'
      BY <2>1, <2>3, <2>4 DEF LockInv, TypeOK
    <2> QED
      BY <2>1, <2>2, <2>3, <2>5 DEF TypeOK
  <1>20. ASSUME NEW r \in Room, NEW d \in Dev, Kick(r, d) PROVE LockIInv'
    BY <1>20 DEF Kick, LockInv, TypeOK, Known, roomVars, routeVars, chanVars, StillOpen, Task
  <1>21. ASSUME NEW r \in Room, DeleteRoom(r) PROVE LockIInv'
    <2>1. Members(r) \subseteq Conn
      BY DEF Members, TypeOK
    <2>2. task' \in Task /\ task' # None /\ task = None /\ mu' = Admin
      BY <1>21, <2>1 DEF DeleteRoom, StillOpen, Task, Known
    <2>3. \A t \in task'.todo : ~closed[t]
      BY <1>21, <2>1 DEF DeleteRoom, StillOpen, LockInv
    <2> QED
      BY <1>21, <2>2, <2>3 DEF DeleteRoom, LockInv, TypeOK, routeVars, chanVars
  <1>22. ASSUME NEW c \in Conn, CloseDone(c) PROVE LockIInv'
    BY <1>22 DEF CloseDone, LockInv, TypeOK, Known, roomVars, routeVars, chanVars, Task
  <1>23. ASSUME NEW c \in Conn, CloseOut(c) PROVE LockIInv'
    <2>1. task \in Task /\ task # None /\ task' # None
      <3>1. task \in Task /\ task' = [task EXCEPT !.todo = @ \ {c}]
        BY <1>23 DEF CloseOut, TypeOK
      <3> QED
        BY <3>1 DEF Task
    <2>2. task'.todo = task.todo \ {c}
      BY <1>23, <2>1 DEF CloseOut, Task
    <2>3. closed' = [closed EXCEPT ![c] = TRUE] /\ done[c] /\ outMu[c] = Nobody
      BY <1>23 DEF CloseOut, MayCloseOut
    <2> QED
      BY <1>23, <2>1, <2>2, <2>3 DEF CloseOut, LockInv, TypeOK, routeVars
  <1>24. ASSUME TaskDone PROVE LockIInv'
    BY <1>24 DEF TaskDone, LockInv, TypeOK, Known, roomVars, routeVars, chanVars
  <1>25. ASSUME NEW k \in Key, RotateServerKey(k) PROVE LockIInv'
    BY <1>25 DEF RotateServerKey, LockInv, TypeOK, Known, roomVars, routeVars, chanVars
  <1>26. CASE UNCHANGED vars
    BY <1>26 DEF LockInv, vars, roomVars, routeVars, chanVars
  <1> QED
    BY <1>1, <1>2, <1>3, <1>4, <1>5, <1>6, <1>7, <1>8, <1>9, <1>10, <1>11, <1>12, <1>13, <1>14, <1>15, <1>16, <1>17, <1>18, <1>19, <1>20, <1>21, <1>22, <1>23, <1>24, <1>25, <1>26
    DEF Next, Serve, Route, Write, Close, AdminCall

\* The locks are held by whom the code says (lines 278-292, 697-723): see LockInv.
THEOREM LocksHold == Spec => []LockInv
  <1>1. Spec => [](TypeIInv /\ LockIInv)
    BY TypeInit, TypeStep, LockInit, LockStep, PTL DEF Spec
  <1> QED
    BY <1>1, PTL DEF LockIInv

-----------------------------------------------------------------------------
(* Every channel is a mailbox: a step of the server puts into one open channel *)
(* with room, takes from one, closes one that is open, or touches none.        *)

Boxes == <<out, [c \in Conn |-> ~closed[c]]>>

LEMMA MailStep ==
  ASSUME TypeIInv, LockIInv, [Next]_vars
  PROVE  [Mail!Next]_Boxes
  <1>a. TypeOK /\ Known /\ LockInv
    BY DEF TypeIInv, LockIInv
  <1> USE <1>a
  <1>1. ASSUME NEW c \in Conn, NEW s \in NextSends(c), Enqueue(c, s)
        PROVE  [Mail!Next]_Boxes
    <2>1. s.to \in Conn /\ s.typ \in PacketTypes /\ closed' = closed
      BY <1>1, SendTyped DEF Enqueue, Send
    <2>2. CASE Takes(s.to)
      <3>1. out' = [out EXCEPT ![s.to] = Append(@, s.typ)]
        BY <1>1, <2>2 DEF Enqueue
      <3>2. ~closed[s.to] /\ Len(out[s.to]) < OutQueue
        BY <2>1, <2>2, RelayAssumption DEF Takes, Full, TypeOK
      <3>3. Mail!Put(s.to, s.typ)
        BY <2>1, <3>1, <3>2 DEF Mail!Put
      <3> QED
        BY <2>1, <3>3 DEF Mail!Next
    <2>3. CASE ~Takes(s.to)
      BY <1>1, <2>1, <2>3 DEF Enqueue, Boxes
    <2> QED
      BY <2>2, <2>3
  <1>2. ASSUME NEW c \in Conn, UnblockBySpace(c)
        PROVE  [Mail!Next]_Boxes
    <2> DEFINE t == wait[c].to
    <2>1. t \in Conn /\ wait[c].typ \in PacketTypes
      BY <1>2 DEF UnblockBySpace, TypeOK, Send
    <2>2. ~closed[t]
      BY <1>2, <2>1, RelayAssumption DEF UnblockBySpace, LockInv
    <2>3. closed' = closed /\ out' = [out EXCEPT ![t] = Append(@, wait[c].typ)]
      BY <1>2 DEF UnblockBySpace
    <2>4. Len(out[t]) < OutQueue
      BY <1>2, <2>1, RelayAssumption DEF UnblockBySpace, Full, TypeOK
    <2>5. Mail!Put(t, wait[c].typ)
      BY <2>1, <2>2, <2>3, <2>4 DEF Mail!Put
    <2> QED
      BY <2>1, <2>5 DEF Mail!Next
  <1>3. ASSUME NEW c \in Conn, Write(c)
        PROVE  [Mail!Next]_Boxes
    <2>1. Mail!Take(c)
      BY <1>3 DEF Write, WriterSends, WriterFails, Writing, Mail!Take, chanVars
    <2> QED
      BY <2>1 DEF Mail!Next
  <1>4. ASSUME NEW c \in Conn, CloseOut(c)
        PROVE  [Mail!Next]_Boxes
    <2>1. ~closed[c]
      BY <1>4 DEF CloseOut, LockIInv
    <2>2. closed' = [closed EXCEPT ![c] = TRUE] /\ out' = [out EXCEPT ![c] = <<>>]
      BY <1>4 DEF CloseOut
    <2>3. Mail!Close(c)
      BY <2>1, <2>2 DEF Mail!Close, TypeOK
    <2> QED
      BY <2>3 DEF Mail!Next
  <1>5. CASE out' = out /\ closed' = closed
    BY <1>5 DEF Boxes
  <1>6. ASSUME NEW c \in Conn,
               \/ Serve(c) \/ Leave(c) \/ ReadFails(c) \/ PeerVanishes(c)
               \/ \E p \in Sent : Read(c, p)
        PROVE  out' = out /\ closed' = closed
    BY <1>6 DEF Serve, Accept, HandshakeFails, ClientHello, AddClient, Authenticated,
                Leave, ReadFails, PeerVanishes, Read, chanVars
  <1>7. ASSUME NEW c \in Conn, Route(c)
        PROVE  [Mail!Next]_Boxes
    <2>1. CASE \E s \in NextSends(c) : Enqueue(c, s)
      BY <1>1, <2>1
    <2>2. CASE UnblockBySpace(c)
      BY <1>2, <2>2
    <2>3. CASE \/ RouteBroadcast(c) \/ RouteUnicast(c) \/ RouteNowhere(c) \/ RouteDone(c)
               \/ UnblockByDone(c) \/ \E s \in NextSends(c) : EnqueueBlocks(c, s)
      BY <1>5, <2>3 DEF RouteBroadcast, RouteUnicast, RouteNowhere, RouteDone,
                        UnblockByDone, EnqueueBlocks, chanVars
    <2> QED
      BY <1>7, <2>1, <2>2, <2>3 DEF Route
  <1>8. CASE Close
    <2>1. CASE TaskDone
      BY <1>5, <2>1 DEF TaskDone, chanVars
    <2>2. CASE \E c \in Conn : CloseDone(c)
      BY <1>5, <2>2 DEF CloseDone
    <2> QED
      BY <1>4, <1>8, <2>1, <2>2 DEF Close
  <1>9. CASE AdminCall
    BY <1>5, <1>9 DEF AdminCall, Kick, DeleteRoom, RotateServerKey, chanVars
  <1>10. CASE UNCHANGED vars
    BY <1>5, <1>10 DEF vars, chanVars
  <1> QED
    BY <1>3, <1>5, <1>6, <1>7, <1>8, <1>9, <1>10 DEF Next

\* Each client's channel implements Mailbox (lines 278-292, 593-600, 697-723):
\* never over its capacity, in order, and never written to once closed.
THEOREM ChannelsAreMailboxes == Spec => MailboxSpec
  <1>1. Init => Mail!Init
    BY DEF Init, Mail!Init
  <1>2. TypeIInv /\ LockIInv /\ [Next]_vars => [Mail!Next]_Boxes
    BY MailStep
  <1> QED
    BY <1>1, <1>2, TypeInit, TypeStep, LockInit, LockStep, PTL
    DEF Spec, MailboxSpec, Mail!Spec, Boxes

=============================================================================
