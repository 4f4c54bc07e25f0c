--------------------------- MODULE RelayRoomsProofs ---------------------------
(***************************************************************************)
(* Theorems about the relay's room table, for every number of connections, *)
(* devices and rooms: RoomInv, MembersAreOpen, MembershipExact and         *)
(* AnnouncersAreMembers hold in every state.                               *)
(*                                                                         *)
(* RoomIInv is what makes them inductive: where a client that the table    *)
(* lists can be, who is disconnecting whom, and that a listed client which *)
(* is shut, or about to be, is one whose entry the disconnection under way *)
(* takes out before it lets go of s.mu.                                    *)
(***************************************************************************)
EXTENDS RelayServerProofs

\* From addClient on until removeClient's end.
InRoom == {"joined", "read", "route", "send", "leave", "close"}
Early == {"idle", "hello", "join"}

\* The entries the disconnection under way takes out.
Dropped(r, d) == r = task.room /\ (task.kind = "delete" \/ d = task.dev)

Leaving ==
  /\ \A c \in Conn : pc[c] = "close" =>
       mu = c /\ task.kind = "leave" /\ task.room = hello[c].room /\ task.dev = hello[c].dev
  /\ task # None /\ task.kind = "leave" => mu \in Conn

Listed ==
  /\ \A r \in Room : \A d \in Devices(r) : pc[members[r][d]] \in InRoom
  /\ \A r \in Room : \A d \in Devices(r) :
       done[members[r][d]] \/ (task # None /\ members[r][d] \in task.todo)
         => task # None /\ Dropped(r, d)

Fresh ==
  /\ \A c \in Conn : pc[c] \in Early => ~done[c]
  /\ task # None => \A c \in task.todo : pc[c] \notin Early

\* Without the admin API.
Undisturbed ==
  /\ task # None => task.kind = "leave"
  /\ \A c \in Conn : pc[c] \in InRoom => members[hello[c].room][hello[c].dev] = c
  /\ \A r \in Room : hostAnn[r] \subseteq Devices(r)

RoomIInv == RoomInv /\ Leaving /\ Listed /\ Fresh /\ (removed \/ Undisturbed)

-----------------------------------------------------------------------------
LEMMA TableFinite ==
  /\ IsFiniteSet(Rooms) /\ Cardinality(Rooms) \in Nat
  /\ \A r \in Room : IsFiniteSet(Devices(r)) /\ Cardinality(Devices(r)) \in Nat
  <1>1. Rooms \subseteq Room /\ \A r \in Room : Devices(r) \subseteq Dev
    BY DEF Rooms, Devices
  <1> QED
    BY <1>1, FS_Subset, FS_CardinalityType, RelayAssumption

LEMMA RoomInit == Init => RoomIInv
  <1> SUFFICES ASSUME Init PROVE RoomIInv
    OBVIOUS
  <1>1. Rooms = {} /\ \A r \in Room : Devices(r) = {}
    BY DEF Init, Rooms, Exists, Devices, NoMembers
  <1>2. RoomInv
    <2>1. Cardinality(Rooms) <= MaxRooms
      BY <1>1, FS_EmptySet, RelayAssumption
    <2>2. \A r \in Room : Cardinality(Devices(r)) <= MaxRoomClients
      BY <1>1, FS_EmptySet, RelayAssumption
    <2>3. \A r \in Room : ~Exists(r) /\ hostAnn[r] = {}
      BY DEF Init, Exists
    <2> QED
      BY <1>1, <2>1, <2>2, <2>3 DEF RoomInv
  <1>3. Leaving /\ Listed /\ Fresh
    BY <1>1 DEF Init, Leaving, Listed, Fresh
  <1>4. Undisturbed
    BY DEF Init, Undisturbed, InRoom
  <1> QED
    BY <1>2, <1>3, <1>4 DEF RoomIInv

\* What RoomIInv reads of the table stays when the table does.
LEMMA SameTable ==
  ASSUME UNCHANGED roomVars
  PROVE  /\ Rooms' = Rooms
         /\ \A r : Exists(r)' = Exists(r) /\ Devices(r)' = Devices(r)
  BY DEF roomVars, Rooms, Exists, Devices

\* The actions that leave the table, the disconnection and s.mu alone: what a
\* client knows of itself and where it is may change, its entry does not.
LEMMA QuietStep ==
  ASSUME TypeOK, RoomIInv, UNCHANGED <<roomVars, task, mu, done, removed>>,
         NEW c \in Conn, NEW q,
         pc' = [pc EXCEPT ![c] = q], q # "close", pc[c] # "close",
         q \in Early => pc[c] \in Early,
         q \in InRoom <=> pc[c] \in InRoom,
         pc[c] \in InRoom => hello' = hello,
         \A b \in Conn \ {c} : hello'[b] = hello[b]
  PROVE  RoomIInv'
  <1>1. /\ Rooms' = Rooms
        /\ \A r : Exists(r)' = Exists(r) /\ Devices(r)' = Devices(r)
    BY SameTable
  <1>2. \A r \in Room : \A d \in Devices(r) :
          members[r][d] \in Conn /\ hello'[members[r][d]] = hello[members[r][d]]
    <2> SUFFICES ASSUME NEW r \in Room, NEW d \in Devices(r)
                 PROVE members[r][d] \in Conn /\ hello'[members[r][d]] = hello[members[r][d]]
      OBVIOUS
    <2>1. members[r][d] \in Conn
      BY DEF Devices, TypeOK
    <2>2. pc[members[r][d]] \in InRoom
      BY DEF RoomIInv, Listed
    <2> QED
      BY <2>1, <2>2
  <1>3. RoomInv'
    BY <1>1, <1>2 DEF RoomIInv, RoomInv, roomVars
  <1>4. Leaving'
    BY DEF RoomIInv, Leaving, InRoom, TypeOK
  <1>5. Listed'
    BY <1>1, <1>2 DEF RoomIInv, Listed, Dropped, roomVars, TypeOK
  <1>6. Fresh'
    BY DEF RoomIInv, Fresh, TypeOK
  <1>7. Undisturbed => Undisturbed'
    BY <1>1 DEF Undisturbed, roomVars, TypeOK
  <1> QED
    BY <1>3, <1>4, <1>5, <1>6, <1>7 DEF RoomIInv

\* The actions that touch nothing RoomIInv reads.
LEMMA FrozenStep ==
  ASSUME RoomIInv, UNCHANGED <<pc, hello, roomVars, task, mu, done, removed>>
  PROVE  RoomIInv'
  <1>1. /\ Rooms' = Rooms
        /\ \A r : Exists(r)' = Exists(r) /\ Devices(r)' = Devices(r)
    BY SameTable
  <1>2. RoomInv' /\ Listed'
    BY <1>1 DEF RoomIInv, RoomInv, Listed, Dropped, roomVars
  <1>3. Leaving' /\ Fresh' /\ (Undisturbed => Undisturbed')
    BY <1>1 DEF RoomIInv, Leaving, Fresh, Undisturbed, roomVars
  <1> QED
    BY <1>2, <1>3 DEF RoomIInv

LEMMA JoinStep ==
  ASSUME TypeIInv, LockIInv, RoomIInv, NEW c \in Conn, AddClient(c)
  PROVE  RoomIInv'
  <1>a. /\ TypeOK /\ Known /\ LockInv
        /\ RoomInv /\ Leaving /\ Listed /\ Fresh /\ (removed \/ Undisturbed)
    BY DEF TypeIInv, LockIInv, RoomIInv
  <1> USE <1>a
  <1>0. /\ pc[c] = "join" /\ mu = Nobody /\ UNCHANGED <<mu, hostAnn, task, done, removed>>
        /\ task = None
    BY DEF AddClient, Known, chanVars
  <1>h. PICK h \in Hello : h = hello[c]
    BY <1>0 DEF Known
  <1>1. h.room \in Room /\ h.dev \in Dev /\ h.auth \in Auth /\ h.auth # None
    BY RelayAssumption DEF Hello
  <1>2. CASE ~MayJoin(h)
    <2>1. /\ pc' = [pc EXCEPT ![c] = "gone"] /\ hello' = [hello EXCEPT ![c] = None]
          /\ roomAuth' = roomAuth /\ members' = members
      BY <1>h, <1>2 DEF AddClient
    <2>2. UNCHANGED <<roomVars, task, mu, done, removed>>
      BY <1>0, <1>1, <2>1 DEF roomVars
    <2>3. \A b \in Conn \ {c} : hello'[b] = hello[b]
      BY <2>1 DEF TypeOK
    <2> QED
      BY <1>0, <1>1, <2>1, <2>2, <2>3, QuietStep DEF InRoom, Early
  <1>3. CASE MayJoin(h)
    <2>1. /\ pc' = [pc EXCEPT ![c] = "joined"] /\ hello' = hello
          /\ roomAuth' = [roomAuth EXCEPT ![h.room] = h.auth]
          /\ members' = [members EXCEPT ![h.room][h.dev] = c]
      BY <1>h, <1>3 DEF AddClient
    <2>2. /\ members[h.room][h.dev] = Nobody
          /\ ~Exists(h.room) => Cardinality(Rooms) < MaxRooms
          /\ Exists(h.room) => roomAuth[h.room] = h.auth
          /\ Cardinality(Devices(h.room)) < MaxRoomClients
      BY <1>1, <1>3 DEF MayJoin, Exists
    <2>3. /\ \A r \in Room \ {h.room} : Devices(r)' = Devices(r) /\ members'[r] = members[r]
          /\ Devices(h.room)' = Devices(h.room) \cup {h.dev} /\ h.dev \notin Devices(h.room)
          /\ \A d \in Dev \ {h.dev} : members'[h.room][d] = members[h.room][d]
          /\ members'[h.room][h.dev] = c /\ c # Nobody
      <3>1. c # Nobody
        BY RelayAssumption
      <3>2. \A r \in Room \ {h.room} : members'[r] = members[r]
        BY <1>0, <1>1, <2>1 DEF TypeOK
      <3>3. \A d \in Dev : members'[h.room][d] = IF d = h.dev THEN c ELSE members[h.room][d]
        BY <1>0, <1>1, <2>1 DEF TypeOK
      <3> QED
        BY <1>0, <1>1, <2>2, <3>1, <3>2, <3>3 DEF Devices
    <2>4. /\ Rooms' = Rooms \cup {h.room}
          /\ \A r \in Room : Exists(r)' <=> (Exists(r) \/ r = h.room)
          /\ \A r \in Room : Exists(r) => roomAuth'[r] = roomAuth[r]
          /\ roomAuth'[h.room] = h.auth
      BY <1>0, <1>1, <2>1, <2>2 DEF Rooms, Exists, TypeOK
    <2>5. \A r \in Room : \A d \in Devices(r)' :
             \/ d \in Devices(r) /\ members'[r][d] = members[r][d]
             \/ r = h.room /\ d = h.dev /\ members'[r][d] = c
      BY <2>3 DEF Devices
    <2>6. RoomInv'
      <3>1. Cardinality(Rooms)' <= MaxRooms
        <4>1. CASE Exists(h.room)
          BY <1>0, <1>1, <2>4, <4>1 DEF RoomInv, Rooms
        <4>2. CASE ~Exists(h.room)
          <5>1. Cardinality(Rooms \cup {h.room}) <= Cardinality(Rooms) + 1
            BY TableFinite, FS_AddElement
          <5>2. Cardinality(Rooms) + 1 <= MaxRooms
            BY <2>2, <4>2, TableFinite, RelayAssumption
          <5>3. Cardinality(Rooms \cup {h.room}) \in Nat
            BY TableFinite, FS_AddElement, FS_CardinalityType
          <5> QED
            BY <2>4, <5>1, <5>2, <5>3, TableFinite, RelayAssumption
        <4> QED
          BY <4>1, <4>2
      <3>2. \A r \in Room : Cardinality(Devices(r))' <= MaxRoomClients
        <4>1. IsFiniteSet(Devices(h.room)) /\ Cardinality(Devices(h.room)) \in Nat
          BY <1>0, <1>1, TableFinite
        <4>2. Cardinality(Devices(h.room) \cup {h.dev}) = Cardinality(Devices(h.room)) + 1
          BY <2>3, <4>1, FS_AddElement
        <4>3. Cardinality(Devices(h.room))' <= MaxRoomClients
          BY <2>2, <2>3, <4>1, <4>2, RelayAssumption
        <4>4. \A r \in Room \ {h.room} : Cardinality(Devices(r))' <= MaxRoomClients
          BY <2>3 DEF RoomInv
        <4> QED
          BY <4>3, <4>4
      <3>3. \A r \in Room : Exists(r)' <=> Devices(r)' # {}
        <4> SUFFICES ASSUME NEW r \in Room PROVE Exists(r)' <=> Devices(r)' # {}
          OBVIOUS
        <4>1. CASE r = h.room
          BY <2>3, <2>4, <4>1
        <4>2. CASE r # h.room
          BY <2>3, <2>4, <4>2 DEF RoomInv
        <4> QED
          BY <4>1, <4>2
      <3>4. \A r \in Room : hostAnn'[r] # {} => Exists(r)'
        BY <1>0, <1>1, <2>4 DEF RoomInv
      <3>5. \A r \in Room : \A d \in Devices(r)' :
              hello'[members'[r][d]] = [dev |-> d, room |-> r, auth |-> roomAuth'[r]]
        <4> SUFFICES ASSUME NEW r \in Room, NEW d \in Devices(r)'
                     PROVE hello'[members'[r][d]] = [dev |-> d, room |-> r, auth |-> roomAuth'[r]]
          OBVIOUS
        <4>1. CASE d \in Devices(r) /\ members'[r][d] = members[r][d]
          <5>1. Exists(r)
            BY <4>1 DEF RoomInv
          <5> QED
            BY <2>1, <2>4, <4>1, <5>1 DEF RoomInv
        <4>2. CASE r = h.room /\ d = h.dev /\ members'[r][d] = c
          BY <1>0, <1>1, <1>h, <2>1, <2>4, <4>2 DEF Hello
        <4> QED
          BY <2>5, <4>1, <4>2
      <3> QED
        BY <3>1, <3>2, <3>3, <3>4, <3>5 DEF RoomInv
    <2>7. Leaving'
      BY <1>0, <1>1, <2>1 DEF Leaving, TypeOK
    <2>8. Listed'
      <3>1. \A r \in Room : \A d \in Devices(r)' : pc'[members'[r][d]] \in InRoom
        BY <2>1, <2>5 DEF Listed, InRoom, TypeOK
      <3>2. \A r \in Room : \A d \in Devices(r)' : ~done'[members'[r][d]]
        BY <1>0, <1>1, <2>5 DEF Listed, Fresh, Early
      <3> QED
        BY <1>0, <1>1, <3>1, <3>2 DEF Listed
    <2>9. Fresh'
      BY <1>0, <1>1, <2>1 DEF Fresh, Early, TypeOK
    <2>10. Undisturbed => Undisturbed'
      <3> SUFFICES ASSUME Undisturbed PROVE Undisturbed'
        OBVIOUS
      <3>1. \A b \in Conn : pc'[b] \in InRoom => members'[hello'[b].room][hello'[b].dev] = b
        <4> SUFFICES ASSUME NEW b \in Conn, pc'[b] \in InRoom
                     PROVE members'[hello[b].room][hello[b].dev] = b
          BY <2>1
        <4>1. CASE b = c
          BY <1>h, <2>3, <4>1
        <4>2. CASE b # c
          <5>1. pc[b] \in InRoom /\ hello[b] \in Hello
            BY <2>1, <4>2 DEF TypeOK, Known, InRoom
          <5>2. members[hello[b].room][hello[b].dev] = b /\ b # Nobody
            BY <5>1, RelayAssumption DEF Undisturbed
          <5> QED
            BY <1>0, <1>1, <2>2, <2>3, <5>1, <5>2 DEF Hello
        <4> QED
          BY <4>1, <4>2
      <3>2. \A r \in Room : hostAnn'[r] \subseteq Devices(r)'
        <4> SUFFICES ASSUME NEW r \in Room PROVE hostAnn'[r] \subseteq Devices(r)'
          OBVIOUS
        <4>1. hostAnn'[r] \subseteq Devices(r)
          BY <1>0, <1>1 DEF Undisturbed
        <4>2. Devices(r) \subseteq Devices(r)'
          BY <2>3
        <4> QED
          BY <4>1, <4>2
      <3> QED
        BY <1>0, <1>1, <3>1, <3>2 DEF Undisturbed
    <2> QED
      BY <1>0, <1>1, <2>6, <2>7, <2>8, <2>9, <2>10 DEF RoomIInv
  <1> QED
    BY <1>2, <1>3

LEMMA BroadcastStep ==
  ASSUME TypeIInv, LockIInv, RoomIInv, NEW c \in Conn, RouteBroadcast(c) \/ RouteDone(c)
  PROVE  RoomIInv'
  <1>a. /\ TypeOK /\ Known /\ LockInv
        /\ RoomInv /\ Leaving /\ Listed /\ Fresh /\ (removed \/ Undisturbed)
    BY DEF TypeIInv, LockIInv, RoomIInv
  <1> USE <1>a
  <1>1. CASE RouteBroadcast(c)
    <2>1. /\ pc[c] = "route" /\ mu = Nobody /\ task = None /\ mu' = c
          /\ pc' = [pc EXCEPT ![c] = "send"]
          /\ UNCHANGED <<hello, roomAuth, members, task, done, removed>>
      BY <1>1 DEF RouteBroadcast, Known, chanVars
    <2>2. PICK r \in Room, d \in Dev : r = hello[c].room /\ d = hello[c].dev
      BY <2>1 DEF Known, Hello
    <2>3. /\ hostAnn' \in {hostAnn, [hostAnn EXCEPT ![r] = @ \cup {d}]}
          /\ Exists(r)
      BY <1>1, <2>2 DEF RouteBroadcast, TypeOK
    <2>4. Rooms' = Rooms /\ \A x : Exists(x)' = Exists(x) /\ Devices(x)' = Devices(x)
      BY <2>1 DEF Rooms, Exists, Devices
    <2>5. RoomInv'
      BY <2>1, <2>3, <2>4 DEF RoomInv, TypeOK
    <2>6. Leaving' /\ Listed' /\ Fresh'
      BY <2>1, <2>4, RelayAssumption DEF Leaving, Listed, Fresh, InRoom, Early, TypeOK
    <2>7. Undisturbed => Undisturbed'
      <3> SUFFICES ASSUME Undisturbed PROVE Undisturbed'
        OBVIOUS
      <3>1. members[r][d] = c /\ c # Nobody
        BY <2>1, <2>2, RelayAssumption DEF Undisturbed, InRoom
      <3>2. d \in Devices(r)
        BY <3>1 DEF Devices
      <3>3. \A x \in Room : hostAnn'[x] \subseteq Devices(x)
        <4>1. CASE hostAnn' = hostAnn
          BY <4>1 DEF Undisturbed
        <4>2. CASE hostAnn' = [hostAnn EXCEPT ![r] = @ \cup {d}]
          BY <3>2, <4>2 DEF Undisturbed, TypeOK
        <4> QED
          BY <2>3, <4>1, <4>2
      <3> QED
        BY <2>1, <2>4, <3>3 DEF Undisturbed, InRoom, TypeOK
    <2> QED
      BY <2>1, <2>5, <2>6, <2>7 DEF RoomIInv
  <1>2. CASE RouteDone(c)
    <2>1. /\ pc[c] = "send" /\ mu' = IF mu = c THEN Nobody ELSE mu
          /\ pc' = [pc EXCEPT ![c] = "read"]
          /\ UNCHANGED <<hello, roomVars, task, done, removed>>
      BY <1>2 DEF RouteDone, MuAfter, chanVars
    <2>2. Rooms' = Rooms /\ \A x : Exists(x)' = Exists(x) /\ Devices(x)' = Devices(x)
      BY <2>1, SameTable
    <2>3. RoomInv'
      BY <2>1, <2>2 DEF RoomInv, roomVars
    <2>4. Leaving'
      BY <2>1 DEF Leaving, Known, TypeOK
    <2>5. Listed' /\ Fresh' /\ (Undisturbed => Undisturbed')
      BY <2>1, <2>2 DEF Listed, Dropped, Fresh, Undisturbed, InRoom, Early, roomVars, TypeOK
    <2> QED
      BY <2>1, <2>3, <2>4, <2>5 DEF RoomIInv
  <1> QED
    BY <1>1, <1>2

\* A disconnection begins: what it is to close is, if listed, what it is to drop.
LEMMA StartStep ==
  ASSUME TypeIInv, LockIInv, RoomIInv, TypeIInv',
         \/ \E c \in Conn : Leave(c)
         \/ \E r \in Room : DeleteRoom(r) \/ \E d \in Dev : Kick(r, d)
  PROVE  RoomIInv'
  <1>a. /\ TypeOK /\ Known /\ LockInv
        /\ RoomInv /\ Leaving /\ Listed /\ Fresh /\ (removed \/ Undisturbed)
    BY DEF TypeIInv, LockIInv, RoomIInv
  <1> USE <1>a
  <1>1. /\ mu = Nobody /\ task = None
        /\ UNCHANGED <<hello, roomVars, done>>
    BY DEF Leave, DeleteRoom, Kick, Known, chanVars
  <1>2. Rooms' = Rooms /\ \A x : Exists(x)' = Exists(x) /\ Devices(x)' = Devices(x)
    BY <1>1, SameTable
  <1>3. RoomInv'
    BY <1>1, <1>2 DEF RoomInv, roomVars
  <1>4. \A b \in Conn : pc[b] # "close"
    BY <1>1, RelayAssumption DEF Leaving
  <1>5. \A r \in Room : \A d \in Devices(r) :
          /\ members[r][d] \in Conn /\ ~done[members[r][d]] /\ pc[members[r][d]] \in InRoom
          /\ hello[members[r][d]].room = r /\ hello[members[r][d]].dev = d
    <2> SUFFICES ASSUME NEW r \in Room, NEW d \in Devices(r)
                 PROVE  /\ members[r][d] \in Conn /\ ~done[members[r][d]]
                        /\ pc[members[r][d]] \in InRoom
                        /\ hello[members[r][d]].room = r /\ hello[members[r][d]].dev = d
      OBVIOUS
    <2>1. members[r][d] \in Conn
      BY DEF Devices, TypeOK
    <2>2. hello[members[r][d]] = [dev |-> d, room |-> r, auth |-> roomAuth[r]]
      BY DEF RoomInv
    <2>3. ~done[members[r][d]] /\ pc[members[r][d]] \in InRoom
      BY <1>1 DEF Listed
    <2> QED
      BY <2>1, <2>2, <2>3
  <1>6. ASSUME NEW c \in Conn, Leave(c) PROVE RoomIInv'
    <2>1. /\ pc[c] = "leave" /\ pc' = [pc EXCEPT ![c] = "close"] /\ mu' = c
          /\ task' = [kind |-> "leave", room |-> hello[c].room, dev |-> hello[c].dev,
                      todo |-> StillOpen({c})]
          /\ removed' = removed
      BY <1>6 DEF Leave
    <2>2. /\ task'.kind = "leave" /\ task'.room = hello[c].room /\ task'.dev = hello[c].dev
          /\ task'.todo \subseteq {c} /\ task' # None
      <3>1. hello[c] \in Hello
        BY <2>1 DEF Known
      <3>2. task' \in Task
        BY <2>1, <3>1 DEF Task, Hello, StillOpen
      <3> QED
        BY <2>1, <3>2, RelayAssumption DEF StillOpen
    <2>3. Leaving'
      BY <1>1, <1>4, <2>1, <2>2 DEF Leaving, TypeOK
    <2>4. Listed'
      <3>1. \A r \in Room : \A d \in Devices(r) : pc'[members[r][d]] \in InRoom
        BY <1>5, <2>1 DEF InRoom, TypeOK
      <3>2. \A r \in Room : \A d \in Devices(r) :
              members[r][d] \in task'.todo => Dropped(r, d)'
        BY <1>5, <2>2 DEF Dropped
      <3> QED
        BY <1>1, <1>2, <1>5, <2>2, <3>1, <3>2 DEF Listed, roomVars
    <2>5. Fresh'
      BY <1>1, <2>1, <2>2, ZenonT(60) DEF Fresh, Early, TypeOK
    <2>6. Undisturbed => Undisturbed'
      BY <1>1, <1>2, <2>1, <2>2 DEF Undisturbed, InRoom, roomVars, TypeOK
    <2> QED
      BY <1>3, <2>1, <2>3, <2>4, <2>5, <2>6 DEF RoomIInv
  <1>7. ASSUME NEW r \in Room, DeleteRoom(r) \/ \E d \in Dev : Kick(r, d) PROVE RoomIInv'
    <2>1. pc' = pc /\ mu' = Admin /\ removed' = TRUE
      BY <1>7 DEF DeleteRoom, Kick
    <2>2. /\ task'.kind # "leave" /\ task' # None
          /\ \A x \in task'.todo :
               \E d \in Devices(r) : x = members[r][d] /\ Dropped(r, d)'
      <3>1. CASE DeleteRoom(r)
        <4>1. task' = [kind |-> "delete", room |-> r, dev |-> None,
                       todo |-> StillOpen(Members(r))]
          BY <3>1 DEF DeleteRoom
        <4>2. Members(r) \subseteq Conn /\ \A x \in Members(r) : \E d \in Devices(r) : x = members[r][d]
          BY DEF Members, Devices, TypeOK
        <4>3. task' \in Task
          BY <4>1, <4>2 DEF Task, StillOpen
        <4> QED
          BY <4>1, <4>2, <4>3, RelayAssumption DEF StillOpen, Dropped
      <3>2. ASSUME NEW d \in Dev, Kick(r, d)
            PROVE  /\ task'.kind # "leave" /\ task' # None
                   /\ \A x \in task'.todo :
                        \E e \in Devices(r) : x = members[r][e] /\ Dropped(r, e)'
        <4>1. /\ task' = [kind |-> "kick", room |-> r, dev |-> d,
                          todo |-> StillOpen({members[r][d]})]
              /\ d \in Devices(r)
          BY <3>2 DEF Kick, Devices
        <4>2. task' \in Task
          BY <1>5, <4>1 DEF Task, StillOpen
        <4> QED
          BY <4>1, <4>2, RelayAssumption DEF StillOpen, Dropped
      <3> QED
        BY <1>7, <3>1, <3>2
    <2>3. Leaving'
      BY <1>4, <2>1, <2>2 DEF Leaving
    <2>4. Listed'
      <3>1. \A x \in Room : \A d \in Devices(x) :
              members[x][d] \in task'.todo => Dropped(x, d)'
        BY <1>5, <2>2
      <3> QED
        BY <1>1, <1>2, <1>5, <2>1, <2>2, <3>1 DEF Listed, roomVars
    <2>5. Fresh'
      BY <1>1, <1>5, <2>1, <2>2 DEF Fresh, InRoom, Early
    <2> QED
      BY <1>3, <2>1, <2>3, <2>4, <2>5 DEF RoomIInv
  <1> QED
    BY <1>6, <1>7

\* closeClient marks as shut only what the disconnection is about to drop.
LEMMA CloseStep ==
  ASSUME TypeIInv, LockIInv, RoomIInv, NEW c \in Conn, CloseDone(c) \/ CloseOut(c)
  PROVE  RoomIInv'
  <1>a. /\ TypeOK /\ RoomInv /\ Leaving /\ Listed /\ Fresh /\ (removed \/ Undisturbed)
    BY DEF TypeIInv, RoomIInv
  <1> USE <1>a
  <1>1. /\ task \in Task /\ task # None /\ c \in task.todo
        /\ UNCHANGED <<pc, hello, mu, roomVars, removed>>
    BY DEF CloseDone, CloseOut, TypeOK
  <1>2. /\ task' # None /\ task'.todo \subseteq task.todo
        /\ task'.kind = task.kind /\ task'.room = task.room /\ task'.dev = task.dev
        /\ \A b \in Conn : done'[b] => done[b] \/ b \in task.todo
    <2>1. CASE CloseDone(c)
      BY <1>1, <2>1 DEF CloseDone, TypeOK
    <2>2. CASE CloseOut(c)
      <3>1. task' = [task EXCEPT !.todo = @ \ {c}] /\ done' = done
        BY <2>2 DEF CloseOut
      <3>2. task' \in Task /\ task'.todo = task.todo \ {c}
            /\ task'.kind = task.kind /\ task'.room = task.room /\ task'.dev = task.dev
        BY <1>1, <3>1 DEF Task
      <3> QED
        BY <3>1, <3>2, RelayAssumption
    <2> QED
      BY <2>1, <2>2
  <1>3. Rooms' = Rooms /\ \A x : Exists(x)' = Exists(x) /\ Devices(x)' = Devices(x)
    BY <1>1, SameTable
  <1>4. RoomInv' /\ Leaving'
    BY <1>1, <1>2, <1>3 DEF RoomInv, Leaving, roomVars
  <1>5. Listed'
    <2>1. \A r \in Room : \A d \in Devices(r) :
            done'[members[r][d]] \/ members[r][d] \in task'.todo => Dropped(r, d)
      <3> SUFFICES ASSUME NEW r \in Room, NEW d \in Devices(r),
                          done'[members[r][d]] \/ members[r][d] \in task'.todo
                   PROVE  Dropped(r, d)
        OBVIOUS
      <3>1. members[r][d] \in Conn
        BY DEF Devices, TypeOK
      <3> QED
        BY <1>1, <1>2, <3>1 DEF Listed
    <2>2. \A r, d : Dropped(r, d)' = Dropped(r, d)
      BY <1>2 DEF Dropped
    <2> QED
      BY <1>1, <1>2, <1>3, <2>1, <2>2 DEF Listed, roomVars
  <1>6. Fresh' /\ (Undisturbed => Undisturbed')
    BY <1>1, <1>2, <1>3 DEF Fresh, Undisturbed, roomVars
  <1> QED
    BY <1>1, <1>4, <1>5, <1>6 DEF RoomIInv

\* What TaskDone makes of the table.
LEMMA TableAfter ==
  ASSUME TypeIInv, RoomInv, TaskDone
  PROVE  /\ \A r \in Room, d \in Dev :
              members'[r][d] = IF Dropped(r, d) THEN Nobody ELSE members[r][d]
         /\ \A r \in Room : roomAuth'[r] = IF Devices(r)' = {} THEN None ELSE roomAuth[r]
         /\ \A r \in Room : Devices(r)' = {} => hostAnn'[r] = {}
         /\ \A r \in Room : hostAnn'[r] \subseteq hostAnn[r]
         /\ task.dev \notin hostAnn'[task.room] \/ task.kind = "delete"
  <1>a. TypeOK /\ Known
    BY DEF TypeIInv
  <1>0. PICK r \in Room, d \in Dev \cup {None} : r = task.room /\ d = task.dev /\ task.kind \in {"leave", "kick", "delete"}
    BY <1>a DEF TaskDone, TypeOK, Task
  <1>1. \A x \in Room \ {r} :
          /\ members'[x] = members[x] /\ roomAuth'[x] = roomAuth[x] /\ hostAnn'[x] = hostAnn[x]
          /\ Devices(x)' = Devices(x)
    <2>1. \A x \in Room \ {r} :
            members'[x] = members[x] /\ roomAuth'[x] = roomAuth[x] /\ hostAnn'[x] = hostAnn[x]
      <3>1. CASE DropRoom(r)
        BY <1>a, <3>1 DEF DropRoom, TypeOK
      <3>2. CASE DropDevice(r, d) /\ Exists(r)
        BY <1>a, <3>2 DEF DropDevice, TypeOK
      <3>3. CASE DropDevice(r, d) /\ ~Exists(r)
        BY <3>3 DEF DropDevice, roomVars
      <3> QED
        BY <1>0, <3>1, <3>2, <3>3 DEF TaskDone
    <2> QED
      BY <2>1 DEF Devices
  <1>2. CASE task.kind = "delete"
    <2>1. /\ members'[r] = NoMembers /\ roomAuth'[r] = None /\ hostAnn'[r] = {}
      BY <1>a, <1>0, <1>2 DEF TaskDone, DropRoom, TypeOK
    <2>2. Devices(r)' = {} /\ \A e \in Dev : members'[r][e] = Nobody
      BY <2>1 DEF Devices, NoMembers
    <2> QED
      BY <1>0, <1>1, <1>2, <2>1, <2>2 DEF Dropped, RoomInv, Exists
  <1>3. CASE task.kind # "delete" /\ ~Exists(r)
    <2>1. UNCHANGED roomVars
      BY <1>0, <1>3 DEF TaskDone, DropDevice
    <2>2. Devices(r) = {} /\ hostAnn[r] = {} /\ roomAuth[r] = None
      BY <1>3 DEF RoomInv, Exists
    <2>3. \A e \in Dev : members[r][e] = Nobody
      BY <2>2 DEF Devices
    <2> QED
      BY <1>0, <1>1, <1>3, <2>1, <2>2, <2>3 DEF Dropped, roomVars, RoomInv, Exists, Devices
  <1>4. CASE task.kind # "delete" /\ Exists(r)
    <2>1. d \in Dev
      BY <1>a, <1>0, <1>4 DEF TaskDone, Known
    <2> DEFINE left == [members[r] EXCEPT ![d] = Nobody]
    <2>2. /\ members' = [members EXCEPT ![r] = left]
          /\ hostAnn' = [hostAnn EXCEPT ![r] = IF left = NoMembers THEN {} ELSE @ \ {d}]
          /\ roomAuth' = [roomAuth EXCEPT ![r] = IF left = NoMembers THEN None ELSE @]
      BY <1>0, <1>4 DEF TaskDone, DropDevice
    <2>3. \A e \in Dev : left[e] = IF e = d THEN Nobody ELSE members[r][e]
      BY <1>a DEF TypeOK
    <2>4. left \in [Dev -> Conn \cup {Nobody}] /\ members'[r] = left
      BY <1>a, <2>2 DEF TypeOK
    <2>5. left = NoMembers <=> \A e \in Dev : left[e] = Nobody
      BY <2>4 DEF NoMembers
    <2> HIDE DEF left
    <2>6. Devices(r)' = {} <=> left = NoMembers
      BY <2>4, <2>5 DEF Devices
    <2>7. /\ hostAnn'[r] = IF left = NoMembers THEN {} ELSE hostAnn[r] \ {d}
          /\ roomAuth'[r] = IF left = NoMembers THEN None ELSE roomAuth[r]
      BY <1>a, <2>2 DEF TypeOK
    <2>8. \A x \in Room \ {r} : roomAuth'[x] = IF Devices(x)' = {} THEN None ELSE roomAuth[x]
      BY <1>1 DEF RoomInv, Exists
    <2>9. \A x \in Room \ {r} : Devices(x)' = {} => hostAnn'[x] = {}
      BY <1>1 DEF RoomInv
    <2> QED
      BY <1>0, <1>1, <1>4, <2>1, <2>3, <2>4, <2>6, <2>7, <2>8, <2>9 DEF Dropped
  <1> QED
    BY <1>2, <1>3, <1>4

LEMMA DoneStep ==
  ASSUME TypeIInv, LockIInv, RoomIInv, TaskDone
  PROVE  RoomIInv'
  <1>a. /\ TypeOK /\ Known /\ LockInv
        /\ RoomInv /\ Leaving /\ Listed /\ Fresh /\ (removed \/ Undisturbed)
    BY DEF TypeIInv, LockIInv, RoomIInv
  <1> USE <1>a
  <1>1. /\ task # None /\ task' = None /\ mu' = Nobody
        /\ UNCHANGED <<done, removed>>
        /\ mu \in Conn => /\ pc' = [pc EXCEPT ![mu] = "gone"]
                          /\ hello' = [hello EXCEPT ![mu] = None]
                          /\ pc[mu] = "close"
        /\ mu \notin Conn => pc' = pc /\ hello' = hello
    BY DEF TaskDone, Known, chanVars
  <1>2. \A r \in Room : \A d \in Devices(r)' :
          /\ d \in Devices(r) /\ ~Dropped(r, d) /\ members'[r][d] = members[r][d]
          /\ members[r][d] \in Conn
    BY TableAfter DEF Devices, TypeOK
  <1>3. \A r \in Room : \A d \in Devices(r)' :
          members[r][d] # mu
    <2> SUFFICES ASSUME NEW r \in Room, NEW d \in Devices(r)', members[r][d] = mu
                 PROVE FALSE
      OBVIOUS
    <2>1. hello[mu].room = r /\ hello[mu].dev = d /\ mu \in Conn
      <3>1. d \in Devices(r) /\ mu \in Conn
        BY <1>2
      <3>2. hello[mu] = [dev |-> d, room |-> r, auth |-> roomAuth[r]]
        BY <3>1 DEF RoomInv
      <3> QED
        BY <3>1, <3>2
    <2>2. task.room = r /\ task.dev = d
      BY <1>1, <2>1 DEF Leaving
    <2> QED
      BY <1>2, <2>2 DEF Dropped
  <1>4. \A r \in Room : \A d \in Devices(r)' :
          /\ hello'[members[r][d]] = hello[members[r][d]]
          /\ pc'[members[r][d]] = pc[members[r][d]]
    BY <1>1, <1>2, <1>3 DEF TypeOK
  <1>5. RoomInv'
    <2>1. \A r \in Room : Devices(r)' \subseteq Devices(r)
      BY <1>2
    <2>2. \A r \in Room : (Exists(r)' <=> Devices(r)' # {}) /\ (Exists(r)' => roomAuth'[r] = roomAuth[r])
      BY <2>1, TableAfter DEF RoomInv, Exists
    <2>3. Rooms' \subseteq Rooms
      BY <2>2 DEF Rooms, Exists
    <2>4. Cardinality(Rooms') <= MaxRooms
      <3>1. Cardinality(Rooms') <= Cardinality(Rooms) /\ Cardinality(Rooms') \in Nat
        BY <2>3, TableFinite, FS_Subset, FS_CardinalityType
      <3> QED
        BY <3>1, TableFinite, RelayAssumption DEF RoomInv
    <2>5. \A r \in Room : Cardinality(Devices(r)') <= MaxRoomClients
      <3> SUFFICES ASSUME NEW r \in Room PROVE Cardinality(Devices(r)') <= MaxRoomClients
        OBVIOUS
      <3>1. Cardinality(Devices(r)') <= Cardinality(Devices(r)) /\ Cardinality(Devices(r)') \in Nat
        BY <2>1, TableFinite, FS_Subset, FS_CardinalityType
      <3> QED
        BY <3>1, TableFinite, RelayAssumption DEF RoomInv
    <2>6. \A r \in Room : hostAnn'[r] # {} => Exists(r)'
      BY <2>2, TableAfter
    <2>7. \A r \in Room : \A d \in Devices(r)' :
            hello'[members'[r][d]] = [dev |-> d, room |-> r, auth |-> roomAuth'[r]]
      BY <1>2, <1>4, <2>2 DEF RoomInv
    <2> QED
      BY <2>2, <2>4, <2>5, <2>6, <2>7 DEF RoomInv
  <1>6. Leaving'
    <2>1. \A b \in Conn : pc'[b] # "close"
      BY <1>1 DEF Leaving, TypeOK
    <2> QED
      BY <1>1, <2>1 DEF Leaving
  <1>7. Listed'
    BY <1>1, <1>2, <1>4 DEF Listed
  <1>8. Fresh'
    BY <1>1 DEF Fresh, Early, TypeOK
  <1>9. Undisturbed => Undisturbed'
    <2> SUFFICES ASSUME Undisturbed PROVE Undisturbed'
      OBVIOUS
    <2>1. /\ task.kind = "leave" /\ mu \in Conn /\ hello[mu] \in Hello
          /\ task.room = hello[mu].room /\ task.dev = hello[mu].dev
          /\ members[task.room][task.dev] = mu
      BY <1>1 DEF Undisturbed, Leaving, Known, InRoom
    <2>2. ASSUME NEW b \in Conn, pc'[b] \in InRoom
          PROVE  members'[hello'[b].room][hello'[b].dev] = b
      <3>1. b # mu /\ pc[b] \in InRoom /\ hello'[b] = hello[b] /\ hello[b] \in Hello
        BY <1>1, <2>1, <2>2 DEF InRoom, Known, TypeOK
      <3>2. members[hello[b].room][hello[b].dev] = b
        BY <3>1 DEF Undisturbed
      <3>3. ~Dropped(hello[b].room, hello[b].dev)
        BY <2>1, <3>1, <3>2 DEF Dropped
      <3> QED
        BY <3>1, <3>2, <3>3, TableAfter DEF Hello
    <2>3. ASSUME NEW r \in Room
          PROVE  hostAnn'[r] \subseteq Devices(r)'
      <3>1. hostAnn'[r] \subseteq Devices(r) /\ \A e \in hostAnn'[r] : ~Dropped(r, e)
        BY <2>1, TableAfter DEF Undisturbed, Dropped
      <3> QED
        BY <3>1, TableAfter DEF Devices
    <2> QED
      BY <1>1, <2>2, <2>3 DEF Undisturbed
  <1> QED
    BY <1>1, <1>5, <1>6, <1>7, <1>8, <1>9 DEF RoomIInv

LEMMA RoomStep ==
  ASSUME TypeIInv, LockIInv, RoomIInv, [Next]_vars
  PROVE  RoomIInv'
  <1>a. TypeOK /\ TypeIInv'
    BY TypeStep DEF TypeIInv
  <1>1. ASSUME NEW c \in Conn, Accept(c) \/ HandshakeFails(c) \/ Authenticated(c)
               \/ ReadFails(c) \/ RouteUnicast(c) \/ RouteNowhere(c)
        PROVE  RoomIInv'
    <2>1. UNCHANGED <<roomVars, task, mu, done, removed>> /\ hello' = hello
      BY <1>1 DEF Accept, HandshakeFails, Authenticated, ReadFails, RouteUnicast,
                  RouteNowhere, chanVars
    <2>2. \E q : /\ pc' = [pc EXCEPT ![c] = q] /\ q # "close" /\ pc[c] # "close"
                 /\ q \in Early => pc[c] \in Early
                 /\ q \in InRoom <=> pc[c] \in InRoom
      BY <1>1 DEF Accept, HandshakeFails, Authenticated, ReadFails, RouteUnicast,
                  RouteNowhere, Early, InRoom
    <2> QED
      BY <1>a, <2>1, <2>2, QuietStep
  <1>2. ASSUME NEW c \in Conn, NEW h \in Hello, NEW k \in Key, ClientHello(c, h, k)
        PROVE  RoomIInv'
    <2>1. UNCHANGED <<roomVars, task, mu, done, removed>> /\ pc[c] = "hello"
      BY <1>2 DEF ClientHello, chanVars
    <2>2. PICK q \in {"join", "gone"} :
            pc' = [pc EXCEPT ![c] = q] /\ \A b \in Conn \ {c} : hello'[b] = hello[b]
      BY <1>a, <1>2 DEF ClientHello, TypeOK
    <2> QED
      BY <1>a, <2>1, <2>2, QuietStep DEF Early, InRoom
  <1>3. ASSUME NEW c \in Conn, NEW p \in Sent, Read(c, p) PROVE RoomIInv'
    <2>1. /\ UNCHANGED <<roomVars, task, mu, done, removed>> /\ hello' = hello
          /\ pc[c] = "read" /\ pc' = [pc EXCEPT ![c] = "route"]
      BY <1>3 DEF Read, chanVars
    <2> QED
      BY <1>a, <2>1, QuietStep DEF Early, InRoom
  <1>4. ASSUME NEW c \in Conn, AddClient(c) PROVE RoomIInv'
    BY <1>4, JoinStep
  <1>5. ASSUME NEW c \in Conn, RouteBroadcast(c) \/ RouteDone(c) PROVE RoomIInv'
    BY <1>5, BroadcastStep
  <1>6. CASE \/ \E c \in Conn : Leave(c)
             \/ \E r \in Room : DeleteRoom(r) \/ \E d \in Dev : Kick(r, d)
    BY <1>6, <1>a, StartStep
  <1>7. ASSUME NEW c \in Conn, CloseDone(c) \/ CloseOut(c) PROVE RoomIInv'
    BY <1>7, CloseStep
  <1>8. CASE TaskDone
    BY <1>8, DoneStep
  <1>9. CASE UNCHANGED <<pc, hello, roomVars, task, mu, done, removed>>
    BY <1>9, FrozenStep
  <1>10. ASSUME NEW c \in Conn,
                \/ UnblockBySpace(c) \/ UnblockByDone(c) \/ Write(c) \/ PeerVanishes(c)
                \/ \E s \in NextSends(c) : Enqueue(c, s) \/ EnqueueBlocks(c, s)
         PROVE  UNCHANGED <<pc, hello, roomVars, task, mu, done, removed>>
    BY <1>10 DEF UnblockBySpace, UnblockByDone, Write, WriterSends, WriterFails,
                 PeerVanishes, Enqueue, EnqueueBlocks, chanVars
  <1>11. ASSUME NEW k \in Key, RotateServerKey(k)
         PROVE  UNCHANGED <<pc, hello, roomVars, task, mu, done, removed>>
    BY <1>11 DEF RotateServerKey, chanVars
  <1>12. CASE UNCHANGED vars
    BY <1>9, <1>12 DEF vars, chanVars
  <1> QED
    BY <1>1, <1>2, <1>3, <1>4, <1>5, <1>6, <1>7, <1>8, <1>9, <1>10, <1>11, <1>12
    DEF Next, Serve, Route, Close, AdminCall

LEMMA Inductive == Spec => [](TypeIInv /\ LockIInv /\ RoomIInv)
  BY TypeInit, TypeStep, LockInit, LockStep, RoomInit, RoomStep, PTL DEF Spec

-----------------------------------------------------------------------------
\* The room table is consistent in every state (lines 245-276, 294-306,
\* 544-576): see RoomInv.
THEOREM RoomsConsistent == Spec => []RoomInv
  BY Inductive, PTL DEF RoomIInv

\* A routed packet never meets a client that is listed and shut (lines 278-306).
THEOREM ClosedNotListed == Spec => []MembersAreOpen
  <1>1. RoomIInv /\ TypeIInv => MembersAreOpen
    <2> SUFFICES ASSUME RoomIInv, TypeIInv, task = None,
                        NEW r \in Room, NEW c \in Members(r)
                 PROVE  ~done[c]
      BY DEF MembersAreOpen
    <2>1. PICK d \in Devices(r) : c = members[r][d]
      BY DEF Members, Devices
    <2> QED
      BY <2>1 DEF RoomIInv, Listed
  <1> QED
    BY <1>1, Inductive, PTL

\* Until the admin API throws somebody out, every client in service is the one
\* its room lists under its device id (lines 270, 294-312).
THEOREM NobodyLosesHisPlace == Spec => []MembershipExact
  <1>1. RoomIInv => MembershipExact
    BY DEF RoomIInv, Undisturbed, MembershipExact, Serving, InRoom
  <1> QED
    BY <1>1, Inductive, PTL

-----------------------------------------------------------------------------
(* The cached announcements.                                               *)

\* Every cached announcement is of a device whose client's goroutine runs.
Announced ==
  \A r \in Room : \A d \in hostAnn[r] : \E c \in Conn : RunsAs(c, r, d)

LEMMA RunsAsIs ==
  ASSUME NEW c \in Conn, NEW r, NEW d
  PROVE  RunsAs(c, r, d) <=> pc[c] \in InRoom /\ hello[c].room = r /\ hello[c].dev = d
  BY DEF RunsAs, Serving, InRoom

\* No step but the last one of removeClient takes a client out of its room, and
\* nobody but a client that is routing adds an announcement, its own.
LEMMA AnnouncedGrows ==
  ASSUME TypeIInv, Announced,
         \A c \in Conn : pc[c] \in InRoom => pc'[c] \in InRoom /\ hello'[c] = hello[c],
         NEW a \in Conn, pc[a] \in InRoom,
         \A r \in Room : \A d \in hostAnn'[r] :
           d \in hostAnn[r] \/ (hello[a].room = r /\ hello[a].dev = d)
  PROVE  Announced'
  <1> SUFFICES ASSUME NEW r \in Room, NEW d \in hostAnn'[r]
               PROVE  \E c \in Conn : RunsAs(c, r, d)'
    BY DEF Announced
  <1>1. PICK c \in Conn : RunsAs(c, r, d)
    <2>1. CASE d \in hostAnn[r]
      BY <2>1 DEF Announced
    <2>2. CASE d \notin hostAnn[r]
      BY <2>2, RunsAsIs
    <2> QED
      BY <2>1, <2>2
  <1>2. pc'[c] \in InRoom /\ hello'[c] = hello[c] /\ hello[c].room = r /\ hello[c].dev = d
    BY <1>1, RunsAsIs
  <1> QED
    BY <1>2 DEF RunsAs, Serving, InRoom

LEMMA AnnouncedStays ==
  ASSUME Announced, hostAnn' = hostAnn,
         \A c \in Conn : pc[c] \in InRoom => pc'[c] \in InRoom /\ hello'[c] = hello[c]
  PROVE  Announced'
  <1> SUFFICES ASSUME NEW r \in Room, NEW d \in hostAnn[r]
               PROVE  \E c \in Conn : RunsAs(c, r, d)'
    BY DEF Announced
  <1>1. PICK c \in Conn : RunsAs(c, r, d)
    BY DEF Announced
  <1>2. pc'[c] \in InRoom /\ hello'[c] = hello[c] /\ hello[c].room = r /\ hello[c].dev = d
    BY <1>1, RunsAsIs
  <1> QED
    BY <1>2 DEF RunsAs, Serving, InRoom

\* The end of a disconnection takes the announcement away with the client.
LEMMA AnnouncedEnds ==
  ASSUME TypeIInv, LockIInv, RoomIInv, Announced, TaskDone
  PROVE  Announced'
  <1>a. TypeOK /\ Known /\ RoomInv /\ Leaving
    BY DEF TypeIInv, RoomIInv
  <1>1. /\ task # None
        /\ mu \in Conn => /\ pc' = [pc EXCEPT ![mu] = "gone"]
                          /\ hello' = [hello EXCEPT ![mu] = None]
                          /\ pc[mu] = "close"
        /\ mu \notin Conn => pc' = pc /\ hello' = hello
    BY <1>a DEF TaskDone, Known
  <1> SUFFICES ASSUME NEW r \in Room, NEW d \in hostAnn'[r]
               PROVE  \E c \in Conn : RunsAs(c, r, d)'
    BY DEF Announced
  <1>2. PICK c \in Conn : RunsAs(c, r, d)
    BY <1>a, TableAfter DEF Announced
  <1>3. pc[c] \in InRoom /\ hello[c].room = r /\ hello[c].dev = d
    BY <1>2, RunsAsIs
  <1>4. c # mu
    <2> SUFFICES ASSUME c = mu PROVE FALSE
      OBVIOUS
    <2>1. task.kind = "leave" /\ task.room = r /\ task.dev = d
      BY <1>a, <1>1, <1>3 DEF Leaving
    <2> QED
      BY <1>a, <2>1, TableAfter
  <1>5. pc'[c] = pc[c] /\ hello'[c] = hello[c]
    BY <1>a, <1>1, <1>4 DEF TypeOK
  <1> QED
    BY <1>3, <1>5 DEF RunsAs, Serving, InRoom

LEMMA AnnouncedStep ==
  ASSUME TypeIInv, LockIInv, RoomIInv, Announced, [Next]_vars
  PROVE  Announced'
  <1>a. TypeOK /\ Known
    BY DEF TypeIInv
  <1>1. ASSUME NEW c \in Conn, Serve(c) PROVE Announced'
    <2>1. /\ hostAnn' = hostAnn
          /\ \A b \in Conn \ {c} : pc'[b] = pc[b] /\ hello'[b] = hello[b]
          /\ pc[c] \in InRoom => pc'[c] \in InRoom /\ hello'[c] = hello[c]
      BY <1>a, <1>1 DEF Serve, Accept, HandshakeFails, AddClient, Authenticated,
                        ClientHello, InRoom, TypeOK, roomVars
    <2> QED
      BY <2>1, AnnouncedStays
  <1>2. ASSUME NEW c \in Conn, RouteBroadcast(c) PROVE Announced'
    <2>1. /\ hello' = hello /\ pc[c] = "route" /\ pc' = [pc EXCEPT ![c] = "send"]
          /\ \A r \in Room : \A d \in hostAnn'[r] :
               d \in hostAnn[r] \/ (hello[c].room = r /\ hello[c].dev = d)
      BY <1>a, <1>2 DEF RouteBroadcast, TypeOK
    <2>2. \A b \in Conn : pc[b] \in InRoom => pc'[b] \in InRoom
      BY <1>a, <2>1 DEF InRoom, TypeOK
    <2>3. pc[c] \in InRoom
      BY <2>1 DEF InRoom
    <2> QED
      BY <2>1, <2>2, <2>3, AnnouncedGrows
  <1>3. ASSUME NEW c \in Conn,
               \/ RouteUnicast(c) \/ RouteNowhere(c) \/ RouteDone(c)
               \/ Leave(c) \/ ReadFails(c) \/ \E p \in Sent : Read(c, p)
        PROVE  Announced'
    <2>1. /\ hostAnn' = hostAnn /\ hello' = hello
          /\ \A b \in Conn : pc[b] \in InRoom => pc'[b] \in InRoom
      BY <1>a, <1>3 DEF RouteUnicast, RouteNowhere, RouteDone, Leave, ReadFails,
                        Read, InRoom, TypeOK, roomVars
    <2> QED
      BY <2>1, AnnouncedStays
  <1>4. CASE UNCHANGED <<pc, hello, hostAnn>>
    BY <1>4, AnnouncedStays
  <1>5. CASE TaskDone
    BY <1>5, AnnouncedEnds
  <1>6. ASSUME NEW c \in Conn,
               \/ UnblockBySpace(c) \/ UnblockByDone(c) \/ Write(c) \/ PeerVanishes(c)
               \/ CloseDone(c) \/ CloseOut(c)
               \/ \E s \in NextSends(c) : Enqueue(c, s) \/ EnqueueBlocks(c, s)
        PROVE  UNCHANGED <<pc, hello, hostAnn>>
    BY <1>6 DEF UnblockBySpace, UnblockByDone, Write, WriterSends, WriterFails,
                PeerVanishes, CloseDone, CloseOut, Enqueue, EnqueueBlocks, roomVars
  <1>7. CASE AdminCall
    BY <1>4, <1>7 DEF AdminCall, DeleteRoom, Kick, RotateServerKey, roomVars
  <1>8. CASE UNCHANGED vars
    BY <1>4, <1>8 DEF vars, roomVars
  <1> QED
    BY <1>1, <1>2, <1>3, <1>4, <1>5, <1>6, <1>7, <1>8 DEF Next, Route, Close

\* DISCOVER never presents a host that has left; of those the admin API has
\* thrown out it may until their goroutine ends (lines 299-300, 663-674).
THEOREM NoStaleAnnouncement == Spec => []AnnouncersAreMembers
  <1>1. Init => Announced
    BY DEF Init, Announced
  <1>2. TypeIInv /\ RoomIInv /\ Announced => AnnouncersAreMembers
    <2> SUFFICES ASSUME TypeIInv, RoomIInv, Announced, NEW r \in Room, NEW d \in hostAnn[r],
                        d \notin Devices(r)
                 PROVE  removed /\ \E c \in Conn : RunsAs(c, r, d)
      BY DEF AnnouncersAreMembers
    <2>1. removed
      BY DEF RoomIInv, Undisturbed
    <2> QED
      BY <2>1 DEF Announced
  <1>3. TypeIInv /\ LockIInv /\ RoomIInv /\ Announced /\ [Next]_vars => Announced'
    BY AnnouncedStep
  <1> QED
    BY <1>1, <1>2, <1>3, Inductive, PTL DEF Spec
=============================================================================
