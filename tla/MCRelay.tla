------------------------------- MODULE MCRelay -------------------------------
(* Instances of RelayServer for TLC: the packet types of each run and the    *)
(* symmetry of the model values, which no definition tells apart.            *)
EXTENDS RelayServer, TLC

Of(types) == [typ : types, target : Target]
DataOnly == Of({"data"})
Announcements == Of({"announce"})
\* Nothing but announcements to everybody: all that routing writes in a room.
Broadcasts == {[typ |-> "announce", target |-> Bcast]}
\* Every path through routePacket and enqueue.
Traffic == [typ : {"announce", "discover"}, target : {Bcast}]
             \cup [typ : {"data", "control"}, target : Dev]

\* Two clients, each in service under its own device id: where the liveness
\* runs start.  Init leads here by ClientHello, AddClient and Authenticated.
TwoClients ==
  LET who == CHOOSE f \in [Conn -> Dev] : \A b, c \in Conn : b # c => f[b] # f[c]
  IN  \E r \in Room, a \in Auth, k \in Key :
    /\ pc = [c \in Conn |-> "read"]
    /\ hello = [c \in Conn |-> [dev |-> who[c], room |-> r, auth |-> a]]
    /\ up = [c \in Conn |-> TRUE]
    /\ serverKey = k
    /\ clients = Cardinality(Conn)
    /\ mu = Nobody
    /\ roomAuth = [x \in Room |-> IF x = r THEN a ELSE None]
    /\ members = [x \in Room |-> [d \in Dev |->
                    IF x # r THEN Nobody ELSE CHOOSE c \in Conn : who[c] = d]]
    /\ hostAnn = [x \in Room |-> {}]
    /\ pkt = [c \in Conn |-> None]
    /\ anns = [c \in Conn |-> {}]
    /\ dests = [c \in Conn |-> {}]
    /\ wait = [c \in Conn |-> None]
    /\ outMu = [c \in Conn |-> Nobody]
    /\ out = [c \in Conn |-> <<>>]
    /\ done = [c \in Conn |-> FALSE]
    /\ closed = [c \in Conn |-> FALSE]
    /\ stopped = [c \in Conn |-> FALSE]
    /\ task = None
    /\ removed = FALSE

LiveSpec == TwoClients /\ [][Next]_vars /\ Fairness

Symm == Permutations(Conn) \cup Permutations(Dev) \cup Permutations(Room)
          \cup Permutations(Auth) \cup Permutations(Key)
=============================================================================
