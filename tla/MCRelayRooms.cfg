SPECIFICATION Spec
CONSTANTS
  Conn = {c1, c2, c3}
  Dev = {d1, d2, d3}
  Bcast = bcast
  Room = {r1, r2}
  Auth = {a1, a2}
  Key = {k1}
  Sent <- Broadcasts
  Readers = {c1, c2, c3}
  MaxClients = 3
  MaxRooms = 1
  MaxRoomClients = 2
  OutQueue = 1
  Nobody = nobody
  Admin = admin
  None = none
SYMMETRY Symm
INVARIANTS RoomInv MembersAreOpen MembershipExact
CHECK_DEADLOCK FALSE
