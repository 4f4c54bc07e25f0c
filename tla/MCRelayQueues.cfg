SPECIFICATION Spec
CONSTANTS
  Conn = {c1, c2}
  Dev = {d1, d2}
  Bcast = bcast
  Room = {r1}
  Auth = {a1}
  Key = {k1, k2}
  Sent <- Traffic
  Readers = {c1, c2}
  MaxClients = 2
  MaxRooms = 1
  MaxRoomClients = 2
  OutQueue = 1
  Nobody = nobody
  Admin = admin
  None = none
SYMMETRY Symm
INVARIANTS LockInv AnnouncersAreMembers
PROPERTY MailboxSpec
CHECK_DEADLOCK FALSE
