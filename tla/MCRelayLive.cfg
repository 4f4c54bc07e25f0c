SPECIFICATION LiveSpec
CONSTANTS
  Conn = {c1, c2}
  Dev = {d1, d2}
  Bcast = bcast
  Room = {r1}
  Auth = {a1}
  Key = {k1}
  Sent <- Announcements
  Readers = {c1}
  MaxClients = 2
  MaxRooms = 1
  MaxRoomClients = 2
  OutQueue = 1
  Nobody = nobody
  Admin = admin
  None = none
PROPERTIES DisconnectionCompletes RoutingCompletes
CHECK_DEADLOCK FALSE
