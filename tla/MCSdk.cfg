SPECIFICATION SdkSpec
CONSTANTS
  \* wire
  Lengths = {0, 1, 2, 3, 4, 5, 8, 15, 27}
  Few = {0, 5}
  MaxWords = 27
  Room = 2
  Calls <- AllCalls
  SeqMax = 2
  Skips = 1
  MaxCalls = 3
  MaxFaults = 1
  \* stream
  Ids = {1, 2}
  FileSize = 3
  Slots = 2
  Most = 2
  StreamWrap = 2
  \* file
  MaxHandles = 2
  MaxCart = 2
  MaxRemote = 1
  Size = 1
  Huge = 2
  MaxMishaps = 1
  \* copy
  Sizes = {0, 1, 4, 5}
  Limits = {1, 3, 4}
  Buffers = {2, 5}
  Unit = 2
  \* sockets
  MaxFds = 2
  NetHandles = {h1, h2}
  NoHandle = NoHandle
  TxLength = 2
  Attempts = 2
  FrameMax = 2
  \* ble
  Conns = {c1, c2}
  Peers = {p1, p2}
  NoOne = NoOne
  Polls = 2
  QueueMax = 2
  MaxWrites = 2
  \* checksums
  FileBytes = {{0}, {1}}
  StrayByte = {0, 7}
  MaxFile = 3
  ChunkSizes = {1, 2}
  CheckBuffers = {1, 2}
  Capacities = {1, 3}
  \* game database
  Codes = {1, 2, 3, 4, 5, 6}
  SaveOf <- GameSaves
  MaxRecords = 6
  \* directory listings
  Costs = {0, 1, 2}
  PageMax = 2
  AnswerRoom = 3
  DirRoom = 3
  GuardMax = 1
  MaxNames = 5
  \* calls on sockets
  Descriptors = {1, 2}
  Senders = {s1}
  Nobody = Nobody
  Waiting = 1
  Rounds = 2
  Asks <- SelectAsks
  \* texts and packets
  AddrBytes = {0, 9, 10, 99, 100, 199, 255}
  Ports = {80, 6553, 65535, 65536, 99999}
  Fields <- AdvFields
  Uuids <- AdvUuids
  MaxFields = 3
  AdvMax = 9
INVARIANTS
  AnswerIsOwn
  Consecutive NoOrphans
  PositionsAgree OneOwner
  CopyIsClean
  DescriptorsOwned
  NothingDangles
  VerifiedIsEqual SearchFinds
  ListedOnce ToldTrue TakenForWhatItIs
CHECK_DEADLOCK FALSE
