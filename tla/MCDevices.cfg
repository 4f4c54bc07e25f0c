SPECIFICATION DevicesSpec
CONSTANTS
  PrgWindows = 2
  PrgSlots = 2
  GroupPages = 2
  PrgPages = 6
  PrgCalls <- SmallPrg
  PrgSaved <- SmallPrgSaved
  ChrWindows = 2
  ChrSlots = 4
  ChrPages = 5
  ChrBanks = 8
  RamBanks = {6}
  ChrCalls <- SmallChr
  ChrSaved <- SmallChrSaved
  MaxFailures = 1
  None = None
  Ram = Ram
  Bad = Bad
  SlotCount = 3
  SlotSize = 2
  Byte = {x, y}
  Wrap = 2
  NoView = NoView
  Blocks <- TwoRegions
  Reversed = FALSE
  BufferSize = 4
  ChunkLengths = {3, 6, 16}
  Totals = {0, 7, 8}
  MaxImages = 2
  Blank = Blank
  Mixed = Mixed
  Nowhere = Nowhere
  BankSize = 4
  SectorSize = 2
  UnitSize = 2
  Values = 4
  Data = {1, 3}
  SaveLengths = {1, 3}
  MaxWrites = 2
  RomSize = 8
  RomPages = 5
  CacheSlots = 4
  ScratchSlots = 2
  MaxLost = 1
  MaxStates = 1
  NoSlot = NoSlot
  Padding = Padding
  Torn = Torn
  Scratch = Scratch
  Games = {g1, g2}
  RamPages = 2
  IdleFrames = 1
  RamValues = {v}
  GameStates = 1
  MaxSaved = 2
  MaxTrouble = 1
  Fresh = Fresh
  Broken = Broken
  Cartridges <- OneOfEach
  Moments <- TwoMoments
  MaxSaves = 1
  Never = Never
  Timers = 3
  Frame = 2
  Far = 1
  Ahead = 1
  Interrupts = {3}
  Longest = 2
  Branch = 2
  Late = 1
  First = 1
  Early = 1
  MaxNow = 2
  MaxChanges = 4
  Builds = 2
  Line = 4
  SprLead = 1
  BgLead = 3
  IrqDelay = 1
  LatchValues = {0, 1, 2}
  MaxDots = 13
  NotSet = NotSet
  Boards = {4, 118, 206, 245, 249}
  RomBanks = 128
  VromBanks = 64
  Commands = {0, 2, 6, 7, 64, 70, 128, 134, 192, 194, 198}
  BankValues = {3, 134}
  MaxBankWrites = 4
SYMMETRY DevicesSymmetry
INVARIANTS
  NoForeignContents RestoreFindsBanks TakenIsThere AcceptedStays BanksShown NothingForgotten
  WritesDecide AsAnMmc3
PROPERTIES
  BehindMappedStays ViewIntact FifoSpec BesideStays LoadsAMoment AlarmsRing
CHECK_DEADLOCK FALSE
