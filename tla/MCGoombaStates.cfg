SPECIFICATION CacheSpec
CONSTANTS
  RomSize = 10
  RomPages = 6
  CacheSlots = 4
  ScratchSlots = 2
  MaxLost = 0
  MaxStates = 1
  NoSlot = NoSlot
  Padding = Padding
  Torn = Torn
  Scratch = Scratch
INVARIANT LookupsUpdated
CHECK_DEADLOCK FALSE
