SPECIFICATION MachinesSpec
CONSTANTS
  Word = {a, b}
  Idle = Idle
  Out = Out
  MaxWords = 3
  MaxHeard = 4
  WordLow = 65536
  CpuStarts <- Starts6502
  TriedOps <- Tried6502
  CodeAt = 33000
  Slices = {2}
  MaxSteps = 1
  GbStarts <- StartsGb
  GbInstructions <- TriedGb
  GbCodeAt = 49664
  GbSlices = {60}
  GbMaxSteps = 1
INVARIANT Restored
PROPERTIES BufferSafe CallReturns RunsAs6502 RunsAsLr35902
CHECK_DEADLOCK FALSE
