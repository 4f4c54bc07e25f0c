SPECIFICATION Spec
CONSTANTS
  Word = {a, b}
  Idle = Idle
  Out = Out
  MaxWords = 2
  MaxHeard = 4
INVARIANT XferExact
CHECK_DEADLOCK FALSE
