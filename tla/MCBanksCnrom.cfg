SPECIFICATION BankSpec
CONSTANTS
  PrgWindows = 4
  PrgSlots = 4
  GroupPages = 4
  PrgPages = 4
  PrgCalls <- CnromPrg
  PrgSaved <- CnromPrgSaved
  ChrWindows = 8
  ChrSlots = 9
  ChrPages = 32
  ChrBanks = 32
  RamBanks = {}
  ChrCalls <- CnromChr
  ChrSaved <- CnromChrSaved
  MaxFailures = 0
  None = None
  Ram = Ram
  Bad = Bad
INVARIANT MappedAreCached
