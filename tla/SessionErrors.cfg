SPECIFICATION Spec
CONSTANTS
  None = None
  Keys <- MCKeys
  KeyOrder <- MCKeyOrder
  KeyLen <- MCKeyLen
  Values <- MCValues
  ValueLen <- MCValueLen
  EntryOverhead = 2
  ItemOverhead = 1
  MaxMemory = 30
  Policy = "noeviction"
  TicksPerSecond = 1
  MaxInstant = 1
  Numeral <- MCNumeral
  NotUtf8 = {}
  Uppercase <- MCUppercase
  DefaultLimit = 128
  Requests <- MCRequests
  Windows = {1}
  Capacity = 2
  MaxRequests = 3
CHECK_DEADLOCK FALSE
INVARIANT ErrorsReachTheCaller
