SPECIFICATION FairSpec
CONSTANTS
  None = None
  Keys <- MCKeys
  KeyOrder <- MCKeyOrder
  KeyLen <- MCKeyLen
  Values <- MCValues
  ValueLen <- MCValueLen
  EntryOverhead = 2
  ItemOverhead = 1
  MaxMemory = 8
  Policy = "allkeys-random"
  TicksPerSecond = 2
  MaxInstant = 8
  p = p
  cleaner = cleaner
  Clients = {p}
  Cleaner = cleaner
  Commands <- ReadCommands
  Horizon = 2
  CounterModulus = 2
INVARIANTS ExpiredIsMissing
PROPERTIES LiveKeysSurvive ImplementsCache StatsMissOnlyOthers ExpiredKeysAreCollected
