SPECIFICATION Spec
CONSTANTS
  None = None
  Keys <- MCKeys
  KeyOrder <- MCKeyOrder
  KeyLen <- MCKeyLen
  Values <- MCValues
  ValueLen <- MCValueLen
  EntryOverhead = 2
  ItemOverhead = 1
  MaxMemory = 8
  Policy = "noeviction"
  TicksPerSecond = 1
  MaxInstant = 8
  p = p
  q = q
  cleaner = cleaner
  Clients = {p, q}
  Cleaner = cleaner
  Commands <- StringCommands
  Horizon = 2
  CounterModulus = 2
SYMMETRY ClientSymmetry
INVARIANTS TypeOK ExpiredIsMissing
PROPERTIES RejectedWriteRollsBack LiveKeysSurvive ImplementsCache
