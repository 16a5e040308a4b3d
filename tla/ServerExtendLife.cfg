SPECIFICATION Spec
CONSTANTS
  None = None
  Keys <- MCKeys
  KeyOrder <- MCKeyOrder
  KeyLen <- MCKeyLen
  Values <- MCValues
  ValueLen <- MCValueLen
  EntryOverhead = 2
  ItemOverhead = 1
  MaxMemory = None
  Policy = "noeviction"
  TicksPerSecond = 1
  MaxInstant = 12
  Conns = {"p"}
  Commands <- ExtendLife
  Horizon = 3
  MaxLog = 3
INVARIANT ReplayKeepsLiveKeys
