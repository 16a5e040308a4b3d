SPECIFICATION Spec
CONSTANTS
  None = None
  Keys <- MCKeys
  KeyOrder <- MCKeyOrder
  KeyLen <- MCKeyLen
  Values <- MCValues
  ValueLen <- MCValueLen
  EntryOverhead = 2
  ItemOverhead = 1
  MaxMemory = 24
  Policy = "noeviction"
  TicksPerSecond = 2
  MaxInstant = 12
  Conns = {"p", "q"}
  Commands <- Separate
  Horizon = 2
  MaxLog = 4
INVARIANTS TypeOK ReplayKeepsLiveKeys ReplayRevivesNothing
