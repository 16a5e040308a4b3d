SPECIFICATION FairSpec
CONSTANTS
  None = None
  Keys <- MCKeys
  KeyOrder <- MCKeyOrder
  KeyLen <- MCKeyLen
  Values <- MCValues
  ValueLen <- MCValueLen
  EntryOverhead = 2
  ItemOverhead = 1
  MaxMemory = 16
  Policy = "noeviction"
  TicksPerSecond = 1
  MaxInstant = 4
  Numeral <- MCNumeral
  NotUtf8 = {}
  Uppercase <- MCUppercase
  DefaultLimit = 128
  KeyLimits = {2}
  Stores <- MCStores
  Interval = 1
  Workload <- MCWorkload
  Horizon = 1
  MaxTyped = 2
CHECK_DEADLOCK FALSE
INVARIANTS TypeOK StaleIsFlagged SnapshotAgrees TerminalRestored
PROPERTIES QuitIsHeard RecoversByItself
