SPECIFICATION Spec
CONSTANTS
  None = None
  Keys <- MCKeys
  KeyOrder <- MCKeyOrder
  KeyLen <- MCKeyLen
  Values <- MCValues
  ValueLen <- MCValueLen
  EntryOverhead = 2
  ItemOverhead = 1
  MaxMemory = 8
  Policy = "allkeys-random"
  TicksPerSecond = 1
  MaxInstant = 8
  Shapes <- MCShapes
CHECK_DEADLOCK FALSE
INVARIANTS SuccessAsSpecified FailureRestoresEverything EveryVictimSetIsPossible
PROPERTIES LoopTerminates
