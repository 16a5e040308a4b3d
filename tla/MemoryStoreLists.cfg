SPECIFICATION Spec
CONSTANTS
  None = None
  Keys <- MCKeys
  KeyOrder <- MCKeyOrder
  KeyLen <- MCKeyLen
  Values <- MCValues
  ValueLen <- MCValueLen
  EntryOverhead = 2
  ItemOverhead = 1
  MaxMemory = 8
  Policy = "allkeys-random"
  TicksPerSecond = 1
  MaxInstant = 8
  p = p
  q = q
  cleaner = cleaner
  Clients = {p, q}
  Cleaner = cleaner
  Commands <- ListCommands
  Horizon = 1
  CounterModulus = 2
SYMMETRY ClientSymmetry
INVARIANTS MemoryBounded NoEmptyList CountersExact
PROPERTIES RejectedOnlyWhenHopeless AcknowledgedWriteIsStored DeadlineProvenance ImplementsCache
