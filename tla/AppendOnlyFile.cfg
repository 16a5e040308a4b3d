SPECIFICATION FairSpec
CONSTANTS
  None = None
  Numeral <- MCNumeral
  NotUtf8 = {}
  Uppercase <- MCUppercase
  DefaultLimit = 128
  Conns = {"p", "q"}
  Logged <- MCLogged
  MaxAppends = 3
  MaxFailures = 2
INVARIANTS TypeOK AcknowledgedIsRestored
PROPERTIES ImplementsLog AppendsReturn
