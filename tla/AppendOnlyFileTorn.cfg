SPECIFICATION Spec
CONSTANTS
  None = None
  Numeral <- MCNumeral
  NotUtf8 = {}
  Uppercase <- MCUppercase
  DefaultLimit = 128
  Conns = {"p", "q"}
  Logged <- MCLogged
  MaxAppends = 2
  MaxFailures = 1
INVARIANT RestartSucceeds
