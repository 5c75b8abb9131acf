SPECIFICATION Spec
CONSTANTS
  BUF_SIZE = 6
  Char <- MCChar
  NUL = ""
  NL <- MCNL
  CR <- MCCR
  Programs <- MCPrograms
  Keys = {"p", "x"}
  Typed = 3
  Unset <- MCUnset
  Enabled <- MCEnabled
  Disabled <- MCDisabled
  MaxDepth = 3
INVARIANTS TypeOK CleanExact
PROPERTIES FlushRecovers PanicStops
CHECK_DEADLOCK FALSE
