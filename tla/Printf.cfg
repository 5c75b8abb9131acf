SPECIFICATION PrintSpec
CONSTANTS
  BUF_SIZE = 10
  Char <- MCChar
  NUL = ""
  Junk = "?"
  UCHAR = 16
  SHORT = 32
  INT = 64
  LONG = 64
  LLONG = 1024
  CallSequences <- MCCalls
INVARIANTS  ArgsInStep StaysInside
PROPERTIES PrintfFlushes SprintfExact
CHECK_DEADLOCK FALSE
