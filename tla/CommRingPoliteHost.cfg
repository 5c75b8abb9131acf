SPECIFICATION FairSpec
CONSTANTS
  BUF_MAX = 3
  MaxSent = 8
  Window = 2
  QuietBoot = TRUE
  ConsoleInput = FALSE
INVARIANT NoHazard
PROPERTY IsFifo
