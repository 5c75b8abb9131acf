SPECIFICATION FairSpec
CONSTANTS
  BUF_MAX = 3
  MaxSent = 5
  Window = 7
  QuietBoot = TRUE
  ConsoleInput = FALSE
PROPERTY FullIsFlushed
