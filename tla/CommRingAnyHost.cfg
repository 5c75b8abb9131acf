SPECIFICATION Spec
CONSTANTS
  BUF_MAX = 3
  MaxSent = 7
  Window = 7
  QuietBoot = FALSE
  ConsoleInput = TRUE
INVARIANT InOrder
INVARIANT Exact
