SPECIFICATION Spec
CONSTANTS
  Keys = {k1, k2}
  Inputs = {x1, x2}
  Randoms = {r1, r2, r3, r4}
  None = none
  CTR_MOD = 3
  RandomMayFail = TRUE
SYMMETRY Symmetry
INVARIANT TypeOK
INVARIANT ContextsMatchState
INVARIANT MasksApart
PROPERTY SuccessIsComplete
PROPERTY FailureIsClean
PROPERTY IsService
