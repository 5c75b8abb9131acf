SPECIFICATION FairSpec
CONSTANTS
  c1 = c1
  c2 = c2
  Script <- UartScript
  Cases = {c1, c2}
  Randoms = {r1, r2, r3, r4}
  None = none
  CTR_MOD = 4
  PAYLOAD = 3
INVARIANT InSync
INVARIANT AllPass
INVARIANT InFlight
PROPERTY Completes
