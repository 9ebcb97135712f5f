\* Two miners, turns 1..3, one billing per block, synchronous turns.
CONSTANTS
  N = 2
  MaxTurn = 3
  UpdatePeriod = 1
  Synchronous = TRUE
  Lossy = FALSE
  BlockCacheTTL = 1
SPECIFICATION Spec
INVARIANTS
  BillingOncePerPeriod
