\* Two miners, turns 1..3, clock free to run ahead of delivery, calls that
\* may fail.
CONSTANTS
  N = 2
  MaxTurn = 3
  UpdatePeriod = 2
  Synchronous = FALSE
  Lossy = TRUE
  BlockCacheTTL = 1
SPECIFICATION Spec
INVARIANTS
  TypeOK
  IndexWellFormed
  BillingReadsItsWindow
