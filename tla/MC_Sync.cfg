\* Two miners, turns 1..4, synchronous turns, fair goroutines; billing
\* windows of three blocks, one more than the body cache keeps.
CONSTANTS
  N = 2
  MaxTurn = 4
  UpdatePeriod = 3
  Synchronous = TRUE
  Lossy = FALSE
  BlockCacheTTL = 1
SPECIFICATION Spec
INVARIANTS
  Agreement
  BillingReadsItsWindow
PROPERTIES
  ProducedEventuallyEverywhere
  ImplementsBlockLog
