\* Blocks up to height 3, one crash, puts that never fail.
CONSTANTS
  MaxH = 3
  MaxCrashes = 1
  MaxReplays = 4
  StoreFaults = FALSE
SPECIFICATION Spec
INVARIANT StateMatchesChain
