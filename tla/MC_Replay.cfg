\* Blocks up to height 4, three crashes, failing puts.
CONSTANTS
  MaxH = 4
  MaxCrashes = 3
  MaxReplays = 6
  StoreFaults = TRUE
SPECIFICATION Spec
INVARIANT TypeOK StoreIsChain HeadIsDurable
