SPECIFICATION StoreSpec
CONSTANTS
  b0 = b0
  b1 = b1
  b2 = b2
  b3 = b3
  big = big
  Hashes = {h1, h2, h3, h4}
  Blocks <- MCBlocks
  LenOf <- MCLenOf
  MaxBytes = 4
  NoBlock = NoBlock
INVARIANTS
  TypeOK
  Accounting
  QueueMatchesMap
  Bounded
  LoopNeverRunsDry
PROPERTIES
  EvictsLeastRecentlyUsed
  ImplementsBlockStore
