SPECIFICATION FairSpec
CONSTANTS
  h1 = h1
  Calls = {c1, c2}
  Hashes = {h1}
  HashOf <- MCHashOf
  MaxAge = 1
  MaxPeers = 2
  None = None
  MaxTime = 2
CHECK_DEADLOCK FALSE
INVARIANTS
  TypeOK
  PeersOnlyForPruned
  NoPeersIsRecentNews
  ParamsAskedOnceAndLate
PROPERTIES
  EveryCallEnds
  EveryRefreshEnds
  ImplementsBlockQuery
