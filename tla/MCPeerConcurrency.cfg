SPECIFICATION Spec
CONSTANTS
  f1 = f1
  f2 = f2
  h1 = h1
  h2 = h2
  Peers = {honest, other}
  Honest = {honest}
  Hashes = {h1, h2}
  Fetches = {f1, f2}
  HashOf <- MCHashOf
  MaxRefreshes = 1
  NoConn = NoConn
  NoPeer = NoPeer
  NoBlock = NoBlock
CHECK_DEADLOCK FALSE
INVARIANTS
  EveryPeerIsAskedAtOnce
