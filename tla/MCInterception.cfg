SPECIFICATION Spec
CONSTANTS
  h1 = h1
  h2 = h2
  t1 = t1
  t2 = t2
  Calls = {"call"}
  Requests <- MCRequests
  Hashes = {h1, h2}
  Txids = {t1, t2}
  TxsOf <- MCTxsOf
  MaxConf = 3
  None = None
CHECK_DEADLOCK FALSE
INVARIANTS
  TypeOK
  AnsweredAsUnpruned
  EndsAsPromised
PROPERTIES
  FailureEndsCall
