CONSTANTS
  Txs = {t1, t2}
  Witnesses = {w}
  NoWitness = NoWitness
  MaxOutputs = 2
  MaxItems = 2
SPECIFICATION WitnessSpec
INVARIANTS
  MinedIsAccepted
  WitnessesAsMined
CHECK_DEADLOCK FALSE
