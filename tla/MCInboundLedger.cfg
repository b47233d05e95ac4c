CONSTANTS
  node_h = node_h
  node_a = node_a
  node_t = node_t
  Header = node_h
  AsNodes <- MCAsNodes
  TxNodes <- MCTxNodes
  AtStart <- MCAtStart
  History = FALSE
  ledgerTimeoutRetriesMax = 1
  ledgerBecomeAggressiveThreshold = 0
  Kinds = {"ledger", "zero", "malformed", "other"}
  BadNodes = {node_a}
  Workers = {w1, w2}
  MaxQueue = 1
SPECIFICATION Spec
INVARIANTS CompleteHasAll DataHasJob
PROPERTIES AnswerFinal AcquisitionEnds
CHECK_DEADLOCK FALSE
