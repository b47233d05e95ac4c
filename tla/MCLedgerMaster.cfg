CONSTANTS
  First = 2
  MaxSeq = 6
  InDatabase <- MCInDatabase
  Validators <- MCValidators
  Built <- MCBuilt
  mMinValidations = 1
  MIN_VALIDATION_RATIO = 150
  MAX_LEDGER_GAP = 3
  AcquireLimit = 2
  ledger_history = 2
  ledger_fetch_size = 1
  canDelete = 9
  FillWindow = 2
  Faulty <- MCFaulty
  MaxFaults = 1
SPECIFICATION Spec
INVARIANTS AdvanceNotLost CompleteSaved
PROPERTIES PublishedInOrder Publishes
CHECK_DEADLOCK FALSE
