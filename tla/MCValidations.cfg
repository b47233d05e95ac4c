CONSTANTS
  a = a
  b = b
  u = u
  Nodes <- MCNodes
  UNL <- MCUNL
  Ledgers = {h1, h2}
  Threads = {t1}
  Workers = {w1, w2}
  SignTimes = {0, 3, 5, 15}
  NoVal = NoVal
  NoHash = NoHash
  TimeMod = 16
  EarlyInterval = 2
  ValInterval = 2
  CloseOffsets = {0, 14}
  StartTime = 5
  MaxTime = 6
  MaxArrivals = 3
SPECIFICATION Spec
INVARIANTS OneWriter PreviousIsOlder
PROPERTIES ImplementsQueue Drains
CHECK_DEADLOCK FALSE
