CONSTANTS
  p1 = p1
  p2 = p2
  p3 = p3
  x = x
  y = y
  L0 = L0
  L1 = L1
  L2 = L2
  None = None
  Peers = {p1, p2}
  Txs = {x}
  Ledgers = {L0}
  OurLCL = L0
  Positions <- SmallPositions
  PeerSeqs = {0}
  SeqLeave = 99
  CloseTimes = {60, 90}
  OurCloseTimes = {60}
  Info <- TwoInfos
  LastCloseAge = 0
  Clocks = {0, 2500, 7000, 12000, 28000, 31000, 35000}
  PreviousProposers = 2
  PreviousMSeconds = 4000
  StoreLimit = 1
  MaxProposals = 2
  QuietFrom = 12000
  Punctual = TRUE
SPECIFICATION Spec
PROPERTIES RoundEnds CloseTimeSupported
CHECK_DEADLOCK FALSE
