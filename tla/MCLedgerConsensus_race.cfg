CONSTANTS
  p1 = p1
  p2 = p2
  p3 = p3
  x = x
  y = y
  L0 = L0
  L1 = L1
  L2 = L2
  None = None
  Peers = {p1, p2}
  Txs = {x, y}
  Ledgers = {L0}
  OurLCL = L0
  Positions <- RacePositions
  PeerSeqs = {0, 1}
  SeqLeave = 99
  CloseTimes = {60}
  OurCloseTimes = {60}
  Info <- TwoInfos
  LastCloseAge = 0
  Clocks = {0, 2500}
  PreviousProposers = 2
  PreviousMSeconds = 4000
  StoreLimit = 1
  MaxProposals = 3
  QuietFrom = 28000
  Punctual = FALSE
SPECIFICATION Spec
INVARIANTS PeerVotesCurrent
SYMMETRY Symmetry
CHECK_DEADLOCK FALSE
