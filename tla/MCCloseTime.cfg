CONSTANTS
  p1 = p1
  p2 = p2
  p3 = p3
  p4 = p4
  Participants = {p1, p2, p3, p4}
  Reports = {4, 14, 15, 26}
  FirstSeq = 6
  ChainLength = 10
SPECIFICATION ChainSpec
INVARIANTS StagesAgree VoteIsPlurality
PROPERTIES StampNearReports
SYMMETRY Symmetry
CHECK_DEADLOCK FALSE
