SPECIFICATION FairSpec
CONSTANTS
  Wsi = {p, v1}
  User = {p, v1}
  Num = {0}
  Pub = p
  NoUser = NoUser
  IntervalCnt = 1
  MaxSeq = 4
  MaxLink = 2
  Faults = {"flood"}
PROPERTY SwallowedAcked
