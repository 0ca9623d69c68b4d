SPECIFICATION FairSpec
CONSTANTS
  Wsi = {p, v1, v2}
  User = {p, v1, v2}
  Num = {0}
  Pub = p
  NoUser = NoUser
  IntervalCnt = 1
  MaxSeq = 2
  MaxLink = 1
  Faults = {}
PROPERTY Reopens
