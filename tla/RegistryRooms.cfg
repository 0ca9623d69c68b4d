SPECIFICATION FairSpec
CONSTANTS
  Name = {n1, n2}
  Host = {h1}
  Pid = {p1, p2, p3}
  NoPid = NoPid
  FirstPort = 20000
  MaxRooms = 3
  MaxInvites = 1
INVARIANTS RoomsDistinct PortExclusive PidBelongs
PROPERTIES KeepsBook Answered
CHECK_DEADLOCK FALSE
