SPECIFICATION FairSpec
CONSTANTS
  Room = {r1, r2}
  NoRoom = NoRoom
  MaxDepth = 2
  MaxDaemons = 2
  MaxLate = 1
  Inviting = {r2}
CHECK_DEADLOCK FALSE
INVARIANTS DeadUseNeedsOverlap InTheRoom PlacedRight
PROPERTIES OvertakenOnce HandlersReturn
