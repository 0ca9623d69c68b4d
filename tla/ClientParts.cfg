SPECIFICATION Spec
CONSTANTS
  Thread = {"heartbeat", "capture"}
  BufferSize = 3
  PictureSize = {1, 2}
  MaxStarts = 2
  Lines = {1, 2, 3}
  CameraLines = 2
  IntervalCnt = 1
  MaxSeq = 3
  Word = 16
  Modes = 3
  Side = 6
  Tile = 2
  MaxElements = 3
INVARIANTS
  SendsWhole
  PicturesFit
  AddressesRight
  ReadsAsList
  ValuesKept
  DocumentsKept
  LifeOrderly
  FramesFit
  CameraShared
  XFramesFit
PROPERTIES
  WaitsEnd
\* The client is deleted at some time, and a picture looked at once.
CHECK_DEADLOCK FALSE
