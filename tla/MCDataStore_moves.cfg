\* Puts and migrations with block files that fail to open: what a collect and a remove do to their range, the shape of the block list, and that all that is queued is worked off.
SPECIFICATION FairSpec
CONSTANTS
  m1 = m1
  HashMax = 3
  BlockMax = 2
  MoveId = {m1}
  Jobs = {"put", "move", "receive"}
  Arriving <- KeySets
  MaxJobs = 3
  MaxQue = 1
  FilesMayFail = TRUE
  GarbageFlags <- Ends
  GarbageStamps <- NoStamps
INVARIANTS
  RangeComplete
  BlocksTile
PROPERTIES
  Drains
CHECK_DEADLOCK FALSE
