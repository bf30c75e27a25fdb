\* Flags left over in tmp[] make a remove drop records outside its range.
SPECIFICATION Spec
CONSTANTS
  m1 = m1
  HashMax = 2
  BlockMax = 2
  MoveId = {m1}
  Jobs = {"put", "move"}
  Arriving <- NoKeySets
  MaxJobs = 5
  MaxQue = 1
  FilesMayFail = FALSE
  GarbageFlags <- NoFlags
  GarbageStamps <- NoStamps
INVARIANTS
  RemoveExact
CHECK_DEADLOCK FALSE
