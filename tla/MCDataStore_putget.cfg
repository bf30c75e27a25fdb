\* Puts and gets through splits of blocks of two records.
SPECIFICATION Spec
CONSTANTS
  m1 = m1
  HashMax = 4
  BlockMax = 2
  MoveId = {m1}
  Jobs = {"put", "get"}
  Arriving <- NoKeySets
  MaxJobs = 6
  MaxQue = 1
  FilesMayFail = FALSE
  GarbageFlags <- NoFlags
  GarbageStamps <- NoStamps
INVARIANTS
  TypeOK
  NewestIsLatest
  GetAnswers
CHECK_DEADLOCK FALSE
