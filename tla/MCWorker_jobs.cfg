\* Two stages of the benchmark on a host that is paused and resumed: every call has one result, which names its job or none.
SPECIFICATION FairSpec
CONSTANTS
  t1 = t1
  t2 = t2
  Thread = {t1, t2}
  Warm = 1
  Records = 1
  Stages = 2
  Flagging = TRUE
INVARIANTS
  TypeOK
  OneResultEach
  NamesNoOther
  NotesAreUsed
PROPERTIES
  AllAnswered
  MissesNoResult
CHECK_DEADLOCK FALSE
