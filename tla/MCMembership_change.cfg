SPECIFICATION FairSpec
CONSTANTS
  p = p
  a = a
  Host = {p, a}
  Primary = p
  Configs <- OneOrTwo
  N = 1
  Cores = 14
  Caller = {a}
  Ops = {"add", "remove", "set"}
  MaxRange = 1
  MaxRemove = 1
  MaxLost = 1
  MaxChange = 2
  DataMayBeLost = FALSE
  Failing = {a}
INVARIANTS TypeOK FewWait ListsTold MovesAwaited
PROPERTIES ListsChangePaused ChangeEnds
CHECK_DEADLOCK FALSE
