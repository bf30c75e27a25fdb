SPECIFICATION Spec
CONSTANTS
  p = p
  a = a
  Host = {p, a}
  Primary = p
  Configs <- OneOrTwo
  N = 1
  Cores = 14
  Caller = {a}
  Ops = {"remove"}
  MaxRange = 2
  MaxRemove = 1
  MaxLost = 0
  MaxChange = 1
  DataMayBeLost = FALSE
  Failing = {}
INVARIANTS AllHostsAgree
CHECK_DEADLOCK FALSE
