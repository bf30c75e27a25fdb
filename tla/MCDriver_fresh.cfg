\* A delayed request of an older put overwrites a newer value and gets the newer timestamp.
SPECIFICATION Spec
CONSTANTS
  n0 = n0  n1 = n1  n2 = n2  n3 = n3  t1 = t1  t2 = t2  k1 = k1
  v1 = v1  v2 = v2
  Node <- MCNode
  Thread = {t1}
  Home <- MCHome
  Key = {k1}
  Hosts <- MCHosts
  Value = {v1, v2}
  N = 3  R = 2  W = 2
  MaxOp = 3
  MaxClock = 3
  Pausable = {}
  Unreachable = {}
  Failing = {}
  Cutting = {}
  SetBack = {}
  SharedClock = TRUE
  NoValue = NoValue  NoEntry = NoEntry  NoRecord = NoRecord  NoCall = NoCall
SYMMETRY Replicas
CONSTRAINT AtMost4InFlight
INVARIANTS
  FreshRead
CHECK_DEADLOCK FALSE
