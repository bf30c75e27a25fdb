\* Two threads, a host that is paused and resumed, one with failing files and one that is unreachable: Driver implements OpPromise, operations end, and as good as none runs during a pause.
SPECIFICATION FairSpec
CONSTANTS
  n0 = n0  n1 = n1  n2 = n2  n3 = n3  t1 = t1  t2 = t2  k1 = k1
  v1 = v1  v2 = v2
  Node <- MCNode2
  Thread = {t1, t2}
  Home <- MCHome
  Key = {k1}
  Hosts <- MCHosts2
  Value = {v1}
  N = 2  R = 1  W = 2
  MaxOp = 2
  MaxClock = 1
  Pausable = {n0}
  Unreachable = {n2}
  Failing = {n1}
  Cutting = {n1}
  SetBack = {}
  SharedClock = FALSE
  NoValue = NoValue  NoEntry = NoEntry  NoRecord = NoRecord  NoCall = NoCall
INVARIANTS
  TypeOK
  CountingInv
  HonestResult
  LeakBounded
PROPERTIES
  PromiseSpec
  OpFinishes
CHECK_DEADLOCK FALSE
