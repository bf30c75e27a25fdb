\* Three operations on one key at three replicas: quorums of puts and gets meet and results are counted right, in every order of requests and replies.
SPECIFICATION Spec
CONSTANTS
  n0 = n0  n1 = n1  n2 = n2  n3 = n3  t1 = t1  t2 = t2  k1 = k1
  v1 = v1  v2 = v2
  Node <- MCNode
  Thread = {t1}
  Home <- MCHome
  Key = {k1}
  Hosts <- MCHosts
  Value = {v1}
  N = 3  R = 2  W = 2
  MaxOp = 3
  MaxClock = 2
  Pausable = {}
  Unreachable = {}
  Failing = {}
  Cutting = {}
  SetBack = {}
  SharedClock = FALSE
  NoValue = NoValue  NoEntry = NoEntry  NoRecord = NoRecord  NoCall = NoCall
SYMMETRY Replicas
CONSTRAINT AtMost4InFlight
INVARIANTS
  FinishedOnce
  AckedReadable
  NotOlderThanAcked
CHECK_DEADLOCK FALSE
