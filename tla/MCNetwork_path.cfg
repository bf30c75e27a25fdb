SPECIFICATION FairSpec
CONSTANTS
  up = up
  down = down
  t1 = t1
  t2 = t2
  m1 = m1
  m2 = m2
  m3 = m3
  m4 = m4
  Source = source
  Sender = sender
  Garbled = garbled
  NoMsg = nomsg
  Que = {source, up, down}
  Consumer = {sender, t1, t2}
  Elem <- MCElem
  Msg = {m1, m2, m3, m4}
  To <- MCTo
  Size <- MCSize
  Host = {up, down}
  HandlersOf <- MCHandlersOf
  Down = {down}
INVARIANTS TypeOK NoLostWakeup
PROPERTIES PromiseSpec SmallArrive
CHECK_DEADLOCK FALSE
