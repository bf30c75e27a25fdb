\* Two pages of two nodes, three files, saves at any time and restarts: as long as sound, HashCache is a map that a restart may shrink.
SPECIFICATION Spec
CONSTANTS
  k1 = k1  k2 = k2  k3 = k3  k4 = k4  v1 = v1  v2 = v2  p1 = p1  p2 = p2
  Key = {k1, k2, k3, k4}
  Value = {v1, v2}
  Empty = Empty
  Page = {p1, p2}
  PAGE_SIZE = 2
  head = head  tail = tail  Nil = Nil
  DISK_SIZE = 3
  MaxFile = 3
  MaxSession = 3
CONSTRAINT Sound
SYMMETRY Alike
INVARIANTS TypeOK PagesKept HashMapExact CleanIsSaved
PROPERTIES KeepsMap
CHECK_DEADLOCK FALSE
