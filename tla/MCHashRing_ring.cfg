\* Every placement of four hosts with one or two virtual nodes, and up to two changes of membership.
SPECIFICATION Spec
CONSTANTS
  h1 = h1
  h2 = h2
  h3 = h3
  h4 = h4
  Host = {h1, h2, h3, h4}
  RingMax = 5
  Vnodes <- OneOrTwo
  Config <- ThreeHosts
  N = 2
  Puts = {2}
  MaxChange = 2
  Slips = {{}, {2}}
INVARIANTS
  TypeOK
  RouteIsNearest
  
PROPERTY
  RingStable
CHECK_DEADLOCK FALSE
