SPECIFICATION FairSpec
CONSTANTS
  Node = {n1, n2, n3}
  n1 = n1
  n2 = n2
  n3 = n3
  NULL = NULL
  Name = {x, y}
  x = x
  y = y
  MaxLoad = 2
INVARIANTS
  TypeOK
  RingOK
  NoLeak
PROPERTIES
  AddAppends
  ImplementsArray
  LoopEnds
