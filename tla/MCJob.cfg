SPECIFICATION Spec
CONSTANTS
  s1 = s1
  w1 = w1
  w2 = w2
  w3 = w3
  p1 = p1
  p2 = p2
  g1 = g1
  g2 = g2
  c = c
  gs = gs
INVARIANTS OneAddressBook Configured StopsInOrder
PROPERTIES IdStaysWithNode EveryStageEnds
\* Every stage ends.
CHECK_DEADLOCK FALSE
