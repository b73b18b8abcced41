SPECIFICATION Spec
CONSTANTS
  pa = pa
  pb = pb
  m = m
  w = w
INVARIANTS EveryUpdateOnce PullsConsistent 
PROPERTIES SeenOnlyGrows AllFinish
\* The scripts end.
CHECK_DEADLOCK FALSE
