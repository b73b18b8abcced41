SPECIFICATION MCSpec
CONSTANTS
  pa = pa
  pb = pb
  N = 5
  threshold = 2
  Gradient <- Gradients
  Memory <- Memories
  MaxRound = 2
INVARIANTS LossBounded ResidualBounded SparseExact CutsAgree
PROPERTIES AllFinish
\* The rounds and the pulls end.
CHECK_DEADLOCK FALSE
