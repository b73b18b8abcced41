\* A server and two workers, two restarts one after the other.
SPECIFICATION Spec
CONSTANTS
  Servers = {s1}
  Workers = {w1, w2}
  Timeout = TRUE
  OnTime = TRUE
  Patient = TRUE
  MaxCrashes = 2
INVARIANT OneRecoveryNode
CHECK_DEADLOCK FALSE
