SPECIFICATION Spec
INVARIANTS    MergesInOrder ModelInStep
 
\* The scripts end.
CHECK_DEADLOCK FALSE
