SPECIFICATION FairSpec
CONSTANTS
  s1 = s1
  s2 = s2
  a1 = a1
  f1 = f1
  f2 = f2
  d1 = d1
  d2 = d2
  x = x
  y = y
  None = None
  Thread <- MCThread
  Process <- MCProcess
  Var <- MCVar
  Program <- MCProgram
  Failing <- MCFailing
INVARIANTS ConflictsOrdered WaitSees
PROPERTIES  Completes
\* The programs end.
CHECK_DEADLOCK FALSE
