SPECIFICATION FairSpec
CONSTANTS
  w = w
  s = s
  a = a
  b = b
  Node = {w, s}
  Msg = {a, b}
  From <- Worker
  To <- Server
  Plane <- AllLocal
  Sender <- WorkerId
  LocalId <- WorkerId
  Recver <- ServerId
  Timestamp <- Times
  IdWidth = 256
  Late = {s}
  MaxNumRetry = 3
  MaxLoss = 2
  MaxCopies = 2
INVARIANTS AtMostOnce NoSilentLoss 
PROPERTIES ImplementsChannel
\* All messages may have been delivered.
CHECK_DEADLOCK FALSE
