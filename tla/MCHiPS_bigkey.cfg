\* 2 parties (2 + 1 workers), 2 global servers, 1 large key, 2 iterations.
CONSTANTS
  w1 = w1
  w2 = w2
  w3 = w3
  p1 = p1
  p2 = p2
  g1 = g1
  g2 = g2
  Party = {p1, p2}
  Worker = {w1, w2, w3}
  GServer = {g1, g2}
  Master = Master
  PartyOf <- PartyOf21
  Rank0 <- Rank21
  ShardsOf <- OneBigKey
  NumKeys = 1
  MaxRound = 2
SPECIFICATION Spec
INVARIANTS
  TypeOK
  PulledWeights
  PartsOfOnePull
  NoGradientServed
PROPERTIES
  NoReadWriteRace
  NoRequestLost
