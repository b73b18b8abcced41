\* 1 party of 2 workers, 2 global servers, a small and a large key, 2 iterations.
CONSTANTS
  w1 = w1
  w2 = w2
  w3 = w3
  p1 = p1
  p2 = p2
  g1 = g1
  g2 = g2
  Party = {p1}
  Worker = {w1, w2}
  GServer = {g1, g2}
  Master = Master
  PartyOf <- PartyOf2
  Rank0 <- Rank2
  ShardsOf <- SmallAndBig
  NumKeys = 2
  MaxRound = 2
SPECIFICATION FairSpec
INVARIANTS
  PulledWeights
  PushResponseFindsKey
PROPERTY Termination
