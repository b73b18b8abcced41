\* 2 parties of 1 worker, 2 global servers, 1 large key, 2 iterations.
CONSTANTS
  w1 = w1
  w2 = w2
  w3 = w3
  p1 = p1
  p2 = p2
  g1 = g1
  g2 = g2
  Party = {p1, p2}
  Worker = {w1, w2}
  GServer = {g1, g2}
  Master = Master
  PartyOf <- PartyOf11
  Rank0 <- Rank11
  ShardsOf <- OneBigKey
  NumKeys = 1
  MaxRound = 2
SPECIFICATION Spec
PROPERTY ImplementsBSP
