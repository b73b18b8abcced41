---------------------------- MODULE MCCompression ----------------------------
(***************************************************************************)
(* What happens to a tensor between a party and the global servers: 2-bit  *)
(* compression (this module extends TwoBit), sparsification (BiSparse) and *)
(* the cut into parts (Sharding).  MCInit picks a deployment, named by     *)
(* conf, and its module then runs alone.                                   *)
(***************************************************************************)
EXTENDS TwoBit

CONSTANTS pa, pb

VARIABLES
  conf,                                                           \* the deployment
  rounds, u, v, msg, sum, request, pulled, spare, fed, put, gots, \* of BiSparse
  tensor, master, recv_queue_, recv_pull_queue_, store_, acks,
  replies, recv_kvs_, key_map_,                                   \* of Sharding
  phase, stored                                                   \* of both

sparseVars == <<rounds, u, v, msg, sum, request, pulled, spare, fed, put, gots>>
shardVars == <<tensor, master, recv_queue_, recv_pull_queue_, store_, acks, replies,
               recv_kvs_, key_map_>>
mcvars == <<vars, conf, sparseVars, shardVars, phase, stored>>

\* TwoBit: gradients up to the threshold, which is 2, in every position of a
\* byte; memory that decodes to nothing, to the threshold and to its negative.
Gradients ==
  {[i \in Index |-> ((i + s) % 5) - 2] : s \in 0 .. 4} \cup {[i \in Index |-> 1]}
Memories == {[b \in Byte |-> x] : x \in {0, 255, 170}}

SparseGradients ==
  {[i \in 0 .. 3 |-> IF i = 0 THEN 1 ELSE IF i = 1 THEN -2 ELSE IF i = 3 THEN 2 ELSE 0],
   [i \in 0 .. 3 |-> IF i = 3 THEN -1 ELSE 1],
   [i \in 0 .. 3 |-> IF i = 2 THEN 3 ELSE 0]}

\* BiSparse with a ratio of 3/8: a party sends one entry, an answer holds three.
Sparse == INSTANCE BiSparse WITH
  Parties <- {pa, pb}, N <- 4, Num <- 3, Den <- 8, Momentum <- 1, Sample <- {0, 2, 3},
  TopK <- 1, Exact <- 100, Big <- FALSE, Central <- FALSE, Gradient <- SparseGradients,
  Memory <- {0}, MaxRound <- 2, round <- rounds, merged <- sum, got <- gots

\* BiSparse with a ratio of 1/2, which leaves room for a central worker's tensor.
Dense == INSTANCE BiSparse WITH
  Parties <- {pa, pb}, N <- 4, Num <- 1, Den <- 2, Momentum <- 1, Sample <- {0, 2, 3},
  TopK <- 2, Exact <- 100, Big <- FALSE, Central <- TRUE, Gradient <- SparseGradients,
  Memory <- {0}, MaxRound <- 1, round <- rounds, merged <- sum, got <- gots

\* Sharding without compression: two tensors, below and above the bound.
Plain == INSTANCE Sharding WITH
  NumGlobalServers <- 2, kMaxKey <- 101, bigarray_bound_ <- 10, size_lower_bound <- 5,
  Factor <- 4, Compression <- "none", Key <- {0, 3}, Sizes <- {9, 11}, DTypes <- 0 .. 2

\* Sharding with 2-bit compression: every remainder of a tensor cut in three.
Cut == INSTANCE Sharding WITH
  NumGlobalServers <- 3, kMaxKey <- 101, bigarray_bound_ <- 10, size_lower_bound <- 5,
  Factor <- 3, Compression <- "2bit", Key <- {1}, Sizes <- {5} \cup 10 .. 16, DTypes <- {0}

\* Sharding with sparsification: tensors below the bound, one of them too small.
Small == INSTANCE Sharding WITH
  NumGlobalServers <- 2, kMaxKey <- 101, bigarray_bound_ <- 10, size_lower_bound <- 5,
  Factor <- 4, Compression <- "bsc", Key <- {0, 3}, Sizes <- {3, 9}, DTypes <- {0, 2}

\* What a deployment does not use stays 0; TwoBit stays in an initial state.
NoTwoBit == Init /\ small_buf = [b \in Byte |-> 0]
NoSparse ==
  /\ rounds = 0 /\ u = 0 /\ v = 0 /\ msg = 0 /\ sum = 0 /\ request = 0 /\ pulled = 0
  /\ spare = 0 /\ fed = 0 /\ put = 0 /\ gots = 0
NoSharding ==
  /\ tensor = 0 /\ master = 0 /\ recv_queue_ = 0 /\ recv_pull_queue_ = 0 /\ store_ = 0
  /\ acks = 0 /\ replies = 0 /\ recv_kvs_ = 0 /\ key_map_ = 0

MCInit ==
  \/ conf = "twobit" /\ Init /\ NoSparse /\ NoSharding /\ phase = 0 /\ stored = 0
  \/ conf = "sparse" /\ Sparse!Init /\ NoTwoBit /\ NoSharding
  \/ conf = "dense" /\ Dense!Init /\ NoTwoBit /\ NoSharding
  \/ conf = "plain" /\ Plain!Init /\ NoTwoBit /\ NoSparse
  \/ conf = "cut" /\ Cut!Init /\ NoTwoBit /\ NoSparse
  \/ conf = "small" /\ Small!Init /\ NoTwoBit /\ NoSparse

TwoBitNext == conf = "twobit" /\ Next /\ UNCHANGED <<conf, sparseVars, shardVars, phase, stored>>
SparseNext ==
  /\ UNCHANGED <<conf, vars, shardVars>>
  /\ (conf = "sparse" /\ Sparse!Next) \/ (conf = "dense" /\ Dense!Next)
ShardNext ==
  /\ UNCHANGED <<conf, vars, sparseVars>>
  /\ \/ conf = "plain" /\ Plain!Next
     \/ conf = "cut" /\ Cut!Next
     \/ conf = "small" /\ Small!Next
ShardPending ==
  \/ conf = "plain" /\ Plain!Pending
  \/ conf = "cut" /\ Cut!Pending
  \/ conf = "small" /\ Small!Pending

\* The fairness of BiSparse and of Sharding, each for its own deployments.
MCSpec ==
  /\ MCInit /\ [][TwoBitNext \/ SparseNext \/ ShardNext]_mcvars
  /\ WF_mcvars(SparseNext)
  /\ []<>~ShardPending \/ []<><<ShardNext>>_mcvars

-----------------------------------------------------------------------------
\* Sparsification delays an entry and never drops one, and every party has pulled
\* the sum of what all have pushed (BiSparse).
SparseExact ==
  /\ conf = "sparse" => Sparse!NothingDropped /\ Sparse!AggregateDelivered
  /\ conf = "dense" => Dense!AggregateDelivered

\* However a tensor is cut, a push has the keys and the elements its server
\* expects, and a pulled tensor has each element at its index (Sharding).
CutsAgree ==
  /\ conf = "plain" => Plain!PushesFit /\ Plain!PulledWhole
  /\ conf = "cut" => Cut!PushesFit /\ Cut!PulledWhole
  /\ conf = "small" => Small!PushesFit /\ Small!PulledWhole

\* All rounds of the sparsified tensor and all pulls end (BiSparse, Sharding).
AllFinish ==
  <>(/\ conf = "sparse" => Sparse!Finished
     /\ conf = "dense" => Dense!Finished
     /\ conf = "plain" => Plain!AllPulled
     /\ conf = "cut" => Cut!AllPulled
     /\ conf = "small" => Small!AllPulled)
=============================================================================
