------------------------------ MODULE BiSparse ------------------------------
(***************************************************************************)
(* Bidirectional sparsification of one key: every party's server sends the *)
(* largest entries of its accumulated gradient to the global server, which *)
(* adds them up and answers the pulls with the entries that are not zero.  *)
(*                                                                         *)
(* No optimizer runs on the global server, which is how the scheme is      *)
(* used: parties pull the aggregated gradient.  The compression has run    *)
(* when the transport reads the buffer (module TwoBit is about that), the  *)
(* key has one global server, and floats are integers.                     *)
(***************************************************************************)
EXTENDS Integers, FiniteSets, FiniteSetsExt

CONSTANTS
  Parties,
  N,         \* elements of the tensor
  Num, Den,  \* the compression ratio threshold_ is Num / Den
  Momentum,  \* coefficient of the momentum correction
  Sample,    \* the indices sampled for the boundary: a fixed shuffle's first
  TopK,      \* entries of the sample at or above the boundary
  Exact,     \* integers up to here are exact as floats (2^24 in the code)
  Big,       \* the tensor has bigarray_bound_ elements or more
  Central,   \* a worker of the central party takes part (ENABLE_CENTRAL_WORKER)
  Gradient,  \* the gradients of a round
  Memory,    \* what memory that was never written may hold
  MaxRound   \* rounds (bound)

Index == 0 .. N - 1
Zero == [i \in Index |-> 0]
Worker == "worker"
Pushers == Parties \cup (IF Central THEN {Worker} ELSE {})

VARIABLES
  phase,   \* of a pusher: idle, pushed, pulling (its push is answered)
  round,   \* rounds a pusher has started
  u, v,    \* velocity_ and accumulated_velocity_ of a party
  msg,     \* the push of a party on its way, as the array of its floats
  merged,  \* update_buf_.merged on the global server
  request, \* update_buf_.request: who is in merged
  stored,  \* the value on the global server
  pulled,  \* the value on a party's server
  spare,   \* what the unwritten part of a party's receive buffer holds
  fed,     \* sum of a party's corrected gradients
  put,     \* sum of what the global server has taken from a pusher
  got      \* sum of what a party has pulled

vars == <<phase, round, u, v, msg, merged, request, stored, pulled, spare, fed, put, got>>

-----------------------------------------------------------------------------
(* gradient_compression.cc                                                 *)

\* The sizes of the two directions: floor of the ratio's share.
ZippedSize == (N * Num) \div Den

PullZippedSize == (N * Num * Cardinality(Parties)) \div Den

Abs(x) == IF x < 0 THEN -x ELSE x

\* The smallest of the TopK largest of the sample.
Boundary(w) ==
  CHOOSE b \in {Abs(w[j]) : j \in Sample} :
    /\ Cardinality({j \in Sample : Abs(w[j]) > b}) < TopK
    /\ Cardinality({j \in Sample : Abs(w[j]) >= b}) >= TopK

\* The first `room` of the indices in S, in increasing order.
FirstOf(S, room) == {i \in S : Cardinality({j \in S : j < i}) < room}

\* An index is stored as a float: beyond Exact only even numbers are.
AsFloat(i) ==
  IF i <= Exact \/ i % 2 = 0 THEN i ELSE IF (i \div 2) % 2 = 0 THEN i - 1 ELSE i + 1

\* The floats of a buffer with the entries S of w: values in the first half,
\* indices in the second, -65530 and -1 where there is no entry.
Zip(w, S, size) ==
  LET nth(k) == CHOOSE i \in S : Cardinality({j \in S : j < i}) = k
  IN [k \in 0 .. 2 * size - 1 |->
        IF k < size THEN IF k < Cardinality(S) THEN w[nth(k)] ELSE -65530
        ELSE IF k - size < Cardinality(S) THEN AsFloat(nth(k - size)) ELSE -1]

\* BSCDecompress of a buffer of `len` floats: later entries overwrite earlier
\* ones, an index outside the array hits other memory.
Unzip(z, len) ==
  LET size == len \div 2
      at(i) == {k \in 0 .. size - 1 : z[k + size] = i}
  IN [i \in Index |-> IF at(i) = {} THEN 0
                      ELSE z[CHOOSE k \in at(i) : \A l \in at(i) : l <= k]]

Plus(a, b) == [i \in Index |-> a[i] + b[i]]

-----------------------------------------------------------------------------
Init ==
  /\ phase = [p \in Pushers |-> "idle"]
  /\ round = [p \in Pushers |-> 0]
  /\ u = [p \in Parties |-> Zero] /\ v = [p \in Parties |-> Zero]
  /\ msg = [p \in Parties |-> <<>>]
  /\ merged = Zero /\ request = {}
  /\ stored = Zero
  /\ pulled = [p \in Parties |-> Zero]
  /\ spare \in [Parties -> Memory]
  /\ fed = [p \in Parties |-> Zero] /\ put = [p \in Pushers |-> Zero]
  /\ got = [p \in Parties |-> Zero]

\* The entries BSCompress sends: at or above the boundary, as many as fit.
Chosen(w) == FirstOf({i \in Index : Abs(w[i]) >= Boundary(w)}, ZippedSize)

\* Mutant: the boundary picks the entries, the size does not limit their reset.
PushAll(p, g) ==
  /\ phase[p] = "idle" /\ round[p] < MaxRound
  /\ LET vel == [i \in Index |-> Momentum * u[p][i] + g[i]]
         acc == Plus(v[p], vel)
         sel == {i \in Index : Abs(acc[i]) >= Boundary(acc)}
     IN /\ msg' = [msg EXCEPT ![p] = Zip(acc, Chosen(acc), ZippedSize)]
        /\ u' = [u EXCEPT ![p] = [i \in Index |-> IF i \in sel THEN 0 ELSE vel[i]]]
        /\ v' = [v EXCEPT ![p] = [i \in Index |-> IF i \in sel THEN 0 ELSE acc[i]]]
        /\ fed' = [fed EXCEPT ![p] = Plus(@, vel)]
  /\ phase' = [phase EXCEPT ![p] = "pushed"]
  /\ round' = [round EXCEPT ![p] = @ + 1]
  /\ UNCHANGED <<merged, request, stored, pulled, spare, put, got>>

\* BSCompress: momentum correction, selection, reset of what is sent.
Push(p, g) ==
  /\ phase[p] = "idle" /\ round[p] < MaxRound
  /\ LET vel == [i \in Index |-> Momentum * u[p][i] + g[i]]
         acc == Plus(v[p], vel)
         sel == Chosen(acc)
     IN /\ msg' = [msg EXCEPT ![p] = Zip(acc, sel, ZippedSize)]
        /\ u' = [u EXCEPT ![p] = [i \in Index |-> IF i \in sel THEN 0 ELSE vel[i]]]
        /\ v' = [v EXCEPT ![p] = [i \in Index |-> IF i \in sel THEN 0 ELSE acc[i]]]
        /\ fed' = [fed EXCEPT ![p] = Plus(@, vel)]
  /\ phase' = [phase EXCEPT ![p] = "pushed"]
  /\ round' = [round EXCEPT ![p] = @ + 1]
  /\ UNCHANGED <<merged, request, stored, pulled, spare, put, got>>

\* The end of DataHandleSyncBSCompressed and DataHandleSyncDefault: once all
\* have pushed the sum is stored and everyone's push is answered.
Merge(p, w) ==
  LET sum == IF request = {} THEN w ELSE Plus(merged, w)
      all == request \cup {p} = Pushers
  IN /\ merged' = sum
     /\ request' = IF all THEN {} ELSE request \cup {p}
     /\ stored' = IF all THEN sum ELSE stored
     /\ phase' = [q \in Pushers |->
                    IF ~all THEN phase[q] ELSE IF q = Worker THEN "idle" ELSE "pulling"]

\* A party's push at the global server.
DataHandleSyncBSCompressed(p) ==
  /\ phase[p] = "pushed" /\ p \notin request
  /\ LET w == Unzip(msg[p], 2 * ZippedSize)
     IN Merge(p, w) /\ put' = [put EXCEPT ![p] = Plus(@, w)]
  /\ UNCHANGED <<round, u, v, msg, pulled, spare, fed, got>>

\* The push of a central worker, which is never compressed, at the global
\* server; its pull is not compressed either.
CentralWorker(g) ==
  /\ Central
  /\ phase[Worker] = "idle" /\ Worker \notin request /\ round[Worker] < MaxRound
  /\ round' = [round EXCEPT ![Worker] = @ + 1]
  /\ Merge(Worker, g) /\ put' = [put EXCEPT ![Worker] = Plus(@, g)]
  /\ UNCHANGED <<u, v, msg, pulled, spare, fed, got>>

\* BSCPullCompress on the global server and BSCDecompress on the party's
\* server.  A big tensor is decompressed from a buffer of the tensor's size,
\* of which the answer fills the beginning.
Pull(p) ==
  /\ phase[p] = "pulling"
  /\ LET zip == Zip(stored, FirstOf({i \in Index : stored[i] # 0}, PullZippedSize), PullZippedSize)
         buf == [k \in Index |-> IF k < 2 * PullZippedSize THEN zip[k] ELSE spare[p]]
         w == IF Big THEN Unzip(buf, N) ELSE Unzip(zip, 2 * PullZippedSize)
     IN /\ pulled' = [pulled EXCEPT ![p] = w]
        /\ got' = [got EXCEPT ![p] = Plus(@, w)]
  /\ phase' = [phase EXCEPT ![p] = "idle"]
  /\ UNCHANGED <<round, u, v, msg, merged, request, stored, spare, fed, put>>

Next ==
  \/ \E p \in Parties, g \in Gradient : Push(p, g)
  \/ \E p \in Parties : DataHandleSyncBSCompressed(p)
  \/ \E g \in Gradient : CentralWorker(g)
  \/ \E p \in Parties : Pull(p)

Spec == Init /\ [][Next]_vars /\ WF_vars(Next)

-----------------------------------------------------------------------------
(* Properties.                                                             *)

Vector == [Index -> Int]

\* Every variable has its type, and the parties are never a round apart.
TypeOK ==
  /\ phase \in [Pushers -> {"idle", "pushed", "pulling"}]
  /\ round \in [Pushers -> 0 .. MaxRound]
  /\ {u, v, pulled, fed, got} \subseteq [Parties -> Vector]
  /\ put \in [Pushers -> Vector]
  /\ merged \in Vector /\ stored \in Vector
  /\ request \subseteq Pushers
  /\ \A p, q \in Parties : round[p] <= round[q] + 1

\* Sparsification delays and never drops: between rounds what a party has
\* sent and what it still accumulates are its corrected gradients.
NothingDropped ==
  \A p \in Parties : phase[p] = "idle" => Plus(put[p], v[p]) = fed[p]

\* Between rounds every party has pulled, over all rounds, the sum of what all
\* have pushed: no entry was left out, doubled or put elsewhere on the way
\* through the two encodings.
AggregateDelivered ==
  (\A p, q \in Pushers : phase[p] = "idle" /\ round[p] = round[q]) =>
    \A p \in Parties, i \in Index :
      got[p][i] = MapThenSumSet(LAMBDA q : put[q][i], Pushers)

\* All rounds are finished.
Finished == \A p \in Pushers : round[p] = MaxRound /\ phase[p] = "idle"
Finishes == <>Finished
=============================================================================
