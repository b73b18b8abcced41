------------------------------ MODULE Sharding ------------------------------
(***************************************************************************)
(* How a tensor is cut over the global servers and put together again.     *)
(*                                                                         *)
(* The master worker of the central party initialises every tensor on the  *)
(* global servers; the server of another party (the "party" below) pulls   *)
(* it, pushes its gradient and pulls the result.  Each of these requests   *)
(* is encoded into keys of the parameter server (Encode*Key), cut by key   *)
(* range (DefaultSlicer), queued at the global servers for one of two      *)
(* threads (Customer::Accept), decoded there (DecodeKey) and answered, and *)
(* the answers are put together again (DataHandlePullResponseDefault).     *)
(*                                                                         *)
(* A value is the run of a tensor's elements it holds; lengths count       *)
(* elements, or words when compressed (num_bytes is left out).             *)
(***************************************************************************)
EXTENDS Integers, Sequences, FiniteSets, SequencesExt

CONSTANTS
  NumGlobalServers,  \* DMLC_NUM_GLOBAL_SERVER
  kMaxKey,           \* the largest key of the parameter server
  bigarray_bound_,   \* MXNET_KVSTORE_BIGARRAY_BOUND
  size_lower_bound,  \* MXNET_KVSTORE_SIZE_LOWER_BOUND
  Factor,            \* elements per compressed word (16 in the code)
  Compression,       \* "none", "2bit" or "bsc"
  Key, Sizes, DTypes \* tensors, their sizes and the mshadow type codes

\* Every tensor key and every size, which is a meta key, is below
\* kMaxKey \div NumGlobalServers, and bigarray_bound_ is above
\* Factor * NumGlobalServers, so that no part of a tensor that is cut is empty.

VARIABLES
  tensor,            \* size and dtype of each tensor
  master,            \* tensors the master worker has initialised
  phase,             \* what the party's server waits for, per tensor
  recv_queue_,       \* per global server: the Receiving thread's queue
  recv_pull_queue_,  \* per global server: the pull thread's queue
  store_,            \* per global server: parts by decoded key
  acks,              \* responses to the party's push, per tensor
  replies,           \* pull answers on their way to the party
  recv_kvs_,         \* pull answers the party has collected, per tensor
  key_map_,          \* the party's map from parameter-server keys to tensors
  stored             \* the party's copy of each tensor

vars == <<tensor, master, phase, recv_queue_, recv_pull_queue_, store_, acks,
          replies, recv_kvs_, key_map_, stored>>

Server == 0 .. NumGlobalServers - 1

-----------------------------------------------------------------------------
(* Command codes: the Cantor pairing of a request type and a dtype.        *)

kDefaultPushPull == 0
kCompressedPushPull == 2
kBSCompressedPushPull == 3

GetCommandType(m, d) == ((m + d) * (m + d + 1)) \div 2 + d

\* Integer part of the square root, as std::floor(std::sqrt(...)) uses it.
Floor(cmd) == CHOOSE w \in 0..cmd : /\ (2 * w + 1) * (2 * w + 1) <= 8 * cmd + 1
                                    /\ (2 * w + 3) * (2 * w + 3) > 8 * cmd + 1

DepairDataHandleType(cmd) ==
  LET w == Floor(cmd)
      y == cmd - ((w * w) + w) \div 2
  IN [requestType |-> w - y, dtype |-> y]

\* Mutant: only plain fp32 and fp64 pulls are listed.
AcceptPlain(m) == m.head \in {0, 2} /\ m.sender % 2 = 1 /\ ~m.push

\* Customer::Accept: does this request go to the pull thread's queue?
Accept(m) == m.head \in {0, 2, 3, 5, 6} /\ m.sender % 2 = 1 /\ ~m.push

-----------------------------------------------------------------------------
(* Key ranges and the encodings of a tensor as keys and lengths.           *)

\* Server i holds the keys from KeyBegin(i) up to KeyBegin(i + 1).
KeyBegin(i) == (kMaxKey \div NumGlobalServers) * i

DecodeKey(i, ps_key) == ps_key - KeyBegin(i)

\* round(total / NumGlobalServers * i), halves away from zero
Round(total, i) == (2 * total * i + NumGlobalServers) \div (2 * NumGlobalServers)

PartSize(total, i) == Round(total, i + 1) - Round(total, i)

PickServer(k) == (k * 9973) % NumGlobalServers

EncodeDefaultKey(k, num_arr_elems) ==
  IF num_arr_elems < bigarray_bound_
  THEN [keys |-> <<KeyBegin(PickServer(k)) + k>>, lens |-> <<num_arr_elems>>]
  ELSE [keys |-> [j \in 1..NumGlobalServers |-> KeyBegin(j - 1) + k],
        lens |-> [j \in 1..NumGlobalServers |-> PartSize(num_arr_elems, j - 1)]]

GetCompressedSize(n) == IF n % Factor = 0 THEN n \div Factor ELSE n \div Factor + 1

\* Words and elements of part i of a compressed tensor; the last server takes
\* the remainder of both.
PartCompr(n, i) ==
  LET compr == GetCompressedSize(n)
  IN IF i = NumGlobalServers - 1 THEN compr - Round(compr, i) ELSE PartSize(compr, i)

PartOrig(n, i) ==
  IF i = NumGlobalServers - 1 THEN n - Round(GetCompressedSize(n), i) * Factor
                              ELSE PartCompr(n, i) * Factor

\* A push carries, for each part, a meta key (the part's element count, with
\* length 0) and a data key whose length counts compressed words; BSC never
\* cuts, and its sparse payload is taken as one word.
EncodeCompressedKey(k, n) ==
  IF Compression = "bsc" \/ n < bigarray_bound_
  THEN LET b == KeyBegin(PickServer(k))
           words == IF Compression = "bsc" THEN 1 ELSE GetCompressedSize(n)
       IN [push |-> [keys |-> <<b + n, b + k>>, lens |-> <<0, words>>],
           pull |-> [keys |-> <<b + k>>, lens |-> <<n>>]]
  ELSE [push |->
          [keys |-> [j \in 1 .. 2 * NumGlobalServers |->
                       LET i == (j - 1) \div 2
                       IN KeyBegin(i) + (IF j % 2 = 1 THEN PartOrig(n, i) ELSE k)],
           lens |-> [j \in 1 .. 2 * NumGlobalServers |->
                       IF j % 2 = 1 THEN 0 ELSE PartCompr(n, (j - 1) \div 2)]],
        pull |->
          [keys |-> [j \in 1..NumGlobalServers |-> KeyBegin(j - 1) + k],
           lens |-> [j \in 1..NumGlobalServers |-> PartOrig(n, j - 1)]]]

-----------------------------------------------------------------------------
(* Values, compression and slicing.                                        *)

\* A run of consecutive elements, or of compressed words, of one tensor.
Run(k, from, to) == [of |-> k, from |-> from, to |-> to]
Whole(k) == Run(k, 0, tensor[k].size)
Broken(k) == Run(k, 0, 0)

Size(v) == v.to - v.from

\* Segment [a, b) of the values v.
Segment(v, a, b) == Run(v.of, v.from + a, v.from + b)

\* Quantize and BSCompress: a whole tensor as words.
Compress(v) == Run(v.of, 0, IF Compression = "bsc" THEN 1 ELSE GetCompressedSize(Size(v)))

\* Dequantize and BSCDecompress fill an array of original_size elements.
Decompress(w, original_size) ==
  IF Compression = "bsc" THEN Run(w.of, 0, original_size)
  ELSE Run(w.of, w.from * Factor, w.from * Factor + original_size)

\* std::lower_bound on keys[from+1..], as a binary search: the keys of a
\* compressed push are not sorted.
LowerBound(keys, from, bound) ==
  LET search[first \in 0..Len(keys), count \in 0..Len(keys)] ==
        IF count = 0 THEN first
        ELSE LET half == count \div 2
             IN IF keys[first + half + 1] < bound
                THEN search[first + half + 1, count - half - 1]
                ELSE search[first, half]
  IN search[from, Len(keys) - from]

Sum(lens) == LET sum[j \in 0..Len(lens)] == IF j = 0 THEN 0 ELSE sum[j - 1] + lens[j]
             IN sum[Len(lens)]

\* Mutant: a key equal to the end of a range is left to that range.
DefaultSlicerClosed(kvs) ==
  LET pos[i \in 0..NumGlobalServers] ==
        IF i = 0 THEN 0 ELSE LowerBound(kvs.keys, pos[i - 1], KeyBegin(i) + 1)
  IN [i \in Server |->
        [keys |-> SubSeq(kvs.keys, pos[i] + 1, pos[i + 1]),
         lens |-> SubSeq(kvs.lens, pos[i] + 1, pos[i + 1]),
         vals |-> Segment(kvs.vals, Sum(SubSeq(kvs.lens, 1, pos[i])),
                                    Sum(SubSeq(kvs.lens, 1, pos[i + 1])))]]

\* The part of kvs that goes to each server; an empty part is not sent.  A pull
\* has no values: its lengths are all 0.
DefaultSlicer(kvs) ==
  LET pos[i \in 0..NumGlobalServers] ==
        LowerBound(kvs.keys, IF i = 0 THEN 0 ELSE pos[i - 1], KeyBegin(i))
  IN [i \in Server |->
        [keys |-> SubSeq(kvs.keys, pos[i] + 1, pos[i + 1]),
         lens |-> SubSeq(kvs.lens, pos[i] + 1, pos[i + 1]),
         vals |-> Segment(kvs.vals, Sum(SubSeq(kvs.lens, 1, pos[i])),
                                    Sum(SubSeq(kvs.lens, 1, pos[i + 1])))]]

-----------------------------------------------------------------------------
(* Requests.                                                               *)

Slices(sender, push, head, kvs) ==
  LET part == DefaultSlicer(kvs)
  IN [i \in Server |->
        [sender |-> sender, push |-> push, head |-> head,
         keys |-> part[i].keys, lens |-> part[i].lens, vals |-> part[i].vals]]

\* The slices go to their servers, each to the queue Accept picks.
Enqueue(msg) ==
  /\ recv_queue_' = [i \in Server |->
       IF msg[i].keys # <<>> /\ ~Accept(msg[i]) THEN Append(recv_queue_[i], msg[i])
                                                ELSE recv_queue_[i]]
  /\ recv_pull_queue_' = [i \in Server |->
       IF msg[i].keys # <<>> /\ Accept(msg[i]) THEN Append(recv_pull_queue_[i], msg[i])
                                               ELSE recv_pull_queue_[i]]

\* KVStoreDist::InitImpl of the master worker.  With 2-bit compression the
\* tensor is sent as it is but cut as later compressed pushes are.
MasterInit(k) ==
  LET n == tensor[k].size
      pskv == IF Compression = "2bit" THEN EncodeCompressedKey(k, n).pull
                                      ELSE EncodeDefaultKey(k, n)
  IN /\ k \notin master
     /\ master' = master \cup {k}
     /\ Enqueue(Slices(101, TRUE, GetCommandType(kDefaultPushPull, tensor[k].dtype),
                       [keys |-> pskv.keys, lens |-> pskv.lens, vals |-> Whole(k)]))
     /\ UNCHANGED <<tensor, phase, store_, acks, replies, recv_kvs_, key_map_, stored>>

\* DataPullFromGlobalServersDefault: pull k with the request type of the push
\* it follows, or compressed whenever 2-bit compression is set.
DataPullFromGlobalServersDefault(k, type) ==
  LET n == tensor[k].size
      mode == CASE Compression = "2bit" -> kCompressedPushPull
                [] Compression # "2bit" /\ type.requestType = kBSCompressedPushPull
                     -> kBSCompressedPushPull
                [] OTHER -> kDefaultPushPull
      pskv == IF mode = kDefaultPushPull THEN EncodeDefaultKey(k, n)
                                         ELSE EncodeCompressedKey(k, n).pull
      zeros == [j \in DOMAIN pskv.keys |-> 0]
  IN /\ Enqueue(Slices(9, FALSE, GetCommandType(mode, type.dtype),
                       [keys |-> pskv.keys, lens |-> zeros, vals |-> Broken(k)]))
     /\ key_map_' = [x \in ToSet(pskv.keys) |-> k] @@ key_map_

\* The party's first push of k stores it and pulls k at once.
FirstPull(k) ==
  /\ phase[k] = "new"
  /\ phase' = [phase EXCEPT ![k] = "firstpull"]
  /\ DataPullFromGlobalServersDefault(k, [requestType |-> kDefaultPushPull,
                                          dtype |-> tensor[k].dtype])
  /\ UNCHANGED <<tensor, master, store_, acks, replies, recv_kvs_, stored>>

\* DataPushToGlobalServers{Default,Compressed,BSCompressed}: push k's gradient.
Push(k) ==
  LET n == tensor[k].size
      mode == CASE Compression = "2bit" -> kCompressedPushPull
                [] Compression = "bsc" /\ n >= size_lower_bound -> kBSCompressedPushPull
                [] OTHER -> kDefaultPushPull
      dtype == IF mode = kBSCompressedPushPull THEN 0 ELSE tensor[k].dtype
      pskv == IF mode = kDefaultPushPull THEN EncodeDefaultKey(k, n)
                                         ELSE EncodeCompressedKey(k, n).push
      vals == IF mode = kDefaultPushPull THEN stored[k] ELSE Compress(stored[k])
      msg == Slices(9, TRUE, GetCommandType(mode, dtype),
                    [keys |-> pskv.keys, lens |-> pskv.lens, vals |-> vals])
  IN /\ phase[k] = "ready"
     /\ phase' = [phase EXCEPT ![k] = "push"]
     /\ Enqueue(msg)
     \* servers that get nothing count as answered
     /\ acks' = [acks EXCEPT ![k] = Cardinality({i \in Server : msg[i].keys = <<>>})]
     /\ UNCHANGED <<tensor, master, store_, replies, recv_kvs_, key_map_, stored>>

-----------------------------------------------------------------------------
(* The global servers.                                                     *)

Type(m) == DepairDataHandleType(m.head).requestType

\* The tensor key a message is about: the data key comes last.
KeyAt(i, m) == DecodeKey(i, Last(m.keys))

\* The elements a push carries, decompressed to the count in its meta key.
Pushed(i, m) == IF Type(m) = kDefaultPushPull THEN m.vals
                ELSE Decompress(m.vals, DecodeKey(i, m.keys[1]))

\* DefaultStorageResponse, once the key is initialised.
Answer(i, m) ==
  /\ KeyAt(i, m) \in DOMAIN store_[i]
  /\ replies' = replies \cup {[keys |-> m.keys, vals |-> store_[i][KeyAt(i, m)],
                               type |-> DepairDataHandleType(m.head)]}

\* The Receiving thread: a push is stored or (with one party) applied at once,
\* and acknowledged; a pull that Accept left here waits here.
Receiving(i) ==
  LET m == Head(recv_queue_[i])
      k == KeyAt(i, m)
  IN /\ recv_queue_[i] # <<>>
     /\ recv_queue_' = [recv_queue_ EXCEPT ![i] = Tail(@)]
     /\ \/ /\ m.push
           /\ store_' = [store_ EXCEPT ![i] = (k :> Pushed(i, m)) @@ @]
           /\ IF m.sender = 9
              THEN replies' = replies \cup {[keys |-> <<>>, key |-> k, from |-> i,
                                             type |-> DepairDataHandleType(m.head)]}
              ELSE UNCHANGED replies
        \/ ~m.push /\ Answer(i, m) /\ UNCHANGED store_
     /\ UNCHANGED <<tensor, master, phase, recv_pull_queue_, acks, recv_kvs_,
                    key_map_, stored>>

\* The pull thread.
PullReceiving(i) ==
  /\ recv_pull_queue_[i] # <<>>
  /\ recv_pull_queue_' = [recv_pull_queue_ EXCEPT ![i] = Tail(@)]
  /\ Answer(i, Head(recv_pull_queue_[i]))
  /\ UNCHANGED <<tensor, master, phase, recv_queue_, store_, acks, recv_kvs_,
                 key_map_, stored>>

-----------------------------------------------------------------------------
(* The party's server.                                                     *)

\* DataHandlePushResponseDefault: pull once every global server has answered.
PushResponse(r) ==
  LET k == r.key
  IN /\ r \in replies /\ r.keys = <<>>
     /\ replies' = replies \ {r}
     /\ IF acks[k] = NumGlobalServers - 1
        THEN /\ phase' = [phase EXCEPT ![k] = "pull"]
             /\ DataPullFromGlobalServersDefault(k, r.type)
             /\ UNCHANGED acks
        ELSE /\ acks' = [acks EXCEPT ![k] = @ + 1]
             /\ UNCHANGED <<phase, recv_queue_, recv_pull_queue_, key_map_>>
     /\ UNCHANGED <<tensor, master, store_, recv_kvs_, stored>>

\* The values of these parts in a row.
Concat(k, kvs) ==
  IF \A j \in 1 .. Len(kvs) - 1 : kvs[j].vals.to = kvs[j + 1].vals.from
  THEN Run(k, Head(kvs).vals.from, Last(kvs).vals.to)
  ELSE Broken(k)

\* The collected parts in the order of their keys.
Join(k, kvs) == Concat(k, SortSeq(kvs, LAMBDA a, b : a.keys[1] < b.keys[1]))

\* DataHandlePullResponseDefault: a tensor of bigarray_bound_ elements or more
\* waits for a part from every global server.
PullResponse(r) ==
  LET k == key_map_[r.keys[1]]
      kvs == Append(recv_kvs_[k], r)
      wait == tensor[k].size >= bigarray_bound_ /\ Len(kvs) # NumGlobalServers
  IN /\ r \in replies /\ r.keys # <<>>
     /\ replies' = replies \ {r}
     /\ recv_kvs_' = [recv_kvs_ EXCEPT ![k] = IF wait THEN kvs ELSE <<>>]
     /\ IF wait THEN UNCHANGED <<phase, stored>>
        ELSE /\ phase' = [phase EXCEPT ![k] = IF @ = "firstpull" THEN "ready" ELSE "done"]
             /\ stored' = [stored EXCEPT ![k] =
                  IF tensor[k].size < bigarray_bound_ THEN r.vals ELSE Join(k, kvs)]
     /\ UNCHANGED <<tensor, master, recv_queue_, recv_pull_queue_, store_, acks, key_map_>>

-----------------------------------------------------------------------------
Init ==
  /\ tensor \in [Key -> [size : Sizes, dtype : DTypes]]
  /\ master = {}
  /\ phase = [k \in Key |-> "new"]
  /\ recv_queue_ = [i \in Server |-> <<>>]
  /\ recv_pull_queue_ = [i \in Server |-> <<>>]
  /\ store_ = [i \in Server |-> <<>>]
  /\ acks = [k \in Key |-> 0]
  /\ replies = {}
  /\ recv_kvs_ = [k \in Key |-> <<>>]
  /\ key_map_ = <<>>
  /\ stored = [k \in Key |-> Broken(k)]

Next ==
  \/ \E k \in Key : MasterInit(k) \/ FirstPull(k) \/ Push(k)
  \/ \E i \in Server : Receiving(i) \/ PullReceiving(i)
  \/ \E r \in replies : PushResponse(r) \/ PullResponse(r)

Spec == Init /\ [][Next]_vars

\* Some step is enabled: ENABLED Next, written out.
Pending ==
  \/ master # Key
  \/ \E k \in Key : phase[k] \in {"new", "ready"}
  \/ \E i \in Server : recv_queue_[i] # <<>> /\
       LET m == Head(recv_queue_[i]) IN m.push \/ KeyAt(i, m) \in DOMAIN store_[i]
  \/ \E i \in Server : recv_pull_queue_[i] # <<>> /\
       KeyAt(i, Head(recv_pull_queue_[i])) \in DOMAIN store_[i]
  \/ replies # {}

\* Threads that can run do, the master worker initialises every tensor, and
\* messages arrive: WF_vars(Next).  Every behaviour is finite, so one fairness
\* condition for all of them will do.
FairSpec == Spec /\ ([]<>~Pending \/ []<><<Next>>_vars)

-----------------------------------------------------------------------------
(* Properties.                                                             *)

\* Type invariant.
TypeOK ==
  /\ tensor \in [Key -> [size : Sizes, dtype : DTypes]]
  /\ master \subseteq Key
  /\ phase \in [Key -> {"new", "firstpull", "ready", "push", "pull", "done"}]
  /\ acks \in [Key -> Server]
  /\ \A i \in Server : DOMAIN store_[i] \subseteq Key
  /\ \A k \in Key : Len(recv_kvs_[k]) < NumGlobalServers
  /\ ToSet(key_map_) \subseteq Key
  /\ \A k \in Key : stored[k].of = k /\ Size(stored[k]) \in 0..tensor[k].size

\* Whatever the codec, the cut and the order in which the parts come back, what
\* the party's server has put together (DataHandlePullResponseDefault) is the
\* whole tensor, each element at its own index.
PulledWhole ==
  \A k \in Key : phase[k] \notin {"new", "firstpull"} => stored[k] = Whole(k)

\* Every push a global server is about to apply satisfies its CHECKs (one key,
\* or a meta key and a data key), is about a tensor the sender meant, and
\* decompresses to the very elements the master worker left there.
PushesFit ==
  \A i \in Server : recv_queue_[i] # <<>> /\ Head(recv_queue_[i]).push =>
    LET m == Head(recv_queue_[i])
        k == KeyAt(i, m)
    IN /\ Len(m.keys) = IF Type(m) = kDefaultPushPull THEN 1 ELSE 2
       /\ k \in Key
       /\ Pushed(i, m).of = k
       /\ m.sender = 9 => k \in DOMAIN store_[i] /\ Pushed(i, m) = store_[i][k]

\* Every pull of the party is answered and applied, although it may reach a
\* global server before the master worker's initialisation does: no pull ends
\* up in the Receiving thread, which has to handle that initialisation.
AllPulled == \A k \in Key : phase[k] = "done"
PullsComplete == <>AllPulled

\* "The keys must be unique and sorted in an increasing order" (struct KVPairs),
\* for the keys of every push that reaches a global server.
KeysSorted ==
  \A i \in Server : \A j \in DOMAIN recv_queue_[i] :
    LET keys == recv_queue_[i][j].keys
    IN \A x \in 1 .. Len(keys) - 1 : keys[x] < keys[x + 1]
=============================================================================
