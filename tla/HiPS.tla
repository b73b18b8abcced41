-------------------------------- MODULE HiPS --------------------------------
(***************************************************************************)
(* The hierarchical parameter server of GeoMX in its default, fully        *)
(* synchronous mode (FSA): dist_sync, no compression, no TSEngine, P3, DGT *)
(* or HFA, and no training workers in the central party.                   *)
(*                                                                         *)
(* A worker pushes a gradient to the server of its party and pulls the     *)
(* weights back once the push is acknowledged (KVStoreDist).  A party      *)
(* server adds up the gradients of its workers, pushes the sum to the      *)
(* global servers, and, when all of them have answered, pulls the new      *)
(* weights from them and acknowledges its workers.  A global server adds   *)
(* up the sums of all parties, applies the optimizer and acknowledges the  *)
(* parties (KVStoreDistServer on both levels).                             *)
(*                                                                         *)
(* Every server has two receive threads (Customer): Receiving handles      *)
(* pushes and responses one at a time, ReceivingPull serves pull requests. *)
(* Their queues are priority heaps (ThreadsafeQueue), so messages of equal *)
(* priority leave them in any order: a network plane is a set of messages. *)
(***************************************************************************)
EXTENDS Integers, FiniteSets, Sequences

CONSTANTS
  Party,      \* parties; a party stands for its one server, a global worker
  Worker,     \* the training workers of all parties
  PartyOf,    \* [Worker -> Party]
  Rank0,      \* [Party -> Worker], the worker with rank 0 in each party
  GServer,    \* the global servers
  Master,     \* the master worker of the central party
  NumKeys,    \* keys are 0 .. NumKeys - 1, as the training script numbers them
  ShardsOf,   \* [Key -> SUBSET GServer], where EncodeDefaultKey puts a key
  MaxRound    \* bound: number of training iterations of the script

Key == 0 .. (NumKeys - 1)
Round == 0 .. MaxRound
WorkersOf(p) == {w \in Worker : PartyOf[w] = p}
Server == Party \cup GServer

\* A key below MXNET_KVSTORE_BIGARRAY_BOUND lives on one global server, a
\* larger one is spread over all of them.
ASSUME ConstantsAssumption ==
  /\ IsFiniteSet(Party) /\ IsFiniteSet(Worker) /\ IsFiniteSet(GServer)
  /\ Party # {} /\ GServer # {} /\ Party \cap GServer = {}
  /\ Master \notin Worker /\ Master \notin Party
  /\ PartyOf \in [Worker -> Party]
  /\ Rank0 \in [Party -> Worker]
  /\ \A p \in Party : PartyOf[Rank0[p]] = p
  /\ NumKeys \in Nat \ {0} /\ MaxRound \in Nat
  /\ ShardsOf \in [Key -> SUBSET GServer]
  /\ \A k \in Key : ShardsOf[k] = GServer \/ \E g \in GServer : ShardsOf[k] = {g}

(***************************************************************************)
(* Array contents.  The content of one shard of a tensor is a formal sum   *)
(* of atoms: <<w, 0>> is the initial value node w made up, <<w, r>> with   *)
(* r > 0 the gradient of worker w in iteration r.                          *)
(***************************************************************************)
Atom == (Worker \cup {Master}) \X Round
Content == [Atom -> Nat]
Array(k) == [ShardsOf[k] -> Content]

Zero == [a \in Atom |-> 0]
Unit(w, r) == [a \in Atom |-> IF a = <<w, r>> THEN 1 ELSE 0]
Plus(c, d) == [a \in Atom |-> c[a] + d[a]]
Fill(k, c) == [g \in ShardsOf[k] |-> c]
PlusArray(k, x, y) == [g \in ShardsOf[k] |-> Plus(x[g], y[g])]

-----------------------------------------------------------------------------
VARIABLES
  \* KVStoreDist, per worker and key
  phase,        \* what the worker is doing with the key
  round,        \* iterations whose gradient it has pushed
  pulled,       \* its parameter, as the last completed pull left it
  \* KVStoreDist of the master worker
  master_key,   \* next key it initializes
  master_acks,  \* responses to its current push; NotPushed before the push
  \* KVStoreDistServer, per server and key
  stored,       \* keys whose store_ entry is not none
  store_,       \* content of store_: an Array at a party, a Content at a global server
  initialized_, \* keys with initialized_ set
  merged,       \* update_buf_.merged
  request,      \* update_buf_.request
  \* KVStoreDistServer of a party
  request_tmp,  \* update_buf_tmp_.request
  tracker_,     \* Customer::tracker_, responses received per request timestamp
  ts_key_map_,  \* timestamp -> key of the pushes not yet answered by all
  recv_kvs_,    \* parts of the pulled tensor received so far
  \* Customer::ReceivingPull, per server
  pulling,      \* the pull request it has popped, if any
  reading,      \* it is past the wait on initialized_
  \* network planes, with the receive queues behind them
  lnet,         \* between workers and their party's server
  gnet          \* between parties (and the master worker) and global servers

worker_vars == <<phase, round, pulled>>
master_vars == <<master_key, master_acks>>
store_vars == <<stored, store_, initialized_, merged, request>>
party_vars == <<request_tmp, tracker_, ts_key_map_, recv_kvs_>>
pull_vars == <<pulling, reading>>
vars == <<worker_vars, master_vars, store_vars, party_vars, pull_vars, lnet, gnet>>

InitPhases == {"fresh", "init_push", "barrier"}
Phases == InitPhases \cup {"pulling", "idle", "pushing"}
NotPushed == -1

\* Messages.  The direction follows from the type; the payload of a message
\* that carries none is all zero.
MsgType == {"push", "push_ack", "pull", "pull_data"}
LMsg(t, w, k, ts, val) == [type |-> t, worker |-> w, key |-> k, ts |-> ts, val |-> val]
GMsg(t, n, g, k, ts, val) ==
  [type |-> t, peer |-> n, server |-> g, key |-> k, ts |-> ts, val |-> val]

NoLoad(k) == Fill(k, Zero)

Init ==
  /\ phase = [w \in Worker |-> [k \in Key |-> "fresh"]]
  /\ round = [w \in Worker |-> [k \in Key |-> 0]]
  /\ pulled = [w \in Worker |-> [k \in Key |-> Fill(k, Unit(w, 0))]]
  /\ master_key = 0
  /\ master_acks = NotPushed
  /\ stored = [s \in Server |-> {}]
  /\ store_ = [s \in Server |-> [k \in Key |-> IF s \in Party THEN NoLoad(k) ELSE Zero]]
  /\ initialized_ = [s \in Server |-> {}]
  /\ merged = store_
  /\ request = [s \in Server |-> [k \in Key |-> {}]]
  /\ request_tmp = [p \in Party |-> [k \in Key |-> {}]]
  /\ tracker_ = [p \in Party |-> <<>>]
  /\ ts_key_map_ = [p \in Party |-> {}]
  /\ recv_kvs_ = [p \in Party |-> [k \in Key |-> {}]]
  /\ pulling = [s \in Server |-> {}]
  /\ reading = [s \in Server |-> FALSE]
  /\ lnet = {}
  /\ gnet = {}
-----------------------------------------------------------------------------
(***************************************************************************)
(* Workers: KVStoreDist and the loop of the training script.               *)
(***************************************************************************)
SetPhase(w, k, ph) == phase' = [phase EXCEPT ![w][k] = ph]

\* The script initializes its keys one after the other: Init of a key blocks
\* in the barrier, and the pull that follows it is asynchronous.
ReadyToInit(w, k) ==
  /\ phase[w][k] = "fresh"
  /\ \A j \in Key : j < k => phase[w][j] \notin InitPhases

\* InitImpl on rank 0: push the value and wait for the response.
InitPush(w, k) ==
  /\ ReadyToInit(w, k)
  /\ w = Rank0[PartyOf[w]]
  /\ SetPhase(w, k, "init_push")
  /\ lnet' = lnet \cup {LMsg("push", w, k, 0, Fill(k, Unit(w, 0)))}
  /\ UNCHANGED <<round, pulled, master_vars, store_vars, party_vars, pull_vars, gnet>>

\* InitImpl on the other ranks: straight to the barrier.
InitSkip(w, k) ==
  /\ ReadyToInit(w, k)
  /\ w # Rank0[PartyOf[w]]
  /\ SetPhase(w, k, "barrier")
  /\ UNCHANGED <<round, pulled, master_vars, store_vars, party_vars, pull_vars, lnet, gnet>>

InitAcked(m) ==
  /\ m \in lnet /\ m.type = "push_ack"
  /\ phase[m.worker][m.key] = "init_push"
  /\ SetPhase(m.worker, m.key, "barrier")
  /\ lnet' = lnet \ {m}
  /\ UNCHANGED <<round, pulled, master_vars, store_vars, party_vars, pull_vars, gnet>>

\* The barrier over the workers of the party lets go once all of them are in
\* it; the script then pulls the key.
FirstPull(w, k) ==
  /\ phase[w][k] = "barrier"
  /\ \A v \in WorkersOf(PartyOf[w]) : phase[v][k] \notin {"fresh", "init_push"}
  /\ SetPhase(w, k, "pulling")
  /\ lnet' = lnet \cup {LMsg("pull", w, k, 0, NoLoad(k))}
  /\ UNCHANGED <<round, pulled, master_vars, store_vars, party_vars, pull_vars, gnet>>

\* Push_ of an iteration's gradient.  The script waits for all its keys at
\* the end of an iteration (waitall) before it starts the next one.
PushGradient(w, k) ==
  LET r == round[w][k] + 1 IN
  /\ phase[w][k] = "idle"
  /\ r <= MaxRound
  /\ \A j \in Key : round[w][j] = r \/ (round[w][j] = r - 1 /\ phase[w][j] = "idle")
  /\ round' = [round EXCEPT ![w][k] = r]
  /\ SetPhase(w, k, "pushing")
  /\ lnet' = lnet \cup {LMsg("push", w, k, r, Fill(k, Unit(w, r)))}
  /\ UNCHANGED <<pulled, master_vars, store_vars, party_vars, pull_vars, gnet>>

\* The response to the push runs its callback; the engine then starts the
\* pull of the same key, which was queued behind the push on comm_buf_.
PushAcked(m) ==
  /\ m \in lnet /\ m.type = "push_ack"
  /\ phase[m.worker][m.key] = "pushing"
  /\ SetPhase(m.worker, m.key, "pulling")
  /\ lnet' = (lnet \ {m}) \cup {LMsg("pull", m.worker, m.key, m.ts, NoLoad(m.key))}
  /\ UNCHANGED <<round, pulled, master_vars, store_vars, party_vars, pull_vars, gnet>>

PullDone(m) ==
  /\ m \in lnet /\ m.type = "pull_data"
  /\ SetPhase(m.worker, m.key, "idle")
  /\ pulled' = [pulled EXCEPT ![m.worker][m.key] = m.val]
  /\ lnet' = lnet \ {m}
  /\ UNCHANGED <<round, master_vars, store_vars, party_vars, pull_vars, gnet>>

(***************************************************************************)
(* The master worker initializes every key on the global servers, one key  *)
(* after the other, and then leaves the script.                            *)
(***************************************************************************)
\* Mutant: servers that hold no part of the key are waited for.
SkippedNone(k) == 0

\* KVWorker::Send and KVServer::Send credit a request with the servers it does
\* not go to (AddResponse).
Skipped(k) == Cardinality(GServer \ ShardsOf[k])

MasterInit ==
  /\ master_key < NumKeys
  /\ master_acks = NotPushed
  /\ master_acks' = Skipped(master_key)
  /\ gnet' = gnet \cup {GMsg("push", Master, g, master_key, 0, Unit(Master, 0)) :
                          g \in ShardsOf[master_key]}
  /\ UNCHANGED <<master_key, worker_vars, store_vars, party_vars, pull_vars, lnet>>

\* KVWorker::Process runs the callback at the last response but one, because
\* the response at hand is counted only after the handler.
MasterAcked(m) ==
  /\ m \in gnet /\ m.type = "push_ack" /\ m.peer = Master
  /\ IF master_acks = Cardinality(GServer) - 1
       THEN master_key' = master_key + 1 /\ master_acks' = NotPushed
       ELSE master_key' = master_key /\ master_acks' = master_acks + 1
  /\ gnet' = gnet \ {m}
  /\ UNCHANGED <<worker_vars, store_vars, party_vars, pull_vars, lnet>>
-----------------------------------------------------------------------------
(***************************************************************************)
(* Receiving thread of a party server.  DataHandleSyncDefault has three    *)
(* outcomes: the first push of a key initializes it, a later one is added  *)
(* up, and the one that completes the party also goes to the global        *)
(* servers.                                                                *)
(***************************************************************************)
IsPush(m) == m \in lnet /\ m.type = "push"
Meta(m) == <<m.worker, m.ts>>

\* Mutant: the tensor is not sliced, every server is sent the whole of it.
SliceNone(val, g) == val

\* The part of a tensor that EncodeDefaultKey assigns to a global server.
Slice(val, g) == val[g]

\* Customer::NewRequest numbers the requests of a party to the global servers;
\* Send at once credits a request with the servers it does not go to.
NewTs(p) == Len(tracker_[p]) + 1
NewRequest(tracker, k) == Append(tracker, Skipped(k))

\* DataPullFromGlobalServersDefault: one request per shard of the key.
PullFromGlobal(p, k) == {GMsg("pull", p, g, k, NewTs(p), Zero) : g \in ShardsOf[k]}

\* DataPushToGlobalServersDefault: each global server gets its part of the sum.
PushToGlobal(p, k, sum) ==
  {GMsg("push", p, g, k, NewTs(p), Slice(sum, g)) : g \in ShardsOf[k]}

LocalInit(m) ==
  LET p == PartyOf[m.worker]  k == m.key IN
  /\ IsPush(m)
  /\ k \notin stored[p]
  /\ stored' = [stored EXCEPT ![p] = @ \cup {k}]
  /\ store_' = [store_ EXCEPT ![p][k] = m.val]
  /\ lnet' = (lnet \ {m}) \cup {LMsg("push_ack", m.worker, k, m.ts, NoLoad(k))}
  /\ gnet' = gnet \cup PullFromGlobal(p, k)
  /\ tracker_' = [tracker_ EXCEPT ![p] = NewRequest(@, k)]
  /\ UNCHANGED <<initialized_, merged, request, request_tmp, ts_key_map_, recv_kvs_,
                 worker_vars, master_vars, pull_vars>>

\* Mutants: every push completes the party; the sum is overwritten.
PartyCompleteAlways(p, reqs) == TRUE
MergeOverwrites(p, k, val) == val

\* All NumWorkers() pushes of the round are in.
PartyComplete(p, reqs) == Cardinality(reqs) = Cardinality(WorkersOf(p))

\* CopyFromTo(recved, merged) for the first push of a round, += for the rest.
Merge(p, k, val) ==
  IF request[p][k] = {} THEN val ELSE PlusArray(k, merged[p][k], val)

LocalAggregate(m) ==
  LET p == PartyOf[m.worker]  k == m.key
      reqs == request[p][k] \cup {Meta(m)} IN
  /\ IsPush(m)
  /\ k \in stored[p]
  /\ ~PartyComplete(p, reqs)
  /\ merged' = [merged EXCEPT ![p][k] = Merge(p, k, m.val)]
  /\ request' = [request EXCEPT ![p][k] = reqs]
  /\ lnet' = lnet \ {m}
  /\ UNCHANGED <<stored, store_, initialized_, worker_vars, master_vars, party_vars, pull_vars, gnet>>

\* The optimizer (updater_, a Python callback run by the Executor) adds the
\* aggregated gradient to the weights.
Updater(weight, grad) == Plus(weight, grad)

\* ApplyUpdates: a global server runs the optimizer, a party keeps the sum.
ApplyUpdates(s, weight, sum) == IF s \in GServer THEN Updater(weight, sum) ELSE sum

\* The sum lands in store_, the requests move to update_buf_tmp_, and the sum
\* is pushed under a new timestamp.
LocalForward(m) ==
  LET p == PartyOf[m.worker]  k == m.key
      reqs == request[p][k] \cup {Meta(m)}
      sum == Merge(p, k, m.val) IN
  /\ IsPush(m)
  /\ k \in stored[p]
  /\ PartyComplete(p, reqs)
  /\ merged' = [merged EXCEPT ![p][k] = sum]
  /\ store_' = [store_ EXCEPT ![p][k] = ApplyUpdates(p, @, sum)]
  /\ request' = [request EXCEPT ![p][k] = {}]
  /\ request_tmp' = [request_tmp EXCEPT ![p][k] = reqs]
  /\ tracker_' = [tracker_ EXCEPT ![p] = NewRequest(@, k)]
  /\ ts_key_map_' = [ts_key_map_ EXCEPT ![p] = @ \cup {<<NewTs(p), k>>}]
  /\ gnet' = gnet \cup PushToGlobal(p, k, sum)
  /\ lnet' = lnet \ {m}
  /\ UNCHANGED <<stored, initialized_, recv_kvs_, worker_vars, master_vars, pull_vars>>

\* DataHandlePushResponseDefault.  The response carries no key: it is looked
\* up by timestamp, and operator[] yields 0 for a timestamp it does not hold.
KeyOfTs(p, ts) ==
  IF \E k \in Key : <<ts, k>> \in ts_key_map_[p]
    THEN CHOOSE k \in Key : <<ts, k>> \in ts_key_map_[p]
    ELSE 0

\* Mutant: the first response already starts the pull.
LastResponseAny(p, ts) == TRUE

\* NumResponse(ts) == NumGlobalServers() - 1: the response at hand is not yet
\* counted.
LastResponse(p, ts) == tracker_[p][ts] = Cardinality(GServer) - 1

IsResponse(m, t) == m \in gnet /\ m.type = t /\ m.peer \in Party

\* Customer::Receiving counts a response after its handler has run.
CountResponse(tracker, ts) == [tracker EXCEPT ![ts] = @ + 1]

PushResponseWait(m) ==
  /\ IsResponse(m, "push_ack")
  /\ ~LastResponse(m.peer, m.ts)
  /\ tracker_' = [tracker_ EXCEPT ![m.peer] = CountResponse(@, m.ts)]
  /\ gnet' = gnet \ {m}
  /\ UNCHANGED <<request_tmp, ts_key_map_, recv_kvs_, worker_vars, master_vars, store_vars, pull_vars, lnet>>

PushResponseLast(m) ==
  LET p == m.peer  k == KeyOfTs(p, m.ts) IN
  /\ IsResponse(m, "push_ack")
  /\ LastResponse(p, m.ts)
  /\ tracker_' = [tracker_ EXCEPT ![p] = CountResponse(NewRequest(@, k), m.ts)]
  /\ ts_key_map_' = [ts_key_map_ EXCEPT ![p] = @ \ {<<m.ts, k>>}]
  /\ gnet' = (gnet \ {m}) \cup PullFromGlobal(p, k)
  /\ UNCHANGED <<request_tmp, recv_kvs_, worker_vars, master_vars, store_vars, pull_vars, lnet>>

\* DataHandlePullResponseDefault.  A key spread over several servers waits
\* for as many parts as there are servers, which are then laid out in the
\* order of their keys: each part in the slot of its server, if no server
\* answered twice.
Part(m) == [server |-> m.server, ts |-> m.ts, val |-> m.val]
Parts(m) == recv_kvs_[m.peer][m.key] \cup {Part(m)}
IsBig(k) == ShardsOf[k] = GServer
Slot(parts, g) ==
  CHOOSE part \in parts : (\E q \in parts : q.server = g) => part.server = g

\* Mutant: what was pulled is not copied to store_.
AssembleNothing(k, m) == store_[m.peer][k]

Assemble(k, m) ==
  IF IsBig(k) THEN [g \in ShardsOf[k] |-> Slot(Parts(m), g).val] ELSE Fill(k, m.val)

PullResponsePart(m) ==
  /\ IsResponse(m, "pull_data")
  /\ IsBig(m.key)
  /\ Cardinality(Parts(m)) # Cardinality(GServer)
  /\ recv_kvs_' = [recv_kvs_ EXCEPT ![m.peer][m.key] = Parts(m)]
  /\ tracker_' = [tracker_ EXCEPT ![m.peer] = CountResponse(@, m.ts)]
  /\ gnet' = gnet \ {m}
  /\ UNCHANGED <<request_tmp, ts_key_map_, worker_vars, master_vars, store_vars, pull_vars, lnet>>

\* The last part: the first pull of a key opens it to the workers' pulls, a
\* later one acknowledges the pushes of the round.
PullResponseLast(m) ==
  LET p == m.peer  k == m.key IN
  /\ IsResponse(m, "pull_data")
  /\ ~IsBig(k) \/ Cardinality(Parts(m)) = Cardinality(GServer)
  /\ store_' = [store_ EXCEPT ![p][k] = Assemble(k, m)]
  /\ recv_kvs_' = [recv_kvs_ EXCEPT ![p][k] = {}]
  /\ IF k \notin initialized_[p]
       THEN /\ initialized_' = [initialized_ EXCEPT ![p] = @ \cup {k}]
            /\ UNCHANGED <<request_tmp, lnet>>
       ELSE /\ lnet' = lnet \cup {LMsg("push_ack", q[1], k, q[2], NoLoad(k)) : q \in request_tmp[p][k]}
            /\ request_tmp' = [request_tmp EXCEPT ![p][k] = {}]
            /\ UNCHANGED initialized_
  /\ tracker_' = [tracker_ EXCEPT ![p] = CountResponse(@, m.ts)]
  /\ gnet' = gnet \ {m}
  /\ UNCHANGED <<stored, merged, request, ts_key_map_, worker_vars, master_vars, pull_vars>>
-----------------------------------------------------------------------------
(***************************************************************************)
(* Receiving thread of a global server: DataHandleSyncDefault with         *)
(* sender < kOffset.  The branch that drops the gradients of central       *)
(* workers is not reached: the master worker pushes each key once.         *)
(***************************************************************************)
IsGlobalPush(m) == m \in gnet /\ m.type = "push"
GlobalMeta(m) == <<m.peer, m.ts>>

\* Mutant: the update is applied push by push, as in the asynchronous mode.
GlobalCompleteAlways(reqs) == TRUE

\* All NumGlobalWorkers() pushes of the round are in.
GlobalComplete(reqs) == Cardinality(reqs) = Cardinality(Party)
GlobalMerge(g, k, val) ==
  IF request[g][k] = {} THEN val ELSE Plus(merged[g][k], val)

GlobalInit(m) ==
  LET g == m.server  k == m.key IN
  /\ IsGlobalPush(m)
  /\ k \notin stored[g]
  /\ stored' = [stored EXCEPT ![g] = @ \cup {k}]
  /\ store_' = [store_ EXCEPT ![g][k] = m.val]
  /\ initialized_' = [initialized_ EXCEPT ![g] = @ \cup {k}]
  /\ gnet' = (gnet \ {m}) \cup {GMsg("push_ack", m.peer, g, k, m.ts, Zero)}
  /\ UNCHANGED <<merged, request, worker_vars, master_vars, party_vars, pull_vars, lnet>>

GlobalAggregate(m) ==
  LET g == m.server  k == m.key
      reqs == request[g][k] \cup {GlobalMeta(m)} IN
  /\ IsGlobalPush(m)
  /\ k \in stored[g]
  /\ ~GlobalComplete(reqs)
  /\ merged' = [merged EXCEPT ![g][k] = GlobalMerge(g, k, m.val)]
  /\ request' = [request EXCEPT ![g][k] = reqs]
  /\ gnet' = gnet \ {m}
  /\ UNCHANGED <<stored, store_, initialized_, worker_vars, master_vars, party_vars, pull_vars, lnet>>

GlobalApply(m) ==
  LET g == m.server  k == m.key
      reqs == request[g][k] \cup {GlobalMeta(m)}
      sum == GlobalMerge(g, k, m.val) IN
  /\ IsGlobalPush(m)
  /\ k \in stored[g]
  /\ GlobalComplete(reqs)
  /\ merged' = [merged EXCEPT ![g][k] = sum]
  /\ store_' = [store_ EXCEPT ![g][k] = ApplyUpdates(g, @, sum)]
  /\ request' = [request EXCEPT ![g][k] = {}]
  /\ gnet' = (gnet \ {m}) \cup {GMsg("push_ack", q[1], g, k, q[2], Zero) : q \in reqs}
  /\ UNCHANGED <<stored, initialized_, worker_vars, master_vars, party_vars, pull_vars, lnet>>

-----------------------------------------------------------------------------
(***************************************************************************)
(* The ReceivingPull thread of a server: DataHandlePullDefault.  It pops a *)
(* request, sleeps until the key is initialized, then copies store_ into   *)
(* the response while the Receiving thread may run.                        *)
(***************************************************************************)
PullRequests(s) ==
  IF s \in Party
    THEN {m \in lnet : m.type = "pull" /\ PartyOf[m.worker] = s}
    ELSE {m \in gnet : m.type = "pull" /\ m.server = s}

PullPop(s, m) ==
  /\ pulling[s] = {}
  /\ m \in PullRequests(s)
  /\ pulling' = [pulling EXCEPT ![s] = {m}]
  /\ lnet' = lnet \ {m}
  /\ gnet' = gnet \ {m}
  /\ UNCHANGED <<reading, worker_vars, master_vars, store_vars, party_vars>>

\* Mutant: the pull does not wait for the key to be initialized.
PullReadNoWait(s, m) ==
  /\ m \in pulling[s]
  /\ ~reading[s]
  /\ reading' = [reading EXCEPT ![s] = TRUE]
  /\ UNCHANGED <<pulling, worker_vars, master_vars, store_vars, party_vars, lnet, gnet>>

PullRead(s, m) ==
  /\ m \in pulling[s]
  /\ ~reading[s]
  /\ m.key \in initialized_[s]
  /\ reading' = [reading EXCEPT ![s] = TRUE]
  /\ UNCHANGED <<pulling, worker_vars, master_vars, store_vars, party_vars, lnet, gnet>>

\* DefaultStorageResponse; it takes store_mu_, which no writer of store_ takes.
PullRespond(s, m) ==
  /\ m \in pulling[s]
  /\ reading[s]
  /\ IF s \in Party
       THEN /\ lnet' = lnet \cup {LMsg("pull_data", m.worker, m.key, m.ts, store_[s][m.key])}
            /\ UNCHANGED gnet
       ELSE /\ gnet' = gnet \cup {GMsg("pull_data", m.peer, s, m.key, m.ts, store_[s][m.key])}
            /\ UNCHANGED lnet
  /\ pulling' = [pulling EXCEPT ![s] = {}]
  /\ reading' = [reading EXCEPT ![s] = FALSE]
  /\ UNCHANGED <<worker_vars, master_vars, store_vars, party_vars>>

-----------------------------------------------------------------------------
WorkerStep ==
  \/ \E w \in Worker, k \in Key :
       InitPush(w, k) \/ InitSkip(w, k) \/ FirstPull(w, k) \/ PushGradient(w, k)
  \/ \E m \in lnet : InitAcked(m) \/ PushAcked(m) \/ PullDone(m)

MasterStep == MasterInit \/ \E m \in gnet : MasterAcked(m)

PartyStep ==
  \/ \E m \in lnet : LocalInit(m) \/ LocalAggregate(m) \/ LocalForward(m)
  \/ \E m \in gnet : PushResponseWait(m) \/ PushResponseLast(m)
                       \/ PullResponsePart(m) \/ PullResponseLast(m)

GlobalStep == \E m \in gnet : GlobalInit(m) \/ GlobalAggregate(m) \/ GlobalApply(m)

PullStep ==
  \E s \in Server :
    \/ \E m \in PullRequests(s) : PullPop(s, m)
    \/ \E m \in pulling[s] : PullRead(s, m) \/ PullRespond(s, m)

\* The script has run all its iterations.
Finished == \A w \in Worker, k \in Key : round[w][k] = MaxRound /\ phase[w][k] = "idle"
Terminated == Finished /\ UNCHANGED vars

Next == WorkerStep \/ MasterStep \/ PartyStep \/ GlobalStep \/ PullStep \/ Terminated

Spec == Init /\ [][Next]_vars

\* Weakest assumption under which anything happens: the threads of the system
\* do not all stop while one of them can take a step.
FairSpec == Spec /\ WF_vars(Next)

-----------------------------------------------------------------------------
Peer == Party \cup {Master}
LocalMsg(k) == [type : MsgType, worker : Worker, key : {k}, ts : Round, val : Array(k)]
GlobalMsg == [type : MsgType, peer : Peer, server : GServer, key : Key, ts : Nat, val : Content]
PartType == [server : GServer, ts : Nat, val : Content]

WorkerTypeOK ==
  /\ phase \in [Worker -> [Key -> Phases]]
  /\ round \in [Worker -> [Key -> Round]]
  /\ DOMAIN pulled = Worker
  /\ \A w \in Worker : DOMAIN pulled[w] = Key
  /\ \A w \in Worker, k \in Key : pulled[w][k] \in Array(k)

MasterTypeOK == master_key \in Nat /\ master_acks \in Nat \cup {NotPushed}

\* A party's arrays are whole tensors, a global server's are shards.
ArraysTypeOK(arrays) ==
  /\ DOMAIN arrays = Server
  /\ \A s \in Server : DOMAIN arrays[s] = Key
  /\ \A p \in Party, k \in Key : arrays[p][k] \in Array(k)
  /\ \A g \in GServer, k \in Key : arrays[g][k] \in Content

\* A party is asked by workers, a global server by parties and the master.
RequestsTypeOK(requests) ==
  /\ DOMAIN requests = Server
  /\ \A s \in Server : DOMAIN requests[s] = Key
  /\ \A p \in Party, k \in Key : requests[p][k] \subseteq Worker \X Round
  /\ \A g \in GServer, k \in Key : requests[g][k] \subseteq Peer \X Nat

StoreTypeOK ==
  /\ stored \in [Server -> SUBSET Key]
  /\ initialized_ \in [Server -> SUBSET Key]
  /\ ArraysTypeOK(store_)
  /\ ArraysTypeOK(merged)
  /\ RequestsTypeOK(request)

PartyTypeOK ==
  /\ request_tmp \in [Party -> [Key -> SUBSET (Worker \X Round)]]
  /\ tracker_ \in [Party -> Seq(Nat)]
  /\ ts_key_map_ \in [Party -> SUBSET (Nat \X Key)]
  /\ recv_kvs_ \in [Party -> [Key -> SUBSET PartType]]

PullTypeOK ==
  /\ DOMAIN pulling = Server
  /\ \A p \in Party : \A m \in pulling[p] : \E k \in Key : m \in LocalMsg(k)
  /\ \A g \in GServer : pulling[g] \subseteq GlobalMsg
  /\ reading \in [Server -> BOOLEAN]

NetTypeOK ==
  /\ \A m \in lnet : \E k \in Key : m \in LocalMsg(k)
  /\ gnet \subseteq GlobalMsg

\* Type invariant: every variable keeps the shape of the fields it models; in
\* particular slicing and assembling keep whole tensors at the parties and
\* single shards at the global servers.
TypeOK ==
  /\ WorkerTypeOK
  /\ MasterTypeOK
  /\ StoreTypeOK
  /\ PartyTypeOK
  /\ PullTypeOK
  /\ NetTypeOK

\* What the weights are after n iterations of the script: the value the master
\* worker initialized plus every worker's gradient of iterations 1 .. n, each
\* counted once.
Weight(n) ==
  [a \in Atom |-> IF a = <<Master, 0>> \/ (a[1] # Master /\ a[2] \in 1 .. n) THEN 1 ELSE 0]

\* Fully synchronous training: when a worker's pull of a key completes after
\* its push of iteration r, every shard it holds contains the gradients of
\* iterations 1 .. r of ALL workers of ALL parties exactly once, none of a later
\* iteration, and the initial value of the master worker rather than that of
\* any party (DataHandleSyncDefault, DataHandlePullResponseDefault).
PulledWeights ==
  \A w \in Worker, k \in Key :
    phase[w][k] = "idle" => pulled[w][k] = Fill(k, Weight(round[w][k]))

\* The pull thread copies store_ under store_mu_ while the Receiving thread
\* writes it under no lock: a step never changes the entry being copied.
NoReadWriteRace ==
  [][\A s \in Server : \A m \in pulling[s] :
       reading[s] => store_'[s][m.key] = store_[s][m.key]]_vars

\* update_buf_tmp_.request is overwritten when a party is complete: the requests
\* of the previous round have been answered by then, so no worker is left
\* waiting for a response.
NoRequestLost ==
  [][\A p \in Party, k \in Key :
       request_tmp[p][k] # {} => request_tmp'[p][k] \in {request_tmp[p][k], {}}]_vars

\* The handler of a push response finds the timestamp in ts_key_map_ (operator[]
\* would silently answer key 0), and finds there the key that was pushed.
PushResponseFindsKey ==
  \A m \in gnet :
    m.type = "push_ack" /\ m.peer \in Party => <<m.ts, m.key>> \in ts_key_map_[m.peer]

\* A pull response meets in recv_kvs_ only parts of its own pull request, from
\* other servers: recv_kvs_ is indexed by key only and complete by number, so
\* nothing but the protocol keeps two parts of one server, or parts of two
\* pulls, from passing for a whole tensor ("Lost some servers?").
PartsOfOnePull ==
  \A m \in gnet :
    IsResponse(m, "pull_data") =>
      \A a, b \in Parts(m) : a.ts = b.ts /\ (a.server = b.server => a = b)

\* A party's store_ holds the sum of its gradients between two pulls from the
\* global servers; no pull of a worker is waiting or served in that window.
NoGradientServed ==
  \A p \in Party : \A m \in PullRequests(p) \cup pulling[p] :
    m.key \in initialized_[p] => store_[p][m.key] = Fill(m.key, Weight(m.ts))

\* Every worker completes all iterations: no message is lost to the counting of
\* responses and nobody waits for ever (wait for Finished under FairSpec).
Termination == <>Finished
=============================================================================
