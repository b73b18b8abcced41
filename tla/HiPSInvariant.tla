---------------------------- MODULE HiPSInvariant ----------------------------
(***************************************************************************)
(* The inductive invariant of HiPS.                                        *)
(*                                                                         *)
(* No message of the protocol names the round it belongs to, so the        *)
(* invariant reads the round of a party off its workers: Ver(p, k) is the  *)
(* number of rounds of key k that the workers of p have been told of.  It  *)
(* then says how far each party is in the round after that one, which      *)
(* version a shard has as seen from each party, and what every message and *)
(* every buffer holds.                                                     *)
(***************************************************************************)
EXTENDS HiPS

\* The gradients of round r of the workers in S, each once.
Gradients(S, r) == [a \in Atom |-> IF a[1] \in S /\ a[2] = r THEN 1 ELSE 0]

-----------------------------------------------------------------------------
(* Workers and their party *)

\* Nothing is under way between a worker and its server about the key; the
\* answer to a push is.
Silent(w, k) == \A m \in lnet : ~(m.worker = w /\ m.key = k)
Acknowledged(w, k) == \E m \in lnet : m.type = "push_ack" /\ m.worker = w /\ m.key = k

\* The rounds whose push has been answered.
Acked(w, k) ==
  IF phase[w][k] = "pushing" /\ ~Acknowledged(w, k) THEN round[w][k] - 1 ELSE round[w][k]
Ver(p, k) == Acked(Rank0[p], k)

\* The party has a round at the global servers; their answers to its push are
\* not all in.
Busy(p, k) == request_tmp[p][k] # {}
Pushing(p, k) == \E e \in ts_key_map_[p] : e[2] = k

\* The phase of a worker fits its round.
WorkerOK(w, k) ==
  /\ phase[w][k] \in InitPhases => round[w][k] = 0
  /\ phase[w][k] = "pushing" => round[w][k] >= 1
  /\ phase[w][k] = "init_push" => w = Rank0[PartyOf[w]]
  /\ phase[w][k] = "idle" => pulled[w][k] = Fill(k, Weight(round[w][k]))
Workers == \A w \in Worker, k \in Key : WorkerOK(w, k)

\* A message fits the phase of its worker, and there is no second one.
LocalOK(m) ==
  /\ m.ts = round[m.worker][m.key]
  /\ m.type \in {"push", "push_ack"} => phase[m.worker][m.key] \in {"init_push", "pushing"}
  /\ m.type \in {"pull", "pull_data"} => phase[m.worker][m.key] = "pulling"
  /\ m.type = "push" => m.val = Fill(m.key, Unit(m.worker, m.ts))
  /\ m.type = "push" /\ phase[m.worker][m.key] = "init_push" =>
       m.key \notin stored[PartyOf[m.worker]]
  /\ m.type = "push_ack" => m.key \in stored[PartyOf[m.worker]]
  /\ m.type = "pull_data" =>
       /\ m.key \in initialized_[PartyOf[m.worker]]
       /\ m.val = Fill(m.key, Weight(m.ts))
Locals ==
  /\ \A m \in lnet : LocalOK(m)
  /\ \A m, n \in lnet : m.worker = n.worker /\ m.key = n.key => m = n

\* The pull that a party's thread has popped is all its worker has under way.
LocalPullOK(p, m) ==
  /\ m.type = "pull" /\ PartyOf[m.worker] = p /\ m.ts = round[m.worker][m.key]
  /\ phase[m.worker][m.key] = "pulling" /\ Silent(m.worker, m.key)
  /\ reading[p] => m.key \in initialized_[p]
LocalPulls ==
  \A p \in Party :
    /\ \A m \in pulling[p] : LocalPullOK(p, m)
    /\ \A m, n \in pulling[p] : m = n
    /\ reading[p] => pulling[p] # {}

\* How a party opens a key: its rank 0 pushes it, the first pull from the
\* global servers lets the workers' pulls in.
Opening(p, k) ==
  /\ k \notin stored[p] =>
       phase[Rank0[p]][k] \in {"fresh", "init_push"} /\ k \notin initialized_[p]
  /\ phase[Rank0[p]][k] = "fresh" => k \notin stored[p]
  /\ phase[Rank0[p]][k] \in {"fresh", "init_push"} =>
       \A w \in WorkersOf(p) : phase[w][k] \in InitPhases
  /\ k \notin initialized_[p] =>
       /\ request[p][k] = {} /\ request_tmp[p][k] = {}
       /\ \A w \in WorkersOf(p) : phase[w][k] \in InitPhases \cup {"pulling"} /\ round[w][k] = 0
  /\ k \in initialized_[p] => \A g \in ShardsOf[k] : k \in stored[g]

\* A request belongs to a worker that waits for its answer.
Waiting(p, k, q) ==
  /\ PartyOf[q[1]] = p /\ q[2] = round[q[1]][k]
  /\ phase[q[1]][k] = "pushing" /\ Silent(q[1], k)

\* The workers whose push is among the requests.
From(reqs, k) == {w \in Worker : <<w, round[w][k]>> \in reqs}

\* The round a party collects, and the one it has at the global servers.
Collecting(p, k) ==
  /\ \A q \in request[p][k] : Waiting(p, k, q)
  /\ request[p][k] # {} =>
       merged[p][k] = Fill(k, Gradients(From(request[p][k], k), Ver(p, k) + 1))
Forwarded(p, k) ==
  /\ \A q \in request_tmp[p][k] : Waiting(p, k, q)
  /\ Busy(p, k) => request[p][k] = {} /\ WorkersOf(p) \subseteq From(request_tmp[p][k], k)
  /\ Pushing(p, k) => Busy(p, k)

\* All workers of a party have been told of the same rounds, and the party's
\* weights have the gradients of these rounds.
SameRound(p, k) ==
  /\ \A w \in WorkersOf(p) : Acked(w, k) = Ver(p, k)
  /\ k \in initialized_[p] /\ ~Busy(p, k) => store_[p][k] = Fill(k, Weight(Ver(p, k)))

Stage(p, k) == Opening(p, k) /\ Collecting(p, k) /\ Forwarded(p, k) /\ SameRound(p, k)
Stages == \A p \in Party, k \in Key : Stage(p, k)

LocalInv == Workers /\ Locals /\ LocalPulls /\ Stages

-----------------------------------------------------------------------------
(* Parties and global servers *)

\* Where a party's push to one of the servers is: under way, waiting for the
\* other parties, answered.
On(type, p, g, k) == \E m \in gnet : m.type = type /\ m.peer = p /\ m.server = g /\ m.key = k
Waits(p, g, k) == \E q \in request[g][k] : q[1] = p
Owed(p, g, k) == On("push", p, g, k) \/ Waits(p, g, k) \/ On("push_ack", p, g, k)
Out(p, k) == {g \in ShardsOf[k] : Owed(p, g, k)}
Applied(p, g, k) == Busy(p, k) /\ ~On("push", p, g, k) /\ ~Waits(p, g, k)

\* The version of a shard as a party knows it, and the one its pulls return.
Has(p, g, k) == IF Applied(p, g, k) THEN Ver(p, k) + 1 ELSE Ver(p, k)
Due(p, k) == IF Busy(p, k) THEN Ver(p, k) + 1 ELSE Ver(p, k)

\* When a party may have a pull of a key under way.
PullOK(p, g, k, ts) ==
  /\ g \in ShardsOf[k] /\ k \in stored[p]
  /\ k \in initialized_[p] => Busy(p, k)
  /\ ~Pushing(p, k)
  /\ ts \in 1 .. Len(tracker_[p])
  /\ \A e \in ts_key_map_[p] : e[1] # ts

\* What an answer to it brings.
DataOK(p, g, k, val) == k \in stored[g] /\ val = Weight(Due(p, k))

\* A party's message fits its stage, and there is no second one.
GlobalOK(m) ==
  /\ m.type \in {"push", "push_ack"} =>
       /\ m.server \in ShardsOf[m.key] /\ <<m.ts, m.key>> \in ts_key_map_[m.peer]
       /\ ~Waits(m.peer, m.server, m.key)
  /\ m.type = "push" => m.val = Gradients(WorkersOf(m.peer), Ver(m.peer, m.key) + 1)
  /\ m.type \in {"pull", "pull_data"} => PullOK(m.peer, m.server, m.key, m.ts)
  /\ m.type = "pull_data" => DataOK(m.peer, m.server, m.key, m.val)
Globals == \A m \in gnet : m.peer \in Party => GlobalOK(m)
Single ==
  \A m, n \in gnet : m.peer = n.peer /\ m.server = n.server /\ m.key = n.key => m = n

GlobalPullOK(g, m) ==
  /\ m.type = "pull" /\ m.peer \in Party /\ m.server = g
  /\ PullOK(m.peer, g, m.key, m.ts)
  /\ \A n \in gnet : ~(n.peer = m.peer /\ n.server = g /\ n.key = m.key)
  /\ reading[g] => m.key \in stored[g]
GlobalPulls ==
  \A g \in GServer :
    /\ \A m \in pulling[g] : GlobalPullOK(g, m)
    /\ \A m, n \in pulling[g] : m = n
    /\ reading[g] => pulling[g] # {}

\* The parts received are of the pull under way, one of a server.
ReceivedOK(p, k, a) ==
  /\ PullOK(p, a.server, k, a.ts) /\ DataOK(p, a.server, k, a.val)
  /\ \A m \in gnet : ~(m.peer = p /\ m.server = a.server /\ m.key = k)
  /\ \A m \in pulling[a.server] : ~(m.peer = p /\ m.key = k)
Received ==
  \A p \in Party, k \in Key :
    /\ \A a \in recv_kvs_[p][k] : ReceivedOK(p, k, a)
    /\ \A a, b \in recv_kvs_[p][k] : a.server = b.server => a = b

\* All messages and parts of a party's pull have the timestamp of one request.
IsPull(m, p, k) == m.type \in {"pull", "pull_data"} /\ m.peer = p /\ m.key = k
PullTs(p, k) ==
  {m.ts : m \in {n \in gnet \cup UNION {pulling[g] : g \in GServer} : IsPull(n, p, k)}}
    \cup {a.ts : a \in recv_kvs_[p][k]}
OnePull == \A p \in Party, k \in Key : \A t, u \in PullTs(p, k) : t = u

\* The pushes that are not answered by all servers, and the responses counted.
Timestamps ==
  \A p \in Party : \A e \in ts_key_map_[p] :
    /\ e[1] \in 1 .. Len(tracker_[p])
    /\ tracker_[p][e[1]] = Cardinality(GServer) - Cardinality(Out(p, e[2]))
    /\ \A f \in ts_key_map_[p] : e[1] = f[1] <=> e[2] = f[2]

\* The workers whose gradients wait at a server.
WaitingAt(g, k) == {w \in Worker : Waits(PartyOf[w], g, k)}

\* A shard has the version that every party thinks it has; the requests are
\* those of parties in the next round, and the sum has their gradients.
ShardOK(g, k) ==
  /\ k \in stored[g] =>
       /\ g \in ShardsOf[k]
       /\ \A p \in Party : store_[g][k] = Weight(Has(p, g, k))
       /\ \A p, q \in Party : Has(p, g, k) = Has(q, g, k)
  /\ \A q \in request[g][k] :
       q[1] \in Party /\ k \in stored[g] /\ <<q[2], k>> \in ts_key_map_[q[1]]
  /\ request[g][k] # {} =>
       \A p \in Party : merged[g][k] = Gradients(WaitingAt(g, k), Has(p, g, k) + 1)
Shards ==
  \A g \in GServer : initialized_[g] = stored[g] /\ \A k \in Key : ShardOK(g, k)

\* The master worker pushes a key once, and nobody else initialises it.
MasterPushed(k) == k < master_key \/ (k = master_key /\ master_acks # NotPushed)
MasterOK(m) ==
  /\ m.type \in {"push", "push_ack"} /\ MasterPushed(m.key)
  /\ m.type = "push" =>
       m.server \in ShardsOf[m.key] /\ m.val = Unit(Master, 0) /\ m.key \notin stored[m.server]
Masters ==
  /\ \A m \in gnet : m.peer = Master => MasterOK(m)
  /\ \A g \in GServer : \A k \in stored[g] : MasterPushed(k)

GlobalInv ==
  Globals /\ Single /\ GlobalPulls /\ Received /\ OnePull /\ Timestamps /\ Shards /\ Masters
-----------------------------------------------------------------------------
IInv == TypeOK /\ LocalInv /\ GlobalInv
=============================================================================
