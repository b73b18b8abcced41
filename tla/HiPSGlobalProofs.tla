-------------------------- MODULE HiPSGlobalProofs ---------------------------
(***************************************************************************)
(* The half of the invariant that is about parties and global servers, and *)
(* with it that every step keeps the invariant.                            *)
(*                                                                         *)
(* A round of a party crosses the global plane as a push to every shard, a *)
(* wait for the other parties, the answers, and a pull.  There is a lemma  *)
(* for the steps of the master worker, of the Receiving thread of a global *)
(* server, and of those that stay within a stage of a party and a key      *)
(* (MasterKeeps, GlobalKeeps, PlaneKeeps), and one for the five steps that *)
(* take a party from one stage of a key to the next (TurnKeeps); its parts *)
(* are the actions.                                                        *)
(***************************************************************************)
EXTENDS HiPSProofs

USE ZenonT(30)

-----------------------------------------------------------------------------
(* What a step leaves alone *)

\* A step that leaves a party's stage with a key alone, as the global servers
\* see it.
SameStage(p, k) ==
  /\ Ver(p, k)' = Ver(p, k) /\ (Busy(p, k)' <=> Busy(p, k))
  /\ (k \in stored'[p] <=> k \in stored[p])
  /\ (k \in initialized_'[p] <=> k \in initialized_[p])
  /\ \A e \in ts_key_map_[p] \cup ts_key_map_'[p] :
       e[2] = k => (e \in ts_key_map_[p] <=> e \in ts_key_map_'[p])

\* New requests of a party have timestamps that were not in use.
Forward(p) ==
  /\ Len(tracker_[p]) <= Len(tracker_'[p])
  /\ \A e \in ts_key_map_'[p] : e \in ts_key_map_[p] \/ e[1] > Len(tracker_[p])

Steady == \A p \in Party : Forward(p) /\ \A k \in Key : SameStage(p, k)

\* A step that leaves a shard alone, and all of them.
SameShard(g, k) ==
  /\ k \in stored'[g] <=> k \in stored[g]
  /\ store_'[g][k] = store_[g][k] /\ merged'[g][k] = merged[g][k]
  /\ request'[g][k] = request[g][k]
SameShards ==
  \A g \in GServer : /\ stored'[g] = stored[g] /\ initialized_'[g] = initialized_[g]
                     /\ \A k \in Key : SameShard(g, k)

\* A step that leaves the pull threads of the global servers alone.
SamePulls == \A g \in GServer : pulling'[g] = pulling[g] /\ reading'[g] = reading[g]

StoredGrows == \A g \in GServer : stored[g] \subseteq stored'[g]

\* What depends on a party's stage only.
LEMMA StageSame ==
  ASSUME NEW p, NEW k, SameStage(p, k)
  PROVE  (Pushing(p, k)' <=> Pushing(p, k)) /\ Due(p, k)' = Due(p, k)
<1>1. Pushing(p, k)' <=> Pushing(p, k)
  BY DEF SameStage, Pushing
<1> QED
  BY <1>1 DEF SameStage, Due

\* A pull stays in order while the stage of its party does.
LEMMA PullKept ==
  ASSUME TypeOK, TypeOK', NEW p \in Party, NEW g, NEW k, NEW t, PullOK(p, g, k, t),
         SameStage(p, k), Forward(p)
  PROVE  PullOK(p, g, k, t)'
<1>1. Len(tracker_[p]) \in Nat /\ Len(tracker_'[p]) \in Nat
  BY SMTT(20) DEF TypeOK, PartyTypeOK
<1>2. ~Pushing(p, k)'
  BY StageSame DEF PullOK
<1>3. t \in 1 .. Len(tracker_'[p])
  BY <1>1, SMTT(20) DEF PullOK, Forward
<1>4. \A e \in ts_key_map_'[p] : e[1] # t
  BY <1>1, SMTT(20) DEF PullOK, Forward
<1> QED
  BY <1>2, <1>3, <1>4 DEF PullOK, SameStage

\* So does what an answer to it brings.
LEMMA DataKept ==
  ASSUME NEW p, NEW g \in GServer, NEW k, NEW val, DataOK(p, g, k, val), SameStage(p, k), StoredGrows
  PROVE  DataOK(p, g, k, val)'
BY StageSame DEF DataOK, StoredGrows

\* And a message.
LEMMA MessageKept ==
  ASSUME TypeOK, TypeOK', NEW m \in gnet, m.peer \in Party, GlobalOK(m),
         SameStage(m.peer, m.key), Forward(m.peer), StoredGrows,
         Waits(m.peer, m.server, m.key)' => Waits(m.peer, m.server, m.key)
  PROVE  GlobalOK(m)'
<1>1. m.server \in GServer /\ m.key \in Key
  BY GlobalMsgType DEF TypeOK
<1>2. m.type \in {"push", "push_ack"} =>
        /\ m.server \in ShardsOf[m.key] /\ <<m.ts, m.key>> \in ts_key_map_'[m.peer]
        /\ ~Waits(m.peer, m.server, m.key)'
  BY DEF GlobalOK, SameStage
<1>3. m.type = "push" => m.val = Gradients(WorkersOf(m.peer), Ver(m.peer, m.key)' + 1)
  BY DEF GlobalOK, SameStage
<1>4. m.type \in {"pull", "pull_data"} => PullOK(m.peer, m.server, m.key, m.ts)'
  BY PullKept DEF GlobalOK
<1>5. m.type = "pull_data" => DataOK(m.peer, m.server, m.key, m.val)'
  BY <1>1, DataKept DEF GlobalOK
<1> QED
  BY <1>2, <1>3, <1>4, <1>5 DEF GlobalOK

\* The answered pushes of a party are applied rounds.
LEMMA VersionType ==
  ASSUME TypeOK, LocalInv, NEW p \in Party, NEW k \in Key
  PROVE  /\ Ver(p, k) \in Nat /\ (Pushing(p, k) => Busy(p, k))
         /\ (Busy(p, k) => k \in initialized_[p])
         /\ (k \in initialized_[p] => k \in stored[p] /\ \A g \in ShardsOf[k] : k \in stored[g])
<1> DEFINE w == Rank0[p]
<1>1. w \in Worker /\ WorkerOK(w, k) /\ round[w][k] \in Nat /\ Stage(p, k)
  BY ConstantsAssumption, SMTT(20) DEF TypeOK, WorkerTypeOK, Round, LocalInv, Workers, Stages
<1>2. Ver(p, k) \in Nat
  BY <1>1, SMTT(20) DEF Ver, Acked, WorkerOK
<1> QED
  BY <1>1, <1>2 DEF Stage, Opening, Forwarded, Busy

\* Messages, while the parties' stages stay.
LEMMA SteadyGlobals ==
  ASSUME TypeOK, TypeOK', GlobalInv, Steady, StoredGrows,
         \A n \in gnet' : n \in gnet \/ n.peer \notin Party \/ GlobalOK(n)',
         \A n \in gnet' \cap gnet :
           n.peer \in Party =>
             (Waits(n.peer, n.server, n.key)' => Waits(n.peer, n.server, n.key))
  PROVE  Globals'
<1> SUFFICES ASSUME NEW n \in gnet', n.peer \in Party PROVE GlobalOK(n)'
  BY DEF Globals
<1>1. CASE n \in gnet
  <2>1. GlobalOK(n) /\ n.key \in Key
    BY <1>1, GlobalMsgType DEF GlobalInv, Globals, TypeOK
  <2>2. SameStage(n.peer, n.key) /\ Forward(n.peer)
    BY <2>1 DEF Steady
  <2>3. Waits(n.peer, n.server, n.key)' => Waits(n.peer, n.server, n.key)
    BY <1>1
  <2> QED
    BY <1>1, <2>1, <2>2, <2>3, MessageKept
<1> QED
  BY <1>1

\* The only messages a step adds are answers to pushes.
NoNewPulls ==
  \A n \in gnet' :
    n \in gnet \/ n.peer \notin Party \/ (n.type = "push_ack" /\ Pushing(n.peer, n.key))

\* The only parts a step adds are those of responses it takes off the plane.
NewParts ==
  \A p \in Party, k \in Key : \A a \in recv_kvs_'[p][k] :
    \/ a \in recv_kvs_[p][k]
    \/ \E m \in gnet : m \notin gnet' /\ IsPull(m, p, k) /\ m.type = "pull_data" /\ a = Part(m)

\* Popped pulls, while the parties' stages stay.
LEMMA SteadyPops ==
  ASSUME TypeOK, TypeOK', GlobalInv, Steady, StoredGrows, SamePulls, NoNewPulls
  PROVE  GlobalPulls'
<1>1. ASSUME NEW g \in GServer, NEW m \in pulling[g] PROVE GlobalPullOK(g, m)'
  <2>1. GlobalPullOK(g, m)
    BY DEF GlobalInv, GlobalPulls
  <2>2. m.peer \in Party /\ m.key \in Key
    BY <2>1 DEF GlobalPullOK, TypeOK, PullTypeOK, GlobalMsg
  <2>3. PullOK(m.peer, g, m.key, m.ts) /\ ~Pushing(m.peer, m.key)
    BY <2>1 DEF GlobalPullOK, PullOK
  <2>4. PullOK(m.peer, g, m.key, m.ts)'
    BY <2>2, <2>3, PullKept DEF Steady
  <2>5. \A n \in gnet' : ~(n.peer = m.peer /\ n.server = g /\ n.key = m.key)
    BY <2>1, <2>2, <2>3 DEF GlobalPullOK, NoNewPulls
  <2> QED
    BY <2>1, <2>4, <2>5 DEF GlobalPullOK, SamePulls, StoredGrows
<1>2. \A g \in GServer : /\ pulling'[g] = pulling[g] /\ reading'[g] = reading[g]
                         /\ \A m, n \in pulling[g] : m = n
                         /\ reading[g] => pulling[g] # {}
  BY DEF GlobalInv, GlobalPulls, SamePulls
<1> QED
  BY <1>1, <1>2 DEF GlobalPulls

\* Parts received, while the parties' stages stay.
LEMMA SteadyParts ==
  ASSUME TypeOK, TypeOK', GlobalInv, Steady, StoredGrows, SamePulls, NoNewPulls, NewParts
  PROVE  Received' /\ OnePull'
<1>1. ASSUME NEW p \in Party, NEW k \in Key, NEW a \in recv_kvs_'[p][k] PROVE ReceivedOK(p, k, a)'
  <2>0. a.server \in GServer /\ SameStage(p, k) /\ Forward(p)
    BY SMTT(20) DEF Steady, TypeOK, PartyTypeOK, PartType
  <2>1. CASE a \in recv_kvs_[p][k]
    <3>1. ReceivedOK(p, k, a) /\ PullOK(p, a.server, k, a.ts) /\ DataOK(p, a.server, k, a.val)
          /\ ~Pushing(p, k)
      BY <2>1 DEF GlobalInv, Received, ReceivedOK, PullOK
    <3>2. PullOK(p, a.server, k, a.ts)' /\ DataOK(p, a.server, k, a.val)'
      BY <2>0, <3>1, PullKept, DataKept
    <3>3. \A n \in gnet' : ~(n.peer = p /\ n.server = a.server /\ n.key = k)
      BY <3>1 DEF ReceivedOK, NoNewPulls
    <3>4. \A n \in pulling'[a.server] : ~(n.peer = p /\ n.key = k)
      BY <2>0, <3>1 DEF ReceivedOK, SamePulls
    <3> QED
      BY <3>2, <3>3, <3>4 DEF ReceivedOK
  <2>2. CASE a \notin recv_kvs_[p][k]
    <3>1. PICK m \in gnet : m \notin gnet' /\ IsPull(m, p, k) /\ m.type = "pull_data" /\ a = Part(m)
      BY <2>2 DEF NewParts
    <3>2. /\ m.peer = p /\ m.key = k /\ a.server = m.server /\ a.ts = m.ts /\ a.val = m.val
      BY <3>1 DEF IsPull, Part
    <3>3. /\ PullOK(p, a.server, k, a.ts) /\ DataOK(p, a.server, k, a.val) /\ ~Pushing(p, k)
      BY <3>1, <3>2 DEF GlobalInv, Globals, GlobalOK, PullOK
    <3>4. PullOK(p, a.server, k, a.ts)' /\ DataOK(p, a.server, k, a.val)'
      BY <2>0, <3>3, PullKept, DataKept
    <3>5. \A n \in gnet' : ~(n.peer = p /\ n.server = a.server /\ n.key = k)
      BY <3>1, <3>2, <3>3 DEF GlobalInv, Single, NoNewPulls
    <3>6. \A n \in pulling'[a.server] : ~(n.peer = p /\ n.key = k)
      BY <2>0, <3>1, <3>2, SMTT(20) DEF GlobalInv, GlobalPulls, GlobalPullOK, SamePulls
    <3> QED
      BY <3>4, <3>5, <3>6 DEF ReceivedOK
  <2> QED
    BY <2>1, <2>2
<1>2. ASSUME NEW p \in Party, NEW k \in Key, NEW a \in recv_kvs_'[p][k], NEW b \in recv_kvs_'[p][k],
             a.server = b.server
      PROVE  a = b
  <2>1. CASE a \in recv_kvs_[p][k] /\ b \in recv_kvs_[p][k]
    BY <1>2, <2>1 DEF GlobalInv, Received
  <2>2. ASSUME NEW c \in recv_kvs_[p][k], NEW m \in gnet, IsPull(m, p, k), c.server = Part(m).server
        PROVE  FALSE
    BY <2>2 DEF GlobalInv, Received, ReceivedOK, IsPull, Part
  <2>3. ASSUME NEW m \in gnet, NEW n \in gnet, IsPull(m, p, k), IsPull(n, p, k),
               Part(m).server = Part(n).server
        PROVE  m = n
    BY <2>3 DEF GlobalInv, Single, IsPull, Part
  <2> QED
    BY <1>2, <2>1, <2>2, <2>3, SMTT(20) DEF NewParts
<1>3. ASSUME NEW p \in Party, NEW k \in Key, NEW t \in PullTs(p, k)' PROVE t \in PullTs(p, k)
  <2>1. CASE \E n \in gnet' : IsPull(n, p, k) /\ t = n.ts
    BY <2>1 DEF PullTs, NoNewPulls, IsPull
  <2>2. CASE \E g \in GServer : \E n \in pulling'[g] : IsPull(n, p, k) /\ t = n.ts
    BY <2>2 DEF PullTs, SamePulls
  <2>3. CASE \E a \in recv_kvs_'[p][k] : t = a.ts
    <3>1. PICK a \in recv_kvs_'[p][k] : t = a.ts
      BY <2>3
    <3>2. CASE a \in recv_kvs_[p][k]
      BY <3>1, <3>2 DEF PullTs
    <3>3. CASE a \notin recv_kvs_[p][k]
      BY <3>1, <3>3, SMTT(20) DEF PullTs, NewParts, Part
    <3> QED
      BY <3>2, <3>3
  <2> QED
    BY <2>1, <2>2, <2>3, SMTT(20) DEF PullTs, IsPull
<1> QED
  BY <1>1, <1>2, <1>3 DEF GlobalInv, Received, OnePull

\* Timestamps, while no push is sent or answered.
LEMMA SteadyTimes ==
  ASSUME TypeOK, TypeOK', GlobalInv, ts_key_map_' = ts_key_map_,
         \A p \in Party : /\ Forward(p)
                          /\ \A e \in ts_key_map_[p] : /\ tracker_'[p][e[1]] = tracker_[p][e[1]]
                                                       /\ Out(p, e[2])' = Out(p, e[2])
  PROVE  Timestamps'
<1> SUFFICES ASSUME NEW p \in Party, NEW e \in ts_key_map_[p]
             PROVE  /\ e[1] \in 1 .. Len(tracker_'[p])
                    /\ tracker_'[p][e[1]] = Cardinality(GServer) - Cardinality(Out(p, e[2])')
                    /\ \A f \in ts_key_map_[p] : e[1] = f[1] <=> e[2] = f[2]
  BY DEF Timestamps
<1>1. Len(tracker_[p]) \in Nat /\ Len(tracker_'[p]) \in Nat
  BY SMTT(20) DEF TypeOK, PartyTypeOK
<1>2. /\ e[1] \in 1 .. Len(tracker_[p])
      /\ tracker_[p][e[1]] = Cardinality(GServer) - Cardinality(Out(p, e[2]))
      /\ \A f \in ts_key_map_[p] : e[1] = f[1] <=> e[2] = f[2]
  BY DEF GlobalInv, Timestamps
<1>3. e[1] \in 1 .. Len(tracker_'[p])
  BY <1>1, <1>2, SMTT(20) DEF Forward
<1> QED
  BY <1>2, <1>3

\* A shard that a step leaves alone.
LEMMA ShardKept ==
  ASSUME TypeOK, GlobalInv, NEW g \in GServer, NEW k \in Key, SameShard(g, k),
         g \in ShardsOf[k] =>
           \A p \in Party : Has(p, g, k)' = Has(p, g, k) /\ (Waits(p, g, k) => SameStage(p, k))
  PROVE  ShardOK(g, k)'
<1>1. /\ ShardOK(g, k) /\ (k \in stored'[g] <=> k \in stored[g]) /\ store_'[g][k] = store_[g][k]
      /\ merged'[g][k] = merged[g][k] /\ request'[g][k] = request[g][k]
  BY DEF GlobalInv, Shards, SameShard
<1>2. WaitingAt(g, k)' = WaitingAt(g, k)
  BY <1>1 DEF WaitingAt, Waits
<1>3. k \in stored[g] => \A p \in Party : Has(p, g, k)' = Has(p, g, k)
  BY <1>1 DEF ShardOK
<1>4. k \in stored'[g] =>
        /\ g \in ShardsOf[k]
        /\ \A p \in Party : store_'[g][k] = Weight(Has(p, g, k)')
        /\ \A p, q \in Party : Has(p, g, k)' = Has(q, g, k)'
  BY <1>1, <1>3 DEF ShardOK
<1>5. ASSUME NEW q \in request'[g][k]
      PROVE  q[1] \in Party /\ k \in stored'[g] /\ <<q[2], k>> \in ts_key_map_'[q[1]]
  <2>1. q[1] \in Party /\ k \in stored[g] /\ <<q[2], k>> \in ts_key_map_[q[1]] /\ g \in ShardsOf[k]
    BY <1>1 DEF ShardOK
  <2>2. SameStage(q[1], k)
    BY <1>1, <2>1 DEF Waits
  <2> QED
    BY <1>1, <2>1, <2>2 DEF SameStage
<1>6. request'[g][k] # {} =>
        \A p \in Party : merged'[g][k] = Gradients(WaitingAt(g, k)', Has(p, g, k)' + 1)
  BY <1>1, <1>2, <1>3 DEF ShardOK
<1> QED
  BY <1>4, <1>5, <1>6 DEF ShardOK

\* All of them.
LEMMA SteadyShards ==
  ASSUME TypeOK, GlobalInv, SameShards,
         \A p \in Party, k \in Key : \A g \in ShardsOf[k] :
           Has(p, g, k)' = Has(p, g, k) /\ (Waits(p, g, k) => SameStage(p, k))
  PROVE  Shards'
<1>1. ASSUME NEW g \in GServer, NEW k \in Key PROVE ShardOK(g, k)'
  BY ShardKept DEF SameShards
<1> QED
  BY <1>1 DEF GlobalInv, Shards, SameShards

\* The version of a shard, as seen from a party whose push stays where it is.
LEMMA HasSame ==
  ASSUME NEW p, NEW g, NEW k, SameStage(p, k), On("push", p, g, k)' <=> On("push", p, g, k),
         Waits(p, g, k)' <=> Waits(p, g, k)
  PROVE  Has(p, g, k)' = Has(p, g, k)
BY DEF Has, Applied, SameStage

\* The master worker, in the steps of others.
LEMMA SteadyMasters ==
  ASSUME GlobalInv, UNCHANGED master_vars, \A n \in gnet' : n.peer = Master => n \in gnet,
         \A g \in GServer : stored'[g] = stored[g], NetTypeOK'
  PROVE  Masters'
<1>1. \A k : MasterPushed(k)' <=> MasterPushed(k)
  BY DEF MasterPushed, master_vars
<1>2. ASSUME NEW n \in gnet', n.peer = Master PROVE MasterOK(n)'
  BY <1>1, <1>2 DEF GlobalInv, Masters, MasterOK, NetTypeOK, GlobalMsg
<1> QED
  BY <1>1, <1>2 DEF GlobalInv, Masters

-----------------------------------------------------------------------------
(* Steps of workers and parties that the global plane does not see *)

\* Such a step keeps the global invariant.
LEMMA GlobalFrame ==
  ASSUME TypeOK, TypeOK', GlobalInv, SameShards, SamePulls,
         UNCHANGED <<gnet, master_vars, party_vars, stored, initialized_>>,
         \A p \in Party, k \in Key : Ver(p, k)' = Ver(p, k)
  PROVE  GlobalInv'
<1>1. /\ gnet' = gnet /\ ts_key_map_' = ts_key_map_ /\ tracker_' = tracker_
      /\ recv_kvs_' = recv_kvs_ /\ request_tmp' = request_tmp
  BY DEF party_vars
<1>2. Steady
  <2>1. \A p \in Party : Forward(p)
    BY <1>1, SMTT(20) DEF Forward, TypeOK, PartyTypeOK
  <2> QED
    BY <1>1, <2>1 DEF Steady, SameStage, Busy
<1>3. StoredGrows /\ NoNewPulls /\ NewParts
  BY <1>1 DEF StoredGrows, NoNewPulls, NewParts
<1>4. \A p, g, k : g \in GServer /\ k \in Key => (Waits(p, g, k)' <=> Waits(p, g, k))
  BY DEF Waits, SameShards, SameShard
<1>5. \A t, p, g, k : On(t, p, g, k)' <=> On(t, p, g, k)
  BY <1>1 DEF On
<1>6. Globals'
  <2>1. \A n \in gnet' : n.server \in GServer /\ n.key \in Key
    BY <1>1, GlobalMsgType DEF TypeOK
  <2> QED
    BY <1>1, <1>2, <1>3, <1>4, <2>1, SteadyGlobals
<1>7. GlobalPulls' /\ Received' /\ OnePull'
  BY <1>2, <1>3, SteadyPops, SteadyParts
<1>8. Timestamps'
  <2>1. ASSUME NEW p \in Party, NEW e \in ts_key_map_[p] PROVE Out(p, e[2])' = Out(p, e[2])
    <3>1. e[2] \in Key /\ ShardsOf[e[2]] \subseteq GServer
      BY ShardsType, SMTT(20) DEF TypeOK, PartyTypeOK
    <3> QED
      BY <1>4, <1>5, <3>1 DEF Out, Owed
  <2> QED
    BY <1>1, <1>2, <2>1, SteadyTimes DEF Steady
<1>9. Shards'
  <2>1. ASSUME NEW p \in Party, NEW k \in Key, NEW g \in ShardsOf[k]
        PROVE  Has(p, g, k)' = Has(p, g, k) /\ SameStage(p, k)
    BY <1>2, <1>4, <1>5, ShardsType, HasSame DEF Steady
  <2> QED
    BY <2>1, SteadyShards
<1>10. Masters'
  BY <1>1, SteadyMasters DEF TypeOK, SameShards
<1> QED
  BY <1>1, <1>6, <1>7, <1>8, <1>9, <1>10 DEF GlobalInv, Single

-----------------------------------------------------------------------------
(* Steps that the workers do not see *)

\* A step that leaves alone what a party shows its workers.
SameParties ==
  \A p \in Party :
    /\ pulling'[p] = pulling[p] /\ reading'[p] = reading[p]
    /\ stored'[p] = stored[p] /\ initialized_'[p] = initialized_[p]
    /\ \A k \in Key : /\ store_'[p][k] = store_[p][k] /\ merged'[p][k] = merged[p][k]
                      /\ request'[p][k] = request[p][k]

\* It keeps the local invariant, and the parties' stages if no push is
\* finished.
LEMMA ServerStepInv ==
  ASSUME TypeOK, LocalInv, UNCHANGED <<worker_vars, lnet, request_tmp, ts_key_map_>>,
         SameParties, StoredGrows, \A p \in Party : Len(tracker_[p]) <= Len(tracker_'[p])
  PROVE  LocalInv' /\ Steady
<1>1. ASSUME NEW p \in Party
      PROVE  /\ pulling'[p] = pulling[p] /\ reading'[p] = reading[p]
             /\ stored'[p] = stored[p] /\ initialized_'[p] = initialized_[p]
             /\ \A k \in Key : /\ store_'[p][k] = store_[p][k] /\ merged'[p][k] = merged[p][k]
                               /\ request'[p][k] = request[p][k]
                               /\ Pushing(p, k)' => Pushing(p, k)
  BY DEF SameParties, Pushing
<1>2. \A g \in GServer : stored[g] \subseteq stored'[g]
  BY DEF StoredGrows
<1>3. LocalInv' /\ \A p \in Party, k \in Key : Ver(p, k)' = Ver(p, k)
  BY <1>1, <1>2, LocalFrame
<1> QED
  BY <1>1, <1>3 DEF Steady, Forward, SameStage, Busy

\* The last conjunct of the invariant holds in a step that adds no message.
LEMMA FewerMessages ==
  ASSUME GlobalInv, \A n \in gnet' : n \in gnet
  PROVE  Single'
BY DEF GlobalInv, Single

-----------------------------------------------------------------------------
(* The master worker *)

\* A step of the master worker.
LEMMA MasterKeeps ==
  ASSUME Counting
  PROVE  TypeOK /\ TypeOK' /\ LocalInv /\ GlobalInv /\ MasterStep =>
           LocalInv' /\ GlobalInv'
\* A step of the master worker.
<1>MasterStepInv.
    ASSUME TypeOK, TypeOK', LocalInv, GlobalInv,
           UNCHANGED <<worker_vars, store_vars, party_vars, pull_vars, lnet>>,
           \A n \in gnet' : n \in gnet \/ n.peer = Master,
           \A n \in gnet : n.peer \in Party => n \in gnet',
           Single', Masters'
    PROVE  LocalInv' /\ GlobalInv'
  <2> USE <1>MasterStepInv
  <2>1. /\ ts_key_map_' = ts_key_map_ /\ tracker_' = tracker_ /\ recv_kvs_' = recv_kvs_
        /\ request_tmp' = request_tmp /\ stored' = stored /\ store_' = store_
        /\ initialized_' = initialized_ /\ merged' = merged /\ request' = request
        /\ pulling' = pulling /\ reading' = reading
    BY DEF party_vars, store_vars, pull_vars
  <2>2. SameParties /\ SamePulls /\ SameShards /\ StoredGrows
    BY <2>1 DEF SameParties, SamePulls, SameShards, SameShard, StoredGrows
  <2>3. LocalInv' /\ Steady
    <3>1. \A p \in Party : Len(tracker_[p]) <= Len(tracker_'[p])
      BY <2>1, SMTT(20) DEF TypeOK, PartyTypeOK
    <3> QED
      BY <2>1, <2>2, <3>1, ServerStepInv
  <2>4. Master \notin Party /\ NoNewPulls /\ NewParts
    BY <2>1, ConstantsAssumption DEF NoNewPulls, NewParts
  <2>5. \A p, g, k : Waits(p, g, k)' <=> Waits(p, g, k)
    BY <2>1 DEF Waits
  <2>6. \A t, g, k : \A p \in Party : On(t, p, g, k)' <=> On(t, p, g, k)
    BY <2>4 DEF On
  <2>7. Globals'
    BY <2>2, <2>3, <2>4, <2>5, SteadyGlobals
  <2>8. GlobalPulls' /\ Received' /\ OnePull'
    BY <2>2, <2>3, <2>4, SteadyPops, SteadyParts
  <2>9. Timestamps'
    <3>1. ASSUME NEW p \in Party, NEW e \in ts_key_map_[p] PROVE Out(p, e[2])' = Out(p, e[2])
      BY <2>5, <2>6 DEF Out, Owed
    <3> QED
      BY <2>1, <2>3, <3>1, SteadyTimes DEF Steady
  <2>10. Shards'
    <3>1. ASSUME NEW p \in Party, NEW k \in Key, NEW g \in ShardsOf[k]
          PROVE  Has(p, g, k)' = Has(p, g, k) /\ SameStage(p, k)
      BY <2>3, <2>5, <2>6, HasSame DEF Steady
    <3> QED
      BY <2>2, <3>1, SteadyShards
  <2> QED
    BY <2>3, <2>7, <2>8, <2>9, <2>10 DEF GlobalInv
\* The master worker pushes the next key.
<1>MasterInitInv.
    ASSUME TypeOK, TypeOK', LocalInv, GlobalInv, MasterInit
    PROVE  LocalInv' /\ GlobalInv'
  <2> USE <1>MasterInitInv
  <2> DEFINE k == master_key
             new == {GMsg("push", Master, g, k, 0, Unit(Master, 0)) : g \in ShardsOf[k]}
  <2>1. /\ k < NumKeys /\ master_acks = NotPushed /\ master_acks' = Skipped(k) /\ gnet' = gnet \cup new
        /\ master_key' = master_key
        /\ UNCHANGED <<worker_vars, store_vars, party_vars, pull_vars, lnet>>
    BY DEF MasterInit
  <2>2. k \in Key /\ k \in Nat /\ Skipped(k) \in Nat /\ NotPushed \notin Nat
    BY <2>1, SkippedType, ConstantsAssumption, SMTT(20) DEF TypeOK, MasterTypeOK, Key, NotPushed
  <2>3. ~MasterPushed(k) /\ \A j \in Key : MasterPushed(j) \/ j = k => MasterPushed(j)'
    BY <2>1, <2>2, SMTT(20) DEF MasterPushed
  <2>4. \A n \in new : /\ n.type = "push" /\ n.peer = Master /\ n.key = k /\ n.server \in ShardsOf[k]
                       /\ n.val = Unit(Master, 0)
                       /\ n = GMsg("push", Master, n.server, k, 0, Unit(Master, 0))
    BY SMTT(20) DEF GMsg
  <2> HIDE DEF new
  <2>5. \A n \in gnet : n.peer = Master => n.key # k
    BY <2>3 DEF GlobalInv, Masters, MasterOK
  <2>6. Single'
    BY <2>1, <2>4, <2>5, SMTT(20) DEF GlobalInv, Single
  <2>7. \A g \in GServer : stored'[g] = stored[g] /\ stored[g] \subseteq Key /\ k \notin stored[g]
    BY <2>1, <2>3, ServerType DEF GlobalInv, Masters, store_vars, TypeOK, StoreTypeOK
  <2>8. ASSUME NEW n \in gnet', n.peer = Master PROVE MasterOK(n)'
    <3>1. CASE n \in gnet
      <4>1. MasterOK(n) /\ n.server \in GServer /\ n.key \in Key
        BY <2>8, <3>1, GlobalMsgType DEF GlobalInv, Masters, TypeOK
      <4> QED
        BY <2>3, <2>7, <4>1 DEF MasterOK
    <3>2. CASE n \in new
      BY <2>2, <2>3, <2>4, <2>7, <3>2, ShardsType DEF MasterOK
    <3> QED
      BY <2>1, <2>8, <3>1, <3>2
  <2>9. Masters'
    BY <2>3, <2>7, <2>8 DEF GlobalInv, Masters
  <2> QED
    BY <2>1, <2>4, <2>6, <2>9, <1>MasterStepInv
\* It counts a response.
<1>MasterAckedInv.
    ASSUME TypeOK, TypeOK', LocalInv, GlobalInv, NEW m \in gnet, MasterAcked(m)
    PROVE  LocalInv' /\ GlobalInv'
  <2> USE <1>MasterAckedInv
  <2>1. /\ m.peer = Master /\ gnet' = gnet \ {m}
        /\ \/ master_key' = master_key + 1
           \/ master_key' = master_key /\ master_acks' = master_acks + 1
        /\ UNCHANGED <<worker_vars, store_vars, party_vars, pull_vars, lnet>>
    BY DEF MasterAcked
  <2>2. \A j \in Key : MasterPushed(j) => MasterPushed(j)'
    BY <2>1, SMTT(20) DEF MasterPushed, TypeOK, MasterTypeOK, NotPushed, Key
  <2>3. \A g \in GServer : stored'[g] = stored[g] /\ stored[g] \subseteq Key
    BY <2>1, ServerType DEF store_vars, TypeOK, StoreTypeOK
  <2>4. ASSUME NEW n \in gnet', n.peer = Master PROVE MasterOK(n)'
    <3>1. MasterOK(n) /\ n.server \in GServer /\ n.key \in Key
      BY <2>1, <2>4, GlobalMsgType DEF GlobalInv, Masters, TypeOK
    <3> QED
      BY <2>2, <2>3, <3>1 DEF MasterOK
  <2>5. Masters'
    BY <2>2, <2>3, <2>4 DEF GlobalInv, Masters
  <2>6. Master \notin Party /\ Single'
    BY <2>1, ConstantsAssumption, FewerMessages
  <2> QED
    BY <2>1, <2>5, <2>6, <1>MasterStepInv
<1> QED
  BY <1>MasterInitInv, <1>MasterAckedInv DEF MasterStep

-----------------------------------------------------------------------------
(* The Receiving thread of a global server *)

\* A step that touches one shard, and messages about it.
OnlyMessages(g, k) ==
  \A n \in gnet \cup gnet' : (n \in gnet <=> n \in gnet') \/ (n.server = g /\ n.key = k)
SameStore(g, k) ==
  \A s \in Server, j \in Key : s # g \/ j # k => store_'[s][j] = store_[s][j]
OnlyShard(g, k) ==
  /\ \A s \in Server : s # g => stored'[s] = stored[s] /\ initialized_'[s] = initialized_[s]
  /\ stored[g] \subseteq stored'[g] /\ stored'[g] \subseteq stored[g] \cup {k}
  /\ \A s \in Server, j \in Key :
       s # g \/ j # k => /\ store_'[s][j] = store_[s][j] /\ merged'[s][j] = merged[s][j]
                         /\ request'[s][j] = request[s][j]
  /\ \A n \in gnet \cup gnet' : (n \in gnet <=> n \in gnet') \/ (n.server = g /\ n.key = k)

\* What is known of a push that finds its key at a global server.
LEMMA GlobalPushFacts ==
  ASSUME TypeOK, LocalInv, GlobalInv, NEW m \in gnet, m.type = "push", m.key \in stored[m.server]
  PROVE  LET p == m.peer  g == m.server  k == m.key IN
         /\ p \in Party /\ g \in GServer /\ g \in Server /\ k \in Key /\ m.ts \in Nat
         /\ g \in ShardsOf[k] /\ <<m.ts, k>> \in ts_key_map_[p] /\ Pushing(p, k) /\ Busy(p, k)
         /\ ~Waits(p, g, k) /\ ShardOK(g, k) /\ Ver(p, k) \in Nat /\ Has(p, g, k) = Ver(p, k)
         /\ GlobalMerge(g, k, m.val) =
              Gradients(WaitingAt(g, k) \cup WorkersOf(p), Has(p, g, k) + 1)
<1> DEFINE p == m.peer
           g == m.server
           k == m.key
<1>1. p \in Peer /\ g \in GServer /\ g \in Server /\ k \in Key /\ m.ts \in Nat
  BY GlobalMsgType, ServerType DEF TypeOK
<1>2. p \in Party
  BY <1>1 DEF Peer, GlobalInv, Masters, MasterOK
<1>3. /\ g \in ShardsOf[k] /\ <<m.ts, k>> \in ts_key_map_[p] /\ ~Waits(p, g, k)
      /\ m.val = Gradients(WorkersOf(p), Ver(p, k) + 1)
  BY <1>2 DEF GlobalInv, Globals, GlobalOK
<1>4. Pushing(p, k)
  BY <1>3 DEF Pushing
<1>5. Busy(p, k) /\ Ver(p, k) \in Nat
  BY <1>1, <1>2, <1>4, VersionType
<1>6. ShardOK(g, k)
  BY <1>1 DEF GlobalInv, Shards
<1>7. Has(p, g, k) = Ver(p, k)
  BY DEF Has, Applied, On
<1>8. GlobalMerge(g, k, m.val) = Gradients(WaitingAt(g, k) \cup WorkersOf(p), Has(p, g, k) + 1)
  <2>1. CASE request[g][k] = {}
    <3>1. WaitingAt(g, k) \cup WorkersOf(p) = WorkersOf(p)
      BY <2>1 DEF WaitingAt, Waits
    <3> QED
      BY <1>3, <1>7, <2>1, <3>1 DEF GlobalMerge
  <2>2. CASE request[g][k] # {}
    <3>1. merged[g][k] = Gradients(WaitingAt(g, k), Has(p, g, k) + 1)
      BY <1>2, <1>6, <2>2 DEF ShardOK
    <3>2. WaitingAt(g, k) \cap WorkersOf(p) = {}
      BY <1>3 DEF WaitingAt, WorkersOf
    <3>3. GlobalMerge(g, k, m.val) = Plus(merged[g][k], Gradients(WorkersOf(p), Has(p, g, k) + 1))
      BY <1>3, <1>7, <2>2 DEF GlobalMerge
    <3> QED
      BY <3>1, <3>2, <3>3, AddGradients, SMTT(20)
  <2> QED
    BY <2>1, <2>2
<1> QED
  BY <1>1, <1>2, <1>3, <1>4, <1>5, <1>6, <1>7, <1>8

\* When the pushes are as many as the parties, every party has pushed, once.
LEMMA CompleteGlobal ==
  ASSUME Counting, TypeOK, LocalInv, GlobalInv, NEW m \in gnet, m.type = "push",
         m.key \in stored[m.server],
         GlobalComplete(request[m.server][m.key] \cup {GlobalMeta(m)})
  PROVE  LET g == m.server  k == m.key
             reqs == request[g][k] \cup {<<m.peer, m.ts>>} IN
         /\ \A q \in reqs : q[1] \in Party /\ q[2] \in Nat /\ <<q[2], k>> \in ts_key_map_[q[1]]
         /\ \A q, r \in reqs : q[1] = r[1] => q = r
         /\ \A p \in Party : \E q \in reqs : q[1] = p
<1> DEFINE p == m.peer
           g == m.server
           k == m.key
           reqs == request[g][k] \cup {<<p, m.ts>>}
           f == [q \in reqs |-> q[1]]
<1>1. /\ p \in Party /\ g \in GServer /\ k \in Key /\ m.ts \in Nat
      /\ <<m.ts, k>> \in ts_key_map_[p] /\ ShardOK(g, k)
  BY GlobalPushFacts
<1>2. \A q \in reqs : /\ q[1] \in Party /\ q[2] \in Nat /\ <<q[2], k>> \in ts_key_map_[q[1]]
                      /\ q = <<q[1], q[2]>>
  <2> SUFFICES ASSUME NEW q \in reqs
               PROVE  /\ q[1] \in Party /\ q[2] \in Nat /\ <<q[2], k>> \in ts_key_map_[q[1]]
                      /\ q = <<q[1], q[2]>>
    OBVIOUS
  <2>1. CASE q \in request[g][k]
    <3>1. q \in Peer \X Nat
      BY <1>1, <2>1 DEF TypeOK, StoreTypeOK, RequestsTypeOK
    <3> QED
      BY <1>1, <2>1, <3>1, SMTT(20) DEF ShardOK
  <2>2. CASE q = <<p, m.ts>>
    BY <1>1, <2>2
  <2> QED
    BY <2>1, <2>2
<1> HIDE DEF reqs
<1>3. ASSUME NEW q \in reqs, NEW r \in reqs, q[1] = r[1] PROVE q = r
  <2>1. PICK t, u : t = q[2] /\ u = r[2]
    OBVIOUS
  <2>2. <<t, k>> \in ts_key_map_[q[1]] /\ <<u, k>> \in ts_key_map_[q[1]] /\ q[1] \in Party
    BY <1>2, <1>3, <2>1
  <2>3. <<t, k>>[1] = <<u, k>>[1]
    BY <2>2 DEF GlobalInv, Timestamps
  <2> QED
    BY <1>2, <1>3, <2>1, <2>3
<1>4. Cardinality(reqs) = Cardinality(Party)
  BY DEF GlobalComplete, GlobalMeta, reqs
<1>5. f \in [reqs -> Party] /\ \A q, r \in reqs : f[q] = f[r] => q = r
  BY <1>2, <1>3
<1>e. \A q \in reqs : f[q] = q[1]
  OBVIOUS
<1> HIDE DEF f
<1>6. \A t \in Party : \E q \in reqs : f[q] = t
  BY <1>4, <1>5, ConstantsAssumption, Covering, SMTT(20)
<1> QED
  BY <1>2, <1>3, <1>6, <1>e, SMTT(20) DEF reqs

\* A push at a global server: the first one of a key opens it, the others are
\* added up, the last one of a round is applied.
LEMMA GlobalKeeps ==
  ASSUME Counting
  PROVE  TypeOK /\ TypeOK' /\ LocalInv /\ GlobalInv /\ GlobalStep =>
           LocalInv' /\ GlobalInv'
\* The handling of a push: what each outcome has to show.
<1>PushHandlerInv.
    ASSUME TypeOK, TypeOK', LocalInv, GlobalInv, NEW g \in GServer, NEW k \in Key,
           UNCHANGED <<worker_vars, master_vars, party_vars, pull_vars, lnet>>, OnlyShard(g, k),
           NoNewPulls, Single', Masters', ShardOK(g, k)', initialized_'[g] = stored'[g],
           Steady => \A n \in gnet' :
             n.server = g /\ n.key = k => n.peer \notin Party \/ GlobalOK(n)',
           \A p \in Party : Owed(p, g, k)' <=> Owed(p, g, k)
    PROVE  LocalInv' /\ GlobalInv'
  <2> USE <1>PushHandlerInv
  <2>1. /\ ts_key_map_' = ts_key_map_ /\ tracker_' = tracker_ /\ recv_kvs_' = recv_kvs_
        /\ request_tmp' = request_tmp /\ pulling' = pulling /\ reading' = reading
    BY DEF party_vars, pull_vars
  <2>2. SamePulls /\ SameParties /\ StoredGrows /\ NewParts
    BY <2>1, ServerType, SMTT(20) DEF SamePulls, SameParties, StoredGrows, NewParts, OnlyShard
  <2>3. LocalInv' /\ Steady
    <3>1. \A p \in Party : Len(tracker_[p]) <= Len(tracker_'[p])
      BY <2>1, SMTT(20) DEF TypeOK, PartyTypeOK
    <3> QED
      BY <2>1, <2>2, <3>1, ServerStepInv
  <2>4. \A h \in GServer, j \in Key :
          h # g \/ j # k => /\ SameShard(h, j)
                            /\ \A p : Waits(p, h, j)' <=> Waits(p, h, j)
                            /\ \A t, p : On(t, p, h, j)' <=> On(t, p, h, j)
    <3> SUFFICES ASSUME NEW h \in GServer, NEW j \in Key, h # g \/ j # k
                 PROVE  /\ SameShard(h, j)
                        /\ \A p : Waits(p, h, j)' <=> Waits(p, h, j)
                        /\ \A t, p : On(t, p, h, j)' <=> On(t, p, h, j)
      OBVIOUS
    <3>1. h \in Server
      BY ServerType
    <3>2. SameShard(h, j)
      BY <3>1, SMTT(20) DEF OnlyShard, SameShard
    <3>3. \A p : Waits(p, h, j)' <=> Waits(p, h, j)
      BY <3>2 DEF SameShard, Waits
    <3>4. \A t, p : On(t, p, h, j)' <=> On(t, p, h, j)
      BY DEF OnlyShard, On
    <3> QED
      BY <3>2, <3>3, <3>4
  <2>5. Globals'
    <3> SUFFICES ASSUME NEW n \in gnet', n.peer \in Party PROVE GlobalOK(n)'
      BY DEF Globals
    <3>1. CASE n.server = g /\ n.key = k
      BY <2>3, <3>1
    <3>2. CASE ~(n.server = g /\ n.key = k)
      <4>1. n \in gnet
        BY <3>2 DEF OnlyShard
      <4>2. GlobalOK(n) /\ n.key \in Key /\ n.server \in GServer
        BY <4>1, GlobalMsgType DEF GlobalInv, Globals, TypeOK
      <4>3. Waits(n.peer, n.server, n.key)' <=> Waits(n.peer, n.server, n.key)
        BY <2>4, <3>2, <4>2
      <4>4. SameStage(n.peer, n.key) /\ Forward(n.peer)
        BY <2>3, <4>2 DEF Steady
      <4> QED
        BY <2>2, <4>1, <4>2, <4>3, <4>4, MessageKept
    <3> QED
      BY <3>1, <3>2
  <2>6. GlobalPulls' /\ Received' /\ OnePull'
    BY <2>2, <2>3, SteadyPops, SteadyParts
  <2>7. Timestamps'
    <3>1. ASSUME NEW p \in Party, NEW e \in ts_key_map_[p] PROVE Out(p, e[2])' = Out(p, e[2])
      <4>1. e[2] \in Key /\ ShardsOf[e[2]] \subseteq GServer
        BY ShardsType, SMTT(20) DEF TypeOK, PartyTypeOK
      <4>2. \A h \in ShardsOf[e[2]] : Owed(p, h, e[2])' <=> Owed(p, h, e[2])
        BY <2>4, <4>1 DEF Owed
      <4> QED
        BY <4>2 DEF Out
    <3> QED
      BY <2>1, <2>3, <3>1, SteadyTimes DEF Steady
  <2>8. Shards'
    <3>1. ASSUME NEW h \in GServer, NEW j \in Key PROVE ShardOK(h, j)'
      <4>1. CASE h # g \/ j # k
        <5>1. \A p \in Party : SameStage(p, j) /\ Has(p, h, j)' = Has(p, h, j)
          BY <2>3, <2>4, <4>1, HasSame DEF Steady
        <5> QED
          BY <2>4, <4>1, <5>1, ShardKept
      <4> QED
        BY <4>1
    <3>2. \A h \in GServer : initialized_'[h] = stored'[h]
      BY ServerType DEF OnlyShard, GlobalInv, Shards
    <3> QED
      BY <3>1, <3>2 DEF Shards
  <2> QED
    BY <2>3, <2>5, <2>6, <2>7, <2>8 DEF GlobalInv
\* A party that has not opened a key is before its first round.
<1>NotOpened.
    ASSUME TypeOK, LocalInv, NEW p \in Party, NEW k \in Key, k \notin initialized_[p]
    PROVE  Ver(p, k) = 0 /\ ~Busy(p, k)
  <2> USE <1>NotOpened
  <2>1. Rank0[p] \in WorkersOf(p) /\ Stage(p, k)
    BY ConstantsAssumption DEF LocalInv, Stages, WorkersOf
  <2> QED
    BY <2>1 DEF Stage, Opening, Busy, Ver, Acked, InitPhases
\* The first push of a key is the master worker's.
<1>GlobalInitInv.
    ASSUME TypeOK, TypeOK', LocalInv, GlobalInv, NEW m \in gnet, GlobalInit(m)
    PROVE  LocalInv' /\ GlobalInv'
  <2> USE <1>GlobalInitInv
  <2> DEFINE g == m.server
             k == m.key
  <2>a. PICK n : n = GMsg("push_ack", m.peer, m.server, m.key, m.ts, Zero)
    OBVIOUS
  <2>n. n.type = "push_ack" /\ n.peer = m.peer /\ n.server = g /\ n.key = k
    BY <2>a DEF GMsg
  <2>m. g \in GServer /\ k \in Key /\ m.peer \in Peer /\ g \in Server
    BY GlobalMsgType, ServerType DEF TypeOK
  <2>1. /\ m.type = "push" /\ k \notin stored[g] /\ gnet' = (gnet \ {m}) \cup {n}
        /\ stored' = [stored EXCEPT ![g] = @ \cup {k}]
        /\ store_' = [store_ EXCEPT ![g][k] = m.val]
        /\ initialized_' = [initialized_ EXCEPT ![g] = @ \cup {k}]
        /\ UNCHANGED <<merged, request, worker_vars, master_vars, party_vars, pull_vars, lnet>>
    BY <2>a DEF GlobalInit, IsGlobalPush
  <2>2. m.peer = Master /\ m.peer \notin Party
    <3>1. ASSUME m.peer \in Party PROVE FALSE
      <4>1. g \in ShardsOf[k] /\ <<m.ts, k>> \in ts_key_map_[m.peer]
        BY <2>1, <3>1 DEF GlobalInv, Globals, GlobalOK
      <4>2. Pushing(m.peer, k)
        BY <4>1 DEF Pushing
      <4> QED
        BY <2>1, <2>m, <3>1, <4>1, <4>2, VersionType
    <3> QED
      BY <3>1, <2>m DEF Peer
  <2>3. /\ MasterPushed(k) /\ g \in ShardsOf[k] /\ m.val = Weight(0)
    BY <2>1, <2>2, FirstWeight DEF GlobalInv, Masters, MasterOK
  <2>4. StoreTypeOK /\ ArraysTypeOK(store_)
    BY DEF TypeOK, StoreTypeOK
  <2>5. /\ \A s \in Server : s # g => stored'[s] = stored[s] /\ initialized_'[s] = initialized_[s]
        /\ stored'[g] = stored[g] \cup {k} /\ initialized_'[g] = initialized_[g] \cup {k}
    BY <2>1, <2>m, <2>4 DEF StoreTypeOK
  <2>6. /\ store_'[g][k] = m.val
        /\ \A s \in Server, j \in Key : s # g \/ j # k => store_'[s][j] = store_[s][j]
    <3>1. DOMAIN store_ = Server /\ DOMAIN store_[g] = Key
      BY <2>4, <2>m DEF ArraysTypeOK
    <3> QED
      BY <2>1, <2>m, <3>1, OtherEntries
  <2>7. OnlyShard(g, k)
    <3>1. \A l \in gnet \cup gnet' : (l \in gnet <=> l \in gnet') \/ (l.server = g /\ l.key = k)
      BY <2>1, <2>n
    <3> QED
      BY <2>1, <2>5, <2>6, <3>1 DEF OnlyShard
  <2>8. Single'
    BY <2>1, <2>n, SMTT(20) DEF GlobalInv, Single
  <2>9. Masters'
    <3>1. \A j : MasterPushed(j)' <=> MasterPushed(j)
      BY <2>1 DEF MasterPushed, master_vars
    <3>2. ASSUME NEW l \in gnet', l.peer = Master PROVE MasterOK(l)'
      <4>1. CASE l = n
        BY <2>3, <2>n, <3>1, <4>1 DEF MasterOK
      <4>2. CASE l # n
        <5>1. l \in gnet /\ l # m /\ l.server \in Server /\ MasterOK(l)
          BY <2>1, <3>2, <4>2, GlobalMsgType, ServerType DEF TypeOK, GlobalInv, Masters
        <5>2. ~(l.server = g /\ l.key = k)
          BY <2>2, <3>2, <5>1 DEF GlobalInv, Single
        <5>3. l.key \in stored'[l.server] => l.key \in stored[l.server]
          BY <2>5, <5>1, <5>2
        <5> QED
          BY <3>1, <5>1, <5>3 DEF MasterOK
      <4> QED
        BY <4>1, <4>2
    <3>3. \A h \in GServer : \A j \in stored'[h] : j \in stored[h] \/ j = k
      BY <2>5, ServerType
    <3> QED
      BY <2>3, <3>1, <3>2, <3>3 DEF GlobalInv, Masters
  <2>10. \A t : \A p \in Party : On(t, p, g, k)' <=> On(t, p, g, k)
    BY <2>1, <2>2, <2>n DEF On
  <2>11. \A p : Waits(p, g, k)' <=> Waits(p, g, k)
    BY <2>1 DEF Waits
  <2>12. ShardOK(g, k)'
    <3>1. request'[g][k] = {}
      BY <2>1, <2>m DEF GlobalInv, Shards, ShardOK
    <3>2. ASSUME NEW p \in Party PROVE Has(p, g, k)' = 0
      <4>1. k \notin initialized_[p]
        BY <2>1, <2>3, <2>m, VersionType
      <4>2. Ver(p, k) = 0 /\ ~Busy(p, k)
        BY <2>m, <4>1, <1>NotOpened
      <4>3. Ver(p, k)' = Ver(p, k)
        BY <2>1 DEF Ver, Acked, Acknowledged, worker_vars
      <4>4. ~Busy(p, k)'
        BY <2>1, <4>2 DEF Busy, party_vars
      <4> QED
        BY <4>2, <4>3, <4>4 DEF Has, Applied
    <3> QED
      BY <2>3, <2>6, <3>1, <3>2 DEF ShardOK
  <2>13. NoNewPulls
    BY <2>1, <2>2, <2>n DEF NoNewPulls
  <2>14. ASSUME Steady, NEW l \in gnet', l.server = g, l.key = k, l.peer \in Party PROVE GlobalOK(l)'
    <3>1. l \in gnet /\ GlobalOK(l) /\ SameStage(l.peer, l.key) /\ Forward(l.peer)
      BY <2>1, <2>2, <2>m, <2>n, <2>14 DEF GlobalInv, Globals, Steady
    <3>2. StoredGrows
      BY <2>5, ServerType DEF StoredGrows
    <3> QED
      BY <2>11, <2>14, <3>1, <3>2, MessageKept
  <2>15. initialized_'[g] = stored'[g]
    BY <2>5, <2>m DEF GlobalInv, Shards
  <2> QED
    BY <2>1, <2>m, <2>7, <2>8, <2>9, <2>10, <2>11, <2>12, <2>13, <2>14, <2>15,
       <1>PushHandlerInv DEF Owed
\* The tables of a global server, when one of its shards is written.
<1>ShardWritten.
    ASSUME TypeOK, NEW g \in GServer, NEW k \in Key, NEW x, NEW y,
           stored' = stored, initialized_' = initialized_,
           merged' = [merged EXCEPT ![g][k] = x], request' = [request EXCEPT ![g][k] = y],
           SameStore(g, k), OnlyMessages(g, k)
    PROVE  OnlyShard(g, k) /\ merged'[g][k] = x /\ request'[g][k] = y
  <2> USE <1>ShardWritten
  <2>1. g \in Server /\ ArraysTypeOK(merged) /\ RequestsTypeOK(request)
    BY ServerType DEF TypeOK, StoreTypeOK
  <2>2. /\ DOMAIN merged = Server /\ DOMAIN merged[g] = Key
        /\ DOMAIN request = Server /\ DOMAIN request[g] = Key
    BY <2>1 DEF ArraysTypeOK, RequestsTypeOK
  <2>3. /\ merged'[g][k] = x
        /\ \A s \in Server, j \in Key : s # g \/ j # k => merged'[s][j] = merged[s][j]
    BY <2>1, <2>2, OtherEntries
  <2>4. /\ request'[g][k] = y
        /\ \A s \in Server, j \in Key : s # g \/ j # k => request'[s][j] = request[s][j]
    BY <2>1, <2>2, OtherEntries
  <2> QED
    BY <2>3, <2>4 DEF OnlyShard, SameStore, OnlyMessages
\* A party's push is added up.
<1>GlobalAggregateInv.
    ASSUME TypeOK, TypeOK', LocalInv, GlobalInv, NEW m \in gnet, GlobalAggregate(m)
    PROVE  LocalInv' /\ GlobalInv'
  <2> USE <1>GlobalAggregateInv
  <2> DEFINE p == m.peer
             g == m.server
             k == m.key
             reqs == request[g][k] \cup {<<p, m.ts>>}
  <2>1. /\ m.type = "push" /\ k \in stored[g] /\ gnet' = gnet \ {m}
        /\ merged' = [merged EXCEPT ![g][k] = GlobalMerge(g, k, m.val)]
        /\ request' = [request EXCEPT ![g][k] = reqs]
        /\ stored' = stored /\ store_' = store_ /\ initialized_' = initialized_
        /\ UNCHANGED <<worker_vars, master_vars, party_vars, pull_vars, lnet>>
    BY DEF GlobalAggregate, IsGlobalPush, GlobalMeta
  <2>2. /\ p \in Party /\ g \in GServer /\ g \in Server /\ k \in Key /\ m.ts \in Nat
        /\ g \in ShardsOf[k] /\ <<m.ts, k>> \in ts_key_map_[p] /\ Pushing(p, k) /\ Busy(p, k)
        /\ ~Waits(p, g, k) /\ ShardOK(g, k) /\ Ver(p, k) \in Nat /\ Has(p, g, k) = Ver(p, k)
        /\ GlobalMerge(g, k, m.val) =
             Gradients(WaitingAt(g, k) \cup WorkersOf(p), Has(p, g, k) + 1)
    BY <2>1, GlobalPushFacts
  <2>3. /\ OnlyShard(g, k) /\ request'[g][k] = reqs
        /\ merged'[g][k] = Gradients(WaitingAt(g, k) \cup WorkersOf(p), Has(p, g, k) + 1)
    <3>1. OnlyMessages(g, k) /\ SameStore(g, k)
      BY <2>1 DEF OnlyMessages, SameStore
    <3>2. PICK x, y : x = GlobalMerge(g, k, m.val) /\ y = reqs
      OBVIOUS
    <3> HIDE DEF reqs, g, k
    <3>3. /\ merged' = [merged EXCEPT ![g][k] = x] /\ request' = [request EXCEPT ![g][k] = y]
          /\ stored' = stored /\ initialized_' = initialized_ /\ g \in GServer /\ k \in Key
      BY <2>1, <2>2, <3>2
    <3>4. OnlyShard(g, k) /\ merged'[g][k] = x /\ request'[g][k] = y
      BY <3>1, <3>3, <1>ShardWritten
    <3> QED
      BY <2>2, <3>2, <3>4
  <2>4. \A q : Waits(q, g, k)' <=> Waits(q, g, k) \/ q = p
    <3> SUFFICES ASSUME NEW q PROVE Waits(q, g, k)' <=> Waits(q, g, k) \/ q = p
      OBVIOUS
    <3>1. <<p, m.ts>>[1] = p
      OBVIOUS
    <3>2. Waits(q, g, k)' <=> \E r \in request'[g][k] : r[1] = q
      BY DEF Waits
    <3> QED
      BY <2>3, <3>1, <3>2 DEF Waits
  <2>5. /\ \A q, t : q # p => (On(t, q, g, k)' <=> On(t, q, g, k))
        /\ On("push", p, g, k)
    BY <2>1 DEF On
  <2>6. \A q \in Party : Owed(q, g, k)' <=> Owed(q, g, k)
    BY <2>4, <2>5 DEF Owed
  <2>7. \A q \in Party : Ver(q, k)' = Ver(q, k) /\ (Busy(q, k)' <=> Busy(q, k))
    BY <2>1 DEF Ver, Acked, Acknowledged, Busy, worker_vars, party_vars
  <2>8. \A q \in Party : Has(q, g, k)' = Has(q, g, k)
    <3> SUFFICES ASSUME NEW q \in Party PROVE Has(q, g, k)' = Has(q, g, k)
      OBVIOUS
    <3>1. CASE q = p
      BY <2>2, <2>4, <2>7, <3>1 DEF Has, Applied
    <3>2. CASE q # p
      BY <2>4, <2>5, <2>7, <3>2 DEF Has, Applied
    <3> QED
      BY <3>1, <3>2
  <2>9. WaitingAt(g, k)' = WaitingAt(g, k) \cup WorkersOf(p)
    BY <2>4 DEF WaitingAt, WorkersOf
  <2>10. ShardOK(g, k)'
    <3>1. k \in stored'[g] =>
            /\ g \in ShardsOf[k]
            /\ \A q \in Party : store_'[g][k] = Weight(Has(q, g, k)')
            /\ \A q, r \in Party : Has(q, g, k)' = Has(r, g, k)'
      BY <2>1, <2>2, <2>8 DEF ShardOK
    <3>2. \A q \in request'[g][k] :
            q[1] \in Party /\ k \in stored'[g] /\ <<q[2], k>> \in ts_key_map_'[q[1]]
      <4>1. stored' = stored /\ ts_key_map_' = ts_key_map_ /\ k \in stored[g]
        <5>1. UNCHANGED party_vars
          BY <2>1
        <5>2. ts_key_map_' = ts_key_map_
          BY <5>1 DEF party_vars
        <5> QED
          BY <2>1, <5>2
      <4>2. \A q \in request[g][k] : q[1] \in Party /\ <<q[2], k>> \in ts_key_map_[q[1]]
        BY <2>2 DEF ShardOK
      <4>3. PICK r : r = <<p, m.ts>>
        OBVIOUS
      <4>5. r[1] = p /\ r[2] = m.ts
        BY <4>3
      <4>4. r[1] \in Party /\ <<r[2], k>> \in ts_key_map_[r[1]]
        BY <2>2, <4>5
      <4> QED
        BY <2>3, <4>1, <4>2, <4>3, <4>4
    <3>3. \A q \in Party : merged'[g][k] = Gradients(WaitingAt(g, k)', Has(q, g, k)' + 1)
      <4>1. \A q \in Party : Has(q, g, k) = Has(p, g, k)
        BY <2>1, <2>2 DEF ShardOK
      <4> QED
        BY <2>3, <2>8, <2>9, <4>1
    <3> QED
      BY <3>1, <3>2, <3>3 DEF ShardOK
  <2>11. NoNewPulls /\ Single'
    BY <2>1, FewerMessages DEF NoNewPulls
  <2>12. Masters'
    BY <2>1, SteadyMasters DEF TypeOK
  <2>13. ASSUME Steady, NEW n \in gnet', n.server = g, n.key = k, n.peer \in Party PROVE GlobalOK(n)'
    <3>1. n \in gnet /\ GlobalOK(n) /\ SameStage(n.peer, n.key) /\ Forward(n.peer) /\ n.peer # p
      BY <2>1, <2>2, <2>13 DEF GlobalInv, Globals, Single, Steady
    <3>2. StoredGrows
      BY <2>1 DEF StoredGrows
    <3>3. Waits(n.peer, n.server, n.key)' => Waits(n.peer, n.server, n.key)
      BY <2>4, <2>13, <3>1
    <3> QED
      BY <2>13, <3>1, <3>2, <3>3, MessageKept
  <2>14. initialized_'[g] = stored'[g]
    BY <2>1, <2>2 DEF GlobalInv, Shards
  <2> QED
    BY <2>1, <2>2, <2>3, <2>6, <2>10, <2>11, <2>12, <2>13, <2>14, <1>PushHandlerInv
\* The last push of a round: the optimizer runs, and every party is answered.
<1>GlobalApplyInv.
    ASSUME TypeOK, TypeOK', LocalInv, GlobalInv, NEW m \in gnet, GlobalApply(m)
    PROVE  LocalInv' /\ GlobalInv'
  <2> USE <1>GlobalApplyInv
  <2> DEFINE p == m.peer
             g == m.server
             k == m.key
             reqs == request[g][k] \cup {<<p, m.ts>>}
             acks == {GMsg("push_ack", q[1], g, k, q[2], Zero) : q \in reqs}
             sum == GlobalMerge(g, k, m.val)
  <2>1. /\ m.type = "push" /\ k \in stored[g] /\ GlobalComplete(request[g][k] \cup {GlobalMeta(m)})
        /\ gnet' = (gnet \ {m}) \cup acks
        /\ merged' = [merged EXCEPT ![g][k] = sum]
        /\ store_' = [store_ EXCEPT ![g][k] = ApplyUpdates(g, @, sum)]
        /\ request' = [request EXCEPT ![g][k] = {}]
        /\ stored' = stored /\ initialized_' = initialized_
        /\ UNCHANGED <<worker_vars, master_vars, party_vars, pull_vars, lnet>>
    BY DEF GlobalApply, IsGlobalPush, GlobalMeta
  <2>2. /\ p \in Party /\ g \in GServer /\ g \in Server /\ k \in Key /\ g \in ShardsOf[k]
        /\ ~Waits(p, g, k) /\ ShardOK(g, k) /\ Ver(p, k) \in Nat /\ Has(p, g, k) = Ver(p, k)
        /\ sum = Gradients(WaitingAt(g, k) \cup WorkersOf(p), Has(p, g, k) + 1)
    BY <2>1, GlobalPushFacts
  <2>3. /\ \A q \in reqs : q[1] \in Party /\ q[2] \in Nat /\ <<q[2], k>> \in ts_key_map_[q[1]]
        /\ \A q, r \in reqs : q[1] = r[1] => q = r
        /\ \A r \in Party : \E q \in reqs : q[1] = r
    BY <2>1, CompleteGlobal
  <2>4. \A r \in Party : r = p \/ Waits(r, g, k)
    BY <2>3, SMTT(20) DEF Waits
  <2>5. \A r \in Party : Pushing(r, k) /\ Busy(r, k) /\ Ver(r, k) \in Nat
    <3>1. \A r \in Party : Pushing(r, k)
      <4> SUFFICES ASSUME NEW r \in Party PROVE Pushing(r, k)
        OBVIOUS
      <4>1. PICK q \in reqs : q[1] = r
        BY <2>3
      <4>2. <<q[2], k>> \in ts_key_map_[r] /\ <<q[2], k>>[2] = k
        BY <2>3, <4>1
      <4> QED
        BY <4>2 DEF Pushing
    <3> QED
      BY <2>2, <3>1, VersionType
  <2>6. /\ \A n \in acks : /\ n.type = "push_ack" /\ n.server = g /\ n.key = k /\ n.peer \in Party
                           /\ <<n.ts, k>> \in ts_key_map_[n.peer] /\ <<n.peer, n.ts>> \in reqs
                           /\ n = GMsg("push_ack", n.peer, g, k, n.ts, Zero)
        /\ \A r \in Party : \E n \in acks : n.peer = r
    <3>1. reqs \subseteq Peer \X Nat
      BY <2>2, GlobalMsgType, SMTT(20) DEF TypeOK, StoreTypeOK, RequestsTypeOK
    <3>2. \A q \in reqs : q = <<q[1], q[2]>>
      BY <3>1, SMTT(20)
    <3>3. ASSUME NEW q \in reqs
          PROVE  LET n == GMsg("push_ack", q[1], g, k, q[2], Zero) IN
                 /\ n \in acks /\ n.type = "push_ack" /\ n.server = g /\ n.key = k
                 /\ n.peer = q[1] /\ n.ts = q[2]
      BY DEF GMsg
    <3> HIDE DEF reqs
    <3>4. ASSUME NEW n \in acks PROVE \E q \in reqs : n = GMsg("push_ack", q[1], g, k, q[2], Zero)
      OBVIOUS
    <3> HIDE DEF acks
    <3> QED
      <4>1. ASSUME NEW n \in acks
            PROVE  /\ n.type = "push_ack" /\ n.server = g /\ n.key = k /\ n.peer \in Party
                   /\ <<n.ts, k>> \in ts_key_map_[n.peer] /\ <<n.peer, n.ts>> \in reqs
                   /\ n = GMsg("push_ack", n.peer, g, k, n.ts, Zero)
        <5>1. PICK q \in reqs : n = GMsg("push_ack", q[1], g, k, q[2], Zero)
          BY <3>4
        <5>2. /\ n.type = "push_ack" /\ n.server = g /\ n.key = k
              /\ n.peer = q[1] /\ n.ts = q[2]
          BY <3>3, <5>1
        <5> QED
          BY <2>3, <3>2, <5>1, <5>2
      <4>2. ASSUME NEW r \in Party PROVE \E n \in acks : n.peer = r
        <5>1. PICK q \in reqs : q[1] = r
          BY <2>3
        <5> QED
          BY <3>3, <5>1
      <4> QED
        BY <4>1, <4>2
  <2> HIDE DEF reqs, acks, sum
  <2>u. ASSUME NEW n \in acks, NEW l \in acks, n.peer = l.peer PROVE n = l
    <3>1. PICK q, r : q = <<n.peer, n.ts>> /\ r = <<l.peer, l.ts>>
      OBVIOUS
    <3>2. q \in reqs /\ r \in reqs /\ q[1] = r[1]
      BY <2>6, <2>u, <3>1
    <3>3. q = r
      BY <2>3, <3>2
    <3>4. n.ts = l.ts
      BY <3>1, <3>3, SMTT(20)
    <3> QED
      BY <2>6, <2>u, <3>4
  <2>7. \A n \in gnet : n.server = g /\ n.key = k /\ n.peer \in Party => n = m
    <3> SUFFICES ASSUME NEW n \in gnet, n.server = g, n.key = k, n.peer \in Party, n # m PROVE FALSE
      OBVIOUS
    <3>1. Waits(n.peer, g, k) /\ Pushing(n.peer, k) /\ GlobalOK(n)
      BY <2>4, <2>5 DEF GlobalInv, Single, Globals
    <3>2. n.type \in {"push", "push_ack", "pull", "pull_data"}
      BY DEF TypeOK, NetTypeOK, GlobalMsg, MsgType
    <3> QED
      BY <3>1, <3>2 DEF GlobalOK, PullOK
  <2>8. store_'[g][k] = ApplyUpdates(g, store_[g][k], sum) /\ SameStore(g, k)
    <3>1. DOMAIN store_ = Server /\ DOMAIN store_[g] = Key
      BY <2>2 DEF TypeOK, StoreTypeOK, ArraysTypeOK
    <3> QED
      BY <2>1, <2>2, <3>1, OtherEntries DEF SameStore
  <2>9. OnlyShard(g, k) /\ request'[g][k] = {}
    <3>1. OnlyMessages(g, k)
      BY <2>1, <2>6 DEF OnlyMessages
    <3> HIDE DEF g, k
    <3> QED
      BY <2>1, <2>2, <2>8, <3>1, <1>ShardWritten
  <2>10. \A r : ~Waits(r, g, k)'
    BY <2>9 DEF Waits
  <2>11. \A r \in Party : ~On("push", r, g, k)' /\ On("push_ack", r, g, k)'
    BY <2>1, <2>6, <2>7, ZenonT(30) DEF On
  <2>12. \A r \in Party : Owed(r, g, k) /\ Owed(r, g, k)'
    BY <2>1, <2>4, <2>11 DEF Owed, On
  <2>13. \A r \in Party : Has(r, g, k) = Ver(r, k) /\ Has(r, g, k)' = Ver(r, k) + 1
    <3> SUFFICES ASSUME NEW r \in Party
                 PROVE  Has(r, g, k) = Ver(r, k) /\ Has(r, g, k)' = Ver(r, k) + 1
      OBVIOUS
    <3>1. Ver(r, k)' = Ver(r, k) /\ Busy(r, k)'
      BY <2>1, <2>5 DEF Ver, Acked, Acknowledged, Busy, worker_vars, party_vars
    <3>2. Has(r, g, k) = Ver(r, k)
      BY <2>2, <2>4 DEF Has, Applied
    <3> QED
      BY <2>10, <2>11, <3>1, <3>2 DEF Has, Applied
  <2>14. ShardOK(g, k)'
    <3>1. \A r, q \in Party : Ver(r, k) = Ver(q, k)
      BY <2>1, <2>2, <2>13 DEF ShardOK
    <3>2. WaitingAt(g, k) \cup WorkersOf(p) = Worker
      BY <2>4, ServerType DEF WaitingAt, WorkersOf
    <3>3. store_[g][k] = Weight(Ver(p, k)) /\ sum = Gradients(Worker, Ver(p, k) + 1)
      BY <2>1, <2>2, <3>2 DEF ShardOK
    <3>4. store_'[g][k] = Plus(Weight(Ver(p, k)), Gradients(Worker, Ver(p, k) + 1))
      BY <2>2, <2>8, <3>3 DEF ApplyUpdates, Updater
    <3>5. store_'[g][k] = Weight(Ver(p, k) + 1)
      BY <2>2, <3>4, NextWeight
    <3>6. \A r \in Party : Has(r, g, k)' = Ver(p, k) + 1
      BY <2>2, <2>13, <3>1
    <3> QED
      BY <2>2, <2>9, <3>5, <3>6 DEF ShardOK
  <2>15. NoNewPulls
    BY <2>1, <2>5, <2>6 DEF NoNewPulls
  <2>16. Single'
    <3>1. ASSUME NEW n \in gnet', NEW l \in acks,
                 n.peer = l.peer, n.server = l.server, n.key = l.key
          PROVE  n = l
      <4>1. l.peer \in Party /\ l.server = g /\ l.key = k
        BY <2>6
      <4>2. n \in acks
        BY <2>1, <2>7, <3>1, <4>1
      <4> QED
        BY <2>u, <3>1, <4>2
    <3> QED
      BY <2>1, <3>1 DEF GlobalInv, Single
  <2>17. Masters'
    <3>1. \A n \in gnet' : n.peer = Master => n \in gnet
      <4>1. Master \notin Party /\ \A n \in acks : n.peer \in Party
        BY <2>6, ConstantsAssumption
      <4> QED
        BY <2>1, <4>1
    <3> QED
      BY <2>1, <3>1, SteadyMasters DEF TypeOK
  <2>18. \A n \in gnet' : n.server = g /\ n.key = k => n.peer \notin Party \/ GlobalOK(n)'
    <3> SUFFICES ASSUME NEW n \in gnet', n.server = g, n.key = k, n.peer \in Party PROVE GlobalOK(n)'
      OBVIOUS
    <3>1. n \in acks
      BY <2>1, <2>7
    <3>2. n.type = "push_ack" /\ <<n.ts, k>> \in ts_key_map_'[n.peer]
      BY <2>1, <2>6, <3>1 DEF party_vars
    <3> QED
      BY <2>2, <2>10, <3>2 DEF GlobalOK
  <2>19. initialized_'[g] = stored'[g]
    BY <2>1, <2>2 DEF GlobalInv, Shards
  <2> QED
    BY <2>1, <2>2, <2>9, <2>12, <2>14, <2>15, <2>16, <2>17, <2>18, <2>19, <1>PushHandlerInv
<1> QED
  BY <1>GlobalInitInv, <1>GlobalAggregateInv, <1>GlobalApplyInv DEF GlobalStep

-----------------------------------------------------------------------------
(* Steps on the global plane that neither write a shard nor end a push *)

\* No step of this kind sends or takes a push, or a message of the master.
PlaneStep ==
  /\ UNCHANGED <<worker_vars, master_vars, store_vars, lnet, request_tmp, ts_key_map_>>
  /\ \A p \in Party : /\ pulling'[p] = pulling[p] /\ reading'[p] = reading[p]
                      /\ Len(tracker_[p]) <= Len(tracker_'[p])
  /\ \A n \in gnet' : n \in gnet \/ (n.peer \in Party /\ n.type # "push")
  /\ \A n \in gnet : n.type = "push" => n \in gnet'

-----------------------------------------------------------------------------
(* The pull thread of a global server *)

\* A step of it leaves parties and pushes alone.
ThreadStep(g) ==
  /\ UNCHANGED <<worker_vars, master_vars, store_vars, party_vars, lnet>>
  /\ \A s \in Server : s # g => pulling'[s] = pulling[s] /\ reading'[s] = reading[s]
  /\ \A n \in gnet' : n \in gnet \/ (n.peer \in Party /\ n.type = "pull_data")
  /\ \A n \in gnet : n.type \in {"push", "push_ack"} => n \in gnet'

ResponseStep == \E m \in gnet : PushResponseWait(m) \/ PullResponsePart(m)
GlobalPullStep ==
  \E g \in GServer : \/ \E m \in PullRequests(g) : PullPop(g, m)
                     \/ \E m \in pulling[g] : PullRead(g, m) \/ PullRespond(g, m)

\* A response is counted.
LEMMA Counted ==
  ASSUME PartyTypeOK, NEW p \in Party, NEW t \in Nat,
         tracker_' = [tracker_ EXCEPT ![p] = CountResponse(@, t)]
  PROVE  \A q \in Party :
           /\ Len(tracker_[q]) \in Nat /\ Len(tracker_'[q]) = Len(tracker_[q])
           /\ \A i \in 1 .. Len(tracker_[q]) :
                tracker_'[q][i] = IF q = p /\ i = t THEN tracker_[q][i] + 1 ELSE tracker_[q][i]
<1> SUFFICES ASSUME NEW q \in Party
             PROVE  /\ Len(tracker_[q]) \in Nat /\ Len(tracker_'[q]) = Len(tracker_[q])
                    /\ \A i \in 1 .. Len(tracker_[q]) :
                         tracker_'[q][i] =
                           IF q = p /\ i = t THEN tracker_[q][i] + 1 ELSE tracker_[q][i]
  OBVIOUS
<1>1. tracker_[q] \in Seq(Nat)
  BY DEF PartyTypeOK
<1>2. CASE q # p
  BY <1>1, <1>2, SMTT(20) DEF PartyTypeOK
<1>3. CASE q = p
  <2>1. tracker_'[q] = [tracker_[q] EXCEPT ![t] = @ + 1]
    BY <1>3 DEF PartyTypeOK, CountResponse
  <2> QED
    BY <1>1, <1>3, <2>1, SMTT(20)
<1> QED
  BY <1>2, <1>3

\* What is known of a popped pull.
LEMMA GlobalPoppedFacts ==
  ASSUME TypeOK, GlobalInv, NEW g \in GServer, NEW m \in pulling[g]
  PROVE  /\ GlobalPullOK(g, m) /\ m.peer \in Party /\ m.key \in Key /\ m.ts \in Nat
         /\ m.server = g /\ PullOK(m.peer, g, m.key, m.ts) /\ ~Pushing(m.peer, m.key)
         /\ pulling[g] = {m}
<1>1. GlobalPullOK(g, m) /\ pulling[g] = {m}
  BY SMTT(20) DEF GlobalInv, GlobalPulls
<1>2. m.key \in Key /\ m.ts \in Nat
  BY DEF TypeOK, PullTypeOK, GlobalMsg
<1> QED
  BY <1>1, <1>2 DEF GlobalPullOK, PullOK

\* A popped pull stays in order if its party's stage does and no message of
\* its channel comes.
LEMMA PopKept ==
  ASSUME TypeOK, TypeOK', GlobalInv, StoredGrows, NEW h \in GServer, NEW m \in pulling[h],
         SameStage(m.peer, m.key), Forward(m.peer), reading'[h] => m.key \in stored[h],
         \A n \in gnet' : ~(n.peer = m.peer /\ n.server = h /\ n.key = m.key)
  PROVE  GlobalPullOK(h, m)'
<1>1. /\ GlobalPullOK(h, m) /\ m.peer \in Party /\ m.key \in Key
      /\ PullOK(m.peer, h, m.key, m.ts)
  BY GlobalPoppedFacts
<1>2. PullOK(m.peer, h, m.key, m.ts)'
  BY <1>1, PullKept
<1>3. reading'[h] => m.key \in stored'[h]
  BY DEF StoredGrows
<1> QED
  BY <1>1, <1>2, <1>3 DEF GlobalPullOK

\* So does a part received.
LEMMA PartKept ==
  ASSUME TypeOK, TypeOK', GlobalInv, StoredGrows, NEW p \in Party, NEW k \in Key,
         NEW a \in recv_kvs_[p][k], SameStage(p, k), Forward(p),
         \A n \in gnet' : ~(n.peer = p /\ n.server = a.server /\ n.key = k),
         \A n \in pulling'[a.server] : ~(n.peer = p /\ n.key = k)
  PROVE  ReceivedOK(p, k, a)'
<1>1. ReceivedOK(p, k, a) /\ a.server \in GServer
  BY SMTT(20) DEF GlobalInv, Received, TypeOK, PartyTypeOK, PartType
<1>2. PullOK(p, a.server, k, a.ts)' /\ DataOK(p, a.server, k, a.val)'
  BY <1>1, PullKept, DataKept DEF ReceivedOK
<1> QED
  BY <1>2 DEF ReceivedOK

\* The answers at a party that are not the last ones, and the pull thread of a
\* global server.
LEMMA PlaneKeeps ==
  ASSUME Counting
  PROVE  TypeOK /\ TypeOK' /\ LocalInv /\ GlobalInv /\ (ResponseStep \/ GlobalPullStep) =>
           LocalInv' /\ GlobalInv'
\* What it keeps.
<1>PlaneStepInv.
    ASSUME TypeOK, TypeOK', LocalInv, GlobalInv, PlaneStep
    PROVE  /\ LocalInv' /\ Steady /\ StoredGrows /\ Shards' /\ Masters'
           /\ \A p, g, k : Waits(p, g, k)' <=> Waits(p, g, k)
  <2> USE <1>PlaneStepInv
  <2>1. /\ ts_key_map_' = ts_key_map_ /\ request_tmp' = request_tmp
        /\ stored' = stored /\ store_' = store_ /\ initialized_' = initialized_
        /\ merged' = merged /\ request' = request
    BY DEF PlaneStep, store_vars
  <2>2. SameParties /\ SameShards /\ StoredGrows
    BY <2>1 DEF PlaneStep, SameParties, SameShards, SameShard, StoredGrows
  <2>3. LocalInv' /\ Steady
    BY <2>1, <2>2, ServerStepInv DEF PlaneStep
  <2>4. \A p, g, k : Waits(p, g, k)' <=> Waits(p, g, k)
    BY <2>1 DEF Waits
  <2>5. Shards'
    <3>1. ASSUME NEW p \in Party, NEW k \in Key, NEW g \in ShardsOf[k]
          PROVE  Has(p, g, k)' = Has(p, g, k) /\ SameStage(p, k)
      <4>1. On("push", p, g, k)' <=> On("push", p, g, k)
        BY DEF PlaneStep, On
      <4> QED
        BY <2>3, <2>4, <4>1, HasSame DEF Steady
    <3> QED
      BY <2>2, <3>1, SteadyShards
  <2>6. Masters'
    <3>1. Master \notin Party
      BY ConstantsAssumption
    <3>2. \A n \in gnet' : n.peer = Master => n \in gnet
      BY <3>1 DEF PlaneStep
    <3> QED
      BY <2>1, <3>2, SteadyMasters DEF TypeOK, PlaneStep
  <2> QED
    BY <2>2, <2>3, <2>4, <2>5, <2>6
\* A response to a push that is not the last one.
<1>PushResponseWaitInv.
    ASSUME TypeOK, TypeOK', LocalInv, GlobalInv, NEW m \in gnet, PushResponseWait(m)
    PROVE  LocalInv' /\ GlobalInv'
  <2> USE <1>PushResponseWaitInv
  <2> DEFINE p == m.peer
             g == m.server
             k == m.key
  <2>1. /\ m.type = "push_ack" /\ p \in Party /\ gnet' = gnet \ {m}
        /\ tracker_' = [tracker_ EXCEPT ![p] = CountResponse(@, m.ts)]
        /\ UNCHANGED <<request_tmp, ts_key_map_, recv_kvs_, worker_vars, master_vars,
                       store_vars, pull_vars, lnet>>
    BY DEF PushResponseWait, IsResponse
  <2>m. k \in Key /\ g \in GServer /\ m.ts \in Nat
    BY GlobalMsgType DEF TypeOK
  <2>2. \A q \in Party :
          /\ Len(tracker_[q]) \in Nat /\ Len(tracker_'[q]) = Len(tracker_[q])
          /\ \A i \in 1 .. Len(tracker_[q]) :
               tracker_'[q][i] = IF q = p /\ i = m.ts THEN tracker_[q][i] + 1 ELSE tracker_[q][i]
    BY <2>1, <2>m, Counted DEF TypeOK
  <2>3. PlaneStep /\ SamePulls /\ NoNewPulls /\ NewParts
    BY <2>1, <2>2, SMTT(20) DEF PlaneStep, SamePulls, NoNewPulls, NewParts, pull_vars
  <2>4. /\ LocalInv' /\ Steady /\ StoredGrows /\ Shards' /\ Masters'
        /\ \A q, h, j : Waits(q, h, j)' <=> Waits(q, h, j)
    BY <2>3, <1>PlaneStepInv
  <2>5. Globals' /\ Single'
    BY <2>1, <2>4, SteadyGlobals, FewerMessages
  <2>6. GlobalPulls' /\ Received' /\ OnePull'
    BY <2>3, <2>4, SteadyPops, SteadyParts
  <2>7. /\ g \in ShardsOf[k] /\ <<m.ts, k>> \in ts_key_map_[p] /\ ~Waits(p, g, k)
        /\ ~Owed(p, g, k)' /\ Owed(p, g, k)
    <3>1. /\ g \in ShardsOf[k] /\ <<m.ts, k>> \in ts_key_map_[p] /\ ~Waits(p, g, k)
      BY <2>1 DEF GlobalInv, Globals, GlobalOK
    <3>2. \A t : ~On(t, p, g, k)'
      BY <2>1 DEF GlobalInv, Single, On
    <3>3. On("push_ack", p, g, k)
      BY <2>1 DEF On
    <3> QED
      BY <2>4, <3>1, <3>2, <3>3 DEF Owed
  <2>8. ASSUME NEW q, NEW h, NEW j, q # p \/ h # g \/ j # k PROVE Owed(q, h, j)' <=> Owed(q, h, j)
    <3>1. \A t : On(t, q, h, j)' <=> On(t, q, h, j)
      BY <2>1, <2>8 DEF On
    <3> QED
      BY <2>4, <3>1 DEF Owed
  <2>9. Timestamps'
    <3> SUFFICES ASSUME NEW q \in Party, NEW e \in ts_key_map_[q]
                 PROVE  /\ e[1] \in 1 .. Len(tracker_'[q])
                        /\ tracker_'[q][e[1]] = Cardinality(GServer) - Cardinality(Out(q, e[2])')
                        /\ \A f \in ts_key_map_[q] : e[1] = f[1] <=> e[2] = f[2]
      BY <2>1 DEF Timestamps
    <3>1. /\ e[1] \in 1 .. Len(tracker_[q])
          /\ tracker_[q][e[1]] = Cardinality(GServer) - Cardinality(Out(q, e[2]))
          /\ \A f \in ts_key_map_[q] : e[1] = f[1] <=> e[2] = f[2]
      BY DEF GlobalInv, Timestamps
    <3>2. e[1] \in 1 .. Len(tracker_'[q])
      BY <2>2, <3>1
    <3>3. q = p => (e[1] = m.ts <=> e[2] = k)
      BY <2>7, <3>1, SMTT(20)
    <3>4. CASE q = p /\ e[2] = k
      <4>1. tracker_'[q][e[1]] = tracker_[q][e[1]] + 1
        BY <2>2, <3>1, <3>3, <3>4
      <4>2. Out(q, k)' = Out(q, k) \ {g} /\ g \in Out(q, k)
        BY <2>7, <2>8, <3>4 DEF Out
      <4>3. Out(q, k) \subseteq GServer /\ IsFiniteSet(Out(q, k))
        <5>1. Out(q, k) \subseteq GServer /\ IsFiniteSet(GServer)
          BY <2>m, ShardsType, ConstantsAssumption DEF Out
        <5> QED
          BY <5>1 DEF Counting
      <4>4. Cardinality(Out(q, k)') = Cardinality(Out(q, k)) - 1
        <5>1. PICK S : S = Out(q, k)
          OBVIOUS
        <5>2. Cardinality(S \ {g}) = Cardinality(S) - 1
          BY <4>2, <4>3, <5>1 DEF Counting
        <5>3. Out(q, k)' = S \ {g}
          BY <4>2, <5>1
        <5> QED
          BY <5>1, <5>2, <5>3
      <4>5. Cardinality(Out(q, k)) \in Nat /\ Cardinality(GServer) \in Nat
        BY <4>3, ConstantsAssumption DEF Counting
      <4> QED
        BY <3>1, <3>2, <3>4, <4>1, <4>4, <4>5, SMTT(20)
    <3>5. CASE q # p \/ e[2] # k
      <4>1. tracker_'[q][e[1]] = tracker_[q][e[1]]
        BY <2>2, <3>1, <3>3, <3>5
      <4>2. Out(q, e[2])' = Out(q, e[2])
        BY <2>8, <3>5 DEF Out
      <4> QED
        BY <3>1, <3>2, <4>1, <4>2
    <3> QED
      BY <3>4, <3>5
  <2> QED
    BY <2>4, <2>5, <2>6, <2>9 DEF GlobalInv
\* Nothing about pushes changes while pulls are answered.
<1>PullsOnly.
    ASSUME TypeOK, TypeOK', GlobalInv, PlaneStep, Steady,
           \A p, g, k : Waits(p, g, k)' <=> Waits(p, g, k),
           \A n \in gnet : n.type = "push_ack" => n \in gnet',
           \A n \in gnet' : n.type = "push_ack" => n \in gnet,
           \A p \in Party : \A e \in ts_key_map_[p] : tracker_'[p][e[1]] = tracker_[p][e[1]]
    PROVE  Timestamps'
  <2> USE <1>PullsOnly
  <2>1. \A p, g, k : Owed(p, g, k)' <=> Owed(p, g, k)
    <3> SUFFICES ASSUME NEW p, NEW g, NEW k PROVE Owed(p, g, k)' <=> Owed(p, g, k)
      OBVIOUS
    <3>1. On("push", p, g, k)' <=> On("push", p, g, k)
      BY DEF PlaneStep, On
    <3>2. On("push_ack", p, g, k)' <=> On("push_ack", p, g, k)
      BY DEF On
    <3> QED
      BY <3>1, <3>2 DEF Owed
  <2>2. \A p, k : Out(p, k)' = Out(p, k)
    BY <2>1 DEF Out
  <2> QED
    BY <2>2, SteadyTimes DEF PlaneStep, Steady
\* One part of several.
<1>PullResponsePartInv.
    ASSUME TypeOK, TypeOK', LocalInv, GlobalInv, NEW m \in gnet, PullResponsePart(m)
    PROVE  LocalInv' /\ GlobalInv'
  <2> USE <1>PullResponsePartInv
  <2> DEFINE p == m.peer
             k == m.key
  <2>1. /\ m.type = "pull_data" /\ p \in Party /\ gnet' = gnet \ {m}
        /\ recv_kvs_' = [recv_kvs_ EXCEPT ![p][k] = recv_kvs_[p][k] \cup {Part(m)}]
        /\ tracker_' = [tracker_ EXCEPT ![p] = CountResponse(@, m.ts)]
        /\ UNCHANGED <<request_tmp, ts_key_map_, worker_vars, master_vars, store_vars, pull_vars, lnet>>
    BY DEF PullResponsePart, IsResponse, Parts
  <2>m. k \in Key /\ m.ts \in Nat
    BY GlobalMsgType DEF TypeOK
  <2>2. \A q \in Party :
          /\ Len(tracker_[q]) \in Nat /\ Len(tracker_'[q]) = Len(tracker_[q])
          /\ \A i \in 1 .. Len(tracker_[q]) :
               tracker_'[q][i] = IF q = p /\ i = m.ts THEN tracker_[q][i] + 1 ELSE tracker_[q][i]
    BY <2>1, <2>m, Counted DEF TypeOK
  <2>3. PlaneStep /\ SamePulls /\ NoNewPulls
    BY <2>1, <2>2, SMTT(20) DEF PlaneStep, SamePulls, NoNewPulls, pull_vars
  <2>4. NewParts
    <3> SUFFICES ASSUME NEW q \in Party, NEW j \in Key, NEW a \in recv_kvs_'[q][j]
                 PROVE  \/ a \in recv_kvs_[q][j]
                        \/ \E n \in gnet : /\ n \notin gnet' /\ IsPull(n, q, j)
                                           /\ n.type = "pull_data" /\ a = Part(n)
      BY DEF NewParts
    <3>1. recv_kvs_'[q][j] =
            IF q = p /\ j = k THEN recv_kvs_[p][k] \cup {Part(m)} ELSE recv_kvs_[q][j]
      BY <2>1, <2>m DEF TypeOK, PartyTypeOK
    <3> QED
      BY <2>1, <3>1, SMTT(20) DEF IsPull
  <2>5. /\ LocalInv' /\ Steady /\ StoredGrows /\ Shards' /\ Masters'
        /\ \A q, h, j : Waits(q, h, j)' <=> Waits(q, h, j)
    BY <2>3, <1>PlaneStepInv
  <2>6. Globals' /\ Single'
    BY <2>1, <2>5, SteadyGlobals, FewerMessages
  <2>7. GlobalPulls' /\ Received' /\ OnePull'
    BY <2>3, <2>4, <2>5, SteadyPops, SteadyParts
  <2>8. Timestamps'
    <3>1. \A e \in ts_key_map_[p] : e[1] # m.ts
      BY <2>1 DEF GlobalInv, Globals, GlobalOK, PullOK
    <3>2. \A q \in Party : \A e \in ts_key_map_[q] : e[1] \in 1 .. Len(tracker_[q])
      BY DEF GlobalInv, Timestamps
    <3>3. \A q \in Party : \A e \in ts_key_map_[q] : tracker_'[q][e[1]] = tracker_[q][e[1]]
      BY <2>2, <3>1, <3>2, SMTT(20)
    <3> QED
      BY <2>1, <2>3, <2>5, <3>3, <1>PullsOnly
  <2> QED
    BY <2>5, <2>6, <2>7, <2>8 DEF GlobalInv
\* What it keeps.
<1>ThreadStepInv.
    ASSUME TypeOK, TypeOK', LocalInv, GlobalInv, NEW g \in GServer, ThreadStep(g)
    PROVE  /\ LocalInv' /\ Steady /\ StoredGrows /\ Shards' /\ Masters' /\ Timestamps'
           /\ \A p, h, k : Waits(p, h, k)' <=> Waits(p, h, k)
           /\ \A p \in Party, k \in Key : recv_kvs_'[p][k] = recv_kvs_[p][k]
  <2> USE <1>ThreadStepInv
  <2>1. /\ ts_key_map_' = ts_key_map_ /\ request_tmp' = request_tmp /\ tracker_' = tracker_
        /\ recv_kvs_' = recv_kvs_
    BY DEF ThreadStep, party_vars
  <2>2. PlaneStep
    <3>1. \A p \in Party : Len(tracker_[p]) \in Nat
      BY SMTT(20) DEF TypeOK, PartyTypeOK
    <3>2. \A p \in Party : pulling'[p] = pulling[p] /\ reading'[p] = reading[p]
      BY ServerType DEF ThreadStep
    <3> QED
      BY <2>1, <3>1, <3>2, SMTT(20) DEF ThreadStep, PlaneStep
  <2>3. /\ LocalInv' /\ Steady /\ StoredGrows /\ Shards' /\ Masters'
        /\ \A p, h, k : Waits(p, h, k)' <=> Waits(p, h, k)
    BY <2>2, <1>PlaneStepInv
  <2>4. Timestamps'
    BY <2>1, <2>2, <2>3, <1>PullsOnly DEF ThreadStep
  <2> QED
    BY <2>1, <2>3, <2>4
\* The thread pops a pull.
<1>GlobalPopInv.
    ASSUME TypeOK, TypeOK', LocalInv, GlobalInv, NEW g \in GServer, NEW m \in PullRequests(g),
           PullPop(g, m)
    PROVE  LocalInv' /\ GlobalInv'
  <2> USE <1>GlobalPopInv
  <2>1. /\ m \in gnet /\ m.type = "pull" /\ m.server = g /\ g \in Server /\ m \in GlobalMsg
        /\ m.key \in Key
    BY ServerType, GlobalMsgType DEF PullRequests, TypeOK
  <2>2. /\ pulling[g] = {} /\ pulling' = [pulling EXCEPT ![g] = {m}]
        /\ lnet' = lnet /\ gnet' = gnet \ {m}
        /\ UNCHANGED <<reading, worker_vars, master_vars, store_vars, party_vars>>
    BY <2>1, PlanesApart DEF PullPop, TypeOK
  <2>3. m.peer \in Party /\ GlobalOK(m) /\ PullOK(m.peer, g, m.key, m.ts)
    <3>1. m.peer \in Party
      BY <2>1, GlobalMsgType DEF GlobalInv, Masters, MasterOK, Peer, TypeOK
    <3> QED
      BY <2>1, <3>1 DEF GlobalInv, Globals, GlobalOK
  <2>4. \A s \in Server : pulling'[s] = IF s = g THEN {m} ELSE pulling[s]
    BY <2>1, <2>2 DEF TypeOK, PullTypeOK
  <2>5. ThreadStep(g)
    BY <2>1, <2>2, <2>4 DEF ThreadStep
  <2>6. /\ LocalInv' /\ Steady /\ StoredGrows /\ Shards' /\ Masters' /\ Timestamps'
        /\ \A p, h, k : Waits(p, h, k)' <=> Waits(p, h, k)
        /\ \A p \in Party, k \in Key : recv_kvs_'[p][k] = recv_kvs_[p][k]
    BY <2>5, <1>ThreadStepInv
  <2>7. Globals' /\ Single'
    BY <2>2, <2>6, SteadyGlobals, FewerMessages
  <2>8. ~reading[g]
    BY <2>2 DEF GlobalInv, GlobalPulls
  <2>9. GlobalPulls'
    <3>1. ASSUME NEW h \in GServer, NEW n \in pulling'[h] PROVE GlobalPullOK(h, n)'
      <4>1. CASE h = g
        <5>1. n = m
          BY <2>1, <2>4, <4>1
        <5>2. PullOK(m.peer, g, m.key, m.ts)'
          BY <2>1, <2>3, <2>6, PullKept DEF Steady
        <5>3. \A l \in gnet' : ~(l.peer = m.peer /\ l.server = g /\ l.key = m.key)
          BY <2>1, <2>2 DEF GlobalInv, Single
        <5> QED
          BY <2>1, <2>2, <2>3, <2>8, <4>1, <5>1, <5>2, <5>3 DEF GlobalPullOK
      <4>2. CASE h # g
        <5>1. n \in pulling[h] /\ GlobalPullOK(h, n) /\ reading'[h] = reading[h]
          BY <2>2, <2>4, <4>2, ServerType DEF GlobalInv, GlobalPulls
        <5>2. /\ \A l \in gnet' : ~(l.peer = n.peer /\ l.server = h /\ l.key = n.key)
              /\ reading'[h] => n.key \in stored[h]
          BY <2>2, <5>1 DEF GlobalPullOK
        <5> QED
          BY <2>6, <5>1, <5>2, PopKept, GlobalPoppedFacts DEF Steady
      <4> QED
        BY <4>1, <4>2
    <3>2. \A h \in GServer : /\ \A n, l \in pulling'[h] : n = l
                             /\ reading'[h] => pulling'[h] # {}
      BY <2>2, <2>4, <2>8, ServerType, SMTT(20) DEF GlobalInv, GlobalPulls
    <3> QED
      BY <3>1, <3>2 DEF GlobalPulls
  <2>10. Received'
    <3>1. ASSUME NEW p \in Party, NEW k \in Key, NEW a \in recv_kvs_[p][k] PROVE ReceivedOK(p, k, a)'
      <4>1. ReceivedOK(p, k, a) /\ a.server \in GServer
        BY SMTT(20) DEF GlobalInv, Received, TypeOK, PartyTypeOK, PartType
      <4>2. \A n \in gnet' : ~(n.peer = p /\ n.server = a.server /\ n.key = k)
        BY <2>2, <4>1 DEF ReceivedOK
      <4>3. \A n \in pulling'[a.server] : ~(n.peer = p /\ n.key = k)
        BY <2>1, <2>4, <4>1, ServerType, SMTT(20) DEF ReceivedOK
      <4> QED
        BY <2>6, <4>2, <4>3, PartKept DEF Steady
    <3> QED
      BY <2>6, <3>1 DEF GlobalInv, Received
  <2>11. OnePull'
    <3>1. ASSUME NEW p \in Party, NEW k \in Key, NEW t \in PullTs(p, k)' PROVE t \in PullTs(p, k)
      <4>1. CASE \E n \in gnet' : IsPull(n, p, k) /\ t = n.ts
        BY <2>2, <4>1 DEF PullTs
      <4>2. CASE \E h \in GServer : \E n \in pulling'[h] : IsPull(n, p, k) /\ t = n.ts
        <5>0. PICK h \in GServer : \E n \in pulling'[h] : IsPull(n, p, k) /\ t = n.ts
          BY <4>2
        <5>1. PICK n \in pulling'[h] : IsPull(n, p, k) /\ t = n.ts
          BY <5>0
        <5>2. n \in gnet \/ n \in pulling[h]
          BY <2>1, <2>4, ServerType
        <5> QED
          BY <5>1, <5>2 DEF PullTs
      <4>3. CASE \E a \in recv_kvs_'[p][k] : t = a.ts
        BY <2>6, <4>3 DEF PullTs
      <4> QED
        BY <4>1, <4>2, <4>3, SMTT(20) DEF PullTs, IsPull
    <3> QED
      BY <3>1 DEF GlobalInv, OnePull
  <2> QED
    BY <2>6, <2>7, <2>9, <2>10, <2>11 DEF GlobalInv
\* It finds the key initialized.
<1>GlobalReadInv.
    ASSUME TypeOK, TypeOK', LocalInv, GlobalInv, NEW g \in GServer, NEW m \in pulling[g],
           PullRead(g, m)
    PROVE  LocalInv' /\ GlobalInv'
  <2> USE <1>GlobalReadInv
  <2>1. /\ m.key \in initialized_[g] /\ reading' = [reading EXCEPT ![g] = TRUE]
        /\ UNCHANGED <<pulling, worker_vars, master_vars, store_vars, party_vars, lnet, gnet>>
    BY DEF PullRead
  <2>2. g \in Server /\ m.key \in stored[g] /\ pulling[g] = {m}
    BY <2>1, GlobalPoppedFacts, ServerType DEF GlobalInv, Shards
  <2>3. \A s \in Server : reading'[s] = IF s = g THEN TRUE ELSE reading[s]
    BY <2>1, <2>2 DEF TypeOK, PullTypeOK
  <2>4. ThreadStep(g)
    BY <2>1, <2>3 DEF ThreadStep
  <2>5. /\ LocalInv' /\ Steady /\ StoredGrows /\ Shards' /\ Masters' /\ Timestamps'
        /\ \A p, h, k : Waits(p, h, k)' <=> Waits(p, h, k)
        /\ \A p \in Party, k \in Key : recv_kvs_'[p][k] = recv_kvs_[p][k]
    BY <2>4, <1>ThreadStepInv
  <2>6. Globals' /\ Single'
    BY <2>1, <2>5, SteadyGlobals, FewerMessages
  <2>7. GlobalPulls'
    <3>1. ASSUME NEW h \in GServer, NEW n \in pulling[h] PROVE GlobalPullOK(h, n)'
      <4>1. GlobalPullOK(h, n)
        BY DEF GlobalInv, GlobalPulls
      <4>2. reading'[h] => n.key \in stored[h]
        BY <2>2, <2>3, <4>1, ServerType DEF GlobalPullOK
      <4>3. \A l \in gnet' : ~(l.peer = n.peer /\ l.server = h /\ l.key = n.key)
        BY <2>1, <4>1 DEF GlobalPullOK
      <4> QED
        BY <2>5, <4>2, <4>3, PopKept, GlobalPoppedFacts DEF Steady
    <3>2. \A h \in GServer : reading'[h] => pulling[h] # {}
      BY <2>2, <2>3, ServerType DEF GlobalInv, GlobalPulls
    <3> QED
      BY <2>1, <3>1, <3>2 DEF GlobalInv, GlobalPulls
  <2>8. Received'
    <3>1. ASSUME NEW p \in Party, NEW k \in Key, NEW a \in recv_kvs_[p][k] PROVE ReceivedOK(p, k, a)'
      <4>1. ReceivedOK(p, k, a)
        BY DEF GlobalInv, Received
      <4>2. \A n \in gnet' : ~(n.peer = p /\ n.server = a.server /\ n.key = k)
        BY <2>1, <4>1 DEF ReceivedOK
      <4>3. \A n \in pulling'[a.server] : ~(n.peer = p /\ n.key = k)
        BY <2>1, <4>1 DEF ReceivedOK
      <4> QED
        BY <2>5, <4>2, <4>3, PartKept DEF Steady
    <3> QED
      BY <2>5, <3>1 DEF GlobalInv, Received
  <2>9. OnePull'
    <3>1. \A p \in Party, k \in Key : PullTs(p, k)' = PullTs(p, k)
      BY <2>1, SMTT(20) DEF PullTs, IsPull, party_vars
    <3>2. OnePull
      BY DEF GlobalInv
    <3> QED
      BY <3>1, <3>2 DEF OnePull
  <2> QED
    BY <2>5, <2>6, <2>7, <2>8, <2>9 DEF GlobalInv
\* It answers with the version that is due.
<1>GlobalRespondInv.
    ASSUME TypeOK, TypeOK', LocalInv, GlobalInv, NEW g \in GServer, NEW m \in pulling[g],
           PullRespond(g, m)
    PROVE  LocalInv' /\ GlobalInv'
  <2> USE <1>GlobalRespondInv
  <2> DEFINE p == m.peer
             k == m.key
  <2>a. PICK n : n = GMsg("pull_data", m.peer, g, m.key, m.ts, store_[g][m.key])
    OBVIOUS
  <2>n. /\ n.type = "pull_data" /\ n.peer = p /\ n.server = g /\ n.key = k /\ n.ts = m.ts
        /\ n.val = store_[g][k]
    BY <2>a DEF GMsg
  <2>m. /\ GlobalPullOK(g, m) /\ p \in Party /\ k \in Key /\ m.server = g
        /\ PullOK(p, g, k, m.ts) /\ ~Pushing(p, k) /\ pulling[g] = {m} /\ g \in Server /\ g \notin Party
    BY GlobalPoppedFacts, ServerType
  <2>1. /\ reading[g] /\ gnet' = gnet \cup {n} /\ pulling' = [pulling EXCEPT ![g] = {}]
        /\ reading' = [reading EXCEPT ![g] = FALSE]
        /\ UNCHANGED <<lnet, worker_vars, master_vars, store_vars, party_vars>>
    BY <2>a, <2>m DEF PullRespond
  <2>2. \A s \in Server : /\ pulling'[s] = IF s = g THEN {} ELSE pulling[s]
                          /\ reading'[s] = IF s = g THEN FALSE ELSE reading[s]
    BY <2>1, <2>m DEF TypeOK, PullTypeOK
  <2>3. ThreadStep(g)
    BY <2>1, <2>2, <2>m, <2>n DEF ThreadStep
  <2>4. /\ LocalInv' /\ Steady /\ StoredGrows /\ Shards' /\ Masters' /\ Timestamps'
        /\ \A q, h, j : Waits(q, h, j)' <=> Waits(q, h, j)
        /\ \A q \in Party, j \in Key : recv_kvs_'[q][j] = recv_kvs_[q][j]
    BY <2>3, <1>ThreadStepInv
  <2>5. \A l \in gnet : ~(l.peer = p /\ l.server = g /\ l.key = k)
    BY <2>m DEF GlobalPullOK
  <2>6. DataOK(p, g, k, n.val)
    <3>0. k \in stored[g] /\ ShardOK(g, k)
      BY <2>1, <2>m DEF GlobalPullOK, GlobalInv, Shards
    <3>1. store_[g][k] = Weight(Has(p, g, k))
      BY <2>m, <3>0 DEF ShardOK
    <3>2. ~On("push", p, g, k)
      BY <2>5 DEF On
    <3>3. ~Waits(p, g, k)
      <4> SUFFICES ASSUME NEW q \in request[g][k], q[1] = p PROVE FALSE
        BY DEF Waits
      <4>1. <<q[2], k>> \in ts_key_map_[p]
        BY <3>0 DEF ShardOK
      <4>2. <<q[2], k>>[2] = k
        OBVIOUS
      <4> QED
        BY <2>m, <4>1, <4>2 DEF Pushing
    <3>4. Has(p, g, k) = Due(p, k)
      BY <3>2, <3>3 DEF Has, Applied, Due
    <3> QED
      BY <2>n, <3>0, <3>1, <3>4 DEF DataOK
  <2>7. GlobalOK(n)'
    <3>1. PullOK(p, g, k, m.ts)' /\ DataOK(p, g, k, n.val)'
      BY <2>4, <2>6, <2>m, PullKept, DataKept DEF Steady
    <3> QED
      BY <2>n, <3>1 DEF GlobalOK
  <2>8. Globals'
    BY <2>1, <2>4, <2>7, SteadyGlobals
  <2>9. Single'
    BY <2>1, <2>5, <2>n, SMTT(20) DEF GlobalInv, Single
  <2>10. GlobalPulls'
    <3>1. ASSUME NEW h \in GServer, NEW l \in pulling'[h] PROVE GlobalPullOK(h, l)'
      <4>1. h # g /\ l \in pulling[h] /\ GlobalPullOK(h, l) /\ reading'[h] = reading[h]
        BY <2>2, ServerType DEF GlobalInv, GlobalPulls
      <4>2. /\ \A o \in gnet' : ~(o.peer = l.peer /\ o.server = h /\ o.key = l.key)
            /\ reading'[h] => l.key \in stored[h]
        BY <2>1, <2>n, <4>1 DEF GlobalPullOK
      <4> QED
        BY <2>4, <4>1, <4>2, PopKept, GlobalPoppedFacts DEF Steady
    <3>2. \A h \in GServer : /\ \A l, o \in pulling'[h] : l = o
                             /\ reading'[h] => pulling'[h] # {}
      BY <2>2, ServerType DEF GlobalInv, GlobalPulls
    <3> QED
      BY <3>1, <3>2 DEF GlobalPulls
  <2>11. Received'
    <3>1. ASSUME NEW q \in Party, NEW j \in Key, NEW a \in recv_kvs_[q][j] PROVE ReceivedOK(q, j, a)'
      <4>0. ReceivedOK(q, j, a)
        BY DEF GlobalInv, Received
      <4>1. ReceivedOK(q, j, a) /\ a.server \in GServer
        BY <4>0, SMTT(20) DEF TypeOK, PartyTypeOK, PartType
      <4>2. \A l \in gnet' : ~(l.peer = q /\ l.server = a.server /\ l.key = j)
        BY <2>1, <2>n, <4>1 DEF ReceivedOK
      <4>3. \A l \in pulling'[a.server] : ~(l.peer = q /\ l.key = j)
        BY <2>2, <4>1, ServerType DEF ReceivedOK
      <4> QED
        BY <2>4, <4>2, <4>3, PartKept DEF Steady
    <3> QED
      BY <2>4, <3>1 DEF GlobalInv, Received
  <2>12. OnePull'
    <3>1. ASSUME NEW q \in Party, NEW j \in Key, NEW t \in PullTs(q, j)' PROVE t \in PullTs(q, j)
      <4>1. CASE \E l \in gnet' : IsPull(l, q, j) /\ t = l.ts
        <5>1. PICK l \in gnet' : IsPull(l, q, j) /\ t = l.ts
          BY <4>1
        <5>2. CASE l \in gnet
          BY <5>1, <5>2 DEF PullTs
        <5>3. CASE l = n
          <6>1. IsPull(m, q, j) /\ t = m.ts
            BY <2>m, <2>n, <5>1, <5>3 DEF IsPull, GlobalPullOK
          <6> QED
            BY <6>1 DEF PullTs
        <5> QED
          BY <2>1, <5>2, <5>3
      <4>2. CASE \E h \in GServer : \E l \in pulling'[h] : IsPull(l, q, j) /\ t = l.ts
        <5>0. PICK h \in GServer : \E l \in pulling'[h] : IsPull(l, q, j) /\ t = l.ts
          BY <4>2
        <5>1. PICK l \in pulling'[h] : IsPull(l, q, j) /\ t = l.ts
          BY <5>0
        <5>2. l \in pulling[h]
          BY <2>2, ServerType
        <5> QED
          BY <5>1, <5>2 DEF PullTs
      <4>3. CASE \E a \in recv_kvs_'[q][j] : t = a.ts
        BY <2>4, <4>3 DEF PullTs
      <4> QED
        BY <4>1, <4>2, <4>3, SMTT(20) DEF PullTs, IsPull
    <3> QED
      BY <3>1 DEF GlobalInv, OnePull
  <2> QED
    BY <2>4, <2>8, <2>9, <2>10, <2>11, <2>12 DEF GlobalInv
<1> QED
  BY <1>PushResponseWaitInv, <1>PullResponsePartInv, <1>GlobalPopInv, <1>GlobalReadInv,
     <1>GlobalRespondInv
     DEF ResponseStep, GlobalPullStep

-----------------------------------------------------------------------------
(* The steps that take a party from one stage of a key to the next *)

\* Messages of a party about a key.
Of(n, p, k) == n.peer = p /\ n.key = k

\* All but party p with key k stay as they are.
OthersStay(p, k) ==
  /\ SameShards /\ SamePulls /\ UNCHANGED master_vars
  /\ \A q \in Party : Forward(q)
  /\ \A q \in Party, j \in Key :
       q # p \/ j # k => SameStage(q, j) /\ recv_kvs_'[q][j] = recv_kvs_[q][j]
  /\ \A n \in gnet \cup gnet' : ~Of(n, p, k) => (n \in gnet <=> n \in gnet')
  /\ \A q \in Party : \A e \in ts_key_map_'[q] :
       q # p \/ e[2] # k => tracker_'[q][e[1]] = tracker_[q][e[1]]

\* The requests that p has at the global servers about k are of the new stage.
Turned(p, k) ==
  /\ recv_kvs_'[p][k] = {}
  /\ \A g \in GServer : \A n \in pulling[g] : ~Of(n, p, k)
  /\ \A g \in GServer : ~Waits(p, g, k)
  /\ \A g \in ShardsOf[k] : Has(p, g, k)' = Has(p, g, k)
  /\ \A n \in gnet' : Of(n, p, k) => GlobalOK(n)'
  /\ \A n, l \in gnet' : Of(n, p, k) /\ Of(l, p, k) => n.ts = l.ts /\ (n.server = l.server => n = l)
  /\ \A e \in ts_key_map_'[p] :
       e[2] = k => /\ e[1] \in 1 .. Len(tracker_'[p])
                   /\ tracker_'[p][e[1]] = Cardinality(GServer) - Cardinality(Out(p, k)')
                   /\ \A f \in ts_key_map_'[p] : e[1] = f[1] <=> e[2] = f[2]

TurnStep ==
  \/ \E m \in lnet : LocalInit(m) \/ LocalForward(m)
  \/ \E m \in gnet : PushResponseLast(m) \/ PullResponseLast(m)

\* What a step at a party leaves alone of the global servers.
LEMMA PartyStepShards ==
  ASSUME TypeOK, NEW p \in Party,
         UNCHANGED <<merged, request>> \/
           \E k \in Key : \E x, y : /\ merged' = [merged EXCEPT ![p][k] = x]
                                /\ request' = [request EXCEPT ![p][k] = y],
         UNCHANGED store_ \/ \E k \in Key : \E x : store_' = [store_ EXCEPT ![p][k] = x],
         UNCHANGED stored \/ \E x : stored' = [stored EXCEPT ![p] = x],
         UNCHANGED initialized_ \/ \E x : initialized_' = [initialized_ EXCEPT ![p] = x]
  PROVE  SameShards
<1> SUFFICES ASSUME NEW g \in GServer
             PROVE  /\ stored'[g] = stored[g] /\ initialized_'[g] = initialized_[g]
                    /\ store_'[g] = store_[g] /\ merged'[g] = merged[g] /\ request'[g] = request[g]
  BY DEF SameShards, SameShard
<1>1. g \in Server /\ g # p
  BY ServerType
<1>2. stored'[g] = stored[g] /\ initialized_'[g] = initialized_[g]
  BY <1>1 DEF TypeOK, StoreTypeOK
<1>3. store_'[g] = store_[g]
  BY <1>1 DEF TypeOK, StoreTypeOK, ArraysTypeOK
<1>4. merged'[g] = merged[g] /\ request'[g] = request[g]
  BY <1>1 DEF TypeOK, StoreTypeOK, ArraysTypeOK, RequestsTypeOK
<1> QED
  BY <1>2, <1>3, <1>4

\* As many parts of different servers as there are servers are one of each.
LEMMA OneOfEach ==
  ASSUME Counting, NEW S, NEW T, IsFiniteSet(T), Cardinality(S) = Cardinality(T),
         \A a \in S : a.server \in T,
         \A a, b \in S : a.server = b.server => a = b
  PROVE  \A t \in T : \E a \in S : a.server = t
<1>1. PICK f : f = [a \in S |-> a.server]
  OBVIOUS
<1>2. f \in [S -> T] /\ \A a \in S : f[a] = a.server
  BY <1>1
<1>3. \A a, b \in S : f[a] = f[b] => a = b
  BY <1>2
<1>4. \A t \in T : \E a \in S : f[a] = t
  BY <1>2, <1>3, Covering, SMTT(20)
<1> QED
  BY <1>2, <1>4

\* The steps that take a party from one stage of a key to the next.
LEMMA TurnKeeps ==
  ASSUME Counting
  PROVE  TypeOK /\ TypeOK' /\ LocalInv /\ GlobalInv /\ TurnStep =>
           LocalInv' /\ GlobalInv'
\* Such a step keeps the global half of the invariant.
<1>TurnInv.
    ASSUME TypeOK, TypeOK', GlobalInv, NEW p \in Party, NEW k \in Key, OthersStay(p, k), Turned(p, k)
    PROVE  GlobalInv'
  <2> USE <1>TurnInv
  <2>1. /\ SameShards /\ SamePulls /\ UNCHANGED master_vars /\ StoredGrows
        /\ \A q \in Party : Forward(q)
    BY DEF OthersStay, StoredGrows, SameShards
  <2>2. ASSUME NEW q \in Party, NEW j \in Key, q # p \/ j # k
        PROVE  SameStage(q, j) /\ recv_kvs_'[q][j] = recv_kvs_[q][j]
    BY <2>2 DEF OthersStay
  <2>3. ASSUME NEW n \in gnet \cup gnet', ~Of(n, p, k) PROVE n \in gnet <=> n \in gnet'
    BY <2>3 DEF OthersStay
  <2>4. ASSUME NEW q, NEW g \in GServer, NEW j \in Key PROVE Waits(q, g, j)' <=> Waits(q, g, j)
    BY <2>1 DEF Waits, SameShards, SameShard
  <2>5. Globals'
    <3> SUFFICES ASSUME NEW n \in gnet', n.peer \in Party PROVE GlobalOK(n)'
      BY DEF Globals
    <3>1. CASE Of(n, p, k)
      BY <3>1 DEF Turned
    <3>2. CASE ~Of(n, p, k)
      <4>1. n \in gnet /\ GlobalOK(n)
        BY <2>3, <3>2 DEF GlobalInv, Globals
      <4>2. n.key \in Key /\ n.server \in GServer
        BY <4>1, GlobalMsgType DEF TypeOK
      <4>3. SameStage(n.peer, n.key)
        BY <2>2, <3>2, <4>2 DEF Of
      <4>4. Waits(n.peer, n.server, n.key)' => Waits(n.peer, n.server, n.key)
        BY <2>4, <4>2
      <4> QED
        BY <2>1, <4>1, <4>3, <4>4, MessageKept
    <3> QED
      BY <3>1, <3>2
  <2>6. Single'
    <3> SUFFICES ASSUME NEW n \in gnet', NEW l \in gnet',
                        n.peer = l.peer, n.server = l.server, n.key = l.key
                 PROVE  n = l
      BY DEF Single
    <3>1. CASE Of(n, p, k)
      BY <3>1 DEF Turned, Of
    <3>2. CASE ~Of(n, p, k)
      BY <2>3, <3>2 DEF GlobalInv, Single, Of
    <3> QED
      BY <3>1, <3>2
  <2>7. GlobalPulls'
    <3>1. ASSUME NEW g \in GServer, NEW n \in pulling[g] PROVE GlobalPullOK(g, n)'
      <4>1. /\ GlobalPullOK(g, n) /\ n.peer \in Party /\ n.key \in Key /\ ~Of(n, p, k)
        BY GlobalPoppedFacts DEF Turned
      <4>2. SameStage(n.peer, n.key) /\ Forward(n.peer)
        BY <2>1, <2>2, <4>1 DEF Of
      <4>3. \A l \in gnet' : ~(l.peer = n.peer /\ l.server = g /\ l.key = n.key)
        BY <2>3, <4>1 DEF GlobalPullOK, Of
      <4>4. reading'[g] => n.key \in stored[g]
        BY <2>1, <4>1 DEF GlobalPullOK, SamePulls
      <4> QED
        BY <2>1, <4>2, <4>3, <4>4, PopKept
    <3> QED
      BY <2>1, <3>1 DEF GlobalInv, GlobalPulls, SamePulls
  <2>8. Received'
    <3> SUFFICES ASSUME NEW q \in Party, NEW j \in Key
                 PROVE  /\ \A a \in recv_kvs_'[q][j] : ReceivedOK(q, j, a)'
                        /\ \A a, b \in recv_kvs_'[q][j] : a.server = b.server => a = b
      BY DEF Received
    <3>1. CASE q = p /\ j = k
      BY <3>1 DEF Turned
    <3>2. CASE q # p \/ j # k
      <4>1. SameStage(q, j) /\ recv_kvs_'[q][j] = recv_kvs_[q][j] /\ Forward(q)
        BY <2>1, <2>2, <3>2
      <4>2. ASSUME NEW a \in recv_kvs_[q][j] PROVE ReceivedOK(q, j, a)'
        <5>1. ReceivedOK(q, j, a) /\ a.server \in GServer
          BY SMTT(20) DEF GlobalInv, Received, TypeOK, PartyTypeOK, PartType
        <5>2. \A n \in gnet' : ~(n.peer = q /\ n.server = a.server /\ n.key = j)
          BY <2>3, <3>2, <5>1 DEF ReceivedOK, Of
        <5>3. \A n \in pulling'[a.server] : ~(n.peer = q /\ n.key = j)
          BY <2>1, <5>1 DEF ReceivedOK, SamePulls
        <5> QED
          BY <2>1, <4>1, <5>2, <5>3, PartKept
      <4> QED
        BY <4>1, <4>2 DEF GlobalInv, Received
    <3> QED
      BY <3>1, <3>2
  <2>9. OnePull'
    <3> SUFFICES ASSUME NEW q \in Party, NEW j \in Key, NEW t \in PullTs(q, j)', NEW u \in PullTs(q, j)'
                 PROVE  t = u
      BY DEF OnePull
    <3>0. UNION {pulling'[g] : g \in GServer} = UNION {pulling[g] : g \in GServer}
      BY <2>1 DEF SamePulls
    <3>1. CASE q = p /\ j = k
      <4>1. \A n \in UNION {pulling[g] : g \in GServer} : ~Of(n, p, k)
        BY DEF Turned
      <4>2. \A x \in PullTs(p, k)' : \E n \in gnet' : Of(n, p, k) /\ x = n.ts
        BY <3>0, <4>1 DEF PullTs, IsPull, Of, Turned
      <4> QED
        BY <3>1, <4>2, SMTT(20) DEF Turned
    <3>2. CASE q # p \/ j # k
      <4>1. PullTs(q, j)' \subseteq PullTs(q, j)
        <5>1. recv_kvs_'[q][j] = recv_kvs_[q][j]
          BY <2>2, <3>2
        <5>2. \A n \in gnet' : IsPull(n, q, j) => n \in gnet
          BY <2>3, <3>2 DEF IsPull, Of
        <5> QED
          BY <3>0, <5>1, <5>2 DEF PullTs, IsPull
      <4> QED
        BY <4>1 DEF GlobalInv, OnePull
    <3> QED
      BY <3>1, <3>2
  <2>10. Masters'
    <3>1. Master \notin Party
      BY ConstantsAssumption
    <3>2. \A n \in gnet' : n.peer = Master => n \in gnet
      BY <2>3, <3>1 DEF Of
    <3> QED
      BY <2>1, <3>2, SteadyMasters DEF TypeOK, SameShards
  <2>11. ASSUME NEW q, NEW g, NEW j, q # p \/ j # k PROVE \A t : On(t, q, g, j)' <=> On(t, q, g, j)
    BY <2>3, <2>11 DEF On, Of
  <2>12. Shards'
    <3>1. ASSUME NEW q \in Party, NEW j \in Key, NEW g \in ShardsOf[j]
          PROVE  Has(q, g, j)' = Has(q, g, j) /\ (Waits(q, g, j) => SameStage(q, j))
      <4>0. g \in GServer
        BY ShardsType
      <4>1. CASE q = p /\ j = k
        BY <4>0, <4>1 DEF Turned
      <4>2. CASE q # p \/ j # k
        BY <2>2, <2>4, <2>11, <4>0, <4>2, HasSame
      <4> QED
        BY <4>1, <4>2
    <3> QED
      BY <2>1, <3>1, SteadyShards
  <2>13. Timestamps'
    <3> SUFFICES ASSUME NEW q \in Party, NEW e \in ts_key_map_'[q]
                 PROVE  /\ e[1] \in 1 .. Len(tracker_'[q])
                        /\ tracker_'[q][e[1]] = Cardinality(GServer) - Cardinality(Out(q, e[2])')
                        /\ \A f \in ts_key_map_'[q] : e[1] = f[1] <=> e[2] = f[2]
      BY DEF Timestamps
    <3>1. \A f \in ts_key_map_'[q] : f[2] \in Key
      BY SMTT(20) DEF TypeOK, PartyTypeOK
    <3>2. CASE q = p /\ e[2] = k
      BY <3>2 DEF Turned
    <3>3. CASE q # p \/ e[2] # k
      <4>1. \A f \in ts_key_map_'[q] : q # p \/ f[2] # k => f \in ts_key_map_[q]
        BY <2>2, <3>1 DEF SameStage
      <4>2. /\ e[1] \in 1 .. Len(tracker_[q])
            /\ tracker_[q][e[1]] = Cardinality(GServer) - Cardinality(Out(q, e[2]))
            /\ \A f \in ts_key_map_[q] : e[1] = f[1] <=> e[2] = f[2]
        BY <3>3, <4>1 DEF GlobalInv, Timestamps
      <4>3. e[1] \in 1 .. Len(tracker_'[q])
        <5>1. Len(tracker_[q]) \in Nat /\ Len(tracker_'[q]) \in Nat
          BY SMTT(20) DEF TypeOK, PartyTypeOK
        <5> QED
          BY <2>1, <4>2, <5>1, SMTT(20) DEF Forward
      <4>4. tracker_'[q][e[1]] = tracker_[q][e[1]]
        BY <3>3 DEF OthersStay
      <4>5. Out(q, e[2])' = Out(q, e[2])
        <5>1. \A g \in ShardsOf[e[2]] : Owed(q, g, e[2])' <=> Owed(q, g, e[2])
          BY <2>4, <2>11, <3>1, <3>3, ShardsType DEF Owed
        <5> QED
          BY <5>1 DEF Out
      <4>6. ASSUME NEW f \in ts_key_map_'[q] PROVE e[1] = f[1] <=> e[2] = f[2]
        <5>1. CASE q = p /\ f[2] = k
          BY <5>1 DEF Turned
        <5>2. CASE q # p \/ f[2] # k
          BY <4>1, <4>2, <5>2
        <5> QED
          BY <5>1, <5>2
      <4> QED
        BY <4>2, <4>3, <4>4, <4>5, <4>6
    <3> QED
      BY <3>2, <3>3
  <2> QED
    BY <2>5, <2>6, <2>7, <2>8, <2>9, <2>10, <2>12, <2>13 DEF GlobalInv
\* A party has requests about a key at the global servers in between only.
<1>Quiet.
    ASSUME TypeOK, LocalInv, GlobalInv, NEW p \in Party, NEW k \in Key,
           k \notin stored[p] \/ (k \in initialized_[p] /\ ~Busy(p, k))
    PROVE  /\ ~Pushing(p, k) /\ recv_kvs_[p][k] = {}
           /\ \A n \in gnet : ~Of(n, p, k)
           /\ \A g \in GServer : ~Waits(p, g, k) /\ \A n \in pulling[g] : ~Of(n, p, k)
  <2> USE <1>Quiet
  <2>1. ~Pushing(p, k)
    BY VersionType
  <2>2. \A g, t : ~PullOK(p, g, k, t)
    BY DEF PullOK
  <2>3. \A t : <<t, k>> \notin ts_key_map_[p]
    <3>1. \A t : <<t, k>>[2] = k
      OBVIOUS
    <3> QED
      BY <2>1, <3>1 DEF Pushing
  <2>4. ASSUME NEW n \in gnet PROVE ~Of(n, p, k)
    <3>1. n.type \in MsgType
      BY DEF TypeOK, NetTypeOK, GlobalMsg
    <3>2. Of(n, p, k) => GlobalOK(n)
      BY DEF Of, GlobalInv, Globals
    <3> QED
      BY <2>2, <2>3, <3>1, <3>2 DEF GlobalOK, MsgType, Of
  <2>5. ASSUME NEW g \in GServer PROVE ~Waits(p, g, k)
    <3> SUFFICES ASSUME NEW q \in request[g][k], q[1] = p PROVE FALSE
      BY DEF Waits
    <3>1. <<q[2], k>> \in ts_key_map_[p]
      BY DEF GlobalInv, Shards, ShardOK
    <3> QED
      BY <2>3, <3>1
  <2>6. ASSUME NEW g \in GServer, NEW n \in pulling[g] PROVE ~Of(n, p, k)
    BY <2>2, GlobalPoppedFacts, SMTT(20) DEF Of
  <2>7. recv_kvs_[p][k] = {}
    BY <2>2 DEF GlobalInv, Received, ReceivedOK
  <2> QED
    BY <2>1, <2>4, <2>5, <2>6, <2>7
\* A request gets the next number.
<1>Numbered.
    ASSUME PartyTypeOK, NEW p \in Party, NEW k \in Key,
           tracker_' = [tracker_ EXCEPT ![p] = NewRequest(@, k)]
    PROVE  /\ NewTs(p) = Len(tracker_[p]) + 1 /\ tracker_'[p][NewTs(p)] = Skipped(k)
           /\ \A q \in Party :
                /\ Len(tracker_[q]) \in Nat
                /\ Len(tracker_'[q]) = IF q = p THEN NewTs(p) ELSE Len(tracker_[q])
                /\ \A i \in 1 .. Len(tracker_[q]) : tracker_'[q][i] = tracker_[q][i]
  <2> USE <1>Numbered
  <2>0. \A q \in Party : tracker_[q] \in Seq(Nat) /\ Len(tracker_[q]) \in Nat
    BY SMTT(20) DEF PartyTypeOK
  <2>1. tracker_'[p] = Append(tracker_[p], Skipped(k))
    BY DEF PartyTypeOK, NewRequest
  <2>2. Skipped(k) \in Nat
    BY SkippedType
  <2>3. /\ Len(tracker_'[p]) = Len(tracker_[p]) + 1
        /\ tracker_'[p][Len(tracker_[p]) + 1] = Skipped(k)
        /\ \A i \in 1 .. Len(tracker_[p]) : tracker_'[p][i] = tracker_[p][i]
    <3>1. PICK s, n : s = tracker_[p] /\ n = Skipped(k)
      OBVIOUS
    <3>2. s \in Seq(Nat) /\ n \in Nat /\ tracker_'[p] = Append(s, n)
      BY <2>0, <2>1, <2>2, <3>1
    <3>3. /\ Len(Append(s, n)) = Len(s) + 1 /\ Append(s, n)[Len(s) + 1] = n
          /\ \A i \in 1 .. Len(s) : Append(s, n)[i] = s[i]
      BY <3>2, SMTT(20)
    <3> QED
      BY <3>1, <3>2, <3>3
  <2>4. \A q \in Party : q # p => tracker_'[q] = tracker_[q]
    BY DEF PartyTypeOK
  <2> QED
    BY <2>0, <2>3, <2>4, SMTT(20) DEF NewTs
\* The first push of a key at a party starts its first pull.
<1>LocalInitGlobal.
    ASSUME TypeOK, TypeOK', LocalInv, GlobalInv, NEW m \in lnet, LocalInit(m)
    PROVE  LocalInv' /\ GlobalInv'
  <2> USE <1>LocalInitGlobal
  <2>0. PICK k, p : k = m.key /\ p = PartyOf[m.worker]
    OBVIOUS
  <2>1. /\ LocalInv' /\ p \in Party /\ k \in Key /\ k \notin initialized_[p] /\ ~Pushing(p, k)
        /\ \A q \in Party, j \in Key : Ver(q, j)' = Ver(q, j)
    BY <2>0, PartyLocal DEF Opens
  <2>2. /\ k \notin stored[p] /\ stored' = [stored EXCEPT ![p] = stored[p] \cup {k}]
        /\ store_' = [store_ EXCEPT ![p][k] = m.val]
        /\ gnet' = gnet \cup PullFromGlobal(p, k)
        /\ tracker_' = [tracker_ EXCEPT ![p] = NewRequest(@, k)]
        /\ UNCHANGED <<initialized_, merged, request, request_tmp, ts_key_map_, recv_kvs_,
                       master_vars, pull_vars>>
    BY <2>0 DEF LocalInit
  <2>3. SameShards
    BY <2>1, <2>2, PartyStepShards
  <2>4. SamePulls
    BY <2>2 DEF SamePulls, pull_vars
  <2>5. /\ NewTs(p) = Len(tracker_[p]) + 1
        /\ \A q \in Party :
             /\ Len(tracker_[q]) \in Nat
             /\ Len(tracker_'[q]) = IF q = p THEN NewTs(p) ELSE Len(tracker_[q])
             /\ \A i \in 1 .. Len(tracker_[q]) : tracker_'[q][i] = tracker_[q][i]
    BY <2>1, <2>2, <1>Numbered DEF TypeOK
  <2>6. \A q \in Party : Forward(q)
    BY <2>2, <2>5, SMTT(20) DEF Forward
  <2>7. /\ recv_kvs_[p][k] = {}
        /\ \A n \in gnet : ~Of(n, p, k)
        /\ \A g \in GServer : ~Waits(p, g, k) /\ \A n \in pulling[g] : ~Of(n, p, k)
    BY <2>1, <2>2, <1>Quiet
  <2>8. ASSUME NEW q \in Party, NEW j \in Key, q # p \/ j # k PROVE SameStage(q, j)
    <3>1. j \in stored'[q] <=> j \in stored[q]
      BY <2>1, <2>2, <2>8, ServerType DEF TypeOK, StoreTypeOK
    <3>2. Busy(q, j)' <=> Busy(q, j)
      BY <2>2 DEF Busy
    <3> QED
      BY <2>1, <2>2, <3>1, <3>2 DEF SameStage
  <2>9. ASSUME NEW n \in PullFromGlobal(p, k)
        PROVE  /\ n.type = "pull" /\ n.peer = p /\ n.key = k /\ n.ts = NewTs(p)
               /\ n.server \in ShardsOf[k] /\ n.val = Zero
               /\ n = GMsg("pull", p, n.server, k, NewTs(p), Zero)
    BY SMTT(20) DEF PullFromGlobal, GMsg
  <2>10. \A q \in Party : \A e \in ts_key_map_[q] : e[1] \in 1 .. Len(tracker_[q])
    BY DEF GlobalInv, Timestamps
  <2>11. OthersStay(p, k)
    <3>1. \A n \in gnet \cup gnet' : ~Of(n, p, k) => (n \in gnet <=> n \in gnet')
      BY <2>2, <2>9 DEF Of
    <3>2. \A q \in Party : \A e \in ts_key_map_'[q] : tracker_'[q][e[1]] = tracker_[q][e[1]]
      BY <2>2, <2>5, <2>10
    <3> QED
      BY <2>2, <2>3, <2>4, <2>6, <2>8, <3>1, <3>2 DEF OthersStay
  <2>12. ~Pushing(p, k)' /\ ~Busy(p, k) /\ ~Busy(p, k)'
    BY <2>1, <2>2, VersionType DEF Pushing, Busy
  <2>13. ASSUME NEW n \in gnet', Of(n, p, k) PROVE n \in PullFromGlobal(p, k)
    BY <2>2, <2>7, <2>13
  <2>14. Turned(p, k)
    <3>1. \A g \in ShardsOf[k] : Has(p, g, k)' = Has(p, g, k)
      BY <2>1, <2>12 DEF Has, Applied
    <3>2. ASSUME NEW n \in gnet', Of(n, p, k) PROVE GlobalOK(n)'
      <4>1. /\ n.type = "pull" /\ n.peer = p /\ n.key = k /\ n.ts = NewTs(p) /\ n.server \in ShardsOf[k]
        BY <2>9, <2>13, <3>2
      <4>2. k \in stored'[p] /\ k \notin initialized_'[p]
        BY <2>1, <2>2, ServerType DEF TypeOK, StoreTypeOK
      <4>3. NewTs(p) \in 1 .. Len(tracker_'[p])
        BY <2>1, <2>5, SMTT(20)
      <4>4. \A e \in ts_key_map_'[p] : e[1] # NewTs(p)
        BY <2>1, <2>2, <2>5, <2>10, SMTT(20)
      <4> QED
        BY <2>12, <4>1, <4>2, <4>3, <4>4 DEF GlobalOK, PullOK
    <3>3. \A n, l \in gnet' : Of(n, p, k) /\ Of(l, p, k) =>
            n.ts = l.ts /\ (n.server = l.server => n = l)
      BY <2>9, <2>13
    <3>4. \A e \in ts_key_map_'[p] : e[2] # k
      BY <2>12 DEF Pushing
    <3>5. recv_kvs_'[p][k] = {}
      BY <2>2, <2>7
    <3> QED
      BY <2>7, <3>1, <3>2, <3>3, <3>4, <3>5 DEF Turned
  <2> QED
    BY <2>1, <2>11, <2>14, <1>TurnInv
\* The push that completes a party starts a round at the global servers.
<1>LocalForwardGlobal.
    ASSUME TypeOK, TypeOK', LocalInv, GlobalInv, NEW m \in lnet, LocalForward(m)
    PROVE  LocalInv' /\ GlobalInv'
  <2> USE <1>LocalForwardGlobal
  <2>0. PICK k, p, sum : k = m.key /\ p = PartyOf[m.worker] /\ sum = Merge(p, k, m.val)
    OBVIOUS
  <2>1. /\ LocalInv' /\ p \in Party /\ k \in Key /\ k \in initialized_[p]
        /\ ~Busy(p, k) /\ Busy(p, k)' /\ Ver(p, k) \in Nat
        /\ \A q \in Party, j \in Key : Ver(q, j)' = Ver(q, j)
        /\ \A q \in Party, j \in Key : q # p \/ j # k => (Busy(q, j)' <=> Busy(q, j))
        /\ sum = Fill(k, Gradients(WorkersOf(p), Ver(p, k) + 1))
    BY <2>0, PartyLocal DEF Forwards
  <2>2. /\ merged' = [merged EXCEPT ![p][k] = sum]
        /\ request' = [request EXCEPT ![p][k] = {}]
        /\ store_' = [store_ EXCEPT ![p][k] = ApplyUpdates(p, store_[p][k], sum)]
        /\ tracker_' = [tracker_ EXCEPT ![p] = NewRequest(@, k)]
        /\ ts_key_map_' = [ts_key_map_ EXCEPT ![p] = @ \cup {<<NewTs(p), k>>}]
        /\ gnet' = gnet \cup PushToGlobal(p, k, sum)
        /\ UNCHANGED <<stored, initialized_, recv_kvs_, master_vars, pull_vars>>
    BY <2>0 DEF LocalForward
  <2>3. SameShards
    <3>1. \E j \in Key : \E x, y : /\ merged' = [merged EXCEPT ![p][j] = x]
                                   /\ request' = [request EXCEPT ![p][j] = y]
      BY <2>1, <2>2
    <3>2. \E j \in Key : \E x : store_' = [store_ EXCEPT ![p][j] = x]
      BY <2>1, <2>2
    <3> QED
      BY <2>1, <2>2, <3>1, <3>2, PartyStepShards
  <2>4. SamePulls
    BY <2>2 DEF SamePulls, pull_vars
  <2>5. /\ NewTs(p) = Len(tracker_[p]) + 1 /\ tracker_'[p][NewTs(p)] = Skipped(k)
        /\ \A q \in Party :
             /\ Len(tracker_[q]) \in Nat
             /\ Len(tracker_'[q]) = IF q = p THEN NewTs(p) ELSE Len(tracker_[q])
             /\ \A i \in 1 .. Len(tracker_[q]) : tracker_'[q][i] = tracker_[q][i]
    BY <2>1, <2>2, <1>Numbered DEF TypeOK
  <2>6. PICK f : f = <<NewTs(p), k>>
    OBVIOUS
  <2>7. f[1] = NewTs(p) /\ f[2] = k
    BY <2>6
  <2>8. \A q \in Party : ts_key_map_'[q] = IF q = p THEN ts_key_map_[p] \cup {f} ELSE ts_key_map_[q]
    BY <2>1, <2>2, <2>6 DEF TypeOK, PartyTypeOK
  <2>9. /\ recv_kvs_[p][k] = {} /\ ~Pushing(p, k)
        /\ \A n \in gnet : ~Of(n, p, k)
        /\ \A g \in GServer : ~Waits(p, g, k) /\ \A n \in pulling[g] : ~Of(n, p, k)
    BY <2>1, <1>Quiet
  <2>10. \A q \in Party : \A e \in ts_key_map_[q] : e[1] \in 1 .. Len(tracker_[q])
    BY DEF GlobalInv, Timestamps
  <2>11. \A q \in Party : Forward(q)
    <3>1. Len(tracker_[p]) \in Nat /\ NewTs(p) = Len(tracker_[p]) + 1
      BY <2>1, <2>5
    <3>2. Len(tracker_[p]) <= NewTs(p) /\ NewTs(p) > Len(tracker_[p])
      BY <3>1, SMTT(20)
    <3>3. \A q \in Party : Len(tracker_[q]) <= Len(tracker_[q])
      <4>1. \A l \in Nat : l <= l
        BY SMTT(20)
      <4> QED
        BY <2>5, <4>1
    <3> QED
      BY <2>5, <2>7, <2>8, <3>2, <3>3 DEF Forward
  <2>12. ASSUME NEW q \in Party, NEW j \in Key, q # p \/ j # k PROVE SameStage(q, j)
    BY <2>1, <2>2, <2>7, <2>8, <2>12, SMTT(20) DEF SameStage
  <2>13. ASSUME NEW n \in PushToGlobal(p, k, sum)
         PROVE  /\ n.type = "push" /\ n.peer = p /\ n.key = k /\ n.ts = NewTs(p)
                /\ n.server \in ShardsOf[k] /\ n.val = sum[n.server]
                /\ n = GMsg("push", p, n.server, k, NewTs(p), sum[n.server])
    BY SMTT(20) DEF PushToGlobal, GMsg, Slice
  <2>14. OthersStay(p, k)
    <3>1. \A n \in gnet \cup gnet' : ~Of(n, p, k) => (n \in gnet <=> n \in gnet')
      BY <2>2, <2>13 DEF Of
    <3>2. ASSUME NEW q \in Party, NEW e \in ts_key_map_'[q], q # p \/ e[2] # k
          PROVE  tracker_'[q][e[1]] = tracker_[q][e[1]]
      <4>1. e \in ts_key_map_[q]
        BY <2>7, <2>8, <3>2
      <4> QED
        BY <2>5, <2>10, <4>1
    <3> QED
      BY <2>2, <2>3, <2>4, <2>11, <2>12, <3>1, <3>2 DEF OthersStay
  <2>15. ASSUME NEW n \in gnet', Of(n, p, k) PROVE n \in PushToGlobal(p, k, sum)
    BY <2>2, <2>9, <2>15
  <2>16. ASSUME NEW g \in ShardsOf[k] PROVE On("push", p, g, k)'
    <3>1. PICK n : n = GMsg("push", p, g, k, NewTs(p), Slice(sum, g))
      OBVIOUS
    <3>2. n \in gnet' /\ n.type = "push" /\ n.peer = p /\ n.server = g /\ n.key = k
      BY <2>2, <3>1 DEF PushToGlobal, GMsg
    <3> QED
      BY <3>2 DEF On
  <2>17. \A g \in GServer : ~Waits(p, g, k)'
    BY <2>1, <2>3, <2>9 DEF Waits, SameShards, SameShard
  <2>18. tracker_'[p][NewTs(p)] = Cardinality(GServer) - Cardinality(Out(p, k)')
    <3>1. Out(p, k)' = ShardsOf[k]
      BY <2>16 DEF Out, Owed
    <3>2. ShardsOf[k] \subseteq GServer /\ IsFiniteSet(GServer)
      BY <2>1, ShardsType, ConstantsAssumption
    <3>4. Cardinality(GServer \ ShardsOf[k]) = Cardinality(GServer) - Cardinality(ShardsOf[k])
      BY <3>2 DEF Counting
    <3>5. tracker_'[p][NewTs(p)] = Cardinality(GServer \ ShardsOf[k])
      BY <2>5 DEF Skipped
    <3> QED
      BY <3>1, <3>4, <3>5
  <2>19. Turned(p, k)
    <3>1. \A g \in ShardsOf[k] : Has(p, g, k)' = Has(p, g, k)
      BY <2>1, <2>16 DEF Has, Applied
    <3>2. ASSUME NEW n \in gnet', Of(n, p, k) PROVE GlobalOK(n)'
      <4>1. /\ n.type = "push" /\ n.peer = p /\ n.key = k /\ n.ts = NewTs(p)
            /\ n.server \in ShardsOf[k] /\ n.val = sum[n.server]
        BY <2>13, <2>15, <3>2
      <4>2. n.server \in GServer
        BY <2>1, <4>1, ShardsType
      <4>3. <<n.ts, n.key>> \in ts_key_map_'[p]
        BY <2>1, <2>6, <2>8, <4>1
      <4>4. n.val = Gradients(WorkersOf(p), Ver(p, k)' + 1)
        BY <2>1, <4>1 DEF Fill
      <4> QED
        BY <2>17, <4>1, <4>2, <4>3, <4>4 DEF GlobalOK
    <3>3. \A n, l \in gnet' : Of(n, p, k) /\ Of(l, p, k) =>
            n.ts = l.ts /\ (n.server = l.server => n = l)
      BY <2>13, <2>15
    <3>4. ASSUME NEW e \in ts_key_map_'[p], e[2] = k
          PROVE  /\ e[1] \in 1 .. Len(tracker_'[p])
                 /\ tracker_'[p][e[1]] = Cardinality(GServer) - Cardinality(Out(p, k)')
                 /\ \A d \in ts_key_map_'[p] : e[1] = d[1] <=> e[2] = d[2]
      <4>1. e = f /\ e[1] = NewTs(p)
        <5>1. e \notin ts_key_map_[p]
          BY <2>9, <3>4 DEF Pushing
        <5>2. e \in ts_key_map_[p] \cup {f}
          BY <2>1, <2>8
        <5> QED
          BY <2>7, <5>1, <5>2
      <4>2. e[1] \in 1 .. Len(tracker_'[p])
        BY <2>1, <2>5, <4>1, SMTT(20)
      <4>3. ASSUME NEW d \in ts_key_map_'[p] PROVE e[1] = d[1] <=> e[2] = d[2]
        <5>1. d = f \/ d \in ts_key_map_[p]
          BY <2>1, <2>8
        <5>2. d \in ts_key_map_[p] => d[1] # NewTs(p) /\ d[2] # k
          <6>1. d \in ts_key_map_[p] => d[2] # k
            BY <2>9 DEF Pushing
          <6>2. d \in ts_key_map_[p] => d[1] \in 1 .. Len(tracker_[p])
            BY <2>1, <2>10
          <6>3. NewTs(p) \notin 1 .. Len(tracker_[p])
            BY <2>5, <2>1, SMTT(20)
          <6> QED
            BY <6>1, <6>2, <6>3
        <5> QED
          BY <3>4, <4>1, <5>1, <5>2
      <4> QED
        BY <2>18, <4>1, <4>2, <4>3
    <3>5. recv_kvs_'[p][k] = {}
      BY <2>2, <2>9
    <3> QED
      BY <2>9, <3>1, <3>2, <3>3, <3>4, <3>5 DEF Turned
  <2> QED
    BY <2>1, <2>14, <2>19, <1>TurnInv
\* A waiting push is one that has not been answered.
<1>WaitsPush.
    ASSUME GlobalInv, NEW p \in Party, NEW g \in GServer, NEW k \in Key, Waits(p, g, k)
    PROVE  Pushing(p, k) /\ g \in ShardsOf[k]
  <2> USE <1>WaitsPush
  <2>1. PICK q \in request[g][k] : q[1] = p
    BY DEF Waits
  <2>2. <<q[2], k>> \in ts_key_map_[p] /\ g \in ShardsOf[k]
    BY <2>1 DEF GlobalInv, Shards, ShardOK
  <2>3. <<q[2], k>>[2] = k
    OBVIOUS
  <2> QED
    BY <2>2, <2>3 DEF Pushing
\* The response to a push is looked up under its own key.
<1>ResponseKey.
    ASSUME TypeOK, GlobalInv, NEW m \in gnet, m.type = "push_ack", m.peer \in Party
    PROVE  KeyOfTs(m.peer, m.ts) = m.key /\ \E k \in Key : <<m.ts, k>> \in ts_key_map_[m.peer]
  <2> USE <1>ResponseKey
  <2>1. <<m.ts, m.key>> \in ts_key_map_[m.peer] /\ m.key \in Key
    BY GlobalMsgType DEF GlobalInv, Globals, GlobalOK, TypeOK
  <2>2. ASSUME NEW j \in Key, <<m.ts, j>> \in ts_key_map_[m.peer] PROVE j = m.key
    <3>1. <<m.ts, j>>[1] = <<m.ts, m.key>>[1] => <<m.ts, j>>[2] = <<m.ts, m.key>>[2]
      BY <2>1, <2>2 DEF GlobalInv, Timestamps
    <3> QED
      BY <3>1
  <2> QED
    BY <2>1, <2>2 DEF KeyOfTs
\* At the last response nothing of the push is left, and no pull has started.
<1>LastOfPush.
    ASSUME TypeOK, LocalInv, GlobalInv, NEW m \in gnet, m.type = "push_ack", m.peer \in Party,
           LastResponse(m.peer, m.ts)
    PROVE  LET p == m.peer  k == m.key IN
           /\ \A n \in gnet : Of(n, p, k) => n = m
           /\ \A g \in GServer : ~Waits(p, g, k) /\ \A n \in pulling[g] : ~Of(n, p, k)
           /\ recv_kvs_[p][k] = {} /\ Pushing(p, k)
  <2> USE <1>LastOfPush
  <2> DEFINE p == m.peer
             k == m.key
             g == m.server
  <2>1. /\ k \in Key /\ g \in GServer /\ g \in ShardsOf[k] /\ <<m.ts, k>> \in ts_key_map_[p]
        /\ ~Waits(p, g, k)
    BY GlobalMsgType DEF GlobalInv, Globals, GlobalOK, TypeOK
  <2>2. <<m.ts, k>>[1] = m.ts /\ <<m.ts, k>>[2] = k
    OBVIOUS
  <2>3. Pushing(p, k)
    BY <2>1, <2>2 DEF Pushing
  <2>f. IsFiniteSet(Out(p, k))
    <3>1. Out(p, k) \subseteq GServer /\ IsFiniteSet(GServer)
      BY <2>1, ShardsType, ConstantsAssumption DEF Out
    <3> QED
      BY <3>1 DEF Counting
  <2>4. Cardinality(Out(p, k)) = 1
    <3>1. tracker_[p][m.ts] = Cardinality(GServer) - Cardinality(Out(p, k))
      BY <2>1, <2>2 DEF GlobalInv, Timestamps
    <3>2. IsFiniteSet(Out(p, k)) /\ IsFiniteSet(GServer)
      BY <2>f, ConstantsAssumption
    <3>3. Cardinality(Out(p, k)) \in Nat /\ Cardinality(GServer) \in Nat
      BY <3>2 DEF Counting
    <3> QED
      BY <3>1, <3>3, SMTT(20) DEF LastResponse
  <2>5. Out(p, k) = {g}
    <3>1. g \in Out(p, k)
      BY <2>1 DEF Out, Owed, On
    <3>3. PICK x : Out(p, k) = {x}
      BY <2>f, <2>4 DEF Counting
    <3> QED
      BY <3>1, <3>3
  <2>6. ASSUME NEW h, NEW t PROVE ~PullOK(p, h, k, t)
    BY <2>3 DEF PullOK
  <2>7. ASSUME NEW n \in gnet, Of(n, p, k) PROVE n = m
    <3>1. n.type \in MsgType /\ GlobalOK(n)
      BY <2>7 DEF TypeOK, NetTypeOK, GlobalMsg, GlobalInv, Globals, Of
    <3>2. n.type \in {"push", "push_ack"} /\ n.server \in ShardsOf[k]
      BY <2>6, <2>7, <3>1 DEF GlobalOK, MsgType, Of
    <3>3. n.server \in Out(p, k)
      BY <2>7, <3>2 DEF Out, Owed, On, Of
    <3> QED
      BY <2>5, <2>7, <3>3 DEF GlobalInv, Single, Of
  <2>8. ASSUME NEW h \in GServer PROVE ~Waits(p, h, k)
    <3> SUFFICES ASSUME Waits(p, h, k) PROVE FALSE
      OBVIOUS
    <3>1. h \in ShardsOf[k]
      BY <2>1, <1>WaitsPush
    <3>2. h \in Out(p, k)
      BY <3>1 DEF Out, Owed
    <3> QED
      BY <2>1, <2>5, <3>2
  <2>9. ASSUME NEW h \in GServer, NEW n \in pulling[h] PROVE ~Of(n, p, k)
    BY <2>6, GlobalPoppedFacts, SMTT(20) DEF Of
  <2>10. recv_kvs_[p][k] = {}
    BY <2>1, <2>6 DEF GlobalInv, Received, ReceivedOK
  <2> QED
    BY <2>3, <2>7, <2>8, <2>9, <2>10
\* A request gets the next number and a response to another one is counted.
<1>NumberedCounted.
    ASSUME PartyTypeOK, NEW p \in Party, NEW k \in Key, NEW t \in 1 .. Len(tracker_[p]),
           tracker_' = [tracker_ EXCEPT ![p] = CountResponse(NewRequest(@, k), t)]
    PROVE  /\ NewTs(p) = Len(tracker_[p]) + 1
           /\ \A q \in Party :
                /\ Len(tracker_[q]) \in Nat
                /\ Len(tracker_'[q]) = IF q = p THEN NewTs(p) ELSE Len(tracker_[q])
                /\ \A i \in 1 .. Len(tracker_[q]) :
                     q # p \/ i # t => tracker_'[q][i] = tracker_[q][i]
  <2> USE <1>NumberedCounted
  <2>0. \A q \in Party : tracker_[q] \in Seq(Nat) /\ Len(tracker_[q]) \in Nat
    BY SMTT(20) DEF PartyTypeOK
  <2>1. PICK s : s = Append(tracker_[p], Skipped(k))
    OBVIOUS
  <2>2. tracker_'[p] = [s EXCEPT ![t] = @ + 1]
    BY <2>1 DEF PartyTypeOK, NewRequest, CountResponse
  <2>3. Skipped(k) \in Nat
    BY SkippedType
  <2>4. /\ s \in Seq(Nat) /\ Len(s) = Len(tracker_[p]) + 1
        /\ \A i \in 1 .. Len(tracker_[p]) : s[i] = tracker_[p][i]
    BY <2>0, <2>1, <2>3, SMTT(20)
  <2>5. Len(tracker_'[p]) = Len(s)
    <3>1. t \in 1 .. Len(s)
      <4>1. Len(tracker_[p]) \in Nat /\ Len(s) = Len(tracker_[p]) + 1
        BY <2>0, <2>4
      <4> QED
        BY <4>1, SMTT(20)
    <3>2. s[t] + 1 \in Nat
      BY <2>4, <3>1, SMTT(20)
    <3>3. Len([s EXCEPT ![t] = s[t] + 1]) = Len(s)
      BY <2>4, <3>1, <3>2, SeqUpdate
    <3> QED
      BY <2>2, <3>3
  <2>6. \A i \in 1 .. Len(tracker_[p]) : i # t => tracker_'[p][i] = tracker_[p][i]
    BY <2>0, <2>2, <2>4, SMTT(20)
  <2>7. \A q \in Party : q # p => tracker_'[q] = tracker_[q]
    BY DEF PartyTypeOK
  <2> QED
    BY <2>0, <2>4, <2>5, <2>6, <2>7, SMTT(20) DEF NewTs
\* The last response to a push starts the pull.
<1>PushResponseLastInv.
    ASSUME TypeOK, TypeOK', LocalInv, GlobalInv, NEW m \in gnet, PushResponseLast(m)
    PROVE  LocalInv' /\ GlobalInv'
  <2> USE <1>PushResponseLastInv
  <2>0. PICK k, p : k = m.key /\ p = m.peer
    OBVIOUS
  <2>1. m.type = "push_ack" /\ p \in Party /\ LastResponse(p, m.ts) /\ k \in Key /\ m.ts \in Nat
    BY <2>0, GlobalMsgType DEF PushResponseLast, IsResponse, TypeOK
  <2>2. KeyOfTs(p, m.ts) = k
    BY <2>0, <2>1, <1>ResponseKey
  <2>3. PICK f : f = <<m.ts, k>>
    OBVIOUS
  <2>4. f[1] = m.ts /\ f[2] = k /\ f \in ts_key_map_[p]
    BY <2>0, <2>1, <2>3 DEF GlobalInv, Globals, GlobalOK
  <2>5. /\ tracker_' = [tracker_ EXCEPT ![p] = CountResponse(NewRequest(@, k), m.ts)]
        /\ ts_key_map_' = [ts_key_map_ EXCEPT ![p] = @ \ {f}]
        /\ gnet' = (gnet \ {m}) \cup PullFromGlobal(p, k)
        /\ UNCHANGED <<request_tmp, recv_kvs_, worker_vars, master_vars, store_vars, pull_vars, lnet>>
    BY <2>0, <2>2, <2>3 DEF PushResponseLast
  <2>6. /\ \A n \in gnet : Of(n, p, k) => n = m
        /\ \A g \in GServer : ~Waits(p, g, k) /\ \A n \in pulling[g] : ~Of(n, p, k)
        /\ recv_kvs_[p][k] = {} /\ Pushing(p, k)
    BY <2>0, <2>1, <1>LastOfPush
  <2>7. /\ \A q \in Party : \A e \in ts_key_map_[q] : e[1] \in 1 .. Len(tracker_[q])
        /\ \A e \in ts_key_map_[p] : e[1] = m.ts <=> e[2] = k
    BY <2>1, <2>4, SMTT(20) DEF GlobalInv, Timestamps
  <2>8. /\ NewTs(p) = Len(tracker_[p]) + 1
        /\ \A q \in Party :
             /\ Len(tracker_[q]) \in Nat
             /\ Len(tracker_'[q]) = IF q = p THEN NewTs(p) ELSE Len(tracker_[q])
             /\ \A i \in 1 .. Len(tracker_[q]) :
                  q # p \/ i # m.ts => tracker_'[q][i] = tracker_[q][i]
    <3>1. m.ts \in 1 .. Len(tracker_[p])
      BY <2>1, <2>4, <2>7
    <3> QED
      BY <2>1, <2>5, <3>1, <1>NumberedCounted DEF TypeOK
  <2>9. \A q \in Party : ts_key_map_'[q] = IF q = p THEN ts_key_map_[p] \ {f} ELSE ts_key_map_[q]
    BY <2>1, <2>5 DEF TypeOK, PartyTypeOK
  <2>10. ~Pushing(p, k)'
    <3> SUFFICES ASSUME NEW e \in ts_key_map_'[p], e[2] = k PROVE FALSE
      BY DEF Pushing
    <3>1. e \in ts_key_map_[p] /\ e # f
      BY <2>1, <2>9
    <3>2. e[1] = m.ts
      BY <2>7, <3>1
    <3>3. e \in Nat \X Key
      BY <2>1, <3>1 DEF TypeOK, PartyTypeOK
    <3> QED
      BY <2>3, <3>1, <3>2, <3>3, SMTT(20)
  <2>11. LocalInv' /\ \A q \in Party, j \in Key : Ver(q, j)' = Ver(q, j)
    <3>1. \A q \in Party, j \in Key : Pushing(q, j)' => Pushing(q, j)
      BY <2>9 DEF Pushing
    <3> QED
      BY <2>5, <3>1, LocalFrame DEF store_vars, pull_vars
  <2>12. /\ SameShards /\ SamePulls /\ stored' = stored /\ initialized_' = initialized_
         /\ \A q, j : Busy(q, j)' <=> Busy(q, j)
    BY <2>5 DEF SameShards, SameShard, SamePulls, pull_vars, store_vars, Busy
  <2>13. \A q \in Party : Forward(q)
    BY <2>8, <2>9, SMTT(20) DEF Forward
  <2>14. ASSUME NEW q \in Party, NEW j \in Key, q # p \/ j # k PROVE SameStage(q, j)
    BY <2>4, <2>9, <2>11, <2>12, <2>14 DEF SameStage
  <2>15. ASSUME NEW n \in PullFromGlobal(p, k)
         PROVE  /\ n.type = "pull" /\ n.peer = p /\ n.key = k /\ n.ts = NewTs(p)
                /\ n.server \in ShardsOf[k]
                /\ n = GMsg("pull", p, n.server, k, NewTs(p), Zero)
    BY SMTT(20) DEF PullFromGlobal, GMsg
  <2>16. OthersStay(p, k)
    <3>1. \A n \in gnet \cup gnet' : ~Of(n, p, k) => (n \in gnet <=> n \in gnet')
      BY <2>0, <2>5, <2>15 DEF Of
    <3>2. ASSUME NEW q \in Party, NEW e \in ts_key_map_'[q], q # p \/ e[2] # k
          PROVE  tracker_'[q][e[1]] = tracker_[q][e[1]]
      BY <2>7, <2>8, <2>9, <3>2, SMTT(20)
    <3> QED
      BY <2>5, <2>12, <2>13, <2>14, <3>1, <3>2 DEF OthersStay
  <2>17. ASSUME NEW n \in gnet', Of(n, p, k) PROVE n \in PullFromGlobal(p, k)
    BY <2>5, <2>6, <2>17
  <2>18. Busy(p, k) /\ k \in stored[p]
    BY <2>1, <2>6, VersionType
  <2>19. Turned(p, k)
    <3>1. ASSUME NEW g \in ShardsOf[k] PROVE Has(p, g, k)' = Has(p, g, k)
      <4>1. g \in GServer
        BY <2>1, ShardsType
      <4>2. ~On("push", p, g, k)
        BY <2>1, <2>6 DEF On, Of
      <4>3. ~On("push", p, g, k)'
        BY <2>15, <2>17 DEF On, Of
      <4>4. ~Waits(p, g, k) /\ ~Waits(p, g, k)'
        BY <2>1, <2>6, <2>12, <4>1 DEF Waits, SameShards, SameShard
      <4> QED
        BY <2>1, <2>11, <2>12, <4>2, <4>3, <4>4 DEF Has, Applied
    <3>2. ASSUME NEW n \in gnet', Of(n, p, k) PROVE GlobalOK(n)'
      <4>1. /\ n.type = "pull" /\ n.peer = p /\ n.key = k /\ n.ts = NewTs(p) /\ n.server \in ShardsOf[k]
        BY <2>15, <2>17, <3>2
      <4>2. k \in stored'[p] /\ Busy(p, k)'
        BY <2>12, <2>18
      <4>3. NewTs(p) \in 1 .. Len(tracker_'[p])
        <5>1. /\ NewTs(p) = Len(tracker_[p]) + 1 /\ Len(tracker_[p]) \in Nat
              /\ Len(tracker_'[p]) = NewTs(p)
          BY <2>1, <2>8
        <5> QED
          BY <5>1, SMTT(20)
      <4>4. \A e \in ts_key_map_'[p] : e[1] # NewTs(p)
        BY <2>1, <2>7, <2>8, <2>9, SMTT(20)
      <4> QED
        BY <2>10, <4>1, <4>2, <4>3, <4>4 DEF GlobalOK, PullOK
    <3>3. \A n, l \in gnet' : Of(n, p, k) /\ Of(l, p, k) =>
            n.ts = l.ts /\ (n.server = l.server => n = l)
      BY <2>15, <2>17
    <3>4. \A e \in ts_key_map_'[p] : e[2] # k
      BY <2>10 DEF Pushing
    <3>5. recv_kvs_'[p][k] = {}
      BY <2>5, <2>6
    <3> QED
      BY <2>6, <3>1, <3>2, <3>3, <3>4, <3>5 DEF Turned
  <2> QED
    BY <2>1, <2>11, <2>16, <2>19, <1>TurnInv
\* At the last part of a pull every server has sent one, and nothing of the
\* pull is left.
<1>LastOfPull.
    ASSUME TypeOK, GlobalInv, NEW m \in gnet, PullResponseLast(m)
    PROVE  LET p == m.peer  k == m.key IN
           /\ \A g \in ShardsOf[k] : k \in stored[g]
           /\ Assemble(k, m) = Fill(k, Weight(Due(p, k)))
           /\ \A n \in gnet : Of(n, p, k) => n = m
           /\ \A g \in GServer : ~Waits(p, g, k) /\ \A n \in pulling[g] : ~Of(n, p, k)
  <2> USE <1>LastOfPull
  <2>0. PICK k, p : k = m.key /\ p = m.peer
    OBVIOUS
  <2>1. /\ m.type = "pull_data" /\ p \in Party /\ k \in Key
        /\ ~IsBig(k) \/ Cardinality(Parts(m)) = Cardinality(GServer)
    BY <2>0, GlobalMsgType DEF PullResponseLast, IsResponse, TypeOK
  <2>2. PullOK(p, m.server, k, m.ts) /\ DataOK(p, m.server, k, m.val) /\ ~Pushing(p, k)
    BY <2>0, <2>1 DEF GlobalInv, Globals, GlobalOK, PullOK
  <2>3. PICK parts : parts = recv_kvs_[p][k] \cup {Part(m)}
    OBVIOUS
  <2>4. Parts(m) = parts
    BY <2>0, <2>3 DEF Parts
  <2>5. /\ Part(m).server = m.server /\ Part(m).val = m.val
        /\ \A a \in recv_kvs_[p][k] : ReceivedOK(p, k, a)
        /\ \A a, b \in recv_kvs_[p][k] : a.server = b.server => a = b
    BY <2>1 DEF Part, GlobalInv, Received
  <2>6. ASSUME NEW a \in parts
        PROVE  a.server \in ShardsOf[k] /\ k \in stored[a.server] /\ a.val = Weight(Due(p, k))
    <3>1. PullOK(p, a.server, k, a.ts) \/ a = Part(m)
      BY <2>3, <2>5 DEF ReceivedOK
    <3>2. DataOK(p, a.server, k, a.val)
      BY <2>2, <2>3, <2>5 DEF ReceivedOK
    <3>3. a.server \in ShardsOf[k]
      BY <2>2, <2>5, <3>1 DEF PullOK
    <3> QED
      BY <3>2, <3>3 DEF DataOK
  <2>7. \A a, b \in parts : a.server = b.server => a = b
    BY <2>0, <2>3, <2>5, SMTT(20) DEF ReceivedOK
  <2>8. ASSUME NEW g \in ShardsOf[k] PROVE \E a \in parts : a.server = g
    <3>1. CASE IsBig(k)
      <4>1. \A a \in parts : a.server \in GServer
        BY <2>6, <3>1 DEF IsBig
      <4>2. Cardinality(parts) = Cardinality(GServer) /\ IsFiniteSet(GServer)
        BY <2>1, <2>4, <3>1, ConstantsAssumption
      <4>3. g \in GServer
        BY <3>1 DEF IsBig
      <4> QED
        BY <2>7, <4>1, <4>2, <4>3, OneOfEach
    <3>2. CASE ~IsBig(k)
      <4>1. \E h \in GServer : ShardsOf[k] = {h}
        BY <2>1, <3>2, ConstantsAssumption DEF IsBig
      <4>2. m.server \in ShardsOf[k]
        BY <2>2 DEF PullOK
      <4> QED
        BY <2>3, <2>5, <4>1, <4>2, SMTT(20)
    <3> QED
      BY <3>1, <3>2
  <2>9. \A g \in ShardsOf[k] : k \in stored[g]
    BY <2>6, <2>8
  <2>10. Assemble(k, m) = Fill(k, Weight(Due(p, k)))
    <3>1. CASE IsBig(k)
      <4>1. ASSUME NEW g \in ShardsOf[k] PROVE Slot(parts, g) \in parts
        BY <2>8 DEF Slot
      <4>2. \A g \in ShardsOf[k] : Slot(parts, g).val = Weight(Due(p, k))
        BY <2>6, <4>1
      <4>3. Assemble(k, m) = [g \in ShardsOf[k] |-> Slot(parts, g).val]
        BY <2>4, <3>1 DEF Assemble
      <4> QED
        BY <4>2, <4>3 DEF Fill
    <3>2. CASE ~IsBig(k)
      BY <2>2, <3>2 DEF Assemble, DataOK
    <3> QED
      BY <3>1, <3>2
  <2>11. ASSUME NEW n \in gnet, Of(n, p, k) PROVE n = m
    <3>1. n.type \in MsgType /\ GlobalOK(n) /\ n.peer = p /\ n.key = k
      BY <2>1, <2>11 DEF TypeOK, NetTypeOK, GlobalMsg, GlobalInv, Globals, Of
    <3>2. <<n.ts, k>>[2] = k
      OBVIOUS
    <3>3. n.type \notin {"push", "push_ack"}
      BY <2>2, <3>1, <3>2 DEF GlobalOK, Pushing
    <3>4. n.server \in ShardsOf[k]
      BY <3>1, <3>3 DEF GlobalOK, PullOK, MsgType
    <3>5. PICK a \in parts : a.server = n.server
      BY <2>8, <3>4
    <3>6. a \notin recv_kvs_[p][k]
      BY <2>5, <3>1, <3>5 DEF ReceivedOK
    <3>7. n.server = m.server
      BY <2>3, <2>5, <3>5, <3>6
    <3> QED
      BY <2>0, <3>1, <3>7 DEF GlobalInv, Single
  <2>12. ASSUME NEW g \in GServer, NEW n \in pulling[g] PROVE ~Of(n, p, k)
    <3> SUFFICES ASSUME Of(n, p, k) PROVE FALSE
      OBVIOUS
    <3>1. /\ n.peer = p /\ n.key = k /\ g \in ShardsOf[k]
          /\ \A l \in gnet : ~(l.peer = p /\ l.server = g /\ l.key = k)
      BY GlobalPoppedFacts, SMTT(20) DEF GlobalPullOK, PullOK, Of
    <3>2. PICK a \in parts : a.server = g
      BY <2>8, <3>1
    <3>3. a \notin recv_kvs_[p][k]
      BY <2>5, <3>1, <3>2 DEF ReceivedOK
    <3> QED
      BY <2>0, <2>3, <2>5, <3>1, <3>2, <3>3
  <2>13. \A g \in GServer : ~Waits(p, g, k)
    BY <2>1, <2>2, <1>WaitsPush
  <2> QED
    BY <2>0, <2>9, <2>10, <2>11, <2>12, <2>13
\* The last part of a pull ends the round.
<1>PullResponseLastInv.
    ASSUME TypeOK, TypeOK', LocalInv, GlobalInv, NEW m \in gnet, PullResponseLast(m)
    PROVE  LocalInv' /\ GlobalInv'
  <2> USE <1>PullResponseLastInv
  <2>0. PICK k, p : k = m.key /\ p = m.peer
    OBVIOUS
  <2>1. /\ m.type = "pull_data" /\ p \in Party /\ k \in Key /\ m.ts \in Nat
        /\ store_' = [store_ EXCEPT ![p][k] = Assemble(k, m)]
        /\ recv_kvs_' = [recv_kvs_ EXCEPT ![p][k] = {}]
        /\ UNCHANGED initialized_ \/ \E x : initialized_' = [initialized_ EXCEPT ![p] = x]
        /\ tracker_' = [tracker_ EXCEPT ![p] = CountResponse(@, m.ts)]
        /\ gnet' = gnet \ {m}
        /\ UNCHANGED <<stored, merged, request, ts_key_map_, master_vars, pull_vars>>
    BY <2>0, GlobalMsgType DEF PullResponseLast, IsResponse, TypeOK
  <2>2. PullOK(p, m.server, k, m.ts)
    BY <2>0, <2>1 DEF GlobalInv, Globals, GlobalOK
  <2>3. /\ \A g \in ShardsOf[k] : k \in stored[g]
        /\ Assemble(k, m) = Fill(k, Weight(Due(p, k)))
        /\ \A n \in gnet : Of(n, p, k) => n = m
        /\ \A g \in GServer : ~Waits(p, g, k) /\ \A n \in pulling[g] : ~Of(n, p, k)
    BY <2>0, <1>LastOfPull
  <2>4. /\ LocalInv' /\ Ver(p, k)' = Due(p, k) /\ ~Busy(p, k)'
        /\ \A q \in Party, j \in Key :
             q # p \/ j # k => /\ Ver(q, j)' = Ver(q, j) /\ (Busy(q, j)' <=> Busy(q, j))
                               /\ j \in initialized_'[q] <=> j \in initialized_[q]
    <3>1. FullPull(m)
      BY <2>0, <2>2, <2>3 DEF FullPull, PullOK
    <3> QED
      BY <2>0, <3>1, PartyLocal DEF Returns
  <2>5. SameShards
    <3>1. \E j \in Key : \E x : store_' = [store_ EXCEPT ![p][j] = x]
      BY <2>1
    <3> QED
      BY <2>1, <3>1, PartyStepShards
  <2>6. SamePulls
    BY <2>1 DEF SamePulls, pull_vars
  <2>7. \A q \in Party :
          /\ Len(tracker_[q]) \in Nat /\ Len(tracker_'[q]) = Len(tracker_[q])
          /\ \A i \in 1 .. Len(tracker_[q]) :
               tracker_'[q][i] = IF q = p /\ i = m.ts THEN tracker_[q][i] + 1 ELSE tracker_[q][i]
    BY <2>1, Counted DEF TypeOK
  <2>8. \A q \in Party : Forward(q)
    BY <2>1, <2>7, SMTT(20) DEF Forward
  <2>9. ASSUME NEW q \in Party, NEW j \in Key, q # p \/ j # k
        PROVE  SameStage(q, j) /\ recv_kvs_'[q][j] = recv_kvs_[q][j]
    <3>1. recv_kvs_'[q][j] = recv_kvs_[q][j]
      BY <2>1, <2>9 DEF TypeOK, PartyTypeOK
    <3> QED
      BY <2>1, <2>4, <2>9, <3>1 DEF SameStage
  <2>10. OthersStay(p, k)
    <3>1. \A n \in gnet \cup gnet' : ~Of(n, p, k) => (n \in gnet <=> n \in gnet')
      BY <2>0, <2>1 DEF Of
    <3>2. ASSUME NEW q \in Party, NEW e \in ts_key_map_[q] PROVE tracker_'[q][e[1]] = tracker_[q][e[1]]
      <4>1. e[1] \in 1 .. Len(tracker_[q])
        BY DEF GlobalInv, Timestamps
      <4>2. q = p => e[1] # m.ts
        BY <2>2 DEF PullOK
      <4> QED
        BY <2>7, <4>1, <4>2
    <3> QED
      BY <2>1, <2>5, <2>6, <2>8, <2>9, <3>1, <3>2 DEF OthersStay
  <2>11. \A n \in gnet' : ~Of(n, p, k)
    BY <2>1, <2>3
  <2>12. Turned(p, k)
    <3>1. ASSUME NEW g \in ShardsOf[k] PROVE Has(p, g, k)' = Has(p, g, k)
      <4>1. g \in GServer
        BY <2>1, ShardsType
      <4>2. ~On("push", p, g, k)
        BY <2>1, <2>3 DEF On, Of
      <4>3. Has(p, g, k) = Due(p, k)
        BY <2>3, <4>1, <4>2 DEF Has, Applied, Due
      <4> QED
        BY <2>4, <4>3 DEF Has, Applied
    <3>2. \A e \in ts_key_map_'[p] : e[2] # k
      BY <2>1, <2>2 DEF PullOK, Pushing
    <3>3. recv_kvs_'[p][k] = {}
      BY <2>1 DEF TypeOK, PartyTypeOK
    <3> QED
      BY <2>3, <2>11, <3>1, <3>2, <3>3 DEF Turned
  <2> QED
    BY <2>1, <2>4, <2>10, <2>12, <1>TurnInv
<1> QED
  BY <1>LocalInitGlobal, <1>LocalForwardGlobal, <1>PushResponseLastInv, <1>PullResponseLastInv
     DEF TurnStep

-----------------------------------------------------------------------------
(* The invariant holds *)

\* Nothing is under way at the start.
LEMMA InitInv == Init => IInv
<1> SUFFICES ASSUME Init PROVE IInv
  OBVIOUS
<1>1. TypeOK
  BY InitType
<1>2. /\ \A w \in Worker, k \in Key : phase[w][k] = "fresh" /\ round[w][k] = 0
      /\ \A s \in Server : stored[s] = {} /\ initialized_[s] = {} /\ pulling[s] = {} /\ ~reading[s]
      /\ \A s \in Server, k \in Key : request[s][k] = {}
      /\ \A p \in Party : ts_key_map_[p] = {}
      /\ \A p \in Party, k \in Key : request_tmp[p][k] = {} /\ recv_kvs_[p][k] = {}
      /\ lnet = {} /\ gnet = {}
  BY DEF Init
<1>3. Workers /\ Locals
  BY <1>2 DEF Workers, WorkerOK, Locals
<1>4. LocalPulls
  BY <1>2, ServerType DEF LocalPulls
<1>5. Stages
  <2> SUFFICES ASSUME NEW p \in Party, NEW k \in Key PROVE Stage(p, k)
    BY DEF Stages
  <2>1. /\ p \in Server /\ Rank0[p] \in Worker /\ WorkersOf(p) \subseteq Worker
    BY ServerType, ConstantsAssumption DEF WorkersOf
  <2>2. Opening(p, k)
    BY <1>2, <2>1, SMTT(20) DEF Opening, InitPhases
  <2>3. Collecting(p, k)
    BY <1>2, <2>1 DEF Collecting
  <2>4. Forwarded(p, k)
    BY <1>2 DEF Forwarded, Busy, Pushing
  <2>5. SameRound(p, k)
    BY <1>2, <2>1, SMTT(20) DEF SameRound, Ver, Acked
  <2> QED
    BY <2>2, <2>3, <2>4, <2>5 DEF Stage
<1>6. Globals /\ Single /\ GlobalPulls /\ Received /\ Timestamps /\ Masters
  BY <1>2, ServerType DEF Globals, Single, GlobalPulls, Received, Timestamps, Masters
<1>7. OnePull
  <2>1. \A g \in GServer : pulling[g] = {}
    BY <1>2, ServerType
  <2>2. UNION {pulling[g] : g \in GServer} = {}
    BY <2>1
  <2>3. \A p \in Party, k \in Key : PullTs(p, k) = {}
    BY <1>2, <2>2, SMTT(20) DEF PullTs
  <2> QED
    BY <2>3 DEF OnePull
<1>8. Shards
  BY <1>2, ServerType DEF Shards, ShardOK
<1> QED
  BY <1>1, <1>3, <1>4, <1>5, <1>6, <1>7, <1>8 DEF IInv, LocalInv, GlobalInv

\* A step of a worker.
LEMMA WorkerKeeps ==
  ASSUME TypeOK, TypeOK', LocalInv, GlobalInv, WorkerStep
  PROVE  LocalInv' /\ GlobalInv'
<1>1. LocalInv' /\ \A p \in Party, j \in Key : Ver(p, j)' = Ver(p, j)
  BY WorkerLocal
<1>2. UNCHANGED <<master_vars, store_vars, party_vars, pull_vars, gnet>>
  BY DEF WorkerStep, InitPush, InitSkip, FirstPull, PushGradient, InitAcked, PushAcked, PullDone
<1>3. SameShards /\ SamePulls /\ UNCHANGED <<stored, initialized_>>
  BY <1>2 DEF SameShards, SameShard, SamePulls, store_vars, pull_vars
<1> QED
  BY <1>1, <1>2, <1>3, GlobalFrame

\* A step of a party's Receiving thread.
LEMMA PartyKeeps ==
  ASSUME Counting, TypeOK, TypeOK', LocalInv, GlobalInv, PartyStep
  PROVE  LocalInv' /\ GlobalInv'
<1>1. ASSUME NEW m \in lnet, LocalAggregate(m) PROVE LocalInv' /\ GlobalInv'
  <2>1. LocalInv' /\ \A p \in Party, j \in Key : Ver(p, j)' = Ver(p, j)
    BY <1>1, PartyLocal DEF Aggregates
  <2>2. PICK p, k, x, y :
          /\ p = PartyOf[m.worker] /\ k = m.key
          /\ merged' = [merged EXCEPT ![p][k] = x] /\ request' = [request EXCEPT ![p][k] = y]
    BY <1>1 DEF LocalAggregate
  <2>3. p \in Party /\ k \in Key
    BY <2>2, LocalMsgType, ServerType DEF TypeOK
  <2>4. UNCHANGED <<stored, store_, initialized_, master_vars, party_vars, pull_vars, gnet>>
    BY <1>1 DEF LocalAggregate
  <2>5. SameShards
    BY <2>2, <2>3, <2>4, PartyStepShards
  <2>6. SamePulls
    BY <2>4 DEF SamePulls, pull_vars
  <2> QED
    BY <2>1, <2>4, <2>5, <2>6, GlobalFrame
<1> QED
  BY <1>1, PlaneKeeps, TurnKeeps DEF PartyStep, ResponseStep, TurnStep

\* A step of a pull thread.
LEMMA PullThreadKeeps ==
  ASSUME Counting, TypeOK, TypeOK', LocalInv, GlobalInv, PullStep
  PROVE  LocalInv' /\ GlobalInv'
<1>1. PICK s \in Server : \/ \E m \in PullRequests(s) : PullPop(s, m)
                          \/ \E m \in pulling[s] : PullRead(s, m) \/ PullRespond(s, m)
  BY DEF PullStep
<1>2. CASE s \in GServer
  BY <1>1, <1>2, PlaneKeeps DEF GlobalPullStep
<1>3. CASE s \in Party
  <2>1. LocalInv' /\ gnet' = gnet /\ \A q \in Party, j \in Key : Ver(q, j)' = Ver(q, j)
    <3>1. ASSUME NEW m \in pulling[s], PullRead(s, m)
          PROVE  LocalInv' /\ gnet' = gnet /\ \A q \in Party, j \in Key : Ver(q, j)' = Ver(q, j)
      BY <1>3, <3>1, LocalReadInv DEF PullRead
    <3> QED
      BY <1>1, <1>3, <3>1, LocalPopInv, LocalRespondInv
  <2>2. UNCHANGED <<master_vars, store_vars, party_vars>>
    BY <1>1 DEF PullPop, PullRead, PullRespond
  <2>3. SamePulls
    <3> SUFFICES ASSUME NEW g \in GServer PROVE pulling'[g] = pulling[g] /\ reading'[g] = reading[g]
      BY DEF SamePulls
    <3>1. g \in Server /\ g # s
      BY <1>3, ServerType
    <3> QED
      BY <1>1, <3>1 DEF PullPop, PullRead, PullRespond, TypeOK, PullTypeOK
  <2>4. SameShards /\ UNCHANGED <<stored, initialized_>>
    BY <2>2 DEF SameShards, SameShard, store_vars
  <2> QED
    BY <2>1, <2>2, <2>3, <2>4, GlobalFrame
<1> QED
  BY <1>1, <1>2, <1>3 DEF Server

\* Nothing happens.
LEMMA StutterKeeps ==
  ASSUME TypeOK, TypeOK', LocalInv, GlobalInv, UNCHANGED vars
  PROVE  LocalInv' /\ GlobalInv'
<1>1. UNCHANGED <<worker_vars, lnet, request_tmp, gnet, master_vars, party_vars, store_vars, pull_vars>>
  BY DEF vars, party_vars
<1>2. /\ SameParties /\ SameShards /\ SamePulls /\ UNCHANGED <<stored, initialized_>>
  BY <1>1 DEF SameParties, SameShards, SameShard, SamePulls, store_vars, pull_vars
<1>3. \A p \in Party, k \in Key : Pushing(p, k)' => Pushing(p, k)
  BY <1>1 DEF Pushing, party_vars
<1>4. LocalInv' /\ \A p \in Party, k \in Key : Ver(p, k)' = Ver(p, k)
  BY <1>1, <1>2, <1>3, LocalFrame DEF SameParties
<1> QED
  BY <1>1, <1>2, <1>4, GlobalFrame

\* Every step keeps the invariant.
LEMMA NextInv ==
  ASSUME Counting
  PROVE  IInv /\ [Next]_vars => IInv'
<1> SUFFICES ASSUME IInv, [Next]_vars PROVE IInv'
  OBVIOUS
<1>1. TypeOK /\ TypeOK' /\ LocalInv /\ GlobalInv
  BY NextType DEF IInv
<1>2. CASE WorkerStep
  BY <1>1, <1>2, WorkerKeeps DEF IInv
<1>3. CASE MasterStep
  BY <1>1, <1>3, MasterKeeps DEF IInv
<1>4. CASE PartyStep
  BY <1>1, <1>4, PartyKeeps DEF IInv
<1>5. CASE GlobalStep
  BY <1>1, <1>5, GlobalKeeps DEF IInv
<1>6. CASE PullStep
  BY <1>1, <1>6, PullThreadKeeps DEF IInv
<1>7. CASE UNCHANGED vars
  BY <1>1, <1>7, StutterKeeps DEF IInv
<1> QED
  BY <1>2, <1>3, <1>4, <1>5, <1>6, <1>7 DEF Next, Terminated
=============================================================================
