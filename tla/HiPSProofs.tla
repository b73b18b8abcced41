----------------------------- MODULE HiPSProofs ------------------------------
(***************************************************************************)
(* Type correctness of HiPS, and the half of the invariant that is about   *)
(* workers and their party, for any number of parties, workers, servers,   *)
(* keys and iterations.                                                    *)
(*                                                                         *)
(* What makes types more than bookkeeping is that the two levels hold      *)
(* different things under the same names: whole tensors (Array) at a party, *)
(* single shards (Content) at a global server; the proof follows every     *)
(* array through merging, slicing and assembling.                          *)
(*                                                                         *)
(* LocalInv is kept by every step.  The steps of the global servers and of *)
(* the pull threads matter to it only where they write a table of a party, *)
(* and the answers from the global servers only through what GlobalInv says *)
(* of them, so these two facts are the interface to HiPSGlobalProofs.      *)
(***************************************************************************)
EXTENDS HiPSInvariant, TLAPS

USE ZenonT(30)

-----------------------------------------------------------------------------
(* Arrays *)

\* The operations on shards yield shards.
LEMMA ContentType ==
  /\ Zero \in Content
  /\ \A w, r : Unit(w, r) \in Content
  /\ \A c, d \in Content : Plus(c, d) \in Content
BY SMTT(20) DEF Content, Zero, Unit, Plus

\* The operations on whole tensors yield whole tensors.
LEMMA ArrayType ==
  ASSUME NEW k \in Key
  PROVE  /\ \A c \in Content : Fill(k, c) \in Array(k)
         /\ NoLoad(k) \in Array(k)
         /\ \A x, y \in Array(k) : PlusArray(k, x, y) \in Array(k)
         /\ \A x \in Array(k), g \in ShardsOf[k] : Slice(x, g) \in Content
BY ContentType DEF Array, Fill, NoLoad, PlusArray, Slice

\* The facts on finite sets that the proofs use.  HiPSTheorems proves them; the
\* lemmas before it that count something assume them.
Counting ==
  /\ \A S : IsFiniteSet(S) => Cardinality(S) \in Nat
  /\ \A S, T : IsFiniteSet(S) /\ T \subseteq S => IsFiniteSet(T)
  /\ \A S, x : IsFiniteSet(S) /\ x \in S => Cardinality(S \ {x}) = Cardinality(S) - 1
  /\ \A S, T : IsFiniteSet(S) /\ T \subseteq S =>
       Cardinality(S \ T) = Cardinality(S) - Cardinality(T)
  /\ \A S : IsFiniteSet(S) /\ Cardinality(S) = 1 => \E x : S = {x}
  /\ \A S, T : \A f \in [S -> T] :
       IsFiniteSet(T) /\ Cardinality(S) = Cardinality(T) /\ (\A x, y \in S : f[x] = f[y] => x = y)
         => \A t \in T : \E s \in S : f[s] = t
  /\ Cardinality({}) = 0
  /\ \A n \in Nat : IsFiniteSet(1 .. n) /\ Cardinality(1 .. n) = n

\* A key lives on some of the global servers.
LEMMA ShardsType ==
  ASSUME NEW k \in Key
  PROVE  ShardsOf[k] \subseteq GServer
BY ConstantsAssumption

\* A request is credited with a number of servers.
LEMMA SkippedType ==
  ASSUME Counting, NEW k \in Key
  PROVE  Skipped(k) \in Nat
<1>1. IsFiniteSet(GServer) /\ GServer \ ShardsOf[k] \subseteq GServer
  BY ConstantsAssumption
<1>2. IsFiniteSet(GServer \ ShardsOf[k])
  BY <1>1 DEF Counting
<1> QED
  BY <1>2 DEF Counting, Skipped

\* A party is no global server, and a worker has a party.
LEMMA ServerType ==
  /\ \A p \in Party : p \in Server /\ p \notin GServer
  /\ \A g \in GServer : g \in Server /\ g \notin Party
  /\ \A w \in Worker : PartyOf[w] \in Party
  /\ Party \subseteq Peer /\ Master \in Peer
BY ConstantsAssumption DEF Server, Peer

-----------------------------------------------------------------------------
(* Messages *)

\* The fields of a message on a local plane.
LEMMA LocalMsgType ==
  ASSUME NetTypeOK, NEW m \in lnet
  PROVE  /\ m.key \in Key /\ m \in LocalMsg(m.key)
         /\ m.worker \in Worker /\ m.ts \in Round /\ m.val \in Array(m.key)
BY DEF NetTypeOK, LocalMsg

\* The fields of a message on the global plane.
LEMMA GlobalMsgType ==
  ASSUME NetTypeOK, NEW m \in gnet
  PROVE  /\ m \in GlobalMsg /\ m.peer \in Peer /\ m.server \in GServer
         /\ m.key \in Key /\ m.ts \in Nat /\ m.val \in Content
BY DEF NetTypeOK, GlobalMsg

-----------------------------------------------------------------------------
(* Initial states *)

\* Init establishes the types.
LEMMA InitType == Init => TypeOK
<1> SUFFICES ASSUME Init PROVE TypeOK
  OBVIOUS
<1>1. WorkerTypeOK
  BY ContentType, ArrayType, ConstantsAssumption
 , SMTT(20) DEF Init, WorkerTypeOK, Phases, InitPhases, Round
<1>2. MasterTypeOK
  BY DEF Init, MasterTypeOK, NotPushed
<1>3. StoreTypeOK
  BY ContentType, ArrayType, ServerType DEF Init, StoreTypeOK, ArraysTypeOK, RequestsTypeOK
<1>4. PartyTypeOK
  BY SMTT(20) DEF Init, PartyTypeOK
<1>5. PullTypeOK
  BY ServerType DEF Init, PullTypeOK
<1>6. NetTypeOK
  BY DEF Init, NetTypeOK
<1> QED
  BY <1>1, <1>2, <1>3, <1>4, <1>5, <1>6 DEF TypeOK

-----------------------------------------------------------------------------
(* Party servers *)

\* A sum of whole tensors is a whole tensor, and its requests are those of
\* workers.
LEMMA MergeType ==
  ASSUME StoreTypeOK, NetTypeOK, NEW m \in lnet
  PROVE  LET p == PartyOf[m.worker]  k == m.key IN
         /\ p \in Party /\ p \in Server /\ p \notin GServer /\ k \in Key
         /\ Merge(p, k, m.val) \in Array(k)
         /\ request[p][k] \cup {Meta(m)} \subseteq Worker \X Round
<1> DEFINE p == PartyOf[m.worker]
           k == m.key
<1>1. /\ k \in Key /\ m.worker \in Worker /\ m.ts \in Round /\ m.val \in Array(k)
      /\ p \in Party /\ p \in Server /\ p \notin GServer
  BY LocalMsgType, ServerType
<1>2. merged[p][k] \in Array(k)
  BY <1>1 DEF StoreTypeOK, ArraysTypeOK
<1>3. Merge(p, k, m.val) \in Array(k)
  BY <1>1, <1>2, ArrayType DEF Merge
<1>4. request[p][k] \subseteq Worker \X Round
  BY <1>1 DEF StoreTypeOK, RequestsTypeOK
<1>5. Meta(m) \in Worker \X Round
  BY <1>1 DEF Meta
<1>6. request[p][k] \cup {Meta(m)} \subseteq Worker \X Round
  BY <1>4, <1>5
<1> QED
  BY <1>1, <1>3, <1>6

\* Updating a position of a sequence.
LEMMA SeqUpdate ==
  ASSUME NEW s \in Seq(Nat), NEW i \in 1 .. Len(s), NEW n \in Nat
  PROVE  [s EXCEPT ![i] = n] \in Seq(Nat) /\ Len([s EXCEPT ![i] = n]) = Len(s)
BY SMTT(20)

-----------------------------------------------------------------------------
(* Every step keeps the types *)

\* The steps <1>WorkerCallType to <1>PullThreadType are the actions, after the
\* facts on messages and tables that they share.
LEMMA NextType ==
  ASSUME Counting
  PROVE  TypeOK /\ [Next]_vars => TypeOK'
\* Updating one entry of a table of arrays keeps its type.
<1>ArraysUpdate.
    ASSUME NEW arrays, ArraysTypeOK(arrays), NEW s \in Server, NEW k \in Key, NEW x,
           s \in Party => x \in Array(k),
           s \in GServer => x \in Content
    PROVE  ArraysTypeOK([arrays EXCEPT ![s][k] = x])
  BY <1>ArraysUpdate, ServerType DEF ArraysTypeOK
\* Updating the requests of one key at one server keeps their type.
<1>RequestsUpdate.
    ASSUME NEW requests, RequestsTypeOK(requests), NEW s \in Server, NEW k \in Key, NEW reqs,
           s \in Party => reqs \subseteq Worker \X Round,
           s \in GServer => reqs \subseteq Peer \X Nat
    PROVE  RequestsTypeOK([requests EXCEPT ![s][k] = reqs])
  BY <1>RequestsUpdate, ServerType DEF RequestsTypeOK
\* A message between a worker and its server is well typed.
<1>LMsgType.
    ASSUME NEW t \in MsgType, NEW w \in Worker, NEW k \in Key, NEW ts \in Round,
           NEW val \in Array(k)
    PROVE  LMsg(t, w, k, ts, val) \in LocalMsg(k)
  BY <1>LMsgType DEF LMsg, LocalMsg
\* A message on the global plane is well typed.
<1>GMsgType.
    ASSUME NEW t \in MsgType, NEW n \in Peer, NEW g \in GServer, NEW k \in Key,
           NEW ts \in Nat, NEW val \in Content
    PROVE  GMsg(t, n, g, k, ts, val) \in GlobalMsg
  BY <1>GMsgType DEF GMsg, GlobalMsg
\* Changing the phase of a key keeps the type of phase.
<1>PhaseType.
    ASSUME WorkerTypeOK, NEW w \in Worker, NEW k \in Key, NEW ph \in Phases, SetPhase(w, k, ph)
    PROVE  phase' \in [Worker -> [Key -> Phases]]
  BY <1>PhaseType DEF WorkerTypeOK, SetPhase
\* What a worker's step leaves alone keeps its type.
<1>OthersType.
    ASSUME TypeOK
    PROVE  /\ UNCHANGED worker_vars => WorkerTypeOK'
           /\ UNCHANGED master_vars => MasterTypeOK'
           /\ UNCHANGED store_vars => StoreTypeOK'
           /\ UNCHANGED party_vars => PartyTypeOK'
           /\ UNCHANGED pull_vars => PullTypeOK'
  <2> USE <1>OthersType
  <2>1. UNCHANGED worker_vars => WorkerTypeOK'
    BY DEF TypeOK, WorkerTypeOK, worker_vars
  <2>2. UNCHANGED master_vars => MasterTypeOK'
    BY DEF TypeOK, MasterTypeOK, master_vars
  <2>3. UNCHANGED store_vars => StoreTypeOK'
    BY DEF TypeOK, StoreTypeOK, ArraysTypeOK, RequestsTypeOK, store_vars
  <2>4. UNCHANGED party_vars => PartyTypeOK'
    BY DEF TypeOK, PartyTypeOK, party_vars
  <2>5. UNCHANGED pull_vars => PullTypeOK'
    BY DEF TypeOK, PullTypeOK, pull_vars
  <2> QED
    BY <2>1, <2>2, <2>3, <2>4, <2>5
\* Steps a worker takes on its own.
<1>WorkerCallType.
    ASSUME TypeOK, NEW w \in Worker, NEW k \in Key,
           InitPush(w, k) \/ InitSkip(w, k) \/ FirstPull(w, k) \/ PushGradient(w, k)
    PROVE  TypeOK'
  <2> USE <1>WorkerCallType
  <2> USE <1>OthersType
  <2>0. WorkerTypeOK /\ NetTypeOK /\ 0 \in Round
    BY ConstantsAssumption, SMTT(20) DEF TypeOK, Round
  <2>1. CASE InitPush(w, k)
    <3>1. WorkerTypeOK'
      BY <2>0, <2>1, <1>PhaseType DEF InitPush, WorkerTypeOK, Phases, InitPhases
    <3>2. LMsg("push", w, k, 0, Fill(k, Unit(w, 0))) \in LocalMsg(k)
      BY <2>0, <1>LMsgType, ContentType, ArrayType DEF MsgType
    <3>3. NetTypeOK'
      BY <2>0, <2>1, <3>2 DEF InitPush, NetTypeOK
    <3> QED
      BY <2>1, <3>1, <3>3 DEF InitPush, TypeOK
  <2>2. CASE InitSkip(w, k)
    <3>1. WorkerTypeOK'
      BY <2>0, <2>2, <1>PhaseType DEF InitSkip, WorkerTypeOK, Phases, InitPhases
    <3> QED
      BY <2>0, <2>2, <3>1 DEF InitSkip, NetTypeOK, TypeOK
  <2>3. CASE FirstPull(w, k)
    <3>1. WorkerTypeOK'
      BY <2>0, <2>3, <1>PhaseType DEF FirstPull, WorkerTypeOK, Phases
    <3>2. LMsg("pull", w, k, 0, NoLoad(k)) \in LocalMsg(k)
      BY <2>0, <1>LMsgType, ArrayType DEF MsgType
    <3>3. NetTypeOK'
      BY <2>0, <2>3, <3>2 DEF FirstPull, NetTypeOK
    <3> QED
      BY <2>3, <3>1, <3>3 DEF FirstPull, TypeOK
  <2>4. CASE PushGradient(w, k)
    <3> DEFINE r == round[w][k] + 1
    <3>1. r \in Round
      <4>1. round[w][k] \in Round
        BY <2>0, SMTT(20) DEF WorkerTypeOK
      <4> QED
        BY <2>4, <4>1, ConstantsAssumption, SMTT(20) DEF PushGradient, Round
    <3>2. round' \in [Worker -> [Key -> Round]]
      BY <2>0, <2>4, <3>1 DEF PushGradient, WorkerTypeOK
    <3>3. WorkerTypeOK'
      BY <2>0, <2>4, <3>2, <1>PhaseType DEF PushGradient, WorkerTypeOK, Phases
    <3>4. LMsg("push", w, k, r, Fill(k, Unit(w, r))) \in LocalMsg(k)
      BY <3>1, <1>LMsgType, ContentType, ArrayType DEF MsgType
    <3>5. NetTypeOK'
      BY <2>0, <2>4, <3>4 DEF PushGradient, NetTypeOK
    <3> QED
      BY <2>4, <3>3, <3>5 DEF PushGradient, TypeOK
  <2> QED
    BY <2>1, <2>2, <2>3, <2>4
\* Responses a worker handles.
<1>WorkerResponseType.
    ASSUME TypeOK, NEW m \in lnet, InitAcked(m) \/ PushAcked(m) \/ PullDone(m)
    PROVE  TypeOK'
  <2> USE <1>WorkerResponseType
  <2> USE <1>OthersType
  <2> DEFINE w == m.worker
             k == m.key
  <2>0. WorkerTypeOK /\ NetTypeOK
    BY DEF TypeOK
  <2>m. k \in Key /\ w \in Worker /\ m.ts \in Round /\ m.val \in Array(k)
    BY <2>0, LocalMsgType
  <2>1. CASE InitAcked(m)
    <3>1. WorkerTypeOK'
      BY <2>0, <2>m, <2>1, <1>PhaseType DEF InitAcked, WorkerTypeOK, Phases, InitPhases
    <3> QED
      BY <2>0, <2>1, <3>1 DEF InitAcked, NetTypeOK, TypeOK
  <2>2. CASE PushAcked(m)
    <3>1. WorkerTypeOK'
      BY <2>0, <2>m, <2>2, <1>PhaseType DEF PushAcked, WorkerTypeOK, Phases
    <3>2. LMsg("pull", w, k, m.ts, NoLoad(k)) \in LocalMsg(k)
      BY <2>m, <1>LMsgType, ArrayType DEF MsgType
    <3>3. NetTypeOK'
      BY <2>0, <2>m, <2>2, <3>2 DEF PushAcked, NetTypeOK
    <3> QED
      BY <2>2, <3>1, <3>3 DEF PushAcked, TypeOK
  <2>3. CASE PullDone(m)
    <3>1. WorkerTypeOK'
      BY <2>0, <2>m, <2>3, <1>PhaseType DEF PullDone, WorkerTypeOK, Phases
    <3> QED
      BY <2>0, <2>3, <3>1 DEF PullDone, NetTypeOK, TypeOK
  <2> QED
    BY <2>1, <2>2, <2>3
\* The master worker.
<1>MasterType.
    ASSUME TypeOK, MasterInit \/ \E m \in gnet : MasterAcked(m)
    PROVE  TypeOK'
  <2> USE <1>MasterType
  <2> USE <1>OthersType
  <2>0. MasterTypeOK /\ NetTypeOK
    BY DEF TypeOK
  <2>1. CASE MasterInit
    <3>1. master_key \in Key
      BY <2>0, <2>1, ConstantsAssumption, SMTT(20) DEF MasterInit, MasterTypeOK, Key
    <3>2. MasterTypeOK'
      BY <2>0, <2>1, <3>1, SkippedType DEF MasterInit, MasterTypeOK
    <3>3. \A g \in ShardsOf[master_key] :
            GMsg("push", Master, g, master_key, 0, Unit(Master, 0)) \in GlobalMsg
      BY <3>1, <1>GMsgType, ContentType, ShardsType, ServerType DEF MsgType
    <3>4. NetTypeOK'
      BY <2>0, <2>1, <3>3 DEF MasterInit, NetTypeOK
    <3> QED
      BY <2>1, <3>2, <3>4 DEF MasterInit, TypeOK
  <2>2. ASSUME NEW m \in gnet, MasterAcked(m) PROVE TypeOK'
    <3>1. MasterTypeOK'
      BY <2>0, <2>2, SMTT(20) DEF MasterAcked, MasterTypeOK, NotPushed
    <3> QED
      BY <2>0, <2>2, <3>1 DEF MasterAcked, NetTypeOK, TypeOK
  <2> QED
    BY <2>1, <2>2
\* New requests and counted responses keep the tracker a sequence of numbers.
<1>TrackerType.
    ASSUME PartyTypeOK, NEW p \in Party, NEW k \in Key, NEW ts \in Nat
    PROVE  /\ NewRequest(tracker_[p], k) \in Seq(Nat)
           /\ CountResponse(tracker_[p], ts) \in Seq(Nat)
           /\ CountResponse(NewRequest(tracker_[p], k), ts) \in Seq(Nat)
           /\ NewTs(p) \in Nat
  <2> USE <1>TrackerType
  <2>1. tracker_[p] \in Seq(Nat)
    BY DEF PartyTypeOK
  <2>2. NewRequest(tracker_[p], k) \in Seq(Nat)
    BY <2>1, SkippedType, SMTT(20) DEF NewRequest
  <2>3. ASSUME NEW t \in Seq(Nat) PROVE CountResponse(t, ts) \in Seq(Nat)
    <3>1. CASE ts \in 1 .. Len(t)
      <4>1. t[ts] + 1 \in Nat
        BY <2>3, <3>1, SMTT(20)
      <4> QED
        BY <2>3, <3>1, <4>1, SeqUpdate DEF CountResponse
    <3>2. CASE ts \notin 1 .. Len(t)
      <4>1. [t EXCEPT ![ts] = @ + 1] = t
        BY <2>3, <3>2, SMTT(20)
      <4> QED
        BY <2>3, <4>1 DEF CountResponse
    <3> QED
      BY <3>1, <3>2
  <2> QED
    BY <2>1, <2>2, <2>3, SMTT(20) DEF NewTs
\* The pull requests of a party are well typed.
<1>PullFromGlobalType.
    ASSUME PartyTypeOK, NEW p \in Party, NEW k \in Key
    PROVE  PullFromGlobal(p, k) \subseteq GlobalMsg
  <2> USE <1>PullFromGlobalType
  <2>1. NewTs(p) \in Nat
    BY <1>TrackerType, 0 \in Nat
  <2>2. \A g \in ShardsOf[k] : GMsg("pull", p, g, k, NewTs(p), Zero) \in GlobalMsg
    BY <2>1, <1>GMsgType, ContentType, ShardsType, ServerType DEF MsgType
  <2> QED
    BY <2>2 DEF PullFromGlobal
\* Pushes handled by a party server.
<1>LocalPushType.
    ASSUME TypeOK, NEW m \in lnet, LocalInit(m) \/ LocalAggregate(m) \/ LocalForward(m)
    PROVE  TypeOK'
  <2> USE <1>LocalPushType
  <2> USE <1>OthersType
  <2> DEFINE p == PartyOf[m.worker]
             k == m.key
             reqs == request[p][k] \cup {Meta(m)}
             sum == Merge(p, k, m.val)
  <2>0. StoreTypeOK /\ PartyTypeOK /\ NetTypeOK
    BY DEF TypeOK
  <2>m. k \in Key /\ m.worker \in Worker /\ m.ts \in Round /\ m.val \in Array(k)
    BY <2>0, LocalMsgType
  <2>p. /\ p \in Party /\ p \in Server /\ p \notin GServer
        /\ sum \in Array(k) /\ reqs \subseteq Worker \X Round
    BY <2>0, MergeType
  <2>t. NewRequest(tracker_[p], k) \in Seq(Nat) /\ NewTs(p) \in Nat
    BY <2>0, <2>m, <2>p, <1>TrackerType
  <2>1. CASE LocalInit(m)
    <3>1. ArraysTypeOK(store_')
      BY <2>0, <2>m, <2>p, <2>1, <1>ArraysUpdate DEF LocalInit, StoreTypeOK
    <3>2. StoreTypeOK'
      <4>1. stored' \in [Server -> SUBSET Key]
        BY <2>0, <2>m, <2>p, <2>1 DEF LocalInit, StoreTypeOK
      <4>2. ArraysTypeOK(merged') /\ RequestsTypeOK(request')
        BY <2>0, <2>1 DEF LocalInit, StoreTypeOK
      <4>3. initialized_' \in [Server -> SUBSET Key]
        BY <2>0, <2>1 DEF LocalInit, StoreTypeOK
      <4> QED
        BY <3>1, <4>1, <4>2, <4>3 DEF StoreTypeOK, ArraysTypeOK, RequestsTypeOK
    <3>3. PartyTypeOK'
      BY <2>0, <2>p, <2>t, <2>1 DEF LocalInit, PartyTypeOK
    <3>4. LMsg("push_ack", m.worker, k, m.ts, NoLoad(k)) \in LocalMsg(k)
      BY <2>m, <1>LMsgType, ArrayType DEF MsgType
    <3>5. NetTypeOK'
      BY <2>0, <2>m, <2>p, <2>1, <3>4, <1>PullFromGlobalType DEF LocalInit, NetTypeOK
    <3> QED
      BY <2>1, <3>2, <3>3, <3>5 DEF LocalInit, TypeOK
  <2>2. CASE LocalAggregate(m)
    <3>1. ArraysTypeOK(merged')
      BY <2>0, <2>m, <2>p, <2>2, <1>ArraysUpdate DEF LocalAggregate, StoreTypeOK
    <3>2. StoreTypeOK'
      <4>1. RequestsTypeOK(request')
        BY <2>0, <2>m, <2>p, <2>2, <1>RequestsUpdate DEF LocalAggregate, StoreTypeOK
      <4> QED
        BY <2>0, <2>2, <3>1, <4>1 DEF LocalAggregate, StoreTypeOK, ArraysTypeOK, RequestsTypeOK
    <3> QED
      BY <2>0, <2>2, <3>2 DEF LocalAggregate, NetTypeOK, TypeOK
  <2>3. CASE LocalForward(m)
    <3>1. ArraysTypeOK(merged') /\ ArraysTypeOK(store_')
      BY <2>0, <2>m, <2>p, <2>3, <1>ArraysUpdate, ServerType DEF LocalForward, ApplyUpdates,
         StoreTypeOK
    <3>2. StoreTypeOK'
      <4>1. RequestsTypeOK(request')
        BY <2>0, <2>m, <2>p, <2>3, <1>RequestsUpdate, {} \subseteq Worker \X Round
        DEF LocalForward, StoreTypeOK
      <4> QED
        BY <2>0, <2>3, <3>1, <4>1 DEF LocalForward, StoreTypeOK, ArraysTypeOK, RequestsTypeOK
    <3>3. PartyTypeOK'
      <4>1. request_tmp' \in [Party -> [Key -> SUBSET (Worker \X Round)]]
        BY <2>0, <2>m, <2>p, <2>3 DEF LocalForward, PartyTypeOK
      <4>2. tracker_' \in [Party -> Seq(Nat)]
        BY <2>0, <2>p, <2>t, <2>3 DEF LocalForward, PartyTypeOK
      <4>3. ts_key_map_' \in [Party -> SUBSET (Nat \X Key)]
        <5>1. <<NewTs(p), k>> \in Nat \X Key
          BY <2>m, <2>t
        <5>2. ts_key_map_[p] \in SUBSET (Nat \X Key)
          BY <2>0, <2>p DEF PartyTypeOK
        <5>3. ts_key_map_[p] \cup {<<NewTs(p), k>>} \in SUBSET (Nat \X Key)
          BY <5>1, <5>2
        <5> QED
          BY <2>0, <2>p, <2>3, <5>3 DEF LocalForward, PartyTypeOK
      <4> QED
        BY <2>0, <2>3, <4>1, <4>2, <4>3 DEF LocalForward, PartyTypeOK
    <3>4. \A g \in ShardsOf[k] : GMsg("push", p, g, k, NewTs(p), Slice(sum, g)) \in GlobalMsg
      BY <2>m, <2>p, <2>t, <1>GMsgType, ArrayType, ShardsType, ServerType DEF MsgType
    <3>5. NetTypeOK'
      <4>1. PushToGlobal(p, k, sum) \subseteq GlobalMsg
        BY <3>4 DEF PushToGlobal
      <4> QED
        BY <2>0, <2>3, <4>1 DEF LocalForward, NetTypeOK
    <3> QED
      BY <2>3, <3>2, <3>3, <3>5 DEF LocalForward, TypeOK
  <2> QED
    BY <2>1, <2>2, <2>3
\* Responses to the pushes of a party.
<1>PushResponseType.
    ASSUME TypeOK, NEW m \in gnet, PushResponseWait(m) \/ PushResponseLast(m)
    PROVE  TypeOK'
  <2> USE <1>PushResponseType
  <2> USE <1>OthersType
  <2> DEFINE p == m.peer
  <2>0. PartyTypeOK /\ NetTypeOK
    BY DEF TypeOK
  <2>m. p \in Party /\ m.ts \in Nat
    BY <2>0, GlobalMsgType DEF PushResponseWait, PushResponseLast, IsResponse
  <2>1. CASE PushResponseWait(m)
    <3>1. CountResponse(tracker_[p], m.ts) \in Seq(Nat)
      BY <2>0, <2>m, <1>TrackerType, GlobalMsgType
    <3>2. PartyTypeOK'
      BY <2>0, <2>m, <2>1, <3>1 DEF PushResponseWait, PartyTypeOK
    <3> QED
      BY <2>0, <2>1, <3>2 DEF PushResponseWait, NetTypeOK, TypeOK
  <2>2. CASE PushResponseLast(m)
    <3> DEFINE k == KeyOfTs(p, m.ts)
    <3>1. k \in Key
      <4>1. 0 \in Key
        BY ConstantsAssumption, SMTT(20) DEF Key
      <4> QED
        BY <4>1 DEF KeyOfTs
    <3>2. CountResponse(NewRequest(tracker_[p], k), m.ts) \in Seq(Nat)
      BY <2>0, <2>m, <3>1, <1>TrackerType
    <3>3. PartyTypeOK'
      BY <2>0, <2>m, <2>2, <3>2 DEF PushResponseLast, PartyTypeOK
    <3>4. NetTypeOK'
      BY <2>0, <2>m, <2>2, <3>1, <1>PullFromGlobalType DEF PushResponseLast, NetTypeOK
    <3> QED
      BY <2>2, <3>3, <3>4 DEF PushResponseLast, TypeOK
  <2> QED
    BY <2>1, <2>2
\* Assembling the parts of a tensor yields a whole tensor, whatever servers the
\* parts came from.
<1>AssembleType.
    ASSUME PartyTypeOK, NetTypeOK, NEW m \in gnet, m.peer \in Party
    PROVE  Parts(m) \subseteq PartType /\ Assemble(m.key, m) \in Array(m.key)
  <2> USE <1>AssembleType
  <2>1. m.key \in Key /\ m.server \in GServer /\ m.ts \in Nat /\ m.val \in Content
    BY GlobalMsgType
  <2>2. Parts(m) \subseteq PartType /\ Part(m) \in Parts(m)
    <3>1. recv_kvs_[m.peer][m.key] \subseteq PartType
      BY <2>1 DEF PartyTypeOK
    <3>2. Part(m) \in PartType
      BY <2>1 DEF Part, PartType
    <3> QED
      BY <3>1, <3>2 DEF Parts
  <2>3. \A g \in GServer : Slot(Parts(m), g) \in Parts(m)
    BY <2>2 DEF Slot
  <2>4. \A g \in GServer : Slot(Parts(m), g).val \in Content
    BY <2>2, <2>3 DEF PartType
  <2>5. CASE IsBig(m.key)
    BY <2>1, <2>2, <2>4, <2>5, ShardsType DEF Assemble, Array
  <2>6. CASE ~IsBig(m.key)
    BY <2>1, <2>2, <2>6, ArrayType DEF Assemble
  <2> QED
    BY <2>5, <2>6
\* Responses to the pulls of a party.
<1>PullResponseType.
    ASSUME TypeOK, NEW m \in gnet, PullResponsePart(m) \/ PullResponseLast(m)
    PROVE  TypeOK'
  <2> USE <1>PullResponseType
  <2> USE <1>OthersType
  <2> DEFINE p == m.peer
             k == m.key
  <2>0. StoreTypeOK /\ PartyTypeOK /\ NetTypeOK
    BY DEF TypeOK
  <2>m. p \in Party /\ p \in Server /\ p \notin GServer /\ k \in Key /\ m.ts \in Nat
    BY <2>0, GlobalMsgType, ServerType DEF PullResponsePart, PullResponseLast, IsResponse
  <2>t. CountResponse(tracker_[p], m.ts) \in Seq(Nat)
    BY <2>0, <2>m, <1>TrackerType
  <2>a. Parts(m) \subseteq PartType /\ Assemble(k, m) \in Array(k)
    BY <2>0, <2>m, <1>AssembleType
  <2>1. CASE PullResponsePart(m)
    <3>1. PartyTypeOK'
      BY <2>0, <2>m, <2>t, <2>a, <2>1 DEF PullResponsePart, PartyTypeOK
    <3> QED
      BY <2>0, <2>1, <3>1 DEF PullResponsePart, NetTypeOK, TypeOK
  <2>2. CASE PullResponseLast(m)
    <3>1. ArraysTypeOK(store_')
      BY <2>0, <2>m, <2>a, <2>2, <1>ArraysUpdate DEF PullResponseLast, StoreTypeOK
    <3>2. initialized_' \in [Server -> SUBSET Key]
      <4>1. initialized_' \in {initialized_, [initialized_ EXCEPT ![p] = initialized_[p] \cup {k}]}
        BY <2>2 DEF PullResponseLast
      <4>2. [initialized_ EXCEPT ![p] = initialized_[p] \cup {k}] \in [Server -> SUBSET Key]
        BY <2>0, <2>m DEF StoreTypeOK
      <4> QED
        BY <2>0, <4>1, <4>2 DEF StoreTypeOK
    <3>3. StoreTypeOK'
      BY <2>0, <2>2, <3>1, <3>2 DEF PullResponseLast, StoreTypeOK, ArraysTypeOK, RequestsTypeOK
    <3>4. PartyTypeOK'
      <4>1. request_tmp' \in [Party -> [Key -> SUBSET (Worker \X Round)]]
        <5>1. request_tmp' \in {request_tmp, [request_tmp EXCEPT ![p][k] = {}]}
          BY <2>2 DEF PullResponseLast
        <5>2. PICK none \in SUBSET (Worker \X Round) : none = {}
          OBVIOUS
        <5>3. [request_tmp EXCEPT ![p][k] = none] \in [Party -> [Key -> SUBSET (Worker \X Round)]]
          BY <2>0, <2>m DEF PartyTypeOK
        <5> QED
          BY <2>0, <5>1, <5>2, <5>3 DEF PartyTypeOK
      <4>2. tracker_' \in [Party -> Seq(Nat)]
        BY <2>0, <2>m, <2>t, <2>2 DEF PullResponseLast, PartyTypeOK
      <4>3. recv_kvs_' \in [Party -> [Key -> SUBSET PartType]]
        BY <2>0, <2>m, <2>2 DEF PullResponseLast, PartyTypeOK
      <4> QED
        BY <2>0, <2>2, <4>1, <4>2, <4>3 DEF PullResponseLast, PartyTypeOK
    <3>5. \A q \in request_tmp[p][k] :
            LMsg("push_ack", q[1], k, q[2], NoLoad(k)) \in LocalMsg(k)
      <4>1. request_tmp[p][k] \subseteq Worker \X Round
        BY <2>0, <2>m, SMTT(20) DEF PartyTypeOK
      <4>2. \A q \in request_tmp[p][k] : q[1] \in Worker /\ q[2] \in Round
        BY <4>1
      <4> QED
        BY <2>m, <4>2, <1>LMsgType, ArrayType DEF MsgType
    <3>6. NetTypeOK'
      <4> DEFINE acks == {LMsg("push_ack", q[1], k, q[2], NoLoad(k)) : q \in request_tmp[p][k]}
      <4>1. \A a \in acks : a \in LocalMsg(k)
        BY <3>5
      <4>2. lnet' \in {lnet, lnet \cup acks} /\ gnet' = gnet \ {m}
        BY <2>2 DEF PullResponseLast
      <4> HIDE DEF acks
      <4> QED
        BY <2>0, <2>m, <4>1, <4>2 DEF NetTypeOK
    <3> QED
      BY <2>2, <3>3, <3>4, <3>6 DEF PullResponseLast, TypeOK
  <2> QED
    BY <2>1, <2>2
\* Pushes handled by a global server.
<1>GlobalPushType.
    ASSUME TypeOK, NEW m \in gnet, GlobalInit(m) \/ GlobalAggregate(m) \/ GlobalApply(m)
    PROVE  TypeOK'
  <2> USE <1>GlobalPushType
  <2> USE <1>OthersType
  <2> DEFINE g == m.server
             k == m.key
             reqs == request[g][k] \cup {GlobalMeta(m)}
             sum == GlobalMerge(g, k, m.val)
  <2>0. StoreTypeOK /\ NetTypeOK
    BY DEF TypeOK
  <2>m. /\ k \in Key /\ m.peer \in Peer /\ m.ts \in Nat /\ m.val \in Content
        /\ g \in GServer /\ g \in Server /\ g \notin Party
    BY <2>0, GlobalMsgType, ServerType
  <2>s. sum \in Content
    BY <2>0, <2>m, ContentType DEF StoreTypeOK, ArraysTypeOK, GlobalMerge
  <2>r. reqs \subseteq Peer \X Nat
    <3>1. request[g][k] \subseteq Peer \X Nat
      BY <2>0, <2>m DEF StoreTypeOK, RequestsTypeOK
    <3>2. GlobalMeta(m) \in Peer \X Nat
      BY <2>m DEF GlobalMeta
    <3> QED
      BY <3>1, <3>2
  <2>1. CASE GlobalInit(m)
    <3>1. ArraysTypeOK(store_')
      BY <2>0, <2>m, <2>1, <1>ArraysUpdate DEF GlobalInit, StoreTypeOK
    <3>2. stored' \in [Server -> SUBSET Key] /\ initialized_' \in [Server -> SUBSET Key]
      BY <2>0, <2>m, <2>1 DEF GlobalInit, StoreTypeOK
    <3>3. StoreTypeOK'
      BY <2>0, <2>1, <3>1, <3>2 DEF GlobalInit, StoreTypeOK, ArraysTypeOK, RequestsTypeOK
    <3>4. GMsg("push_ack", m.peer, g, k, m.ts, Zero) \in GlobalMsg
      BY <2>m, <1>GMsgType, ContentType DEF MsgType
    <3>5. NetTypeOK'
      BY <2>0, <2>1, <3>4 DEF GlobalInit, NetTypeOK
    <3> QED
      BY <2>1, <3>3, <3>5 DEF GlobalInit, TypeOK
  <2>2. CASE GlobalAggregate(m)
    <3>1. ArraysTypeOK(merged')
      BY <2>0, <2>m, <2>s, <2>2, <1>ArraysUpdate DEF GlobalAggregate, StoreTypeOK
    <3>2. StoreTypeOK'
      <4>1. RequestsTypeOK(request')
        BY <2>0, <2>m, <2>r, <2>2, <1>RequestsUpdate DEF GlobalAggregate, StoreTypeOK
      <4> QED
        BY <2>0, <2>2, <3>1, <4>1 DEF GlobalAggregate, StoreTypeOK, ArraysTypeOK, RequestsTypeOK
    <3> QED
      BY <2>0, <2>2, <3>2 DEF GlobalAggregate, NetTypeOK, TypeOK
  <2>3. CASE GlobalApply(m)
    <3>1. ApplyUpdates(g, store_[g][k], sum) \in Content
      BY <2>0, <2>m, <2>s, ContentType DEF ApplyUpdates, Updater, StoreTypeOK, ArraysTypeOK
    <3>2. store_' = [store_ EXCEPT ![g][k] = ApplyUpdates(g, store_[g][k], sum)]
      BY <2>3 DEF GlobalApply
    <3>3. ArraysTypeOK(merged')
      BY <2>0, <2>m, <2>s, <2>3, <1>ArraysUpdate DEF GlobalApply, StoreTypeOK
    <3>4. ArraysTypeOK(store_')
      BY <2>0, <2>m, <3>1, <3>2, <1>ArraysUpdate DEF StoreTypeOK
    <3>5. StoreTypeOK'
      <4>1. RequestsTypeOK(request')
        BY <2>0, <2>m, <2>3, <1>RequestsUpdate, {} \subseteq Peer \X Nat
        DEF GlobalApply, StoreTypeOK
      <4> QED
        BY <2>0, <2>3, <3>3, <3>4, <4>1
        DEF GlobalApply, StoreTypeOK, ArraysTypeOK, RequestsTypeOK
    <3>6. \A q \in reqs : GMsg("push_ack", q[1], g, k, q[2], Zero) \in GlobalMsg
      BY <2>m, <2>r, <1>GMsgType, ContentType DEF MsgType
    <3>7. NetTypeOK'
      <4> DEFINE acks == {GMsg("push_ack", q[1], g, k, q[2], Zero) : q \in reqs}
      <4>1. acks \subseteq GlobalMsg
        BY <3>6
      <4>2. lnet' = lnet /\ gnet' = (gnet \ {m}) \cup acks
        BY <2>3 DEF GlobalApply
      <4> HIDE DEF acks
      <4> QED
        BY <2>0, <4>1, <4>2 DEF NetTypeOK
    <3> QED
      BY <2>3, <3>5, <3>7 DEF GlobalApply, TypeOK
  <2> QED
    BY <2>1, <2>2, <2>3
\* The pull thread of a server answers with what its level stores.
<1>PullThreadType.
    ASSUME TypeOK, NEW s \in Server,
           \/ \E m \in PullRequests(s) : PullPop(s, m)
           \/ \E m \in pulling[s] : PullRead(s, m) \/ PullRespond(s, m)
    PROVE  TypeOK'
  <2> USE <1>PullThreadType
  <2> USE <1>OthersType
  <2>0. StoreTypeOK /\ PullTypeOK /\ NetTypeOK
    BY DEF TypeOK
  <2>1. ASSUME NEW m \in PullRequests(s), PullPop(s, m) PROVE TypeOK'
    <3>1. s \in Party => \E k \in Key : m \in LocalMsg(k)
      BY <2>0, <2>1 DEF PullRequests, NetTypeOK
    <3>2. s \in GServer => m \in GlobalMsg
      BY <2>0, <2>1, ServerType DEF PullRequests, NetTypeOK
    <3>3. PullTypeOK'
      <4>1. pulling' = [pulling EXCEPT ![s] = {m}] /\ reading' = reading
        BY <2>1 DEF PullPop
      <4>2. DOMAIN pulling' = Server /\ reading' \in [Server -> BOOLEAN]
        BY <2>0, <4>1 DEF PullTypeOK
      <4>3. \A p \in Party : \A q \in pulling'[p] : \E k \in Key : q \in LocalMsg(k)
        BY <2>0, <3>1, <4>1, ServerType DEF PullTypeOK
      <4>4. \A g \in GServer : pulling'[g] \subseteq GlobalMsg
        BY <2>0, <3>2, <4>1, ServerType DEF PullTypeOK
      <4> QED
        BY <4>2, <4>3, <4>4 DEF PullTypeOK
    <3> QED
      BY <2>0, <2>1, <3>3 DEF PullPop, NetTypeOK, TypeOK
  <2>2. ASSUME NEW m \in pulling[s], PullRead(s, m) PROVE TypeOK'
    <3>1. PullTypeOK'
      BY <2>0, <2>2 DEF PullRead, PullTypeOK
    <3> QED
      BY <2>0, <2>2, <3>1 DEF PullRead, NetTypeOK, TypeOK
  <2>3. ASSUME NEW m \in pulling[s], PullRespond(s, m) PROVE TypeOK'
    <3>1. PullTypeOK'
      BY <2>0, <2>3, ServerType DEF PullRespond, PullTypeOK
    <3>2. CASE s \in Party
      <4>1. PICK k \in Key : m \in LocalMsg(k)
        BY <2>0, <3>2 DEF PullTypeOK
      <4>2. m.key = k /\ m.worker \in Worker /\ m.ts \in Round
        BY <4>1 DEF LocalMsg
      <4>3. LMsg("pull_data", m.worker, m.key, m.ts, store_[s][m.key]) \in LocalMsg(k)
        BY <2>0, <3>2, <4>2, <1>LMsgType DEF MsgType, StoreTypeOK, ArraysTypeOK
      <4>4. NetTypeOK'
        BY <2>0, <2>3, <3>2, <4>3 DEF PullRespond, NetTypeOK
      <4> QED
        BY <2>3, <3>1, <4>4 DEF PullRespond, TypeOK
    <3>3. CASE s \in GServer
      <4>1. m \in GlobalMsg
        BY <2>0, <3>3 DEF PullTypeOK
      <4>2. m.peer \in Peer /\ m.key \in Key /\ m.ts \in Nat
        BY <4>1 DEF GlobalMsg
      <4>3. GMsg("pull_data", m.peer, s, m.key, m.ts, store_[s][m.key]) \in GlobalMsg
        BY <2>0, <3>3, <4>2, <1>GMsgType DEF MsgType, StoreTypeOK, ArraysTypeOK
      <4>4. NetTypeOK'
        BY <2>0, <2>3, <3>3, <4>3, ServerType DEF PullRespond, NetTypeOK
      <4> QED
        BY <2>3, <3>1, <4>4 DEF PullRespond, TypeOK
    <3> QED
      BY <3>2, <3>3 DEF Server
  <2> QED
    BY <2>1, <2>2, <2>3
<1> QED
  <2> SUFFICES ASSUME TypeOK, [Next]_vars PROVE TypeOK'
    OBVIOUS
  <2>1. CASE WorkerStep
    BY <2>1, <1>WorkerCallType, <1>WorkerResponseType DEF WorkerStep
  <2>2. CASE MasterStep
    BY <2>2, <1>MasterType DEF MasterStep
  <2>3. CASE PartyStep
    BY <2>3, <1>LocalPushType, <1>PushResponseType, <1>PullResponseType DEF PartyStep
  <2>4. CASE GlobalStep
    BY <2>4, <1>GlobalPushType DEF GlobalStep
  <2>5. CASE PullStep
    BY <2>5, <1>PullThreadType DEF PullStep
  <2>6. CASE UNCHANGED vars
    BY <2>6, <1>OthersType DEF vars, TypeOK, NetTypeOK
  <2> QED
    BY <2>1, <2>2, <2>3, <2>4, <2>5, <2>6 DEF Next, Terminated

-----------------------------------------------------------------------------
(* Sums of gradients *)

\* The sums of disjoint groups of workers.
LEMMA AddGradients ==
  ASSUME NEW S, NEW T, S \cap T = {}, NEW r
  PROVE  Plus(Gradients(S, r), Gradients(T, r)) = Gradients(S \cup T, r)
<1>1. ASSUME NEW a \in Atom
      PROVE  (IF a[1] \in S /\ a[2] = r THEN 1 ELSE 0) + (IF a[1] \in T /\ a[2] = r THEN 1 ELSE 0)
               = IF a[1] \in S \cup T /\ a[2] = r THEN 1 ELSE 0
  BY SMTT(20)
<1> QED
  BY <1>1 DEF Plus, Gradients

\* A round of all workers makes the next weights.
LEMMA NextWeight ==
  ASSUME NEW n \in Nat
  PROVE  Plus(Weight(n), Gradients(Worker, n + 1)) = Weight(n + 1)
<1> DEFINE Had(a) == a = <<Master, 0>> \/ (a[1] # Master /\ a[2] \in 1 .. n)
           Added(a) == a[1] \in Worker /\ a[2] = n + 1
           Holds(a) == a = <<Master, 0>> \/ (a[1] # Master /\ a[2] \in 1 .. (n + 1))
<1>1. ASSUME NEW a \in Atom
      PROVE  (Holds(a) <=> Had(a) \/ Added(a)) /\ ~(Had(a) /\ Added(a))
  <2>1. a[1] \in Worker \cup {Master} /\ a[2] \in Round /\ a = <<a[1], a[2]>>
    BY SMTT(20) DEF Atom
  <2>2. Master \notin Worker /\ a[2] \in Nat
    BY <2>1, ConstantsAssumption, SMTT(20) DEF Round
  <2> QED
    BY <2>1, <2>2, SMTT(20)
<1>2. ASSUME NEW a \in Atom
      PROVE  (IF Had(a) THEN 1 ELSE 0) + (IF Added(a) THEN 1 ELSE 0) = IF Holds(a) THEN 1 ELSE 0
  <2> HIDE DEF Had, Added, Holds
  <2> QED
    BY <1>1, SMTT(20)
<1> QED
  BY <1>2 DEF Plus, Weight, Gradients

\* The initial weights are those of the master worker.
LEMMA FirstWeight == Unit(Master, 0) = Weight(0)
<1>1. \A a \in Atom : a[2] \notin 1 .. 0
  BY SMTT(20) DEF Atom, Round
<1> QED
  BY <1>1 DEF Unit, Weight

-----------------------------------------------------------------------------
(* What a step leaves alone *)

\* A step that leaves the key alone at a worker, and on the plane.
SameWorker(w, k) ==
  /\ phase'[w][k] = phase[w][k] /\ round'[w][k] = round[w][k]
  /\ \A m \in lnet \cup lnet' : m.worker = w /\ m.key = k => (m \in lnet <=> m \in lnet')

\* A step that leaves the key alone at a party.
SameParty(p, k) ==
  /\ k \in stored'[p] <=> k \in stored[p]
  /\ k \in initialized_'[p] <=> k \in initialized_[p]
  /\ store_'[p][k] = store_[p][k] /\ merged'[p][k] = merged[p][k]
  /\ request'[p][k] = request[p][k] /\ request_tmp'[p][k] = request_tmp[p][k]
  /\ Pushing(p, k)' => Pushing(p, k)
  /\ \A g \in ShardsOf[k] : k \in stored[g] => k \in stored'[g]

\* What the invariant says of a worker and a key depends on nothing else.
LEMMA WorkerFrame ==
  ASSUME NEW w, NEW k, SameWorker(w, k)
  PROVE  /\ Silent(w, k)' <=> Silent(w, k)
         /\ Acknowledged(w, k)' <=> Acknowledged(w, k)
         /\ Acked(w, k)' = Acked(w, k)
<1>1. Silent(w, k)' <=> Silent(w, k)
  BY DEF Silent, SameWorker
<1>2. Acknowledged(w, k)' <=> Acknowledged(w, k)
  BY DEF Acknowledged, SameWorker
<1> QED
  BY <1>1, <1>2 DEF Acked, SameWorker

\* Nor does what it says of a party and a key.
LEMMA StageFrame ==
  ASSUME NEW p \in Party, NEW k \in Key, Stage(p, k), RequestsTypeOK(request), PartyTypeOK,
         SameParty(p, k), \A w \in WorkersOf(p) : SameWorker(w, k)
  PROVE  Stage(p, k)' /\ Ver(p, k)' = Ver(p, k)
<1>r. Rank0[p] \in WorkersOf(p)
  BY ConstantsAssumption DEF WorkersOf
<1>a. \A w \in WorkersOf(p) : Acked(w, k)' = Acked(w, k)
  BY WorkerFrame
<1>v. Ver(p, k)' = Ver(p, k)
  BY <1>r, <1>a DEF Ver
<1>w. ASSUME NEW q \in Worker \X Round, Waiting(p, k, q) PROVE Waiting(p, k, q)'
  <2>1. q[1] \in WorkersOf(p)
    BY <1>w DEF Waiting, WorkersOf
  <2>2. SameWorker(q[1], k) /\ (Silent(q[1], k)' <=> Silent(q[1], k))
    BY <2>1, WorkerFrame
  <2> QED
    BY <1>w, <2>2 DEF Waiting, SameWorker
<1>1. Opening(p, k)'
  BY <1>r DEF Stage, Opening, SameParty, SameWorker
<1>f. ASSUME NEW reqs, \A q \in reqs : q \in Worker \X Round /\ Waiting(p, k, q)
      PROVE  From(reqs, k)' = From(reqs, k)
  <2>1. ASSUME NEW w \in Worker PROVE <<w, round'[w][k]>> \in reqs <=> <<w, round[w][k]>> \in reqs
    <3>1. CASE w \in WorkersOf(p)
      BY <3>1 DEF SameWorker
    <3>2. CASE w \notin WorkersOf(p)
      <4>1. \A r : <<w, r>> \notin reqs
        BY <1>f, <3>2 DEF Waiting, WorkersOf
      <4> QED
        BY <4>1
    <3> QED
      BY <3>1, <3>2
  <2> QED
    BY <2>1 DEF From
<1>t. /\ request[p][k] \subseteq Worker \X Round
      /\ request_tmp[p][k] \subseteq Worker \X Round
  BY SMTT(20) DEF RequestsTypeOK, PartyTypeOK
<1>2. Collecting(p, k)'
  <2>1. \A q \in request'[p][k] : Waiting(p, k, q)'
    BY <1>w, <1>t DEF Stage, Collecting, SameParty
  <2>2. From(request[p][k], k)' = From(request[p][k], k)
    BY <1>f, <1>t DEF Stage, Collecting, SameParty
  <2> QED
    BY <1>v, <2>1, <2>2 DEF Stage, Collecting, SameParty
<1>3. Forwarded(p, k)'
  BY <1>w, <1>f, <1>t DEF Stage, Forwarded, SameParty, Busy
<1>4. SameRound(p, k)'
  BY <1>a, <1>v DEF Stage, SameRound, SameParty, Busy
<1> QED
  BY <1>v, <1>1, <1>2, <1>3, <1>4 DEF Stage

\* A message stays right when its worker's key is left alone.
LEMMA MessageFrame ==
  ASSUME NEW m, LocalOK(m),
         phase'[m.worker][m.key] = phase[m.worker][m.key],
         round'[m.worker][m.key] = round[m.worker][m.key],
         m.key \in stored[PartyOf[m.worker]] <=> m.key \in stored'[PartyOf[m.worker]],
         m.key \in initialized_[PartyOf[m.worker]] => m.key \in initialized_'[PartyOf[m.worker]]
  PROVE  LocalOK(m)'
BY DEF LocalOK

\* The fields of a pull that a party has popped.
LEMMA PoppedType ==
  ASSUME PullTypeOK, NEW p \in Party, NEW m \in pulling[p]
  PROVE  m.worker \in Worker /\ m.key \in Key /\ m.ts \in Round
BY DEF PullTypeOK, LocalMsg

\* A worker that the party does not hold a request of.
NotWaiting(w, k) ==
  \A q \in request[PartyOf[w]][k] \cup request_tmp[PartyOf[w]][k] : q[1] # w

\* A step that leaves all other workers and keys alone.
OthersAlone(w, k) ==
  \A v \in Worker, j \in Key :
    v # w \/ j # k => SameWorker(v, j) /\ pulled'[v][j] = pulled[v][j]

\* The worker's message about the key is right, and the only one.
MessagesOK(w, k) ==
  \A m \in lnet : m.worker = w /\ m.key = k =>
    LocalOK(m) /\ \A n \in lnet : n.worker = w /\ n.key = k => m = n

\* A step of a worker that tells it of no new round.
LEMMA WorkerStepInv ==
  ASSUME TypeOK, LocalInv, NEW w \in Worker, NEW k \in Key,
         UNCHANGED <<store_vars, party_vars>>,
         OthersAlone(w, k), NotWaiting(w, k), LocalPulls',
         WorkerOK(w, k)', Acked(w, k)' = Acked(w, k), Opening(PartyOf[w], k)',
         MessagesOK(w, k)', NetTypeOK'
  PROVE  LocalInv' /\ \A p \in Party, j \in Key : Ver(p, j)' = Ver(p, j)
<1> USE DEF store_vars, party_vars
<1>s. /\ \A v \in Worker, j \in Key :
           v # w \/ j # k => SameWorker(v, j) /\ pulled'[v][j] = pulled[v][j]
      /\ \A m \in lnet' : m.worker = w /\ m.key = k => LocalOK(m)'
      /\ \A m, n \in lnet' :
           m.worker = w /\ m.key = k /\ n.worker = w /\ n.key = k => m = n
  BY DEF OthersAlone, MessagesOK
<1>0. RequestsTypeOK(request) /\ PartyTypeOK /\ NetTypeOK
  BY DEF TypeOK, StoreTypeOK
<1>1. Workers'
  <2> SUFFICES ASSUME NEW v \in Worker, NEW j \in Key PROVE WorkerOK(v, j)'
    BY DEF Workers
  <2>1. CASE v # w \/ j # k
    BY <1>s, <2>1, SMTT(20) DEF LocalInv, Workers, WorkerOK, SameWorker
  <2> QED
    BY <2>1
<1>2. Locals'
  <2>m. \A m \in lnet' : m.worker \in Worker /\ m.key \in Key
    BY DEF NetTypeOK, LocalMsg
  <2>o. ASSUME NEW m \in lnet', ~(m.worker = w /\ m.key = k)
        PROVE  m \in lnet /\ SameWorker(m.worker, m.key)
    BY <1>s, <2>m, <2>o DEF SameWorker
  <2>1. ASSUME NEW m \in lnet' PROVE LocalOK(m)'
    <3>1. CASE ~(m.worker = w /\ m.key = k)
      BY <2>o, <3>1, MessageFrame DEF LocalInv, Locals, SameWorker
    <3> QED
      BY <1>s, <3>1
  <2>2. ASSUME NEW m \in lnet', NEW n \in lnet', m.worker = n.worker /\ m.key = n.key
        PROVE  m = n
    <3>1. CASE ~(m.worker = w /\ m.key = k)
      BY <2>2, <2>o, <3>1 DEF LocalInv, Locals
    <3> QED
      BY <1>s, <2>2, <3>1
  <2> QED
    BY <2>1, <2>2 DEF Locals
<1>4. ASSUME NEW p \in Party, NEW j \in Key
      PROVE  Stage(p, j)' /\ Ver(p, j)' = Ver(p, j)
  <2>0. Stage(p, j)
    BY DEF LocalInv, Stages
  <2>1. CASE p # PartyOf[w] \/ j # k
    <3>1. \A v \in WorkersOf(p) : SameWorker(v, j)
      BY <1>s, <2>1 DEF WorkersOf
    <3>2. SameParty(p, j)
      BY DEF SameParty, Pushing
    <3> QED
      BY <1>0, <2>0, <3>1, <3>2, StageFrame
  <2>2. CASE p = PartyOf[w] /\ j = k
    <3>r. Rank0[p] \in WorkersOf(p) /\ w \in WorkersOf(p)
      BY <2>2, ConstantsAssumption DEF WorkersOf
    <3>s. \A v \in WorkersOf(p) : v # w => SameWorker(v, k)
      BY <1>s DEF WorkersOf
    <3>a. \A v \in WorkersOf(p) : Acked(v, k)' = Acked(v, k)
      BY <3>s, WorkerFrame
    <3>v. Ver(p, k)' = Ver(p, k)
      BY <3>r, <3>a DEF Ver
    <3>t. /\ request[p][k] \subseteq Worker \X Round
          /\ request_tmp[p][k] \subseteq Worker \X Round
      BY <1>0, SMTT(20) DEF RequestsTypeOK, PartyTypeOK
    <3>q. ASSUME NEW q \in Worker \X Round, Waiting(p, k, q), q[1] # w PROVE Waiting(p, k, q)'
      <4>1. q[1] \in WorkersOf(p)
        BY <3>q DEF Waiting, WorkersOf
      <4>2. SameWorker(q[1], k) /\ (Silent(q[1], k)' <=> Silent(q[1], k))
        BY <3>q, <3>s, <4>1, WorkerFrame
      <4> QED
        BY <3>q, <4>2 DEF Waiting, SameWorker
    <3>n. \A q \in request[p][k] \cup request_tmp[p][k] : q[1] # w
      BY <2>2 DEF NotWaiting
    <3>f. From(request[p][k], k)' = From(request[p][k], k)
      <4>1. ASSUME NEW v \in Worker
            PROVE  <<v, round'[v][k]>> \in request[p][k] <=> <<v, round[v][k]>> \in request[p][k]
        <5>1. CASE v # w
          BY <1>s, <5>1 DEF SameWorker
        <5>2. CASE v = w
          <6>1. <<v, round'[v][k]>>[1] = w /\ <<v, round[v][k]>>[1] = w
            BY <5>2
          <6> QED
            BY <3>n, <6>1
        <5> QED
          BY <5>1, <5>2
      <4> QED
        BY <4>1 DEF From
    <3>1. Collecting(p, k)'
      <4>1. \A q \in request[p][k] : Waiting(p, k, q)'
        BY <2>0, <2>2, <3>q, <3>t, <3>n DEF Stage, Collecting
      <4>2. PICK S : S = From(request[p][k], k)
        OBVIOUS
      <4>c. Collecting(p, k)
        BY <2>0, <2>2 DEF Stage
      <4>3. request[p][k] # {} => merged[p][k] = Fill(k, Gradients(S, Ver(p, k) + 1))
        BY <4>2, <4>c DEF Collecting
      <4>4. request'[p][k] = request[p][k] /\ merged'[p][k] = merged[p][k]
        BY <2>2
      <4> QED
        BY <3>v, <3>f, <4>1, <4>2, <4>3, <4>4 DEF Collecting
    <3>2. ~Busy(p, k)
      <4>1. w \notin From(request_tmp[p][k], k)
        <5>1. <<w, round[w][k]>>[1] = w
          OBVIOUS
        <5>2. <<w, round[w][k]>> \notin request_tmp[p][k]
          BY <3>n, <5>1
        <5> QED
          BY <5>2 DEF From
      <4> QED
        BY <2>0, <2>2, <3>r, <4>1 DEF Stage, Forwarded
    <3>3. Forwarded(p, k)'
      BY <2>0, <2>2, <3>2 DEF Stage, Forwarded, Busy, Pushing
    <3>4. SameRound(p, k)'
      BY <2>0, <2>2, <3>a, <3>v DEF Stage, SameRound, Busy
    <3> QED
      BY <2>2, <3>v, <3>1, <3>3, <3>4 DEF Stage
  <2> QED
    BY <2>1, <2>2
<1> QED
  BY <1>1, <1>2, <1>4 DEF LocalInv, Stages

-----------------------------------------------------------------------------
(* Steps of the workers *)

\* The party holds no request of a worker that is not pushing, or has
\* something under way.
LEMMA NotWaitingIf ==
  ASSUME TypeOK, LocalInv, NEW w \in Worker, NEW k \in Key,
         phase[w][k] # "pushing" \/ ~Silent(w, k)
  PROVE  NotWaiting(w, k)
<1>1. PartyOf[w] \in Party
  BY ServerType
<1>2. Stage(PartyOf[w], k)
  BY <1>1 DEF LocalInv, Stages
<1> QED
  BY <1>2 DEF Stage, Collecting, Forwarded, Waiting, NotWaiting

\* The state of the worker and its party before a step of the worker.
LEMMA Before ==
  ASSUME TypeOK, LocalInv, NEW w \in Worker, NEW k \in Key
  PROVE  LET p == PartyOf[w] IN
         /\ WorkerTypeOK /\ NetTypeOK /\ p \in Party /\ w \in WorkersOf(p)
         /\ Rank0[p] \in WorkersOf(p) /\ Rank0[p] \in Worker
         /\ WorkerOK(w, k) /\ Opening(p, k) /\ round[w][k] \in Nat /\ phase[w][k] \in Phases
<1>1. PartyOf[w] \in Party
  BY ServerType
<1>2. WorkerTypeOK /\ NetTypeOK
  BY DEF TypeOK
<1>3. Rank0[PartyOf[w]] \in Worker /\ PartyOf[Rank0[PartyOf[w]]] = PartyOf[w]
  BY <1>1, ConstantsAssumption
<1>4. WorkerOK(w, k) /\ Opening(PartyOf[w], k)
  BY <1>1 DEF LocalInv, Workers, Stages, Stage
<1>5. round[w][k] \in Nat /\ phase[w][k] \in Phases
  BY <1>2, SMTT(20) DEF WorkerTypeOK, Round
<1> QED
  BY <1>1, <1>2, <1>3, <1>4, <1>5 DEF WorkersOf

-----------------------------------------------------------------------------
(* The steps of a worker *)

\* A step of a worker keeps the half of the invariant about workers and their
\* party, and tells no party of a new round.
LEMMA WorkerLocal ==
  TypeOK /\ TypeOK' /\ LocalInv /\ WorkerStep =>
    LocalInv' /\ \A p \in Party, j \in Key : Ver(p, j)' = Ver(p, j)
\* A step of a worker that leaves the popped pulls alone.
<1>PopsFrame.
    ASSUME TypeOK, LocalInv, NEW w \in Worker, NEW k \in Key,
           UNCHANGED <<initialized_, pull_vars>>,
           OthersAlone(w, k), phase[w][k] # "pulling" \/ ~Silent(w, k)
    PROVE  LocalPulls'
  <2> USE <1>PopsFrame
  <2> USE DEF pull_vars
  <2> SUFFICES ASSUME NEW p \in Party
               PROVE  /\ \A m \in pulling[p] : LocalPullOK(p, m)'
                      /\ \A m, n \in pulling[p] : m = n
                      /\ reading[p] => pulling[p] # {}
    BY DEF LocalPulls
  <2>1. ASSUME NEW m \in pulling[p] PROVE LocalPullOK(p, m)'
    <3>1. LocalPullOK(p, m) /\ m.worker \in Worker /\ m.key \in Key
      BY PoppedType DEF TypeOK, LocalInv, LocalPulls
    <3>2. ~(m.worker = w /\ m.key = k)
      BY <3>1 DEF LocalPullOK
    <3>3. SameWorker(m.worker, m.key) /\ (Silent(m.worker, m.key)' <=> Silent(m.worker, m.key))
      BY <3>1, <3>2, WorkerFrame DEF OthersAlone
    <3> QED
      BY <3>1, <3>3 DEF LocalPullOK, SameWorker
  <2> QED
    BY <2>1 DEF LocalInv, LocalPulls
\* A worker that has not pushed or pulled the key has nothing under way.
<1>SilentIf.
    ASSUME TypeOK, LocalInv, NEW w \in Worker, NEW k \in Key,
           phase[w][k] \in {"fresh", "barrier", "idle"}
    PROVE  Silent(w, k)
  <2> USE <1>SilentIf
  <2>1. \A m \in lnet : m.type \in MsgType
    BY DEF TypeOK, NetTypeOK, LocalMsg
  <2> QED
    BY <2>1 DEF LocalInv, Locals, LocalOK, Silent, MsgType
\* A step that moves one worker's key leaves the others alone.
<1>OthersSame.
    ASSUME WorkerTypeOK, NEW w \in Worker, NEW k \in Key, NEW ph, SetPhase(w, k, ph),
           \A m \in lnet \cup lnet' : (m \in lnet <=> m \in lnet') \/ (m.worker = w /\ m.key = k),
           \A v \in Worker, j \in Key :
             v # w \/ j # k => round'[v][j] = round[v][j] /\ pulled'[v][j] = pulled[v][j]
    PROVE  OthersAlone(w, k) /\ phase'[w][k] = ph
  BY <1>OthersSame, SMTT(20) DEF OthersAlone, SetPhase, SameWorker, WorkerTypeOK
\* What a party's opening of a key depends on, in a step of one worker.
<1>OpeningSame.
    ASSUME NEW w \in Worker, NEW k \in Key, OthersAlone(w, k), UNCHANGED <<store_vars, party_vars>>
    PROVE  /\ \A v \in WorkersOf(PartyOf[w]) :
                v # w => phase'[v][k] = phase[v][k] /\ round'[v][k] = round[v][k]
           /\ stored' = stored /\ initialized_' = initialized_
           /\ request' = request /\ request_tmp' = request_tmp
  BY <1>OpeningSame DEF OthersAlone, SameWorker, WorkersOf, store_vars, party_vars
\* The first push of a key.
<1>InitPushInv.
    ASSUME TypeOK, TypeOK', LocalInv, NEW w \in Worker, NEW k \in Key, InitPush(w, k)
    PROVE  LocalInv' /\ \A p \in Party, j \in Key : Ver(p, j)' = Ver(p, j)
  <2> USE <1>InitPushInv
  <2> DEFINE p == PartyOf[w]
             n == LMsg("push", w, k, 0, Fill(k, Unit(w, 0)))
  <2>0. /\ WorkerTypeOK /\ NetTypeOK /\ p \in Party /\ w \in WorkersOf(p)
        /\ WorkerOK(w, k) /\ Opening(p, k) /\ round[w][k] \in Nat
    BY Before
  <2>1. /\ phase[w][k] = "fresh" /\ w = Rank0[p] /\ lnet' = lnet \cup {n}
        /\ SetPhase(w, k, "init_push") /\ round' = round /\ pulled' = pulled
        /\ UNCHANGED <<store_vars, party_vars, pull_vars>>
    BY DEF InitPush, ReadyToInit
  <2>n. n.type = "push" /\ n.worker = w /\ n.key = k /\ n.ts = 0 /\ n.val = Fill(k, Unit(w, 0))
    BY DEF LMsg
  <2> HIDE DEF n
  <2>2. Silent(w, k)
    BY <2>1, <1>SilentIf
  <2>3. OthersAlone(w, k) /\ phase'[w][k] = "init_push"
    <3>1. \A m \in lnet \cup lnet' : (m \in lnet <=> m \in lnet') \/ (m.worker = w /\ m.key = k)
      BY <2>1, <2>n
    <3> QED
      BY <2>0, <2>1, <3>1, <1>OthersSame
  <2>4. NotWaiting(w, k) /\ LocalPulls'
    BY <2>0, <2>1, <2>3, NotWaitingIf, <1>PopsFrame DEF store_vars
  <2>5. WorkerOK(w, k)'
    BY <2>0, <2>1, <2>3 DEF WorkerOK, InitPhases
  <2>6. Acked(w, k)' = Acked(w, k)
    BY <2>1, <2>3 DEF Acked
  <2>7. Opening(p, k)'
    <3>1. /\ \A v \in WorkersOf(p) :
                v # w => phase'[v][k] = phase[v][k] /\ round'[v][k] = round[v][k]
          /\ stored' = stored /\ initialized_' = initialized_
          /\ request' = request /\ request_tmp' = request_tmp
      BY <2>0, <2>1, <2>3, <1>OpeningSame
    <3> QED
      BY <2>0, <2>1, <2>3, <3>1 DEF Opening, InitPhases
  <2>8. \A m \in lnet' : m.worker = w /\ m.key = k => m = n
    BY <2>1, <2>2 DEF Silent
  <2>9. LocalOK(n)'
    BY <2>0, <2>1, <2>3, <2>n DEF LocalOK, WorkerOK, Opening, InitPhases, store_vars
  <2>t. MessagesOK(w, k)' /\ NetTypeOK'
    BY <2>8, <2>9 DEF MessagesOK, TypeOK
  <2> QED
    BY <2>0, <2>1, <2>3, <2>4, <2>5, <2>6, <2>7, <2>t, WorkerStepInv
\* The other workers go straight to the barrier.
<1>InitSkipInv.
    ASSUME TypeOK, TypeOK', LocalInv, NEW w \in Worker, NEW k \in Key, InitSkip(w, k)
    PROVE  LocalInv' /\ \A p \in Party, j \in Key : Ver(p, j)' = Ver(p, j)
  <2> USE <1>InitSkipInv
  <2> DEFINE p == PartyOf[w]
  <2>0. /\ WorkerTypeOK /\ NetTypeOK /\ p \in Party /\ w \in WorkersOf(p)
        /\ Rank0[p] \in WorkersOf(p) /\ Rank0[p] \in Worker
        /\ WorkerOK(w, k) /\ Opening(p, k) /\ round[w][k] \in Nat
    BY Before
  <2>1. /\ phase[w][k] = "fresh" /\ w # Rank0[p] /\ lnet' = lnet
        /\ SetPhase(w, k, "barrier") /\ round' = round /\ pulled' = pulled
        /\ UNCHANGED <<store_vars, party_vars, pull_vars>>
    BY DEF InitSkip, ReadyToInit
  <2>2. Silent(w, k)
    BY <2>1, <1>SilentIf
  <2>3. OthersAlone(w, k) /\ phase'[w][k] = "barrier"
    <3>1. \A m \in lnet \cup lnet' : (m \in lnet <=> m \in lnet') \/ (m.worker = w /\ m.key = k)
      BY <2>1
    <3> QED
      BY <2>0, <2>1, <3>1, <1>OthersSame
  <2>4. NotWaiting(w, k) /\ LocalPulls'
    BY <2>0, <2>1, <2>3, NotWaitingIf, <1>PopsFrame DEF store_vars
  <2>5. WorkerOK(w, k)'
    BY <2>0, <2>1, <2>3 DEF WorkerOK, InitPhases
  <2>6. Acked(w, k)' = Acked(w, k)
    BY <2>1, <2>3 DEF Acked
  <2>7. Opening(p, k)'
    <3>1. /\ \A v \in WorkersOf(p) :
                v # w => phase'[v][k] = phase[v][k] /\ round'[v][k] = round[v][k]
          /\ stored' = stored /\ initialized_' = initialized_
          /\ request' = request /\ request_tmp' = request_tmp
      BY <2>0, <2>1, <2>3, <1>OpeningSame
    <3> QED
      BY <2>0, <2>1, <2>3, <3>1 DEF Opening, InitPhases
  <2>8. \A m \in lnet' : ~(m.worker = w /\ m.key = k)
    BY <2>1, <2>2 DEF Silent
  <2>t. MessagesOK(w, k)' /\ NetTypeOK'
    BY <2>8 DEF MessagesOK, TypeOK
  <2> QED
    BY <2>0, <2>1, <2>3, <2>4, <2>5, <2>6, <2>7, <2>t, WorkerStepInv
\* The first pull of a key.
<1>FirstPullInv.
    ASSUME TypeOK, TypeOK', LocalInv, NEW w \in Worker, NEW k \in Key, FirstPull(w, k)
    PROVE  LocalInv' /\ \A p \in Party, j \in Key : Ver(p, j)' = Ver(p, j)
  <2> USE <1>FirstPullInv
  <2> DEFINE p == PartyOf[w]
             n == LMsg("pull", w, k, 0, NoLoad(k))
  <2>0. /\ WorkerTypeOK /\ NetTypeOK /\ p \in Party /\ w \in WorkersOf(p)
        /\ Rank0[p] \in WorkersOf(p) /\ Rank0[p] \in Worker
        /\ WorkerOK(w, k) /\ Opening(p, k) /\ round[w][k] \in Nat
    BY Before
  <2>1. /\ phase[w][k] = "barrier" /\ lnet' = lnet \cup {n}
        /\ \A v \in WorkersOf(p) : phase[v][k] \notin {"fresh", "init_push"}
        /\ SetPhase(w, k, "pulling") /\ round' = round /\ pulled' = pulled
        /\ UNCHANGED <<store_vars, party_vars, pull_vars>>
    BY DEF FirstPull
  <2>n. n.type = "pull" /\ n.worker = w /\ n.key = k /\ n.ts = 0
    BY DEF LMsg
  <2> HIDE DEF n
  <2>2. Silent(w, k)
    BY <2>1, <1>SilentIf
  <2>3. OthersAlone(w, k) /\ phase'[w][k] = "pulling"
    <3>1. \A m \in lnet \cup lnet' : (m \in lnet <=> m \in lnet') \/ (m.worker = w /\ m.key = k)
      BY <2>1, <2>n
    <3> QED
      BY <2>0, <2>1, <3>1, <1>OthersSame
  <2>4. NotWaiting(w, k) /\ LocalPulls'
    BY <2>0, <2>1, <2>3, NotWaitingIf, <1>PopsFrame DEF store_vars
  <2>5. WorkerOK(w, k)'
    BY <2>0, <2>1, <2>3 DEF WorkerOK, InitPhases
  <2>6. Acked(w, k)' = Acked(w, k)
    BY <2>1, <2>3 DEF Acked
  <2>7. Opening(p, k)'
    <3>1. /\ \A v \in WorkersOf(p) :
                v # w => phase'[v][k] = phase[v][k] /\ round'[v][k] = round[v][k]
          /\ stored' = stored /\ initialized_' = initialized_
          /\ request' = request /\ request_tmp' = request_tmp
      BY <2>0, <2>1, <2>3, <1>OpeningSame
    <3> QED
      BY <2>0, <2>1, <2>3, <3>1 DEF Opening, InitPhases
  <2>8. \A m \in lnet' : m.worker = w /\ m.key = k => m = n
    BY <2>1, <2>2 DEF Silent
  <2>9. LocalOK(n)'
    BY <2>0, <2>1, <2>3, <2>n DEF LocalOK, WorkerOK, InitPhases
  <2>t. MessagesOK(w, k)' /\ NetTypeOK'
    BY <2>8, <2>9 DEF MessagesOK, TypeOK
  <2> QED
    BY <2>0, <2>1, <2>3, <2>4, <2>5, <2>6, <2>7, <2>t, WorkerStepInv
\* A worker's push of its gradient starts a round.
<1>PushGradientInv.
    ASSUME TypeOK, TypeOK', LocalInv, NEW w \in Worker, NEW k \in Key, PushGradient(w, k)
    PROVE  LocalInv' /\ \A p \in Party, j \in Key : Ver(p, j)' = Ver(p, j)
  <2> USE <1>PushGradientInv
  <2> DEFINE p == PartyOf[w]
  <2>0. /\ WorkerTypeOK /\ NetTypeOK /\ p \in Party /\ w \in WorkersOf(p)
        /\ Rank0[p] \in WorkersOf(p) /\ Rank0[p] \in Worker
        /\ WorkerOK(w, k) /\ Opening(p, k) /\ round[w][k] \in Nat
    BY Before
  <2>p. PICK r \in Nat : r = round[w][k] + 1
    BY <2>0, SMTT(20)
  <2>l. PICK n : n = LMsg("push", w, k, r, Fill(k, Unit(w, r)))
    OBVIOUS
  <2>n. n.type = "push" /\ n.worker = w /\ n.key = k /\ n.ts = r /\ n.val = Fill(k, Unit(w, r))
    BY <2>l DEF LMsg
  <2>1. /\ phase[w][k] = "idle" /\ lnet' = lnet \cup {n}
        /\ SetPhase(w, k, "pushing") /\ round' = [round EXCEPT ![w][k] = r] /\ pulled' = pulled
        /\ UNCHANGED <<store_vars, party_vars, pull_vars>>
    BY <2>p, <2>l DEF PushGradient
  <2>r. /\ round'[w][k] = r
        /\ \A v \in Worker, j \in Key : v # w \/ j # k => round'[v][j] = round[v][j]
    BY <2>0, <2>1 DEF WorkerTypeOK
  <2>2. Silent(w, k)
    BY <2>1, <1>SilentIf
  <2>3. OthersAlone(w, k) /\ phase'[w][k] = "pushing"
    <3>1. \A m \in lnet \cup lnet' : (m \in lnet <=> m \in lnet') \/ (m.worker = w /\ m.key = k)
      BY <2>1, <2>n
    <3> QED
      BY <2>0, <2>1, <3>1, <1>OthersSame, <2>r, SMTT(20)
  <2>4. NotWaiting(w, k) /\ LocalPulls'
    BY <2>0, <2>1, <2>3, NotWaitingIf, <1>PopsFrame DEF store_vars
  <2>5. WorkerOK(w, k)'
    BY <2>0, <2>1, <2>3, <2>p, <2>r, SMTT(20) DEF WorkerOK, InitPhases
  <2>8. \A m \in lnet' : m.worker = w /\ m.key = k => m = n
    BY <2>1, <2>2 DEF Silent
  <2>6. Acked(w, k)' = Acked(w, k)
    <3>1. ~Acknowledged(w, k)'
      BY <2>8, <2>n DEF Acknowledged
    <3> QED
      BY <2>0, <2>1, <2>3, <2>p, <2>r, <3>1, SMTT(20) DEF Acked
  <2>7. Opening(p, k)'
    <3>1. /\ \A v \in WorkersOf(p) :
                v # w => phase'[v][k] = phase[v][k] /\ round'[v][k] = round[v][k]
          /\ stored' = stored /\ initialized_' = initialized_
          /\ request' = request /\ request_tmp' = request_tmp
      BY <2>0, <2>1, <2>3, <1>OpeningSame
    <3> QED
      BY <2>0, <2>1, <2>3, <3>1 DEF Opening, InitPhases
  <2>9. LocalOK(n)'
    BY <2>0, <2>1, <2>3, <2>n, <2>r DEF LocalOK
  <2>t. MessagesOK(w, k)' /\ NetTypeOK'
    BY <2>8, <2>9 DEF MessagesOK, TypeOK
  <2> QED
    BY <2>0, <2>1, <2>3, <2>4, <2>5, <2>6, <2>7, <2>t, WorkerStepInv
\* The answer to the first push of a key.
<1>InitAckedInv.
    ASSUME TypeOK, TypeOK', LocalInv, NEW m \in lnet, InitAcked(m)
    PROVE  LocalInv' /\ \A p \in Party, j \in Key : Ver(p, j)' = Ver(p, j)
  <2> USE <1>InitAckedInv
  <2> DEFINE w == m.worker
             k == m.key
             p == PartyOf[w]
  <2>m. w \in Worker /\ k \in Key /\ LocalOK(m) /\ ~Silent(w, k)
    BY LocalMsgType DEF TypeOK, LocalInv, Locals, Silent
  <2>0. /\ WorkerTypeOK /\ NetTypeOK /\ p \in Party /\ w \in WorkersOf(p)
        /\ Rank0[p] \in WorkersOf(p) /\ Rank0[p] \in Worker
        /\ WorkerOK(w, k) /\ Opening(p, k) /\ round[w][k] \in Nat
    BY <2>m, Before
  <2>1. /\ m.type = "push_ack" /\ phase[w][k] = "init_push" /\ lnet' = lnet \ {m}
        /\ SetPhase(w, k, "barrier") /\ round' = round /\ pulled' = pulled
        /\ UNCHANGED <<store_vars, party_vars, pull_vars>>
    BY DEF InitAcked
  <2> HIDE DEF w, k
  <2>3. OthersAlone(w, k) /\ phase'[w][k] = "barrier"
    <3>1. \A l \in lnet \cup lnet' : (l \in lnet <=> l \in lnet') \/ (l.worker = w /\ l.key = k)
      BY <2>1 DEF w, k
    <3> QED
      BY <2>0, <2>1, <3>1, <1>OthersSame, <2>m
  <2>4. NotWaiting(w, k) /\ LocalPulls'
    BY <2>0, <2>1, <2>3, <2>m, NotWaitingIf, <1>PopsFrame DEF store_vars
  <2>5. WorkerOK(w, k)'
    BY <2>0, <2>1, <2>3 DEF WorkerOK, InitPhases
  <2>6. Acked(w, k)' = Acked(w, k)
    BY <2>1, <2>3 DEF Acked
  <2>7. Opening(p, k)'
    <3>1. k \in stored[p] /\ w = Rank0[p]
      BY <2>0, <2>1, <2>m DEF LocalOK, WorkerOK, w, k
    <3>2. /\ \A v \in WorkersOf(p) :
                v # w => phase'[v][k] = phase[v][k] /\ round'[v][k] = round[v][k]
          /\ stored' = stored /\ initialized_' = initialized_
          /\ request' = request /\ request_tmp' = request_tmp
      BY <2>1, <2>3, <2>m, <1>OpeningSame
    <3> QED
      BY <2>0, <2>1, <2>3, <3>1, <3>2 DEF Opening, InitPhases
  <2>8. \A n \in lnet' : ~(n.worker = w /\ n.key = k)
    BY <2>1 DEF LocalInv, Locals, w, k
  <2>t. MessagesOK(w, k)' /\ NetTypeOK'
    BY <2>8 DEF MessagesOK, TypeOK
  <2> QED
    BY <2>0, <2>1, <2>3, <2>4, <2>5, <2>6, <2>7, <2>t, <2>m, WorkerStepInv
\* The answer to the push of a gradient starts the pull.
<1>PushAckedInv.
    ASSUME TypeOK, TypeOK', LocalInv, NEW m \in lnet, PushAcked(m)
    PROVE  LocalInv' /\ \A p \in Party, j \in Key : Ver(p, j)' = Ver(p, j)
  <2> USE <1>PushAckedInv
  <2> DEFINE w == m.worker
             k == m.key
             p == PartyOf[w]
             n == LMsg("pull", w, k, m.ts, NoLoad(k))
  <2>m. w \in Worker /\ k \in Key /\ LocalOK(m) /\ ~Silent(w, k)
    BY LocalMsgType DEF TypeOK, LocalInv, Locals, Silent
  <2>0. /\ WorkerTypeOK /\ NetTypeOK /\ p \in Party /\ w \in WorkersOf(p)
        /\ Rank0[p] \in WorkersOf(p) /\ Rank0[p] \in Worker
        /\ WorkerOK(w, k) /\ Opening(p, k) /\ round[w][k] \in Nat
    BY <2>m, Before
  <2>1. /\ m.type = "push_ack" /\ phase[w][k] = "pushing" /\ lnet' = (lnet \ {m}) \cup {n}
        /\ SetPhase(w, k, "pulling") /\ round' = round /\ pulled' = pulled
        /\ UNCHANGED <<store_vars, party_vars, pull_vars>>
    BY DEF PushAcked
  <2>n. n.type = "pull" /\ n.worker = w /\ n.key = k /\ n.ts = m.ts
    BY DEF LMsg
  <2> HIDE DEF w, k, n
  <2>3. OthersAlone(w, k) /\ phase'[w][k] = "pulling"
    <3>1. \A l \in lnet \cup lnet' : (l \in lnet <=> l \in lnet') \/ (l.worker = w /\ l.key = k)
      BY <2>1, <2>n DEF w, k
    <3> QED
      BY <2>0, <2>1, <3>1, <1>OthersSame, <2>m
  <2>4. NotWaiting(w, k) /\ LocalPulls'
    BY <2>0, <2>1, <2>3, <2>m, NotWaitingIf, <1>PopsFrame DEF store_vars
  <2>5. WorkerOK(w, k)'
    BY <2>0, <2>1, <2>3 DEF WorkerOK, InitPhases
  <2>6. Acked(w, k)' = Acked(w, k)
    <3>1. Acknowledged(w, k)
      BY <2>1 DEF Acknowledged, w, k
    <3> QED
      BY <2>1, <2>3, <3>1 DEF Acked
  <2>7. Opening(p, k)'
    <3>1. /\ \A v \in WorkersOf(p) :
                v # w => phase'[v][k] = phase[v][k] /\ round'[v][k] = round[v][k]
          /\ stored' = stored /\ initialized_' = initialized_
          /\ request' = request /\ request_tmp' = request_tmp
      BY <2>0, <2>1, <2>3, <2>m, <1>OpeningSame
    <3> QED
      BY <2>0, <2>1, <2>3, <2>m, <3>1 DEF Opening, InitPhases
  <2>8. \A l \in lnet' : l.worker = w /\ l.key = k => l = n
    BY <2>1 DEF LocalInv, Locals, w, k
  <2>9. LocalOK(n)'
    BY <2>1, <2>3, <2>n, <2>m DEF LocalOK, w, k
  <2>t. MessagesOK(w, k)' /\ NetTypeOK'
    BY <2>8, <2>9 DEF MessagesOK, TypeOK
  <2> QED
    BY <2>0, <2>1, <2>3, <2>4, <2>5, <2>6, <2>7, <2>t, <2>m, WorkerStepInv
\* The answer to a pull brings the weights.
<1>PullDoneInv.
    ASSUME TypeOK, TypeOK', LocalInv, NEW m \in lnet, PullDone(m)
    PROVE  LocalInv' /\ \A p \in Party, j \in Key : Ver(p, j)' = Ver(p, j)
  <2> USE <1>PullDoneInv
  <2> DEFINE w == m.worker
             k == m.key
             p == PartyOf[w]
  <2>m. w \in Worker /\ k \in Key /\ LocalOK(m) /\ ~Silent(w, k)
    BY LocalMsgType DEF TypeOK, LocalInv, Locals, Silent
  <2>0. /\ WorkerTypeOK /\ NetTypeOK /\ p \in Party /\ w \in WorkersOf(p)
        /\ Rank0[p] \in WorkersOf(p) /\ Rank0[p] \in Worker
        /\ WorkerOK(w, k) /\ Opening(p, k) /\ round[w][k] \in Nat
    BY <2>m, Before
  <2>1. /\ m.type = "pull_data" /\ lnet' = lnet \ {m} /\ SetPhase(w, k, "idle")
        /\ round' = round /\ pulled' = [pulled EXCEPT ![w][k] = m.val]
        /\ UNCHANGED <<store_vars, party_vars, pull_vars>>
    BY DEF PullDone
  <2>r. /\ pulled'[w][k] = m.val
        /\ \A v \in Worker, j \in Key : v # w \/ j # k => pulled'[v][j] = pulled[v][j]
    BY <2>0, <2>1, <2>m DEF WorkerTypeOK
  <2>2. /\ phase[w][k] = "pulling" /\ k \in initialized_[p] /\ m.ts = round[w][k]
        /\ m.val = Fill(k, Weight(round[w][k]))
    BY <2>1, <2>m DEF LocalOK
  <2> HIDE DEF w, k
  <2>3. OthersAlone(w, k) /\ phase'[w][k] = "idle"
    <3>1. \A l \in lnet \cup lnet' : (l \in lnet <=> l \in lnet') \/ (l.worker = w /\ l.key = k)
      BY <2>1 DEF w, k
    <3> QED
      BY <2>0, <2>1, <3>1, <1>OthersSame, <2>m, <2>r, SMTT(20)
  <2>4. NotWaiting(w, k) /\ LocalPulls'
    BY <2>0, <2>1, <2>3, <2>m, NotWaitingIf, <1>PopsFrame DEF store_vars
  <2>5. WorkerOK(w, k)'
    BY <2>0, <2>1, <2>2, <2>3, <2>r DEF WorkerOK, InitPhases
  <2>6. Acked(w, k)' = Acked(w, k)
    BY <2>1, <2>2, <2>3 DEF Acked
  <2>7. Opening(p, k)'
    <3>1. /\ \A v \in WorkersOf(p) :
                v # w => phase'[v][k] = phase[v][k] /\ round'[v][k] = round[v][k]
          /\ stored' = stored /\ initialized_' = initialized_
          /\ request' = request /\ request_tmp' = request_tmp
      BY <2>0, <2>1, <2>2, <2>3, <2>m, <1>OpeningSame
    <3> QED
      BY <2>0, <2>1, <2>2, <2>3, <2>m, <3>1 DEF Opening, InitPhases
  <2>8. \A n \in lnet' : ~(n.worker = w /\ n.key = k)
    BY <2>1 DEF LocalInv, Locals, w, k
  <2>t. MessagesOK(w, k)' /\ NetTypeOK'
    BY <2>8 DEF MessagesOK, TypeOK
  <2> QED
    BY <2>0, <2>1, <2>3, <2>4, <2>5, <2>6, <2>7, <2>t, <2>m, WorkerStepInv
<1> QED
  BY <1>InitPushInv, <1>InitSkipInv, <1>FirstPullInv, <1>PushGradientInv, <1>InitAckedInv,
     <1>PushAckedInv,
     <1>PullDoneInv DEF WorkerStep

\* A message of the local plane is none of the global plane.
LEMMA PlanesApart ==
  ASSUME NetTypeOK, NEW m
  PROVE  /\ (\E k \in Key : m \in LocalMsg(k)) => gnet \ {m} = gnet
         /\ m \in GlobalMsg => lnet \ {m} = lnet
<1>1. ~((\E k \in Key : m \in LocalMsg(k)) /\ m \in GlobalMsg)
  BY SMTT(20) DEF LocalMsg, GlobalMsg
<1> QED
  BY <1>1 DEF NetTypeOK

\* It pops a pull.
LEMMA LocalPopInv ==
  ASSUME TypeOK, TypeOK', LocalInv, NEW p \in Party, NEW m \in PullRequests(p), PullPop(p, m)
  PROVE  LocalInv' /\ gnet' = gnet /\ \A q \in Party, j \in Key : Ver(q, j)' = Ver(q, j)
<1> DEFINE w == m.worker
           k == m.key
<1>1. /\ m \in lnet /\ m.type = "pull" /\ PartyOf[w] = p /\ pulling[p] = {}
      /\ pulling' = [pulling EXCEPT ![p] = {m}] /\ lnet' = lnet \ {m}
      /\ reading' = reading /\ gnet' = gnet \ {m}
      /\ UNCHANGED <<worker_vars, store_vars, party_vars>>
  BY DEF PullPop, PullRequests
<1>m. w \in Worker /\ k \in Key /\ LocalOK(m) /\ ~Silent(w, k)
  BY <1>1, LocalMsgType DEF TypeOK, LocalInv, Locals, Silent
<1>g. gnet' = gnet
  <2>1. \E j \in Key : m \in LocalMsg(j)
    BY <1>1 DEF TypeOK, NetTypeOK
  <2> QED
    BY <1>1, <2>1, PlanesApart DEF TypeOK
<1>0. WorkerOK(w, k) /\ Opening(p, k) /\ WorkerTypeOK
  BY <1>1, <1>m, Before
<1>2. /\ phase[w][k] = "pulling" /\ m.ts = round[w][k]
      /\ phase' = phase /\ round' = round /\ pulled' = pulled
  BY <1>1, <1>m DEF LocalOK, worker_vars
<1>5. Silent(w, k)'
  BY <1>1 DEF Silent, LocalInv, Locals
<1>3. OthersAlone(w, k)
  BY <1>1, <1>2 DEF OthersAlone, SameWorker
<1>4. NotWaiting(w, k)
  BY <1>m, NotWaitingIf
<1>6. LocalPulls'
  <2>1. ASSUME NEW q \in Party, q # p
        PROVE  /\ \A n \in pulling'[q] : LocalPullOK(q, n)'
               /\ \A n, l \in pulling'[q] : n = l
               /\ reading'[q] => pulling'[q] # {}
    <3>1. pulling'[q] = pulling[q]
      BY <1>1, <2>1, SMTT(20) DEF TypeOK, PullTypeOK
    <3>2. ASSUME NEW n \in pulling[q] PROVE LocalPullOK(q, n)'
      <4>1. LocalPullOK(q, n) /\ n.worker \in Worker /\ n.key \in Key
        BY PoppedType DEF TypeOK, LocalInv, LocalPulls
      <4>2. SameWorker(n.worker, n.key)
        BY <1>1, <1>3, <2>1, <4>1 DEF LocalPullOK, OthersAlone
      <4> QED
        BY <1>1, <4>1, <4>2, WorkerFrame DEF LocalPullOK, SameWorker, store_vars
    <3> QED
      BY <1>1, <3>1, <3>2 DEF LocalInv, LocalPulls
  <2>2. pulling'[p] = {m}
    BY <1>1, ServerType DEF TypeOK, PullTypeOK
  <2>3. ~reading[p]
    BY <1>1 DEF LocalInv, LocalPulls
  <2>4. LocalPullOK(p, m)'
    BY <1>1, <1>2, <1>5, <2>3 DEF LocalPullOK
  <2>5. ASSUME NEW q \in Party
        PROVE  /\ \A n \in pulling'[q] : LocalPullOK(q, n)'
               /\ \A n, l \in pulling'[q] : n = l
               /\ reading'[q] => pulling'[q] # {}
    <3>1. CASE q = p
      BY <2>2, <2>4, <3>1
    <3>2. CASE q # p
      BY <2>1, <3>2
    <3> QED
      BY <3>1, <3>2
  <2> QED
    BY <2>5 DEF LocalPulls
<1>7. Opening(p, k)' /\ WorkerOK(w, k)'
  BY <1>0, <1>1, <1>2 DEF Opening, WorkerOK, store_vars, party_vars
<1>8. Acked(w, k)' = Acked(w, k)
  BY <1>2 DEF Acked
<1>9. MessagesOK(w, k)' /\ NetTypeOK'
  BY <1>5 DEF MessagesOK, Silent, TypeOK
<1> QED
  BY <1>1, <1>m, <1>g, <1>3, <1>4, <1>6, <1>7, <1>8, <1>9, WorkerStepInv

\* A worker that waits for a pull, or is between rounds, has been told of all
\* its party's rounds, and the party has the weights of that round.
LEMMA ServedWeights ==
  ASSUME TypeOK, LocalInv, NEW w \in Worker, NEW k \in Key, phase[w][k] = "pulling",
         k \in initialized_[PartyOf[w]]
  PROVE  store_[PartyOf[w]][k] = Fill(k, Weight(round[w][k])) /\ ~Busy(PartyOf[w], k)
<1> DEFINE p == PartyOf[w]
<1>1. p \in Party /\ w \in WorkersOf(p)
  BY ServerType DEF WorkersOf
<1>2. Stage(p, k)
  BY <1>1 DEF LocalInv, Stages
<1>3. Ver(p, k) = round[w][k]
  BY <1>1, <1>2 DEF Stage, SameRound, Acked
<1>4. NotWaiting(w, k)
  BY NotWaitingIf
<1>5. w \notin From(request_tmp[p][k], k)
  BY <1>4, SMTT(20) DEF NotWaiting, From
<1>6. ~Busy(p, k)
  BY <1>1, <1>2, <1>5 DEF Stage, Forwarded
<1> QED
  BY <1>2, <1>3, <1>6 DEF Stage, SameRound

\* The pull waits for the key to be opened.
LEMMA LocalReadInv ==
  ASSUME TypeOK, TypeOK', LocalInv, NEW p \in Party, NEW m \in pulling[p], PullRead(p, m)
  PROVE  LocalInv' /\ \A q \in Party, j \in Key : Ver(q, j)' = Ver(q, j)
<1> DEFINE w == m.worker
           k == m.key
<1>1. /\ k \in initialized_[p] /\ reading' = [reading EXCEPT ![p] = TRUE]
      /\ pulling' = pulling /\ lnet' = lnet
      /\ UNCHANGED <<worker_vars, store_vars, party_vars>>
  BY DEF PullRead
<1>m. w \in Worker /\ k \in Key /\ LocalPullOK(p, m) /\ PartyOf[w] = p
  BY PoppedType, SMTT(20) DEF TypeOK, LocalInv, LocalPulls, LocalPullOK
<1>0. WorkerOK(w, k) /\ Opening(p, k)
  BY <1>m, Before
<1>2. /\ phase[w][k] = "pulling" /\ Silent(w, k)
      /\ phase' = phase /\ round' = round /\ pulled' = pulled
  BY <1>1, <1>m DEF LocalPullOK, worker_vars
<1>3. OthersAlone(w, k)
  BY <1>1, <1>2 DEF OthersAlone, SameWorker
<1>4. NotWaiting(w, k)
  BY <1>2, <1>m, NotWaitingIf
<1>6. LocalPulls'
  <2>1. \A q \in Party : reading'[q] => reading[q] \/ q = p
    BY <1>1, ServerType DEF TypeOK, PullTypeOK
  <2>2. \A n \in pulling[p] : n = m
    BY DEF LocalInv, LocalPulls
  <2>3. ASSUME NEW q \in Party, NEW n \in pulling[q] PROVE LocalPullOK(q, n)'
    <3>1. LocalPullOK(q, n)
      BY DEF LocalInv, LocalPulls
    <3>2. reading'[q] => n.key \in initialized_'[q]
      BY <1>1, <2>1, <2>2, <3>1 DEF LocalPullOK, store_vars
    <3>3. Silent(n.worker, n.key)' <=> Silent(n.worker, n.key)
      BY <1>1 DEF Silent
    <3> QED
      BY <1>2, <3>1, <3>2, <3>3 DEF LocalPullOK
  <2> QED
    BY <1>1, <2>1, <2>3 DEF LocalInv, LocalPulls
<1>7. Opening(p, k)' /\ WorkerOK(w, k)'
  BY <1>0, <1>1, <1>2 DEF Opening, WorkerOK, store_vars, party_vars
<1>8. Acked(w, k)' = Acked(w, k)
  BY <1>2 DEF Acked
<1>9. MessagesOK(w, k)' /\ NetTypeOK'
  BY <1>1, <1>2 DEF MessagesOK, Silent, TypeOK
<1> QED
  BY <1>1, <1>m, <1>3, <1>4, <1>6, <1>7, <1>8, <1>9, WorkerStepInv

\* The pull is answered with the weights of the worker's round.
LEMMA LocalRespondInv ==
  ASSUME TypeOK, TypeOK', LocalInv, NEW p \in Party, NEW m \in pulling[p], PullRespond(p, m)
  PROVE  LocalInv' /\ gnet' = gnet /\ \A q \in Party, j \in Key : Ver(q, j)' = Ver(q, j)
<1> DEFINE w == m.worker
           k == m.key
<1>l. PICK n : n = LMsg("pull_data", m.worker, m.key, m.ts, store_[p][m.key])
  OBVIOUS
<1>n. n.type = "pull_data" /\ n.worker = w /\ n.key = k /\ n.ts = m.ts /\ n.val = store_[p][k]
  BY <1>l DEF LMsg
<1>1. /\ reading[p] /\ lnet' = lnet \cup {n} /\ gnet' = gnet
      /\ reading' = [reading EXCEPT ![p] = FALSE]
      /\ pulling' = [pulling EXCEPT ![p] = {}]
      /\ UNCHANGED <<worker_vars, store_vars, party_vars>>
  BY <1>l DEF PullRespond
<1>m. w \in Worker /\ k \in Key /\ LocalPullOK(p, m) /\ PartyOf[w] = p
  BY PoppedType DEF TypeOK, LocalInv, LocalPulls, LocalPullOK
<1>0. WorkerOK(w, k) /\ Opening(p, k)
  BY <1>m, Before
<1>2. /\ phase[w][k] = "pulling" /\ Silent(w, k) /\ m.ts = round[w][k] /\ k \in initialized_[p]
      /\ phase' = phase /\ round' = round /\ pulled' = pulled
  BY <1>1, <1>m DEF LocalPullOK, worker_vars
<1>3. OthersAlone(w, k)
  BY <1>1, <1>2, <1>n DEF OthersAlone, SameWorker
<1>4. NotWaiting(w, k)
  BY <1>2, <1>m, NotWaitingIf
<1>6. LocalPulls'
  <2>1. /\ pulling'[p] = {} /\ ~reading'[p]
        /\ \A q \in Party : q # p => pulling'[q] = pulling[q] /\ reading'[q] = reading[q]
    BY <1>1, ServerType DEF TypeOK, PullTypeOK
  <2>2. ASSUME NEW q \in Party, q # p, NEW l \in pulling[q] PROVE LocalPullOK(q, l)'
    <3>1. LocalPullOK(q, l) /\ l.worker \in Worker /\ l.key \in Key
      BY PoppedType DEF TypeOK, LocalInv, LocalPulls
    <3>2. SameWorker(l.worker, l.key)
      BY <1>m, <1>3, <2>2, <3>1 DEF LocalPullOK, OthersAlone
    <3> QED
      BY <1>1, <2>1, <2>2, <3>1, <3>2, WorkerFrame DEF LocalPullOK, SameWorker, store_vars
  <2> QED
    BY <2>1, <2>2, SMTT(20) DEF LocalInv, LocalPulls
<1>7. Opening(p, k)' /\ WorkerOK(w, k)'
  BY <1>0, <1>1, <1>2 DEF Opening, WorkerOK, store_vars, party_vars
<1>8. Acked(w, k)' = Acked(w, k)
  BY <1>2 DEF Acked
<1>5. LocalOK(n)'
  <2>1. store_[p][k] = Fill(k, Weight(round[w][k]))
    BY <1>m, <1>2, ServedWeights
  <2> QED
    BY <1>1, <1>2, <1>m, <1>n, <2>1 DEF LocalOK, store_vars
<1>9. MessagesOK(w, k)' /\ NetTypeOK'
  BY <1>1, <1>2, <1>5 DEF MessagesOK, Silent, TypeOK
<1> QED
  BY <1>1, <1>m, <1>3, <1>4, <1>6, <1>7, <1>8, <1>9, WorkerStepInv

-----------------------------------------------------------------------------
(* Pushes at a party *)

\* A step that leaves all other parties and keys alone.
PartyAlone(p, k) ==
  \A q \in Party, j \in Key :
    q # p \/ j # k => SameParty(q, j) /\ \A w \in WorkersOf(q) : SameWorker(w, j)

\* Entries of the servers' tables that a step on one of them leaves alone.
LEMMA OtherEntries ==
  ASSUME NEW F, NEW G, NEW x, NEW s \in Server, NEW k \in Key, DOMAIN F = Server,
         DOMAIN F[s] = Key, G = [F EXCEPT ![s][k] = x]
  PROVE  /\ G[s][k] = x
         /\ \A t \in Server, j \in Key : t # s \/ j # k => G[t][j] = F[t][j]
OBVIOUS

-----------------------------------------------------------------------------
(* The steps of a party that write its tables *)

\* What the handler of a push leaves when it merges the gradients, when it also
\* forwards them (the answers wait in request_tmp), and when it opens a key; and
\* what the last part of a pull from the global servers leaves.
Aggregates == LocalInv' /\ \A p \in Party, j \in Key : Ver(p, j)' = Ver(p, j)
Forwards(m) ==
  LET k == m.key  p == PartyOf[m.worker] IN
  /\ LocalInv' /\ \A q \in Party, j \in Key : Ver(q, j)' = Ver(q, j)
  /\ p \in Party /\ k \in Key /\ k \in initialized_[p] /\ ~Busy(p, k) /\ Busy(p, k)'
  /\ Ver(p, k) \in Nat
  /\ \A q \in Party, j \in Key : q # p \/ j # k => (Busy(q, j)' <=> Busy(q, j))
  /\ Merge(p, k, m.val) = Fill(k, Gradients(WorkersOf(p), Ver(p, k) + 1))
Opens(m) ==
  LET k == m.key  p == PartyOf[m.worker] IN
  /\ LocalInv' /\ \A q \in Party, j \in Key : Ver(q, j)' = Ver(q, j)
  /\ p \in Party /\ k \in Key /\ k \notin initialized_[p] /\ ~Pushing(p, k)
Returns(m) ==
  LET k == m.key  p == m.peer IN
  /\ LocalInv' /\ Ver(p, k)' = Due(p, k) /\ ~Busy(p, k)'
  /\ k \in initialized_'[p]
  /\ \A q \in Party, j \in Key :
       q # p \/ j # k => /\ Ver(q, j)' = Ver(q, j) /\ (Busy(q, j)' <=> Busy(q, j))
                         /\ j \in initialized_'[q] <=> j \in initialized_[q]

\* The party's pull may be under way, and all its parts are of the version due.
FullPull(m) ==
  /\ m.key \in stored[m.peer] /\ (m.key \in initialized_[m.peer] => Busy(m.peer, m.key))
  /\ ~Pushing(m.peer, m.key) /\ \A g \in ShardsOf[m.key] : m.key \in stored[g]
  /\ Assemble(m.key, m) = Fill(m.key, Weight(Due(m.peer, m.key)))

\* As many different things as there are places fill all places.
LEMMA Covering ==
  ASSUME Counting, NEW S, NEW T, IsFiniteSet(T), NEW f \in [S -> T],
         \A x, y \in S : f[x] = f[y] => x = y,
         Cardinality(S) = Cardinality(T)
  PROVE  \A t \in T : \E s \in S : f[s] = t
BY SMTT(20) DEF Counting

\* These steps keep the half of the invariant about workers and their party.
LEMMA PartyLocal ==
  ASSUME Counting
  PROVE  TypeOK /\ TypeOK' /\ LocalInv =>
           /\ \A m \in lnet : LocalAggregate(m) => Aggregates
           /\ \A m \in lnet : LocalForward(m) => Forwards(m)
           /\ \A m \in lnet : LocalInit(m) => Opens(m)
           /\ \A m \in gnet : PullResponseLast(m) /\ FullPull(m) => Returns(m)
\* A sum that gets one more gradient.
<1>OneMoreGradient.
    ASSUME NEW S, NEW w \in Worker, w \notin S, NEW r \in Round
    PROVE  Plus(Gradients(S, r), Unit(w, r)) = Gradients(S \cup {w}, r)
  <2> USE <1>OneMoreGradient
  <2>1. \A a \in Atom : a = <<w, r>> <=> a[1] = w /\ a[2] = r
    BY SMTT(20) DEF Atom
  <2>2. ASSUME NEW a \in Atom
        PROVE  (IF a[1] \in S /\ a[2] = r THEN 1 ELSE 0) + (IF a = <<w, r>> THEN 1 ELSE 0)
                 = IF a[1] \in S \cup {w} /\ a[2] = r THEN 1 ELSE 0
    BY <2>1, SMTT(20)
  <2> QED
    BY <2>2 DEF Plus, Gradients, Unit
\* One gradient is a sum.
<1>OneGradient.
    ASSUME NEW w \in Worker, NEW r \in Round
    PROVE  Unit(w, r) = Gradients({w}, r)
  <2> USE <1>OneGradient
  <2>1. \A a \in Atom : a = <<w, r>> <=> a[1] = w /\ a[2] = r
    BY SMTT(20) DEF Atom
  <2> QED
    BY <2>1 DEF Unit, Gradients
\* Whole tensors are sliced and added up shard by shard.
<1>FillPlus.
    ASSUME NEW k \in Key, NEW c, NEW d
    PROVE  /\ PlusArray(k, Fill(k, c), Fill(k, d)) = Fill(k, Plus(c, d))
           /\ \A g \in ShardsOf[k] : Slice(Fill(k, c), g) = c
  BY <1>FillPlus DEF PlusArray, Fill, Slice
\* A step of a party on a key.
<1>PartyStepInv.
    ASSUME TypeOK, LocalInv, NEW p \in Party, NEW k \in Key, PartyAlone(p, k),
           UNCHANGED worker_vars, Stage(p, k)', Locals', LocalPulls'
    PROVE  LocalInv' /\ \A q \in Party, j \in Key : q # p \/ j # k => Ver(q, j)' = Ver(q, j)
  <2> USE <1>PartyStepInv
  <2>1. Workers'
    BY DEF LocalInv, Workers, WorkerOK, worker_vars
  <2>2. ASSUME NEW q \in Party, NEW j \in Key, q # p \/ j # k
        PROVE  Stage(q, j)' /\ Ver(q, j)' = Ver(q, j)
    <3>1. RequestsTypeOK(request) /\ PartyTypeOK /\ Stage(q, j)
      BY DEF TypeOK, StoreTypeOK, LocalInv, Stages
    <3>2. SameParty(q, j) /\ \A w \in WorkersOf(q) : SameWorker(w, j)
      BY <2>2 DEF PartyAlone
    <3> QED
      BY <3>1, <3>2, StageFrame
  <2>3. Stages'
    BY <2>2 DEF Stages
  <2> QED
    BY <2>1, <2>2, <2>3 DEF LocalInv
\* The popped pulls stay right while their workers get no message.
<1>PopsKept.
    ASSUME TypeOK, LocalInv, UNCHANGED <<worker_vars, pull_vars>>,
           \A q \in Party : initialized_[q] \subseteq initialized_'[q],
           \A w \in Worker, j \in Key : phase[w][j] = "pulling" /\ Silent(w, j) => Silent(w, j)'
    PROVE  LocalPulls'
  <2> USE <1>PopsKept
  <2>1. ASSUME NEW q \in Party, NEW m \in pulling[q] PROVE LocalPullOK(q, m)'
    <3>1. LocalPullOK(q, m) /\ m.worker \in Worker /\ m.key \in Key
      BY PoppedType DEF TypeOK, LocalInv, LocalPulls
    <3> QED
      BY <3>1 DEF LocalPullOK, worker_vars, pull_vars
  <2> QED
    BY <2>1 DEF LocalInv, LocalPulls, pull_vars
\* A push of a key that the party has is the gradient of the round after Ver,
\* from a worker that the party has no request of, and it completes the sum.
<1>PushFacts.
    ASSUME TypeOK, LocalInv, NEW m \in lnet, m.type = "push", m.key \in stored[PartyOf[m.worker]]
    PROVE  LET w == m.worker  k == m.key  p == PartyOf[w]
               reqs == request[p][k] \cup {Meta(m)} IN
           /\ w \in Worker /\ k \in Key /\ p \in Party /\ LocalOK(m)
           /\ Stage(p, k) /\ ~Silent(w, k) /\ NotWaiting(w, k)
           /\ phase[w][k] = "pushing" /\ m.ts = round[w][k] /\ ~Acknowledged(w, k)
           /\ k \in initialized_[p] /\ ~Busy(p, k) /\ ~Pushing(p, k)
           /\ Ver(p, k) \in Nat /\ Ver(p, k) + 1 = round[w][k]
           /\ From(reqs, k) = From(request[p][k], k) \cup {w}
           /\ Merge(p, k, m.val) = Fill(k, Gradients(From(reqs, k), Ver(p, k) + 1))
  <2> USE <1>PushFacts
  <2> DEFINE w == m.worker
             k == m.key
             p == PartyOf[w]
             reqs == request[p][k] \cup {Meta(m)}
  <2>1. w \in Worker /\ k \in Key /\ LocalOK(m) /\ ~Silent(w, k)
    BY LocalMsgType DEF TypeOK, LocalInv, Locals, Silent
  <2>2. /\ p \in Party /\ w \in WorkersOf(p) /\ Opening(p, k) /\ WorkerOK(w, k)
        /\ round[w][k] \in Nat
    BY <2>1, Before
  <2>3. Stage(p, k)
    BY <2>1, <2>2 DEF LocalInv, Stages
  <2>4. phase[w][k] = "pushing" /\ m.ts = round[w][k] /\ m.val = Fill(k, Unit(w, round[w][k]))
    BY <2>1 DEF LocalOK
  <2>5. k \in initialized_[p]
    BY <2>2, <2>4 DEF Opening, InitPhases
  <2>6. NotWaiting(w, k)
    BY <2>1, NotWaitingIf
  <2>7. w \notin From(request_tmp[p][k], k) /\ w \notin From(request[p][k], k)
    BY <2>6, SMTT(20) DEF NotWaiting, From
  <2>8. ~Busy(p, k) /\ ~Pushing(p, k)
    BY <2>2, <2>3, <2>7 DEF Stage, Forwarded
  <2>9. ~Acknowledged(w, k)
    BY DEF Acknowledged, LocalInv, Locals
  <2>10. Ver(p, k) \in Nat /\ Ver(p, k) + 1 = round[w][k]
    <3>1. Acked(w, k) = round[w][k] - 1 /\ round[w][k] >= 1
      BY <2>2, <2>4, <2>9 DEF Acked, WorkerOK
    <3>2. Acked(w, k) = Ver(p, k)
      BY <2>2, <2>3 DEF Stage, SameRound
    <3> QED
      BY <2>2, <3>1, <3>2, SMTT(20)
  <2>11. From(reqs, k) = From(request[p][k], k) \cup {w}
    <3>1. ASSUME NEW v \in Worker
          PROVE  <<v, round[v][k]>> \in reqs <=> <<v, round[v][k]>> \in request[p][k] \/ v = w
      BY <2>4 DEF Meta
    <3> QED
      BY <2>1, <3>1 DEF From
  <2>12. Merge(p, k, m.val) = Fill(k, Gradients(From(reqs, k), Ver(p, k) + 1))
    <3>1. round[w][k] \in Round
      BY <2>1, SMTT(20) DEF TypeOK, WorkerTypeOK
    <3>2. CASE request[p][k] = {}
      <4>1. From(reqs, k) = {w}
        BY <2>11, <3>2 DEF From
      <4>2. Unit(w, round[w][k]) = Gradients({w}, round[w][k])
        BY <2>1, <3>1, <1>OneGradient
      <4> QED
        BY <2>4, <2>10, <3>2, <4>1, <4>2 DEF Merge
    <3>3. CASE request[p][k] # {}
      <4> DEFINE S == From(request[p][k], k)
                 r == round[w][k]
      <4>1. merged[p][k] = Fill(k, Gradients(S, r))
        BY <2>3, <2>10, <3>3 DEF Stage, Collecting
      <4>2. PlusArray(k, Fill(k, Gradients(S, r)), Fill(k, Unit(w, r)))
              = Fill(k, Plus(Gradients(S, r), Unit(w, r)))
        BY <2>1, <1>FillPlus, SMTT(20)
      <4>3. Plus(Gradients(S, r), Unit(w, r)) = Gradients(S \cup {w}, r)
        BY <2>1, <2>7, <3>1, <1>OneMoreGradient, SMTT(20)
      <4> QED
        BY <2>4, <2>10, <2>11, <3>3, <4>1, <4>2, <4>3 DEF Merge
    <3> QED
      BY <3>2, <3>3
  <2> QED
    BY <2>1, <2>2, <2>3, <2>4, <2>5, <2>6, <2>8, <2>9, <2>10, <2>11, <2>12
\* A push taken off the plane: nobody has been told of anything.
<1>PushTaken.
    ASSUME TypeOK, LocalInv, NEW m \in lnet, m.type = "push", m.key \in stored[PartyOf[m.worker]],
           UNCHANGED <<worker_vars, pull_vars, stored, initialized_>>, lnet' = lnet \ {m}
    PROVE  LET w == m.worker  k == m.key IN
           /\ \A v \in Worker, j \in Key : v # w \/ j # k => SameWorker(v, j)
           /\ Silent(w, k)'
           /\ \A v \in Worker, j \in Key : Acked(v, j)' = Acked(v, j)
           /\ \A p \in Party, j \in Key : Ver(p, j)' = Ver(p, j)
           /\ Locals' /\ LocalPulls'
  <2> USE <1>PushTaken
  <2> DEFINE w == m.worker
             k == m.key
  <2>0. w \in Worker /\ k \in Key /\ phase[w][k] = "pushing" /\ ~Acknowledged(w, k)
    BY <1>PushFacts
  <2>1. \A v \in Worker, j \in Key : v # w \/ j # k => SameWorker(v, j)
    BY DEF SameWorker, worker_vars
  <2>2. Silent(w, k)'
    BY DEF Silent, LocalInv, Locals
  <2>3. ASSUME NEW v \in Worker, NEW j \in Key PROVE Acked(v, j)' = Acked(v, j)
    <3>1. CASE v # w \/ j # k
      BY <2>1, <3>1, WorkerFrame
    <3>2. CASE v = w /\ j = k
      <4>1. ~Acknowledged(w, k)'
        BY <2>2 DEF Acknowledged, Silent
      <4> QED
        BY <2>0, <3>2, <4>1 DEF Acked, worker_vars
    <3> QED
      BY <3>1, <3>2
  <2>4. \A p \in Party, j \in Key : Ver(p, j)' = Ver(p, j)
    BY <2>3, ConstantsAssumption DEF Ver
  <2>5. Locals'
    <3>1. \A n \in lnet' : LocalOK(n)'
      BY MessageFrame DEF LocalInv, Locals, worker_vars
    <3> QED
      BY <3>1 DEF LocalInv, Locals
  <2>6. LocalPulls'
    <3>1. \A v \in Worker, j \in Key : Silent(v, j) => Silent(v, j)'
      BY DEF Silent
    <3> QED
      BY <3>1, <1>PopsKept
  <2> QED
    BY <2>1, <2>2, <2>3, <2>4, <2>5, <2>6
\* A request that the party has stays right, and so does the one it gets.
<1>RequestsKept.
    ASSUME TypeOK, LocalInv, NEW m \in lnet, m.type = "push", m.key \in stored[PartyOf[m.worker]],
           UNCHANGED <<worker_vars, pull_vars, stored, initialized_>>, lnet' = lnet \ {m}
    PROVE  LET k == m.key  p == PartyOf[m.worker]  reqs == request[p][k] \cup {Meta(m)} IN
           /\ \A q \in reqs : Waiting(p, k, q)'
           /\ reqs \subseteq Worker \X Round
  <2> USE <1>RequestsKept
  <2> DEFINE w == m.worker
             k == m.key
             p == PartyOf[w]
             reqs == request[p][k] \cup {Meta(m)}
  <2>0. /\ w \in Worker /\ k \in Key /\ p \in Party /\ Stage(p, k)
        /\ phase[w][k] = "pushing" /\ m.ts = round[w][k]
    BY <1>PushFacts
  <2>1. \A q \in request[p][k] : Waiting(p, k, q)
    BY <2>0 DEF Stage, Collecting
  <2>2. \A v \in Worker : Silent(v, k) => Silent(v, k)'
    BY DEF Silent
  <2>3. reqs \subseteq Worker \X Round
    BY MergeType DEF TypeOK
  <2>4. Silent(w, k)'
    BY <1>PushTaken
  <2>5. ASSUME NEW q \in reqs PROVE Waiting(p, k, q)'
    <3>1. q \in Worker \X Round
      BY <2>3
    <3>2. CASE q \in request[p][k]
      BY <2>1, <2>2, <3>1, <3>2 DEF Waiting, worker_vars
    <3>3. CASE q = <<w, m.ts>>
      BY <2>0, <2>4, <3>3 DEF Waiting, worker_vars
    <3> QED
      BY <3>2, <3>3 DEF Meta
  <2> QED
    BY <2>3, <2>5
\* A push is added to the sum of the round.
<1>LocalAggregateInv.
    ASSUME TypeOK, LocalInv, NEW m \in lnet, LocalAggregate(m)
    PROVE  LocalInv' /\ \A p \in Party, j \in Key : Ver(p, j)' = Ver(p, j)
  <2> USE <1>LocalAggregateInv
  <2> DEFINE w == m.worker
             k == m.key
             p == PartyOf[w]
             reqs == request[p][k] \cup {Meta(m)}
             sum == Merge(p, k, m.val)
  <2>1. /\ m.type = "push" /\ k \in stored[p] /\ lnet' = lnet \ {m}
        /\ merged' = [merged EXCEPT ![p][k] = sum]
        /\ request' = [request EXCEPT ![p][k] = reqs]
        /\ stored' = stored /\ store_' = store_ /\ initialized_' = initialized_
        /\ UNCHANGED <<worker_vars, pull_vars, party_vars>>
    BY DEF LocalAggregate, IsPush
  <2>0. /\ w \in Worker /\ k \in Key /\ p \in Party /\ Stage(p, k)
        /\ k \in initialized_[p] /\ ~Busy(p, k) /\ ~Pushing(p, k)
        /\ sum = Fill(k, Gradients(From(reqs, k), Ver(p, k) + 1))
    BY <2>1, <1>PushFacts
  <2>2. /\ \A v \in Worker, j \in Key : v # w \/ j # k => SameWorker(v, j)
        /\ \A v \in Worker, j \in Key : Acked(v, j)' = Acked(v, j)
        /\ \A q \in Party, j \in Key : Ver(q, j)' = Ver(q, j)
        /\ Locals' /\ LocalPulls'
    BY <2>1, <1>PushTaken
  <2>3. /\ \A q \in reqs : Waiting(p, k, q)'
        /\ reqs \subseteq Worker \X Round
    BY <2>1, <1>RequestsKept
  <2>4. /\ merged'[p][k] = sum /\ request'[p][k] = reqs
        /\ \A q \in Server, j \in Key :
             q # p \/ j # k => merged'[q][j] = merged[q][j] /\ request'[q][j] = request[q][j]
    <3>1. p \in Server /\ StoreTypeOK
      BY <2>0, ServerType DEF TypeOK
    <3>2. DOMAIN merged = Server /\ DOMAIN merged[p] = Key
      BY <3>1 DEF StoreTypeOK, ArraysTypeOK
    <3>3. DOMAIN request = Server /\ DOMAIN request[p] = Key
      BY <3>1 DEF StoreTypeOK, RequestsTypeOK
    <3> HIDE DEF reqs, sum
    <3>4. merged' = [merged EXCEPT ![p][k] = sum] /\ request' = [request EXCEPT ![p][k] = reqs]
      BY <2>1
    <3>5. /\ merged'[p][k] = sum
          /\ \A q \in Server, j \in Key : q # p \/ j # k => merged'[q][j] = merged[q][j]
      BY <2>0, <3>1, <3>2, <3>4, OtherEntries
    <3>6. /\ request'[p][k] = reqs
          /\ \A q \in Server, j \in Key : q # p \/ j # k => request'[q][j] = request[q][j]
      <4>1. request' = [request EXCEPT ![p][k] = reqs] /\ p \in Server /\ k \in Key
        BY <2>0, <3>1, <3>4
      <4> QED
        BY <3>3, <4>1, OtherEntries
    <3> QED
      BY <3>5, <3>6
  <2> HIDE DEF reqs, sum
  <2>5. PartyAlone(p, k)
    <3> SUFFICES ASSUME NEW q \in Party, NEW j \in Key, q # p \/ j # k
                 PROVE  SameParty(q, j) /\ \A v \in WorkersOf(q) : SameWorker(v, j)
      BY DEF PartyAlone
    <3>1. \A v \in WorkersOf(q) : SameWorker(v, j)
      BY <2>0, <2>2 DEF WorkersOf
    <3>2. merged'[q][j] = merged[q][j] /\ request'[q][j] = request[q][j]
      BY <2>4, ServerType
    <3>3. UNCHANGED <<stored, initialized_, store_, request_tmp, ts_key_map_>>
      BY <2>1 DEF party_vars
    <3>4. SameParty(q, j)
      BY <3>2, <3>3 DEF SameParty, Pushing
    <3> QED
      BY <3>1, <3>4
  <2>6. Collecting(p, k)'
    <3>1. From(request[p][k], k)' = From(reqs, k)
      BY <2>1, <2>4 DEF From, worker_vars
    <3> QED
      BY <2>0, <2>2, <2>3, <2>4, <3>1 DEF Collecting
  <2>7. Opening(p, k)'
    BY <2>0, <2>1 DEF Stage, Opening, worker_vars, party_vars
  <2>8. Forwarded(p, k)'
    BY <2>0, <2>1 DEF Forwarded, Busy, Pushing, party_vars
  <2>9. SameRound(p, k)'
    BY <2>0, <2>1, <2>2 DEF Stage, SameRound, Busy, party_vars, WorkersOf
  <2> QED
    BY <2>0, <2>1, <2>2, <2>5, <2>6, <2>7, <2>8, <2>9, <1>PartyStepInv DEF Stage
\* When a party is complete, all its workers are in.
<1>CompleteParty.
    ASSUME TypeOK, NEW p \in Party, NEW k \in Key, NEW reqs \in SUBSET (Worker \X Round),
           \A q \in reqs : PartyOf[q[1]] = p /\ q[2] = round[q[1]][k], PartyComplete(p, reqs)
    PROVE  From(reqs, k) = WorkersOf(p)
  <2> USE <1>CompleteParty
  <2> DEFINE f == [q \in reqs |-> q[1]]
  <2>1. \A q \in reqs : q = <<q[1], round[q[1]][k]>> /\ q[1] \in WorkersOf(p)
    BY SMTT(20) DEF WorkersOf
  <2>2. f \in [reqs -> WorkersOf(p)] /\ \A x, y \in reqs : f[x] = f[y] => x = y
    BY <2>1
  <2>3. IsFiniteSet(WorkersOf(p))
    <3>1. IsFiniteSet(Worker) /\ WorkersOf(p) \subseteq Worker
      BY ConstantsAssumption DEF WorkersOf
    <3> QED
      BY <3>1 DEF Counting
  <2>4. \A w \in WorkersOf(p) : \E q \in reqs : f[q] = w
    <3> HIDE DEF f
    <3> QED
      BY <2>2, <2>3, Covering, SMTT(20) DEF PartyComplete
  <2>5. \A w \in WorkersOf(p) : \E q \in reqs : q[1] = w
    BY <2>4
  <2> QED
    BY <2>1, <2>5 DEF From, WorkersOf
\* The push that completes a party: what it leaves behind at the party and
\* sends to the global servers.
<1>LocalForwardInv.
    ASSUME TypeOK, TypeOK', LocalInv, NEW m \in lnet, LocalForward(m)
    PROVE  LET k == m.key  p == PartyOf[m.worker] IN
           /\ LocalInv' /\ \A q \in Party, j \in Key : Ver(q, j)' = Ver(q, j)
           /\ p \in Party /\ k \in Key /\ k \in initialized_[p] /\ ~Busy(p, k) /\ Busy(p, k)'
           /\ Ver(p, k) \in Nat
           /\ \A q \in Party, j \in Key : q # p \/ j # k => (Busy(q, j)' <=> Busy(q, j))
           /\ Merge(p, k, m.val) = Fill(k, Gradients(WorkersOf(p), Ver(p, k) + 1))
  <2> USE <1>LocalForwardInv
  <2> DEFINE w == m.worker
             k == m.key
             p == PartyOf[w]
             reqs == request[p][k] \cup {Meta(m)}
             sum == Merge(p, k, m.val)
  <2>1. /\ m.type = "push" /\ k \in stored[p] /\ lnet' = lnet \ {m} /\ PartyComplete(p, reqs)
        /\ merged' = [merged EXCEPT ![p][k] = sum]
        /\ request' = [request EXCEPT ![p][k] = {}]
        /\ store_' = [store_ EXCEPT ![p][k] = ApplyUpdates(p, store_[p][k], sum)]
        /\ request_tmp' = [request_tmp EXCEPT ![p][k] = reqs]
        /\ ts_key_map_' = [ts_key_map_ EXCEPT ![p] = @ \cup {<<NewTs(p), k>>}]
        /\ stored' = stored /\ initialized_' = initialized_
        /\ UNCHANGED <<worker_vars, pull_vars>>
    BY DEF LocalForward, IsPush
  <2>0. /\ w \in Worker /\ k \in Key /\ p \in Party /\ Stage(p, k)
        /\ k \in initialized_[p] /\ ~Busy(p, k) /\ ~Pushing(p, k) /\ Ver(p, k) \in Nat
        /\ sum = Fill(k, Gradients(From(reqs, k), Ver(p, k) + 1))
    BY <2>1, <1>PushFacts
  <2>2. /\ \A v \in Worker, j \in Key : v # w \/ j # k => SameWorker(v, j)
        /\ \A v \in Worker, j \in Key : Acked(v, j)' = Acked(v, j)
        /\ \A q \in Party, j \in Key : Ver(q, j)' = Ver(q, j)
        /\ Locals' /\ LocalPulls'
    BY <2>1, <1>PushTaken
  <2>3. /\ \A q \in reqs : Waiting(p, k, q)'
        /\ reqs \in SUBSET (Worker \X Round)
    BY <2>1, <1>RequestsKept
  <2>r. Meta(m) \in reqs
    OBVIOUS
  <2> HIDE DEF reqs, sum
  <2>4. From(reqs, k) = WorkersOf(p)
    <3>1. \A q \in reqs : PartyOf[q[1]] = p /\ q[2] = round[q[1]][k]
      BY <2>1, <2>3 DEF Waiting, worker_vars
    <3> QED
      BY <2>0, <2>1, <2>3, <3>1, <1>CompleteParty
  <2>s. p \in Server /\ StoreTypeOK /\ PartyTypeOK
    BY <2>0, ServerType DEF TypeOK
  <2>5. /\ request'[p][k] = {}
        /\ \A q \in Server, j \in Key : q # p \/ j # k => request'[q][j] = request[q][j]
    <3>1. DOMAIN request = Server /\ DOMAIN request[p] = Key
      BY <2>s DEF StoreTypeOK, RequestsTypeOK
    <3> QED
      BY <2>0, <2>1, <2>s, <3>1, OtherEntries
  <2>6. \A q \in Server, j \in Key : q # p \/ j # k => merged'[q][j] = merged[q][j]
    <3>1. DOMAIN merged = Server /\ DOMAIN merged[p] = Key
      BY <2>s DEF StoreTypeOK, ArraysTypeOK
    <3> QED
      BY <2>0, <2>1, <2>s, <3>1, OtherEntries
  <2>7. \A q \in Server, j \in Key : q # p \/ j # k => store_'[q][j] = store_[q][j]
    <3>1. DOMAIN store_ = Server /\ DOMAIN store_[p] = Key
      BY <2>s DEF StoreTypeOK, ArraysTypeOK
    <3>2. PICK x : store_' = [store_ EXCEPT ![p][k] = x]
      BY <2>1
    <3> QED
      BY <2>0, <2>s, <3>1, <3>2, OtherEntries
  <2>8. /\ request_tmp'[p][k] = reqs
        /\ \A q \in Party, j \in Key : q # p \/ j # k => request_tmp'[q][j] = request_tmp[q][j]
    BY <2>0, <2>1, <2>s DEF PartyTypeOK
  <2>9. \A q \in Party, j \in Key : q # p \/ j # k => (Pushing(q, j)' => Pushing(q, j))
    <3> SUFFICES ASSUME NEW q \in Party, NEW j \in Key, q # p \/ j # k, Pushing(q, j)'
                 PROVE  Pushing(q, j)
      OBVIOUS
    <3>1. PICK e \in ts_key_map_'[q] : e[2] = j
      BY DEF Pushing
    <3>2. PICK f : f = <<NewTs(p), k>>
      OBVIOUS
    <3>5. ts_key_map_' = [ts_key_map_ EXCEPT ![p] = @ \cup {f}]
      BY <2>1, <3>2
    <3>6. f[2] = k
      BY <3>2
    <3>3. DOMAIN ts_key_map_ = Party
      BY <2>s DEF PartyTypeOK
    <3>4. e \in ts_key_map_[q]
      BY <2>0, <3>1, <3>3, <3>5, <3>6
    <3> QED
      BY <3>1, <3>4 DEF Pushing
  <2>10. PartyAlone(p, k)
    <3> SUFFICES ASSUME NEW q \in Party, NEW j \in Key, q # p \/ j # k
                 PROVE  SameParty(q, j) /\ \A v \in WorkersOf(q) : SameWorker(v, j)
      BY DEF PartyAlone
    <3>1. \A v \in WorkersOf(q) : SameWorker(v, j)
      BY <2>2 DEF WorkersOf
    <3>2. q \in Server
      BY ServerType
    <3>3. /\ request'[q][j] = request[q][j] /\ merged'[q][j] = merged[q][j]
          /\ store_'[q][j] = store_[q][j] /\ request_tmp'[q][j] = request_tmp[q][j]
          /\ Pushing(q, j)' => Pushing(q, j)
      BY <2>5, <2>6, <2>7, <2>8, <2>9, <3>2
    <3>4. SameParty(q, j)
      BY <2>1, <3>3 DEF SameParty
    <3> QED
      BY <3>1, <3>4
  <2>11. Busy(p, k)'
    BY <2>8, <2>r DEF Busy
  <2>12. Forwarded(p, k)'
    <3>1. From(request_tmp[p][k], k)' = From(reqs, k)
      BY <2>1, <2>8 DEF From, worker_vars
    <3>2. \A q \in request_tmp'[p][k] : Waiting(p, k, q)'
      BY <2>3, <2>8
    <3>3. WorkersOf(p) \subseteq From(request_tmp[p][k], k)'
      BY <2>4, <3>1
    <3> QED
      BY <2>5, <2>11, <3>2, <3>3 DEF Forwarded
  <2>13. Collecting(p, k)'
    BY <2>5 DEF Collecting
  <2>14. Opening(p, k)'
    BY <2>0, <2>1 DEF Stage, Opening, worker_vars
  <2>15. SameRound(p, k)'
    BY <2>0, <2>2, <2>11, SMTT(20) DEF Stage, SameRound, WorkersOf
  <2>16. LocalInv'
    BY <2>0, <2>1, <2>2, <2>10, <2>12, <2>13, <2>14, <2>15, <1>PartyStepInv DEF Stage
  <2>17. \A q \in Party, j \in Key : q # p \/ j # k => (Busy(q, j)' <=> Busy(q, j))
    BY <2>8 DEF Busy
  <2> QED
    BY <2>0, <2>2, <2>4, <2>11, <2>16, <2>17 DEF sum
\* The first push of a key is that of rank 0: it opens the key for nobody yet.
<1>LocalInitInv.
    ASSUME TypeOK, TypeOK', LocalInv, NEW m \in lnet, LocalInit(m)
    PROVE  LET k == m.key  p == PartyOf[m.worker] IN
           /\ LocalInv' /\ \A q \in Party, j \in Key : Ver(q, j)' = Ver(q, j)
           /\ p \in Party /\ k \in Key /\ k \notin initialized_[p] /\ ~Pushing(p, k)
  <2> USE <1>LocalInitInv
  <2> DEFINE w == m.worker
             k == m.key
             p == PartyOf[w]
  <2>l. PICK n : n = LMsg("push_ack", m.worker, m.key, m.ts, NoLoad(m.key))
    OBVIOUS
  <2>n. n.type = "push_ack" /\ n.worker = w /\ n.key = k /\ n.ts = m.ts
    BY <2>l DEF LMsg
  <2>1. /\ m.type = "push" /\ k \notin stored[p] /\ lnet' = (lnet \ {m}) \cup {n}
        /\ stored' = [stored EXCEPT ![p] = @ \cup {k}]
        /\ store_' = [store_ EXCEPT ![p][k] = m.val]
        /\ UNCHANGED <<initialized_, merged, request, request_tmp, ts_key_map_,
                       worker_vars, pull_vars>>
    BY <2>l DEF LocalInit, IsPush
  <2>m. w \in Worker /\ k \in Key /\ LocalOK(m) /\ ~Silent(w, k)
    BY LocalMsgType DEF TypeOK, LocalInv, Locals, Silent
  <2>0. /\ p \in Party /\ w \in WorkersOf(p) /\ Opening(p, k) /\ WorkerOK(w, k)
        /\ Stage(p, k) /\ Rank0[p] \in WorkersOf(p)
    BY <2>m, Before DEF LocalInv, Stages
  <2>2. /\ k \notin initialized_[p] /\ phase[w][k] = "init_push" /\ w = Rank0[p]
        /\ \A v \in WorkersOf(p) : phase[v][k] \in InitPhases
        /\ request[p][k] = {} /\ request_tmp[p][k] = {} /\ ~Pushing(p, k)
    BY <2>0, <2>1, <2>m DEF Opening, LocalOK, WorkerOK, InitPhases, Stage, Forwarded, Busy
  <2>3. \A v \in Worker, j \in Key : v # w \/ j # k => SameWorker(v, j)
    BY <2>1, <2>n DEF SameWorker, worker_vars
  <2>4. ASSUME NEW v \in Worker, NEW j \in Key PROVE Acked(v, j)' = Acked(v, j)
    <3>1. CASE v # w \/ j # k
      BY <2>3, <3>1, WorkerFrame
    <3>2. CASE v = w /\ j = k
      BY <2>1, <2>2, <3>2 DEF Acked, worker_vars
    <3> QED
      BY <3>1, <3>2
  <2>5. \A q \in Party, j \in Key : Ver(q, j)' = Ver(q, j)
    BY <2>4, ConstantsAssumption DEF Ver
  <2>s. p \in Server /\ StoreTypeOK
    BY <2>0, ServerType DEF TypeOK
  <2>6. \A q \in Server : stored'[q] = IF q = p THEN stored[p] \cup {k} ELSE stored[q]
    BY <2>1, <2>s DEF StoreTypeOK
  <2>7. \A q \in Server, j \in Key : q # p \/ j # k => store_'[q][j] = store_[q][j]
    <3>1. DOMAIN store_ = Server /\ DOMAIN store_[p] = Key
      BY <2>s DEF StoreTypeOK, ArraysTypeOK
    <3>2. PICK x : x = m.val
      OBVIOUS
    <3>3. store_' = [store_ EXCEPT ![p][k] = x] /\ p \in Server /\ k \in Key
      BY <2>1, <2>m, <2>s, <3>2
    <3> HIDE DEF p, k
    <3> QED
      BY <3>1, <3>3, OtherEntries
  <2>g. \A g \in GServer : stored'[g] = stored[g]
    BY <2>0, <2>6, ServerType
  <2>8. Locals'
    <3>1. ASSUME NEW l \in lnet' PROVE LocalOK(l)'
      <4>1. CASE l = n
        <5>1. k \in stored'[p] /\ phase'[w][k] = "init_push" /\ m.ts = round'[w][k]
          <6>1. phase' = phase /\ round' = round
            BY <2>1 DEF worker_vars
          <6>2. m.ts = round[w][k]
            BY <2>m DEF LocalOK
          <6>3. k \in stored'[p]
            BY <2>6, <2>s
          <6> QED
            BY <2>2, <6>1, <6>2, <6>3
        <5>2. n.type # "push" /\ n.type # "pull" /\ n.type # "pull_data"
          BY <2>n
        <5> QED
          BY <2>n, <4>1, <5>1, <5>2 DEF LocalOK
      <4>2. CASE l # n
        <5>1. /\ l \in lnet /\ l # m /\ LocalOK(l) /\ l.worker \in Worker /\ l.key \in Key
              /\ PartyOf[l.worker] \in Server
          BY <2>1, <4>2, LocalMsgType, ServerType DEF LocalInv, Locals, TypeOK
        <5>2. l.worker # w \/ l.key # k
          BY <5>1 DEF LocalInv, Locals
        <5>3. CASE PartyOf[l.worker] # p \/ l.key # k
          BY <2>1, <2>6, <5>1, <5>3, MessageFrame, SMTT(20) DEF worker_vars
        <5>4. CASE PartyOf[l.worker] = p /\ l.key = k
          <6>1. phase[l.worker][k] # "init_push"
            BY <2>2, <5>1, <5>2, <5>4 DEF LocalInv, Workers, WorkerOK
          <6> QED
            BY <2>1, <2>6, <5>1, <5>4, <6>1 DEF LocalOK, worker_vars
        <5> QED
          BY <5>3, <5>4
      <4> QED
        BY <4>1, <4>2
    <3>2. ASSUME NEW l \in lnet', NEW o \in lnet', l.worker = o.worker, l.key = o.key
          PROVE  l = o
      BY <2>1, <2>n, <3>2 DEF LocalInv, Locals
    <3> QED
      BY <3>1, <3>2 DEF Locals
  <2>9. LocalPulls'
    <3>1. \A v \in Worker, j \in Key : phase[v][j] = "pulling" /\ Silent(v, j) => Silent(v, j)'
      BY <2>2, <2>3, WorkerFrame
    <3> QED
      BY <2>1, <3>1, <1>PopsKept
  <2>10. PartyAlone(p, k)
    <3> SUFFICES ASSUME NEW q \in Party, NEW j \in Key, q # p \/ j # k
                 PROVE  SameParty(q, j) /\ \A v \in WorkersOf(q) : SameWorker(v, j)
      BY DEF PartyAlone
    <3>1. \A v \in WorkersOf(q) : SameWorker(v, j)
      BY <2>3 DEF WorkersOf
    <3>2. SameParty(q, j)
      <4>1. j \in stored'[q] <=> j \in stored[q]
        BY <2>6, ServerType, SMTT(20)
      <4>2. \A g \in ShardsOf[j] : j \in stored[g] => j \in stored'[g]
        BY <2>g, ShardsType
      <4>3. Pushing(q, j)' => Pushing(q, j)
        BY <2>1 DEF Pushing
      <4> QED
        BY <2>1, <2>7, <4>1, <4>2, <4>3, ServerType DEF SameParty
    <3> QED
      BY <3>1, <3>2
  <2>11. Stage(p, k)'
    <3>1. Opening(p, k)'
      BY <2>0, <2>1, <2>2, <2>6, <2>s DEF Opening, worker_vars
    <3>2. Collecting(p, k)' /\ Forwarded(p, k)'
      BY <2>1, <2>2 DEF Collecting, Forwarded, Busy, Pushing
    <3>3. SameRound(p, k)'
      <4>1. \A v \in WorkersOf(p) : Acked(v, k)' = Ver(p, k)'
        BY <2>0, <2>m, <2>4, <2>5, SMTT(20) DEF Stage, SameRound, WorkersOf
      <4>2. k \notin initialized_'[p]
        BY <2>1, <2>2
      <4> QED
        BY <4>1, <4>2 DEF SameRound
    <3> QED
      BY <3>1, <3>2, <3>3 DEF Stage
  <2> QED
    BY <2>0, <2>1, <2>2, <2>5, <2>m, <2>8, <2>9, <2>10, <2>11, <1>PartyStepInv
\* The last part of a pull: the party has the weights that were due, and tells
\* its workers of the round, if there was one.
<1>PullResponseLocal.
    ASSUME TypeOK, TypeOK', LocalInv, NEW m \in gnet, PullResponseLast(m),
           m.key \in stored[m.peer], m.key \in initialized_[m.peer] => Busy(m.peer, m.key),
           ~Pushing(m.peer, m.key), \A g \in ShardsOf[m.key] : m.key \in stored[g],
           Assemble(m.key, m) = Fill(m.key, Weight(Due(m.peer, m.key)))
    PROVE  LET k == m.key  p == m.peer IN
           /\ LocalInv' /\ Ver(p, k)' = Due(p, k) /\ ~Busy(p, k)'
           /\ k \in initialized_'[p]
           /\ \A q \in Party, j \in Key :
                q # p \/ j # k => /\ Ver(q, j)' = Ver(q, j) /\ (Busy(q, j)' <=> Busy(q, j))
                                  /\ j \in initialized_'[q] <=> j \in initialized_[q]
  <2> USE <1>PullResponseLocal
  <2> DEFINE k == m.key
             p == m.peer
             acks == {LMsg("push_ack", q[1], k, q[2], NoLoad(k)) : q \in request_tmp[p][k]}
  <2>1. /\ p \in Party /\ store_' = [store_ EXCEPT ![p][k] = Assemble(k, m)]
        /\ UNCHANGED <<stored, merged, request, ts_key_map_, worker_vars, pull_vars>>
        /\ k \notin initialized_[p] =>
             /\ initialized_' = [initialized_ EXCEPT ![p] = @ \cup {k}]
             /\ request_tmp' = request_tmp /\ lnet' = lnet
        /\ k \in initialized_[p] =>
             /\ lnet' = lnet \cup acks /\ request_tmp' = [request_tmp EXCEPT ![p][k] = {}]
             /\ initialized_' = initialized_
    BY DEF PullResponseLast, IsResponse
  <2>k. k \in Key /\ p \in Server /\ StoreTypeOK /\ PartyTypeOK
    BY <2>1, GlobalMsgType, ServerType DEF TypeOK
  <2>0. Stage(p, k) /\ Rank0[p] \in WorkersOf(p) /\ WorkersOf(p) \subseteq Worker
    BY <2>1, <2>k, ConstantsAssumption DEF LocalInv, Stages, WorkersOf
  <2>2. /\ store_'[p][k] = Fill(k, Weight(Due(p, k)))
        /\ \A q \in Server, j \in Key : q # p \/ j # k => store_'[q][j] = store_[q][j]
    <3>1. DOMAIN store_ = Server /\ DOMAIN store_[p] = Key
      BY <2>k DEF StoreTypeOK, ArraysTypeOK
    <3> QED
      BY <2>1, <2>k, <3>1, OtherEntries
  <2>3. /\ k \in initialized_'[p]
        /\ \A q \in Party, j \in Key :
             q # p \/ j # k => (j \in initialized_'[q] <=> j \in initialized_[q])
        /\ \A q \in Party : initialized_[q] \subseteq initialized_'[q]
    BY <2>1, <2>k, ServerType, SMTT(20) DEF StoreTypeOK
  <2>4. /\ request_tmp'[p][k] = {}
        /\ \A q \in Party, j \in Key : q # p \/ j # k => request_tmp'[q][j] = request_tmp[q][j]
    <3>1. CASE k \in initialized_[p]
      BY <2>1, <2>k, <3>1, SMTT(20) DEF PartyTypeOK
    <3>2. CASE k \notin initialized_[p]
      BY <2>0, <2>1, <3>2 DEF Stage, Opening
    <3> QED
      BY <3>1, <3>2
  <2>q. \A q \in request_tmp[p][k] :
          /\ q[1] \in Worker /\ q[1] \in WorkersOf(p) /\ q[2] = round[q[1]][k]
          /\ phase[q[1]][k] = "pushing" /\ Silent(q[1], k)
    <3>1. request_tmp[p][k] \subseteq Worker \X Round
      BY <2>1, <2>k, SMTT(20) DEF PartyTypeOK
    <3> QED
      BY <2>0, <3>1 DEF Stage, Forwarded, Waiting, WorkersOf
  <2>a. \A n \in acks : /\ n.type = "push_ack" /\ n.key = k /\ n.worker \in Worker
                        /\ n.worker \in WorkersOf(p) /\ n.ts = round[n.worker][k]
                        /\ phase[n.worker][k] = "pushing" /\ Silent(n.worker, k)
                        /\ n = LMsg("push_ack", n.worker, k, round[n.worker][k], NoLoad(k))
    BY <2>q, SMTT(20) DEF LMsg
  <2>b. k \in initialized_[p] =>
          \A v \in WorkersOf(p) : /\ phase[v][k] = "pushing" /\ Silent(v, k)
                                  /\ \E n \in acks : n.worker = v
    <3> SUFFICES ASSUME k \in initialized_[p], NEW v \in WorkersOf(p)
                 PROVE  phase[v][k] = "pushing" /\ Silent(v, k) /\ \E n \in acks : n.worker = v
      OBVIOUS
    <3>1. v \in From(request_tmp[p][k], k)
      BY <2>0 DEF Stage, Forwarded
    <3>2. PICK q \in request_tmp[p][k] : q = <<v, round[v][k]>>
      BY <3>1 DEF From
    <3>3. LMsg("push_ack", q[1], k, q[2], NoLoad(k)).worker = v
      BY <3>2 DEF LMsg
    <3> QED
      BY <2>q, <3>2, <3>3
  <2> HIDE DEF acks
  <2>5. /\ \A v \in Worker, j \in Key : v \notin WorkersOf(p) \/ j # k => SameWorker(v, j)
        /\ k \notin initialized_[p] => \A v \in Worker, j \in Key : SameWorker(v, j)
    BY <2>1, <2>a DEF SameWorker, worker_vars
  <2>6. \A v \in WorkersOf(p) : Acked(v, k)' = Due(p, k)
    <3> SUFFICES ASSUME NEW v \in WorkersOf(p) PROVE Acked(v, k)' = Due(p, k)
      OBVIOUS
    <3>0. Acked(v, k) = Ver(p, k) /\ round[v][k] \in Nat
      BY <2>0, <2>k, SMTT(20) DEF Stage, SameRound, TypeOK, WorkerTypeOK, Round
    <3>1. CASE k \notin initialized_[p]
      <4>1. ~Busy(p, k)
        BY <2>0, <3>1 DEF Stage, Opening, Busy
      <4> QED
        BY <2>0, <2>k, <2>5, <3>0, <3>1, <4>1, WorkerFrame DEF Due
    <3>2. CASE k \in initialized_[p]
      <4>1. phase[v][k] = "pushing" /\ ~Acknowledged(v, k) /\ Acknowledged(v, k)'
        BY <2>1, <2>a, <2>b, <3>2, SMTT(20) DEF Acknowledged, Silent
      <4>2. Acked(v, k) = round[v][k] - 1 /\ Acked(v, k)' = round[v][k]
        BY <2>1, <4>1 DEF Acked, worker_vars
      <4> QED
        BY <3>0, <3>2, <4>2, SMTT(20) DEF Due
    <3> QED
      BY <3>1, <3>2
  <2>7. Ver(p, k)' = Due(p, k)
    BY <2>0, <2>6 DEF Ver
  <2>8. Locals'
    <3>1. ASSUME NEW l \in lnet' PROVE LocalOK(l)'
      <4>1. CASE l \in lnet
        BY <2>1, <2>3, <4>1, MessageFrame, LocalMsgType, ServerType
        DEF LocalInv, Locals, TypeOK, worker_vars
      <4>2. CASE l \in acks
        BY <2>1, <2>a, <4>2 DEF LocalOK, worker_vars, WorkersOf
      <4> QED
        BY <2>1, <4>1, <4>2
    <3>2. ASSUME NEW l \in lnet', NEW o \in lnet', l.worker = o.worker, l.key = o.key
          PROVE  l = o
      BY <2>1, <2>a, <3>2, SMTT(20) DEF LocalInv, Locals, Silent
    <3> QED
      BY <3>1, <3>2 DEF Locals
  <2>9. LocalPulls'
    <3>1. \A v \in Worker, j \in Key : phase[v][j] = "pulling" /\ Silent(v, j) => Silent(v, j)'
      BY <2>1, <2>a DEF Silent
    <3> QED
      BY <2>1, <2>3, <3>1, <1>PopsKept
  <2>10. PartyAlone(p, k)
    <3> SUFFICES ASSUME NEW q \in Party, NEW j \in Key, q # p \/ j # k
                 PROVE  SameParty(q, j) /\ \A v \in WorkersOf(q) : SameWorker(v, j)
      BY DEF PartyAlone
    <3>1. \A v \in WorkersOf(q) : SameWorker(v, j)
      BY <2>5 DEF WorkersOf
    <3>2. Pushing(q, j)' => Pushing(q, j)
      BY <2>1 DEF Pushing
    <3>3. SameParty(q, j)
      BY <2>1, <2>2, <2>3, <2>4, <3>2, ServerType, SMTT(20) DEF SameParty
    <3> QED
      BY <3>1, <3>3
  <2>11. Stage(p, k)'
    <3>1. Opening(p, k)'
      BY <2>0, <2>1, <2>3 DEF Stage, Opening, worker_vars
    <3>2. request[p][k] = {} /\ ~Busy(p, k)' /\ ~Pushing(p, k)'
      BY <2>0, <2>1, <2>4 DEF Stage, Opening, Forwarded, Busy, Pushing
    <3>3. Collecting(p, k)' /\ Forwarded(p, k)'
      BY <2>1, <2>4, <3>2 DEF Collecting, Forwarded
    <3>4. SameRound(p, k)'
      BY <2>2, <2>6, <2>7 DEF SameRound
    <3> QED
      BY <3>1, <3>3, <3>4 DEF Stage
  <2>12. LocalInv' /\ \A q \in Party, j \in Key : q # p \/ j # k => Ver(q, j)' = Ver(q, j)
    BY <2>1, <2>k, <2>8, <2>9, <2>10, <2>11, <1>PartyStepInv
  <2> QED
    BY <2>3, <2>4, <2>7, <2>12 DEF Busy
<1> QED
  <2> SUFFICES ASSUME TypeOK, TypeOK', LocalInv
               PROVE  /\ \A m \in lnet : LocalAggregate(m) => Aggregates
                      /\ \A m \in lnet : LocalForward(m) => Forwards(m)
                      /\ \A m \in lnet : LocalInit(m) => Opens(m)
                      /\ \A m \in gnet : PullResponseLast(m) /\ FullPull(m) => Returns(m)
    OBVIOUS
  <2>1. ASSUME NEW m \in lnet, LocalAggregate(m) PROVE Aggregates
    BY <2>1, <1>LocalAggregateInv DEF Aggregates
  <2>2. ASSUME NEW m \in lnet, LocalForward(m) PROVE Forwards(m)
    BY <2>2, <1>LocalForwardInv DEF Forwards
  <2>3. ASSUME NEW m \in lnet, LocalInit(m) PROVE Opens(m)
    BY <2>3, <1>LocalInitInv DEF Opens
  <2>4. ASSUME NEW m \in gnet, PullResponseLast(m), FullPull(m) PROVE Returns(m)
    BY <2>4, <1>PullResponseLocal DEF FullPull, Returns
  <2> QED
    BY <2>1, <2>2, <2>3, <2>4

\* Steps of the global plane that touch nothing a party shows its workers.
LEMMA LocalFrame ==
  ASSUME TypeOK, LocalInv, UNCHANGED <<worker_vars, lnet, request_tmp>>,
         \A p \in Party :
           /\ pulling'[p] = pulling[p] /\ reading'[p] = reading[p]
           /\ stored'[p] = stored[p] /\ initialized_'[p] = initialized_[p]
           /\ \A k \in Key : /\ store_'[p][k] = store_[p][k] /\ merged'[p][k] = merged[p][k]
                             /\ request'[p][k] = request[p][k]
                             /\ Pushing(p, k)' => Pushing(p, k),
         \A g \in GServer : stored[g] \subseteq stored'[g]
  PROVE  LocalInv' /\ \A p \in Party, k \in Key : Ver(p, k)' = Ver(p, k)
<1>w. \A w \in Worker, k \in Key : SameWorker(w, k)
  BY DEF SameWorker, worker_vars
<1>1. Workers'
  BY SMTT(20) DEF LocalInv, Workers, WorkerOK, worker_vars
<1>2. ASSUME NEW p \in Party, NEW k \in Key PROVE Stage(p, k)' /\ Ver(p, k)' = Ver(p, k)
  <2>1. RequestsTypeOK(request) /\ PartyTypeOK /\ Stage(p, k)
    BY DEF TypeOK, StoreTypeOK, LocalInv, Stages
  <2>2. \A g \in ShardsOf[k] : k \in stored[g] => k \in stored'[g]
    BY ShardsType
  <2>3. SameParty(p, k)
    BY <2>2 DEF SameParty
  <2>4. \A w \in WorkersOf(p) : SameWorker(w, k)
    BY <1>w DEF WorkersOf
  <2> QED
    BY <2>1, <2>3, <2>4, StageFrame
<1>3. Locals'
  <2>1. ASSUME NEW m \in lnet PROVE LocalOK(m)'
    BY MessageFrame, LocalMsgType, ServerType DEF LocalInv, Locals, TypeOK, worker_vars
  <2> QED
    BY <2>1 DEF LocalInv, Locals
<1>4. LocalPulls'
  <2>1. ASSUME NEW p \in Party, NEW m \in pulling[p] PROVE LocalPullOK(p, m)'
    <3>1. LocalPullOK(p, m) /\ m.worker \in Worker /\ m.key \in Key
      BY PoppedType DEF TypeOK, LocalInv, LocalPulls
    <3>2. Silent(m.worker, m.key)' <=> Silent(m.worker, m.key)
      BY <1>w, <3>1, WorkerFrame
    <3>3. round' = round /\ phase' = phase /\ reading'[p] = reading[p] /\ initialized_'[p] = initialized_[p]
      BY DEF worker_vars
    <3> QED
      BY <3>1, <3>2, <3>3 DEF LocalPullOK
  <2> QED
    BY <2>1, SMTT(20) DEF LocalInv, LocalPulls
<1> QED
  BY <1>1, <1>2, <1>3, <1>4 DEF LocalInv, Stages
=============================================================================

