---------------------------- MODULE HiPSTheorems -----------------------------
(***************************************************************************)
(* The theorems about HiPS, for any number of parties, workers, servers,   *)
(* keys and iterations: its invariant, the properties that follow, and     *)
(* that it implements BSP.                                                 *)
(*                                                                         *)
(* The refinement mapping reads the version of a key off the contents of   *)
(* its shards.  While a round is applied shard by shard they differ, and   *)
(* the version is that of the slowest; the invariant bounds the difference *)
(* by one round and ties it to the round of the workers.  A push of a      *)
(* worker is then a contribution, the update of a key's last shard a       *)
(* commit, the end of a pull a fetch, and everything else a stutter.       *)
(***************************************************************************)
EXTENDS HiPSGlobalProofs, HiPSImplementsBSP

USE ZenonT(30)

-----------------------------------------------------------------------------
(* Refinement of BSP *)

\* A worker's parameter between two pulls, and an array nobody has pushed to.
HeldOK(w, k) ==
  pulled[w][k] =
    Fill(k, IF phase[w][k] = "idle" THEN Weight(round[w][k])
            ELSE IF round[w][k] = 0 THEN Unit(w, 0) ELSE Weight(round[w][k] - 1))
Held == \A w \in Worker, k \in Key : HeldOK(w, k)
Empty == \A g \in GServer, k \in Key : k \notin stored[g] => store_[g][k] = Zero

\* The refinement mapping in terms of the rounds.
View(w, k) == IF phase[w][k] = "idle" THEN round[w][k] ELSE round[w][k] - 1

-----------------------------------------------------------------------------
(* Contents and versions *)

\* Every key has a shard, there is a worker, and the master worker is none.
LEMMA Somewhere ==
  ASSUME NEW k \in Key
  PROVE  /\ \E g : g \in ShardsOf[k]
         /\ \E w : w \in Worker
         /\ \A w \in Worker : w # Master
BY ConstantsAssumption

\* The gradient of round r is in the weights of n rounds if it is one of them.
LEMMA WeightAt ==
  ASSUME NEW n \in Nat, NEW w \in Worker, NEW r \in 1 .. MaxRound
  PROVE  Weight(n)[<<w, r>>] > 0 <=> r <= n
<1>1. w # Master /\ MaxRound \in Nat
  BY ConstantsAssumption
<1>2. <<w, r>> \in Atom
  BY <1>1, SMTT(20) DEF Atom, Round
<1>3. <<w, r>>[1] = w /\ <<w, r>>[2] = r /\ <<w, r>> # <<Master, 0>>
  BY <1>1
<1>4. Weight(n)[<<w, r>>] = IF r \in 1 .. n THEN 1 ELSE 0
  BY <1>1, <1>2, <1>3 DEF Weight
<1>5. r \in 1 .. n <=> r <= n
  BY SMTT(20)
<1> QED
  BY <1>4, <1>5, SMTT(20)

\* The number of complete rounds of an array is that of the shard with the
\* fewest.
LEMMA CompleteCount ==
  ASSUME Counting, NEW k \in Key, NEW x, NEW n \in 0 .. MaxRound,
         \A g \in ShardsOf[k] : \E h \in Nat : h >= n /\ x[g] = Weight(h),
         \E g \in ShardsOf[k] : x[g] = Weight(n)
  PROVE  Cardinality(Complete(k, x)) = n
<1>0. MaxRound \in Nat /\ n \in Nat /\ n <= MaxRound
  BY ConstantsAssumption, SMTT(20)
<1>1. Complete(k, x) = 1 .. n
  <2>1. ASSUME NEW r \in 1 .. MaxRound PROVE r \in Complete(k, x) <=> r <= n
    <3>1. ASSUME r <= n, NEW g \in ShardsOf[k], NEW w \in Worker PROVE x[g][<<w, r>>] > 0
      <4>1. PICK h \in Nat : h >= n /\ x[g] = Weight(h)
        OBVIOUS
      <4>2. r <= h
        BY <1>0, <3>1, <4>1, SMTT(20)
      <4> QED
        BY <4>1, <4>2, WeightAt
    <3>2. ASSUME r \in Complete(k, x) PROVE r <= n
      <4>1. PICK g \in ShardsOf[k] : x[g] = Weight(n)
        OBVIOUS
      <4>2. PICK w : w \in Worker
        BY Somewhere
      <4>3. x[g][<<w, r>>] > 0
        BY <3>2, <4>2 DEF Complete
      <4> QED
        BY <1>0, <4>1, <4>2, <4>3, WeightAt
    <3> QED
      BY <3>1, <3>2 DEF Complete
  <2>2. Complete(k, x) \subseteq 1 .. MaxRound
    BY DEF Complete
  <2>3. \A r \in 1 .. n : r \in 1 .. MaxRound /\ r <= n
    BY <1>0, SMTT(20)
  <2>4. \A r \in 1 .. MaxRound : r <= n => r \in 1 .. n
    BY <1>0, SMTT(20)
  <2> QED
    BY <2>1, <2>2, <2>3, <2>4
<1>2. Cardinality(1 .. n) = n
  BY <1>0 DEF Counting
<1> QED
  BY <1>1, <1>2

\* An array with a shard that has no gradients has no complete round.
LEMMA CompleteNone ==
  ASSUME Counting, NEW k \in Key, NEW x, NEW g \in ShardsOf[k],
         \A w \in Worker, r \in 1 .. MaxRound : x[g][<<w, r>>] = 0
  PROVE  Complete(k, x) = {} /\ Cardinality(Complete(k, x)) = 0
<1>1. PICK w : w \in Worker
  BY Somewhere
<1>2. Complete(k, x) = {}
  <2> SUFFICES ASSUME NEW r \in Complete(k, x) PROVE FALSE
    OBVIOUS
  <2>1. r \in 1 .. MaxRound /\ x[g][<<w, r>>] > 0
    BY <1>1 DEF Complete
  <2>2. x[g][<<w, r>>] = 0
    BY <1>1, <2>1
  <2> QED
    BY <2>1, <2>2, SMTT(20)
<1> QED
  BY <1>2 DEF Counting

\* Iterations reads the round off the weights.
LEMMA IterationsOf ==
  ASSUME Counting, NEW k \in Key, NEW n \in 0 .. MaxRound
  PROVE  Iterations(k, Fill(k, Weight(n))) = n
<1>1. PICK x : x = Fill(k, Weight(n))
  OBVIOUS
<1>2. n \in Nat /\ \A g \in ShardsOf[k] : x[g] = Weight(n)
  BY <1>1, ConstantsAssumption, SMTT(20) DEF Fill
<1>3. \A g \in ShardsOf[k] : \E h \in Nat : h >= n /\ x[g] = Weight(h)
  BY <1>2, SMTT(20)
<1>4. \E g \in ShardsOf[k] : x[g] = Weight(n)
  BY <1>2, Somewhere
<1>5. Cardinality(Complete(k, x)) = n
  BY <1>3, <1>4, CompleteCount
<1>6. Iterations(k, x) = n
  BY <1>1, <1>5 DEF Iterations
<1> QED
  BY <1>1, <1>6

\* And that the value a worker made up is none.
LEMMA IterationsOfOwn ==
  ASSUME Counting, NEW k \in Key, NEW w \in Worker
  PROVE  Iterations(k, Fill(k, Unit(w, 0))) = -1
<1>1. PICK x : x = Fill(k, Unit(w, 0))
  OBVIOUS
<1>2. PICK g : g \in ShardsOf[k]
  BY Somewhere
<1>3. x[g] = Unit(w, 0)
  BY <1>1, <1>2 DEF Fill
<1>4. ASSUME NEW v \in Worker, NEW r \in 1 .. MaxRound PROVE x[g][<<v, r>>] = 0
  <2>1. <<v, r>> \in Atom /\ <<v, r>> # <<w, 0>>
    BY ConstantsAssumption, SMTT(20) DEF Atom, Round
  <2> QED
    BY <1>3, <2>1 DEF Unit
<1>5. Cardinality(Complete(k, x)) = 0
  BY <1>2, <1>4, CompleteNone, SMTT(20)
<1>6. x # Fill(k, Weight(0))
  <2>1. <<w, 0>> \in Atom /\ <<w, 0>> # <<Master, 0>> /\ <<w, 0>>[2] = 0
    BY ConstantsAssumption, SMTT(20) DEF Atom, Round
  <2>2. Unit(w, 0)[<<w, 0>>] = 1
    BY <2>1 DEF Unit
  <2>3. Weight(0)[<<w, 0>>] = 0
    BY <2>1, SMTT(20) DEF Weight
  <2>4. Fill(k, Weight(0))[g] = Weight(0)
    BY <1>2 DEF Fill
  <2> QED
    BY <1>3, <2>2, <2>3, <2>4, SMTT(20)
<1>7. Iterations(k, x) = -1
  BY <1>5, <1>6 DEF Iterations
<1> QED
  BY <1>1, <1>7

\* What BSP sees of a worker.
LEMMA ViewIs ==
  ASSUME Counting, TypeOK, LocalInv, Held, NEW w \in Worker, NEW k \in Key
  PROVE  Iterations(k, pulled[w][k]) = View(w, k)
<1>1. round[w][k] \in 0 .. MaxRound /\ MaxRound \in Nat
  BY ConstantsAssumption, SMTT(20) DEF TypeOK, WorkerTypeOK, Round
<1>2. HeldOK(w, k)
  BY DEF Held
<1>3. CASE phase[w][k] = "idle"
  BY <1>1, <1>2, <1>3, IterationsOf DEF HeldOK, View
<1>4. CASE phase[w][k] # "idle" /\ round[w][k] = 0
  BY <1>2, <1>4, IterationsOfOwn, SMTT(20) DEF HeldOK, View
<1>5. CASE phase[w][k] # "idle" /\ round[w][k] # 0
  <2>1. round[w][k] - 1 \in 0 .. MaxRound
    BY <1>1, <1>5, SMTT(20)
  <2> QED
    BY <1>2, <1>5, <2>1, IterationsOf DEF HeldOK, View
<1> QED
  BY <1>3, <1>4, <1>5

\* Initially.
LEMMA InitHeld == Init => Held /\ Empty
<1> SUFFICES ASSUME Init PROVE Held /\ Empty
  OBVIOUS
<1>1. Held
  BY DEF Init, Held, HeldOK
<1>2. Empty
  BY ServerType DEF Init, Empty
<1> QED
  BY <1>1, <1>2

\* Arrays of the global servers change with GlobalInit and GlobalApply only.
LEMMA GlobalStores ==
  ASSUME TypeOK, [Next]_vars
  PROVE  \/ \A g \in GServer : stored'[g] = stored[g] /\ store_'[g] = store_[g]
         \/ \E m \in gnet : GlobalInit(m) \/ GlobalApply(m)
<1>0. /\ DOMAIN store_ = Server /\ DOMAIN stored = Server
      /\ \A p \in Party, g \in GServer : p # g /\ g \in Server
  BY ServerType DEF TypeOK, StoreTypeOK, ArraysTypeOK
<1>1. WorkerStep \/ MasterStep \/ PullStep \/ UNCHANGED vars => stored' = stored /\ store_' = store_
  <2>1. WorkerStep => UNCHANGED store_vars
    BY DEF WorkerStep, InitPush, InitSkip, FirstPull, PushGradient, InitAcked, PushAcked, PullDone
  <2>2. MasterStep \/ PullStep => UNCHANGED store_vars
    BY DEF MasterStep, MasterInit, MasterAcked, PullStep, PullPop, PullRead, PullRespond
  <2>3. UNCHANGED vars => UNCHANGED store_vars
    BY DEF vars
  <2>4. UNCHANGED store_vars => stored' = stored /\ store_' = store_
    BY DEF store_vars
  <2> QED
    BY <2>1, <2>2, <2>3, <2>4
<1>2. ASSUME PartyStep PROVE \A g \in GServer : stored'[g] = stored[g] /\ store_'[g] = store_[g]
  <2>1. ASSUME NEW m \in lnet, LocalInit(m) \/ LocalAggregate(m) \/ LocalForward(m)
        PROVE  \A g \in GServer : stored'[g] = stored[g] /\ store_'[g] = store_[g]
    <3>1. PICK p \in Party : p = PartyOf[m.worker]
      BY LocalMsgType, ServerType DEF TypeOK
    <3> QED
      BY <1>0, <2>1, <3>1 DEF LocalInit, LocalAggregate, LocalForward
  <2>2. ASSUME NEW m \in gnet, PullResponseLast(m)
        PROVE  \A g \in GServer : stored'[g] = stored[g] /\ store_'[g] = store_[g]
    <3>1. m.peer \in Party
      BY <2>2 DEF PullResponseLast, IsResponse
    <3> QED
      BY <1>0, <2>2, <3>1 DEF PullResponseLast
  <2>3. ASSUME NEW m \in gnet, PushResponseWait(m) \/ PushResponseLast(m) \/ PullResponsePart(m)
        PROVE  stored' = stored /\ store_' = store_
    BY <2>3 DEF PushResponseWait, PushResponseLast, PullResponsePart, store_vars
  <2> QED
    BY <1>2, <2>1, <2>2, <2>3 DEF PartyStep
<1>3. GlobalStep => \/ stored' = stored /\ store_' = store_
                    \/ \E m \in gnet : GlobalInit(m) \/ GlobalApply(m)
  BY DEF GlobalStep, GlobalAggregate
<1> QED
  BY <1>1, <1>2, <1>3 DEF Next, Terminated

\* A worker's round and parameter change with PushGradient and PullDone only,
\* and only these start or end its rest.
SameFields ==
  /\ round' = round /\ pulled' = pulled
  /\ \A w \in Worker, k \in Key : phase'[w][k] = "idle" <=> phase[w][k] = "idle"

\* A phase set from and to something other than rest.
LEMMA PhaseSet ==
  ASSUME TypeOK, NEW v \in Worker, NEW j \in Key, NEW ph, SetPhase(v, j, ph), ph # "idle",
         phase[v][j] # "idle"
  PROVE  \A w \in Worker, k \in Key : phase'[w][k] = "idle" <=> phase[w][k] = "idle"
<1> SUFFICES ASSUME NEW w \in Worker, NEW k \in Key
             PROVE  phase'[w][k] = "idle" <=> phase[w][k] = "idle"
  OBVIOUS
<1>1. phase'[w][k] = IF w = v /\ k = j THEN ph ELSE phase[w][k]
  BY DEF SetPhase, TypeOK, WorkerTypeOK
<1> QED
  BY <1>1

\* Every step is one of the two or leaves these fields alone.
LEMMA WorkerFields ==
  ASSUME TypeOK, LocalInv, [Next]_vars
  PROVE  \/ SameFields
         \/ \E w \in Worker, k \in Key : PushGradient(w, k)
         \/ \E m \in lnet : PullDone(m)
<1>1. ASSUME NEW w \in Worker, NEW k \in Key, InitPush(w, k) \/ InitSkip(w, k) \/ FirstPull(w, k)
      PROVE  SameFields
  <2>1. PICK ph : SetPhase(w, k, ph) /\ ph # "idle"
    BY <1>1, SMTT(20) DEF InitPush, InitSkip, FirstPull
  <2>2. phase[w][k] # "idle" /\ round' = round /\ pulled' = pulled
    BY <1>1 DEF InitPush, InitSkip, FirstPull, ReadyToInit
  <2> QED
    BY <2>1, <2>2, PhaseSet DEF SameFields
<1>2. ASSUME NEW m \in lnet, InitAcked(m) \/ PushAcked(m) PROVE SameFields
  <2>1. PICK ph : SetPhase(m.worker, m.key, ph) /\ ph # "idle"
    BY <1>2, SMTT(20) DEF InitAcked, PushAcked
  <2>2. phase[m.worker][m.key] # "idle" /\ round' = round /\ pulled' = pulled
    BY <1>2 DEF InitAcked, PushAcked
  <2>3. m.worker \in Worker /\ m.key \in Key
    BY LocalMsgType DEF TypeOK
  <2> QED
    BY <2>1, <2>2, <2>3, PhaseSet DEF SameFields
<1>3. MasterStep \/ PartyStep \/ GlobalStep \/ PullStep \/ UNCHANGED vars => UNCHANGED worker_vars
  BY DEF MasterStep, MasterInit, MasterAcked, PullStep, PullPop, PullRead, PullRespond,
         PartyStep, LocalInit, LocalAggregate, LocalForward, PushResponseWait, PushResponseLast,
         PullResponsePart, PullResponseLast, GlobalStep, GlobalInit, GlobalAggregate, GlobalApply, vars
<1>4. UNCHANGED worker_vars => SameFields
  BY DEF worker_vars, SameFields
<1> QED
  BY <1>1, <1>2, <1>3, <1>4 DEF Next, Terminated, WorkerStep

\* An array has its initial content until the first push of its key.
LEMMA NextEmpty ==
  ASSUME TypeOK, Empty, [Next]_vars
  PROVE  Empty'
<1> SUFFICES ASSUME NEW g \in GServer, NEW k \in Key, k \notin stored'[g] PROVE store_'[g][k] = Zero
  BY DEF Empty
<1>1. CASE \A h \in GServer : stored'[h] = stored[h] /\ store_'[h] = store_[h]
  BY <1>1 DEF Empty
<1>2. CASE \E m \in gnet : GlobalInit(m) \/ GlobalApply(m)
  <2>1. PICK m \in gnet : GlobalInit(m) \/ GlobalApply(m)
    BY <1>2
  <2>2. PICK h, j, x : /\ h = m.server /\ j = m.key /\ store_' = [store_ EXCEPT ![h][j] = x]
    <3>1. GlobalInit(m) => store_' = [store_ EXCEPT ![m.server][m.key] = m.val]
      BY DEF GlobalInit
    <3>2. GlobalApply(m) => \E x : store_' = [store_ EXCEPT ![m.server][m.key] = x]
      BY DEF GlobalApply
    <3> QED
      BY <2>1, <3>1, <3>2
  <2>3. h \in Server /\ j \in Key /\ g \in Server
    BY <2>2, GlobalMsgType, ServerType DEF TypeOK
  <2>4. j \in stored'[h] /\ stored[g] \subseteq stored'[g]
    <3>1. DOMAIN stored = Server
      BY DEF TypeOK, StoreTypeOK
    <3>2. CASE GlobalInit(m)
      <4>1. stored' = [stored EXCEPT ![h] = @ \cup {j}]
        BY <2>2, <3>2 DEF GlobalInit
      <4> QED
        BY <2>3, <3>1, <4>1
    <3>3. CASE GlobalApply(m)
      BY <2>2, <3>3 DEF GlobalApply
    <3> QED
      BY <2>1, <3>2, <3>3
  <2>5. h # g \/ j # k
    BY <2>4
  <2>6. store_'[g][k] = store_[g][k]
    BY <2>2, <2>3, <2>5 DEF TypeOK, StoreTypeOK, ArraysTypeOK
  <2> QED
    BY <2>4, <2>6 DEF Empty
<1> QED
  BY <1>1, <1>2, GlobalStores

\* A worker's parameter has the weights of its last pull until the next.
LEMMA NextHeld ==
  ASSUME TypeOK, LocalInv, Held, [Next]_vars
  PROVE  Held'
<1> SUFFICES ASSUME NEW w \in Worker, NEW k \in Key PROVE HeldOK(w, k)'
  BY DEF Held
<1>0. /\ HeldOK(w, k) /\ round[w][k] \in Nat
      /\ DOMAIN phase = Worker /\ DOMAIN round = Worker /\ DOMAIN pulled = Worker
      /\ DOMAIN phase[w] = Key /\ DOMAIN round[w] = Key /\ DOMAIN pulled[w] = Key
  BY SMTT(20) DEF Held, TypeOK, WorkerTypeOK, Round
<1>1. CASE SameFields
  BY <1>0, <1>1 DEF HeldOK, SameFields
<1>2. ASSUME NEW v \in Worker, NEW j \in Key, PushGradient(v, j) PROVE HeldOK(w, k)'
  <2>1. /\ phase[v][j] = "idle" /\ phase' = [phase EXCEPT ![v][j] = "pushing"]
        /\ round' = [round EXCEPT ![v][j] = round[v][j] + 1] /\ pulled' = pulled
    BY <1>2 DEF PushGradient, SetPhase
  <2>2. CASE v = w /\ j = k
    <3>1. phase'[w][k] = "pushing" /\ round'[w][k] = round[w][k] + 1
      BY <1>0, <2>1, <2>2
    <3>2. round'[w][k] # 0 /\ round'[w][k] - 1 = round[w][k]
      BY <1>0, <3>1, SMTT(20)
    <3> QED
      BY <1>0, <2>1, <2>2, <3>1, <3>2 DEF HeldOK
  <2>3. CASE v # w \/ j # k
    <3>1. phase'[w][k] = phase[w][k] /\ round'[w][k] = round[w][k]
      BY <1>0, <2>1, <2>3
    <3> QED
      BY <1>0, <2>1, <3>1 DEF HeldOK
  <2> QED
    BY <2>2, <2>3
<1>3. ASSUME NEW m \in lnet, PullDone(m) PROVE HeldOK(w, k)'
  <2>1. PICK v, j : v = m.worker /\ j = m.key
    OBVIOUS
  <2>2. /\ m.type = "pull_data" /\ phase' = [phase EXCEPT ![v][j] = "idle"]
        /\ pulled' = [pulled EXCEPT ![v][j] = m.val] /\ round' = round
    BY <1>3, <2>1 DEF PullDone, SetPhase
  <2>3. v \in Worker /\ j \in Key /\ m.val = Fill(j, Weight(round[v][j]))
    BY <2>1, <2>2, LocalMsgType DEF LocalInv, Locals, LocalOK, TypeOK
  <2>4. CASE v = w /\ j = k
    <3>1. phase'[w][k] = "idle" /\ pulled'[w][k] = m.val
      BY <1>0, <2>2, <2>4
    <3> QED
      BY <2>2, <2>3, <2>4, <3>1 DEF HeldOK
  <2>5. CASE v # w \/ j # k
    <3>1. phase'[w][k] = phase[w][k] /\ pulled'[w][k] = pulled[w][k]
      BY <1>0, <2>2, <2>3, <2>5 DEF TypeOK, WorkerTypeOK
    <3> QED
      BY <1>0, <2>2, <3>1 DEF HeldOK
  <2> QED
    BY <2>4, <2>5
<1> QED
  BY <1>1, <1>2, <1>3, WorkerFields

\* The version of a key as its parties know it.
VersionsOK ==
  \A p \in Party, k \in Key :
    (\A g \in ShardsOf[k] : k \in stored[g]) =>
      \/ Version(k) = Ver(p, k)
      \/ Version(k) = Ver(p, k) + 1 /\ \A g \in ShardsOf[k] : Has(p, g, k) = Ver(p, k) + 1

\* Rounds of the workers of a party.
LEMMA RoundOf ==
  ASSUME TypeOK, LocalInv, NEW p \in Party, NEW k \in Key
  PROVE  /\ Ver(p, k) \in 0 .. MaxRound
         /\ \A w \in WorkersOf(p) : Busy(p, k) => round[w][k] = Ver(p, k) + 1 /\ phase[w][k] = "pushing"
         /\ Busy(p, k) => Ver(p, k) + 1 \in 0 .. MaxRound
<1>0. \A w \in Worker : round[w][k] \in Nat /\ round[w][k] <= MaxRound
  BY ConstantsAssumption, SMTT(20) DEF TypeOK, WorkerTypeOK, Round
<1>r. Rank0[p] \in WorkersOf(p) /\ WorkersOf(p) \subseteq Worker /\ MaxRound \in Nat /\ Stage(p, k)
  BY ConstantsAssumption DEF WorkersOf, LocalInv, Stages
<1>1. Ver(p, k) \in 0 .. MaxRound
  <2>1. Ver(p, k) \in Nat
    BY VersionType
  <2>2. Ver(p, k) = round[Rank0[p]][k] \/ Ver(p, k) = round[Rank0[p]][k] - 1
    BY DEF Ver, Acked
  <2>3. round[Rank0[p]][k] \in Nat /\ round[Rank0[p]][k] <= MaxRound
    BY <1>0, <1>r
  <2> QED
    BY <1>r, <2>1, <2>2, <2>3, SMTT(20)
<1>2. ASSUME NEW w \in WorkersOf(p), Busy(p, k)
      PROVE  round[w][k] = Ver(p, k) + 1 /\ phase[w][k] = "pushing"
  <2>1. PICK q : q = <<w, round[w][k]>>
    OBVIOUS
  <2>2. q \in request_tmp[p][k] /\ q[1] = w
    BY <1>2, <1>r, <2>1 DEF Stage, Forwarded, From
  <2>3. phase[w][k] = "pushing" /\ Silent(w, k)
    BY <1>r, <2>2 DEF Stage, Forwarded, Waiting
  <2>4. ~Acknowledged(w, k)
    BY <2>3 DEF Silent, Acknowledged
  <2>5. Ver(p, k) = round[w][k] - 1
    BY <1>r, <2>3, <2>4 DEF Stage, SameRound, Acked
  <2>6. round[w][k] \in Nat
    BY <1>0, <1>r
  <2> QED
    BY <2>3, <2>5, <2>6, SMTT(20)
<1>3. Busy(p, k) => Ver(p, k) + 1 \in 0 .. MaxRound
  <2> SUFFICES ASSUME Busy(p, k) PROVE Ver(p, k) + 1 \in 0 .. MaxRound
    OBVIOUS
  <2>1. round[Rank0[p]][k] = Ver(p, k) + 1 /\ round[Rank0[p]][k] \in Nat /\ round[Rank0[p]][k] <= MaxRound
    BY <1>0, <1>2, <1>r
  <2> QED
    BY <1>r, <2>1, SMTT(20)
<1> QED
  BY <1>1, <1>2, <1>3

\* The shards of a key are at most one round apart, and a party that is between
\* rounds knows the version.
LEMMA VersionFacts == Counting /\ IInv => VersionsOK
<1> SUFFICES ASSUME Counting, IInv, NEW p \in Party, NEW k \in Key, \A g \in ShardsOf[k] : k \in stored[g]
             PROVE  \/ Version(k) = Ver(p, k)
                    \/ /\ Version(k) = Ver(p, k) + 1
                       /\ \A g \in ShardsOf[k] : Has(p, g, k) = Ver(p, k) + 1
  BY DEF VersionsOK
<1>0. TypeOK /\ LocalInv /\ GlobalInv
  BY DEF IInv
<1>1. PICK x : x = [g \in ShardsOf[k] |-> store_[g][k]]
  OBVIOUS
<1>2. Version(k) = Cardinality(Complete(k, x))
  BY <1>1 DEF Version
<1>3. PICK v \in 0 .. MaxRound : v = Ver(p, k) /\ (Busy(p, k) => v + 1 \in 0 .. MaxRound)
  BY <1>0, RoundOf
<1>4. \A g \in ShardsOf[k] : x[g] = Weight(Has(p, g, k))
  <2> SUFFICES ASSUME NEW g \in ShardsOf[k] PROVE store_[g][k] = Weight(Has(p, g, k))
    BY <1>1
  <2>1. g \in GServer /\ k \in stored[g]
    BY ShardsType
  <2>2. ShardOK(g, k)
    BY <1>0, <2>1 DEF GlobalInv, Shards
  <2> QED
    BY <2>1, <2>2 DEF ShardOK
<1>5. \A g \in ShardsOf[k] : Has(p, g, k) = v \/ (Has(p, g, k) = v + 1 /\ Busy(p, k))
  BY <1>3 DEF Has, Applied
<1>6. v \in Nat /\ v + 1 \in Nat /\ v <= v /\ v + 1 >= v /\ v + 1 >= v + 1
  BY <1>3, ConstantsAssumption, SMTT(20)
<1>7. CASE \E g \in ShardsOf[k] : Has(p, g, k) = v
  <2>1. \A g \in ShardsOf[k] : \E h \in Nat : h >= v /\ x[g] = Weight(h)
    BY <1>4, <1>5, <1>6
  <2>2. \E g \in ShardsOf[k] : x[g] = Weight(v)
    BY <1>4, <1>7
  <2>3. Cardinality(Complete(k, x)) = v
    BY <2>1, <2>2, CompleteCount
  <2> QED
    BY <1>2, <1>3, <2>3
<1>8. CASE ~\E g \in ShardsOf[k] : Has(p, g, k) = v
  <2>1. \A g \in ShardsOf[k] : Has(p, g, k) = v + 1 /\ x[g] = Weight(v + 1)
    BY <1>4, <1>5, <1>8
  <2>2. \E g : g \in ShardsOf[k]
    BY Somewhere
  <2>3. v + 1 \in 0 .. MaxRound
    BY <1>3, <1>5, <1>8, <2>2
  <2>4. PICK n \in 0 .. MaxRound : n = v + 1
    BY <2>3
  <2>5. \A g \in ShardsOf[k] : \E h \in Nat : h >= n /\ x[g] = Weight(h)
    BY <1>6, <2>1, <2>4
  <2>6. \E g \in ShardsOf[k] : x[g] = Weight(n)
    BY <2>1, <2>2, <2>4
  <2>7. Cardinality(Complete(k, x)) = n
    BY <2>5, <2>6, CompleteCount
  <2> QED
    BY <1>2, <1>3, <2>1, <2>4, <2>7
<1> QED
  BY <1>7, <1>8

\* The same after a step.
LEMMA VersionFactsAfter ==
  ASSUME Counting
  PROVE  IInv' => VersionsOK'
<1>1. IInv => VersionsOK
  BY VersionFacts
<1> QED
  BY <1>1, PTL

\* A worker that rests or is being served has the newest version's round.
LEMMA Newest ==
  ASSUME Counting, IInv, NEW w \in Worker, NEW k \in Key, phase[w][k] \in {"idle", "pulling"},
         k \in initialized_[PartyOf[w]]
  PROVE  Version(k) = round[w][k]
<1> DEFINE p == PartyOf[w]
<1>0. TypeOK /\ LocalInv /\ GlobalInv /\ p \in Party /\ w \in WorkersOf(p)
  BY ServerType DEF IInv, WorkersOf
<1>1. ~Busy(p, k)
  BY <1>0, RoundOf
<1>2. Ver(p, k) = round[w][k]
  BY <1>0 DEF LocalInv, Stages, Stage, SameRound, Acked
<1>3. \A g \in ShardsOf[k] : k \in stored[g]
  BY <1>0, VersionType
<1>4. \A g \in ShardsOf[k] : Has(p, g, k) = Ver(p, k)
  BY <1>1 DEF Has, Applied
<1>5. Ver(p, k) \in Nat
  BY <1>0, VersionType
<1>6. (\E g : g \in ShardsOf[k]) /\ Ver(p, k) # Ver(p, k) + 1
  BY <1>5, Somewhere, SMTT(20)
<1>7. \/ Version(k) = Ver(p, k)
      \/ Version(k) = Ver(p, k) + 1 /\ \A g \in ShardsOf[k] : Has(p, g, k) = Ver(p, k) + 1
  BY <1>0, <1>3, VersionFacts DEF VersionsOK
<1> QED
  BY <1>2, <1>4, <1>6, <1>7

\* The version of a key is a function of its shards.
LEMMA VersionSame ==
  ASSUME NEW k \in Key, \A g \in ShardsOf[k] : store_'[g][k] = store_[g][k]
  PROVE  Version(k)' = Version(k)
<1>1. PICK x : x = [g \in ShardsOf[k] |-> store_[g][k]]
  OBVIOUS
<1>2. [g \in ShardsOf[k] |-> store_'[g][k]] = x
  BY <1>1
<1>3. Version(k) = Cardinality(Complete(k, x))
  BY <1>1 DEF Version
<1>4. Version(k)' = Cardinality(Complete(k, x))
  BY <1>2 DEF Version
<1> QED
  BY <1>3, <1>4

\* What BSP may see of a step at the global servers: nothing, or one more
\* version of one key, for which all workers have pushed.
SameVersions == \A k \in Key : Version(k)' = Version(k)
NewVersion(k) ==
  /\ UNCHANGED worker_vars
  /\ Version(k)' = Version(k) + 1
  /\ \A j \in Key \ {k} : Version(j)' = Version(j)
  /\ \A w \in Worker : round[w][k] = Version(k) + 1

\* A key has version 0 until all its shards are there, and at that moment.
LEMMA GlobalInitVersions ==
  ASSUME Counting, IInv, IInv', Empty, NEW m \in gnet, GlobalInit(m)
  PROVE  SameVersions
<1> DEFINE g == m.server
           k == m.key
<1>0. TypeOK /\ LocalInv /\ GlobalInv
  BY DEF IInv
<1>1. g \in GServer /\ g \in Server /\ k \in Key /\ m.peer \in Peer
  BY <1>0, GlobalMsgType, ServerType DEF TypeOK
<1>2. m.type = "push" /\ k \notin stored[g] /\ store_' = [store_ EXCEPT ![g][k] = m.val]
  BY DEF GlobalInit, IsGlobalPush
<1>3. store_[g][k] = Zero
  BY <1>1, <1>2 DEF Empty
<1>4. m.peer = Master
  <2>1. ASSUME m.peer \in Party PROVE FALSE
    <3>1. GlobalOK(m)
      BY <1>0, <2>1 DEF GlobalInv, Globals
    <3>2. g \in ShardsOf[k] /\ <<m.ts, k>> \in ts_key_map_[m.peer] /\ <<m.ts, k>>[2] = k
      BY <1>2, <3>1 DEF GlobalOK
    <3>3. Pushing(m.peer, k)
      BY <3>2 DEF Pushing
    <3> QED
      BY <1>0, <1>1, <1>2, <2>1, <3>2, <3>3, VersionType
  <2> QED
    BY <1>1, <2>1 DEF Peer
<1>5. g \in ShardsOf[k] /\ m.val = Unit(Master, 0)
  BY <1>0, <1>2, <1>4 DEF GlobalInv, Masters, MasterOK
<1>6. store_'[g][k] = Unit(Master, 0)
  BY <1>0, <1>1, <1>2, <1>5 DEF TypeOK, StoreTypeOK, ArraysTypeOK
<1>7. ASSUME NEW w \in Worker, NEW r \in 1 .. MaxRound
      PROVE  Zero[<<w, r>>] = 0 /\ Unit(Master, 0)[<<w, r>>] = 0
  <2>1. <<w, r>> \in Atom /\ <<w, r>> # <<Master, 0>>
    BY ConstantsAssumption, SMTT(20) DEF Atom, Round
  <2> QED
    BY <2>1 DEF Zero, Unit
<1>8. Version(k) = 0
  <2>1. PICK x : x = [h \in ShardsOf[k] |-> store_[h][k]]
    OBVIOUS
  <2>2. x[g] = Zero
    BY <1>3, <1>5, <2>1
  <2>3. \A w \in Worker, r \in 1 .. MaxRound : x[g][<<w, r>>] = 0
    BY <1>7, <2>2
  <2>4. Cardinality(Complete(k, x)) = 0
    BY <1>1, <1>5, <2>3, CompleteNone, SMTT(20)
  <2> QED
    BY <2>1, <2>4 DEF Version
<1>9. Version(k)' = 0
  <2>1. PICK x : x = [h \in ShardsOf[k] |-> store_'[h][k]]
    OBVIOUS
  <2>2. x[g] = Unit(Master, 0)
    BY <1>6, <1>5, <2>1
  <2>3. \A w \in Worker, r \in 1 .. MaxRound : x[g][<<w, r>>] = 0
    BY <1>7, <2>2
  <2>4. Cardinality(Complete(k, x)) = 0
    BY <1>1, <1>5, <2>3, CompleteNone, SMTT(20)
  <2> QED
    BY <2>1, <2>4 DEF Version
<1>10. ASSUME NEW j \in Key, j # k PROVE Version(j)' = Version(j)
  <2>1. \A h \in ShardsOf[j] : h \in Server
    BY ShardsType, ServerType
  <2>2. \A h \in ShardsOf[j] : store_'[h][j] = store_[h][j]
    BY <1>0, <1>1, <1>2, <1>10, <2>1 DEF TypeOK, StoreTypeOK, ArraysTypeOK
  <2> QED
    BY <2>2, VersionSame
<1> QED
  BY <1>8, <1>9, <1>10 DEF SameVersions

\* A shard's update is invisible until it is the key's last, and then it
\* completes the round that every worker is in.
LEMMA GlobalApplyVersions ==
  ASSUME Counting, IInv, IInv', NEW m \in gnet, GlobalApply(m)
  PROVE  SameVersions \/ NewVersion(m.key)
<1> DEFINE g == m.server
           k == m.key
<1>0. TypeOK /\ LocalInv /\ GlobalInv
  BY DEF IInv
<1>1. /\ m.type = "push" /\ k \in stored[g] /\ GlobalComplete(request[g][k] \cup {GlobalMeta(m)})
      /\ UNCHANGED worker_vars /\ lnet' = lnet /\ stored' = stored
  BY DEF GlobalApply, IsGlobalPush
<1>2. g \in GServer /\ g \in Server /\ k \in Key /\ g \in ShardsOf[k]
      /\ m.peer \in Party /\ Has(m.peer, g, k) = Ver(m.peer, k) /\ Ver(m.peer, k) \in Nat
      /\ Busy(m.peer, k)
  BY <1>0, <1>1, GlobalPushFacts
<1>3. PICK x : store_' = [store_ EXCEPT ![g][k] = x]
  BY DEF GlobalApply
<1>4. \A h \in ShardsOf[k] : k \in stored[h] /\ k \in stored'[h]
  BY <1>0, <1>1, <1>2, VersionType
<1>5. Version(k) = Ver(m.peer, k)
  <2>1. VersionsOK
    BY VersionFacts
  <2>2. \/ Version(k) = Ver(m.peer, k)
        \/ \A h \in ShardsOf[k] : Has(m.peer, h, k) = Ver(m.peer, k) + 1
    BY <1>2, <1>4, <2>1 DEF VersionsOK
  <2>3. Ver(m.peer, k) # Ver(m.peer, k) + 1
    BY <1>2, SMTT(20)
  <2> QED
    BY <1>2, <2>2, <2>3
<1>6. Version(k)' = Ver(m.peer, k) \/ Version(k)' = Ver(m.peer, k) + 1
  <2>1. PICK p \in Party : p = m.peer
    BY <1>2
  <2>2. Ver(p, k)' = Ver(p, k)
    BY <1>1 DEF Ver, Acked, Acknowledged, worker_vars
  <2>3. VersionsOK'
    BY VersionFactsAfter
  <2>4. Version(k)' = Ver(p, k)' \/ Version(k)' = Ver(p, k)' + 1
    BY <1>2, <1>4, <2>3 DEF VersionsOK
  <2> QED
    BY <2>1, <2>2, <2>4
<1>7. ASSUME NEW w \in Worker PROVE round[w][k] = Ver(m.peer, k) + 1
  <2>1. PICK p \in Party : p = PartyOf[w] /\ w \in WorkersOf(p)
    BY ServerType DEF WorkersOf
  <2>2. PICK reqs : reqs = request[g][k] \cup {<<m.peer, m.ts>>}
    OBVIOUS
  <2>3. /\ \A q \in reqs : <<q[2], k>> \in ts_key_map_[q[1]]
        /\ \E q \in reqs : q[1] = p
    BY <1>0, <1>1, <2>1, <2>2, CompleteGlobal
  <2>4. PICK q \in reqs : q[1] = p
    BY <2>3
  <2>5. <<q[2], k>> \in ts_key_map_[p] /\ <<q[2], k>>[2] = k
    BY <2>3, <2>4
  <2>6. Busy(p, k)
    BY <1>0, <1>2, <2>5, VersionType DEF Pushing
  <2>7. round[w][k] = Ver(p, k) + 1
    BY <1>0, <1>2, <2>1, <2>6, RoundOf
  <2>8. Has(p, g, k) = Ver(p, k)
    <3>1. CASE q \in request[g][k]
      BY <2>4, <3>1 DEF Has, Applied, Waits
    <3>2. CASE q = <<m.peer, m.ts>>
      BY <1>2, <2>4, <3>2
    <3> QED
      BY <2>2, <3>1, <3>2
  <2>9. Has(p, g, k) = Has(m.peer, g, k)
    <3>1. ShardOK(g, k)
      BY <1>0, <1>2 DEF GlobalInv, Shards
    <3> QED
      BY <1>1, <1>2, <3>1 DEF ShardOK
  <2> QED
    BY <1>2, <2>7, <2>8, <2>9
<1>8. ASSUME NEW j \in Key, j # k PROVE Version(j)' = Version(j)
  <2>1. \A h \in ShardsOf[j] : h \in Server
    BY ShardsType, ServerType
  <2>2. \A h \in ShardsOf[j] : store_'[h][j] = store_[h][j]
    BY <1>0, <1>2, <1>3, <1>8, <2>1 DEF TypeOK, StoreTypeOK, ArraysTypeOK
  <2> QED
    BY <2>2, VersionSame
<1> QED
  BY <1>1, <1>5, <1>6, <1>7, <1>8 DEF SameVersions, NewVersion

\* No other step is seen at all.
LEMMA NextVersions ==
  ASSUME Counting, IInv, IInv', Empty, [Next]_vars
  PROVE  SameVersions \/ \E k \in Key : NewVersion(k)
<1>0. TypeOK
  BY DEF IInv
<1>1. CASE \A g \in GServer : stored'[g] = stored[g] /\ store_'[g] = store_[g]
  <2>1. ASSUME NEW k \in Key PROVE \A g \in ShardsOf[k] : store_'[g][k] = store_[g][k]
    BY <1>1, ShardsType
  <2> QED
    BY <2>1, VersionSame DEF SameVersions
<1>2. ASSUME NEW m \in gnet, GlobalInit(m) PROVE SameVersions
  BY <1>2, GlobalInitVersions
<1>3. ASSUME NEW m \in gnet, GlobalApply(m) PROVE SameVersions \/ \E k \in Key : NewVersion(k)
  <2>1. m.key \in Key
    BY <1>0, GlobalMsgType DEF TypeOK
  <2> QED
    BY <1>3, <2>1, GlobalApplyVersions
<1> QED
  BY <1>0, <1>1, <1>2, <1>3, GlobalStores

\* The refinement mapping, as operators.
Versions == [k \in Key |-> Version(k)]
Contributors == [k \in Key |-> {w \in Worker : round[w][k] = Version(k) + 1}]
Views == [w \in Worker |-> [k \in Key |-> Iterations(k, pulled[w][k])]]

\* The steps of BSP under the mapping.
LEMMA MapInit ==
  Abstract!Init <=> /\ Versions = [k \in Key |-> 0]
                    /\ Contributors = [k \in Key |-> {}]
                    /\ Views = [w \in Worker |-> [k \in Key |-> -1]]
BY DEF Abstract!Init, Abstract!Nothing, Versions, Contributors, Views

\* A worker joins the contributors of the next version.
LEMMA MapContribute ==
  ASSUME NEW w \in Worker, NEW k \in Key,
         Versions[k] < MaxRound, w \notin Contributors[k], Views[w][k] = Versions[k],
         \A j \in Key : Views[w][j] >= Versions[k],
         Contributors' = [Contributors EXCEPT ![k] = @ \cup {w}],
         Versions' = Versions, Views' = Views
  PROVE  Abstract!Next
<1>1. Abstract!Contribute(w, k)
  BY DEF Abstract!Contribute, Versions, Contributors, Views
<1> QED
  BY <1>1 DEF Abstract!Next

\* A worker gets the newest version.
LEMMA MapFetch ==
  ASSUME NEW w \in Worker, NEW k \in Key,
         w \notin Contributors[k], Views[w][k] # Versions[k],
         Views' = [Views EXCEPT ![w][k] = Versions[k]],
         Versions' = Versions, Contributors' = Contributors
  PROVE  Abstract!Next
<1>1. Abstract!Fetch(w, k)
  BY DEF Abstract!Fetch, Versions, Contributors, Views
<1> QED
  BY <1>1 DEF Abstract!Next

\* A version that all workers have contributed to is committed.
LEMMA MapCommit ==
  ASSUME NEW k \in Key, Contributors[k] = Worker,
         Versions' = [Versions EXCEPT ![k] = @ + 1],
         Contributors' = [Contributors EXCEPT ![k] = {}], Views' = Views
  PROVE  Abstract!Next
<1>1. Abstract!Commit(k)
  BY DEF Abstract!Commit, Versions, Contributors, Views
<1> QED
  BY <1>1 DEF Abstract!Next

\* A step that BSP does not see.
LEMMA MapStutter ==
  ASSUME Versions' = Versions, Contributors' = Contributors, Views' = Views
  PROVE  UNCHANGED Abstract!vars
BY DEF Abstract!vars, Versions, Contributors, Views

\* What the simulation rests on.
RInv == IInv /\ Held /\ Empty

\* The script's own values are no version of a key.
LEMMA RefinementInit == Counting /\ Init => Abstract!Init
<1> SUFFICES ASSUME Counting, Init PROVE Abstract!Init
  OBVIOUS
<1>1. ASSUME NEW k \in Key PROVE Version(k) = 0
  <2>1. PICK x : x = [g \in ShardsOf[k] |-> store_[g][k]]
    OBVIOUS
  <2>2. PICK g : g \in ShardsOf[k]
    BY Somewhere
  <2>3. g \in Server /\ g \notin Party
    BY <2>2, ShardsType, ServerType
  <2>4. x[g] = Zero
    BY <2>1, <2>2, <2>3 DEF Init
  <2>5. ASSUME NEW w \in Worker, NEW r \in 1 .. MaxRound PROVE Zero[<<w, r>>] = 0
    BY ConstantsAssumption, SMTT(20) DEF Atom, Round, Zero
  <2>6. Cardinality(Complete(k, x)) = 0
    BY <2>2, <2>4, <2>5, CompleteNone
  <2> QED
    BY <2>1, <2>6 DEF Version
<1>2. Versions = [k \in Key |-> 0]
  BY <1>1 DEF Versions
<1>3. Contributors = [k \in Key |-> {}]
  <2>1. \A w \in Worker, k \in Key : round[w][k] # Version(k) + 1
    BY <1>1, SMTT(20) DEF Init
  <2> QED
    BY <2>1 DEF Contributors
<1>4. Views = [w \in Worker |-> [k \in Key |-> -1]]
  <2>1. \A w \in Worker, k \in Key : Iterations(k, pulled[w][k]) = -1
    BY IterationsOfOwn DEF Init
  <2> QED
    BY <2>1 DEF Views
<1> QED
  BY <1>2, <1>3, <1>4, MapInit

\* The versions are numbers.
LEMMA VersionNat ==
  ASSUME Counting, NEW k \in Key
  PROVE  Version(k) \in Nat
<1>1. PICK S : S = Complete(k, [g \in ShardsOf[k] |-> store_[g][k]])
  OBVIOUS
<1>2. S \subseteq 1 .. MaxRound
  BY <1>1 DEF Complete
<1>3. IsFiniteSet(1 .. MaxRound)
  BY ConstantsAssumption DEF Counting
<1>4. Cardinality(S) \in Nat
  BY <1>2, <1>3 DEF Counting
<1> QED
  BY <1>1, <1>4 DEF Version

\* A worker's push is a contribution.
LEMMA PushContributes ==
  ASSUME Counting, RInv, NEW w \in Worker, NEW k \in Key, PushGradient(w, k)
  PROVE  Abstract!Next
<1>0. TypeOK /\ LocalInv /\ IInv /\ Held
  BY DEF RInv, IInv
<1>1. \A v \in Worker, j \in Key : round[v][j] \in Nat
  BY <1>0, SMTT(20) DEF TypeOK, WorkerTypeOK, Round
<1>2. /\ phase[w][k] = "idle" /\ round[w][k] + 1 <= MaxRound
      /\ \A j \in Key : \/ round[w][j] = round[w][k] + 1
                        \/ round[w][j] = round[w][k] /\ phase[w][j] = "idle"
      /\ round' = [round EXCEPT ![w][k] = round[w][k] + 1]
      /\ pulled' = pulled /\ store_' = store_
  <2>1. PICK r : r = round[w][k] + 1
    OBVIOUS
  <2>2. /\ phase[w][k] = "idle" /\ r <= MaxRound
        /\ \A j \in Key : round[w][j] = r \/ (round[w][j] = r - 1 /\ phase[w][j] = "idle")
        /\ round' = [round EXCEPT ![w][k] = r]
        /\ pulled' = pulled /\ store_' = store_
    BY <2>1 DEF PushGradient, store_vars
  <2>3. r - 1 = round[w][k]
    BY <1>1, <2>1, SMTT(20)
  <2> QED
    BY <2>1, <2>2, <2>3
<1>3. k \in initialized_[PartyOf[w]]
  <2>1. PICK p \in Party : p = PartyOf[w] /\ w \in WorkersOf(p)
    BY ServerType DEF WorkersOf
  <2>2. Opening(p, k)
    BY <1>0, <2>1 DEF LocalInv, Stages, Stage
  <2> QED
    BY <1>2, <2>1, <2>2 DEF Opening, InitPhases
<1>4. Version(k) = round[w][k]
  BY <1>0, <1>2, <1>3, Newest
<1>5. \A v \in Worker, j \in Key : Views[v][j] = View(v, j)
  BY <1>0, ViewIs DEF Views
<1>6. Versions' = Versions
  BY <1>2, VersionSame DEF Versions
<1>7. Views' = Views
  BY <1>2 DEF Views
<1>8. ASSUME NEW j \in Key PROVE Views[w][j] >= Version(k)
  <2>1. View(w, j) = round[w][j] \/ View(w, j) = round[w][j] - 1
    BY DEF View
  <2>2. CASE round[w][j] = round[w][k] + 1
    <3>1. \A n, i, x : n \in Nat /\ i = n + 1 /\ (x = i \/ x = i - 1) => x >= n
      BY SMTT(20)
    <3>2. View(w, j) >= round[w][k]
      BY <1>1, <2>1, <2>2, <3>1
    <3> QED
      BY <1>4, <1>5, <3>2
  <2>3. CASE round[w][j] = round[w][k] /\ phase[w][j] = "idle"
    BY <1>1, <1>4, <1>5, <2>3, SMTT(20) DEF View
  <2> QED
    BY <1>2, <2>2, <2>3
<1>9. Views[w][k] = Version(k)
  BY <1>2, <1>4, <1>5 DEF View
<1>10. Versions[k] = Version(k) /\ w \notin Contributors[k] /\ Version(k) < MaxRound
  <2>1. MaxRound \in Nat /\ round[w][k] \in Nat
    BY <1>1, ConstantsAssumption
  <2>2. Version(k) < MaxRound /\ round[w][k] # Version(k) + 1
    BY <1>2, <1>4, <2>1, SMTT(20)
  <2> QED
    BY <2>2 DEF Versions, Contributors
<1>11. Contributors' = [Contributors EXCEPT ![k] = @ \cup {w}]
  <2>1. ASSUME NEW j \in Key
        PROVE  {v \in Worker : round'[v][j] = Version(j)' + 1} =
                 IF j = k THEN {v \in Worker : round[v][j] = Version(j) + 1} \cup {w}
                          ELSE {v \in Worker : round[v][j] = Version(j) + 1}
    <3>1. Version(j)' = Version(j)
      BY <1>2, VersionSame
    <3>2. \A v \in Worker : round'[v][j] = IF v = w /\ j = k THEN Version(k) + 1 ELSE round[v][j]
      BY <1>0, <1>2, <1>4 DEF TypeOK, WorkerTypeOK
    <3> QED
      BY <3>1, <3>2
  <2>2. Contributors' = [j \in Key |-> {v \in Worker : round'[v][j] = Version(j)' + 1}]
    BY DEF Contributors
  <2> QED
    BY <2>1, <2>2 DEF Contributors
<1> QED
  BY <1>6, <1>7, <1>8, <1>9, <1>10, <1>11, MapContribute

\* The end of a pull is a fetch.
LEMMA PullFetches ==
  ASSUME Counting, RInv, RInv', NEW m \in lnet, PullDone(m)
  PROVE  Abstract!Next
<1>0. TypeOK /\ LocalInv /\ IInv /\ Held
  BY DEF RInv, IInv
<1>1. PICK w \in Worker, k \in Key : w = m.worker /\ k = m.key
  BY <1>0, LocalMsgType DEF TypeOK
<1>2. /\ m.type = "pull_data" /\ phase' = [phase EXCEPT ![w][k] = "idle"]
      /\ pulled' = [pulled EXCEPT ![w][k] = m.val]
      /\ round' = round /\ store_' = store_
  BY <1>1 DEF PullDone, SetPhase, store_vars
<1>3. /\ phase[w][k] = "pulling" /\ k \in initialized_[PartyOf[w]]
      /\ m.val = Fill(k, Weight(round[w][k])) /\ round[w][k] \in 0 .. MaxRound
  BY <1>0, <1>1, <1>2 DEF LocalInv, Locals, LocalOK, TypeOK, WorkerTypeOK, Round
<1>4. Version(k) = round[w][k] /\ round[w][k] \in Nat
  <2>1. Version(k) = round[w][k]
    BY <1>0, <1>3, Newest
  <2> QED
    BY <1>3, <2>1, SMTT(20)
<1>5. Views[w][k] = round[w][k] - 1
  BY <1>0, <1>3, ViewIs DEF Views, View
<1>6. Versions' = Versions
  BY <1>2, VersionSame DEF Versions
<1>7. Contributors' = Contributors
  BY <1>2, VersionSame DEF Contributors
<1>8. Versions[k] = Version(k) /\ w \notin Contributors[k] /\ Views[w][k] # Versions[k]
  <2>1. round[w][k] # Version(k) + 1 /\ round[w][k] - 1 # Version(k)
    BY <1>4, SMTT(20)
  <2> QED
    BY <1>5, <2>1 DEF Versions, Contributors
<1>9. Views' = [Views EXCEPT ![w][k] = Versions[k]]
  <2>1. ASSUME NEW v \in Worker, NEW j \in Key
        PROVE  Iterations(j, pulled'[v][j]) =
                 IF v = w /\ j = k THEN Versions[k] ELSE Iterations(j, pulled[v][j])
    <3>1. pulled'[v][j] = IF v = w /\ j = k THEN m.val ELSE pulled[v][j]
      BY <1>0, <1>2 DEF TypeOK, WorkerTypeOK
    <3>2. Iterations(k, m.val) = Versions[k]
      BY <1>3, <1>4, <1>8, IterationsOf
    <3> QED
      BY <3>1, <3>2
  <2>2. Views' = [v \in Worker |-> [j \in Key |-> Iterations(j, pulled'[v][j])]]
    BY DEF Views
  <2>3. \A v \in Worker, j \in Key :
          Iterations(j, pulled'[v][j]) = IF v = w /\ j = k THEN Versions[k] ELSE Views[v][j]
    BY <2>1 DEF Views
  <2>4. \A v \in Worker : Views[v] = [j \in Key |-> Iterations(j, pulled[v][j])]
    BY DEF Views
  <2>5. ASSUME NEW v \in Worker
        PROVE  [j \in Key |-> Iterations(j, pulled'[v][j])] =
                 IF v = w THEN [Views[w] EXCEPT ![k] = Versions[k]] ELSE Views[v]
    <3>1. CASE v = w
      <4>1. DOMAIN Views[w] = Key
        BY <2>4, <3>1
      <4>2. \A j \in Key : Iterations(j, pulled'[v][j]) = IF j = k THEN Versions[k] ELSE Views[w][j]
        BY <2>3, <3>1
      <4> QED
        BY <3>1, <4>1, <4>2
    <3>2. CASE v # w
      <4>1. \A j \in Key : Iterations(j, pulled'[v][j]) = Views[v][j]
        BY <2>3, <3>2
      <4>2. Views[v] = [j \in Key |-> Views[v][j]]
        BY <2>4
      <4> QED
        BY <3>2, <4>1, <4>2
    <3> QED
      BY <3>1, <3>2
  <2>6. DOMAIN Views = Worker
    BY DEF Views
  <2> QED
    BY <2>2, <2>5, <2>6
<1> QED
  BY <1>6, <1>7, <1>8, <1>9, MapFetch

\* The update of a key's last shard is a commit.
LEMMA NewVersionCommits ==
  ASSUME Counting, NEW k \in Key, NewVersion(k)
  PROVE  Abstract!Next
<1>1. UNCHANGED <<round, pulled>> /\ Version(k)' = Version(k) + 1 /\ Version(k) \in Nat
  BY VersionNat DEF NewVersion, worker_vars
<1>2. Versions' = [Versions EXCEPT ![k] = @ + 1]
  BY <1>1 DEF Versions, NewVersion
<1>3. Views' = Views
  BY <1>1 DEF Views
<1>4. Contributors[k] = Worker
  BY DEF Contributors, NewVersion
<1>5. Contributors' = [Contributors EXCEPT ![k] = {}]
  <2>1. ASSUME NEW j \in Key
        PROVE  {v \in Worker : round'[v][j] = Version(j)' + 1} =
                 IF j = k THEN {} ELSE {v \in Worker : round[v][j] = Version(j) + 1}
    <3>1. CASE j = k
      <4>1. \A v \in Worker : round'[v][k] = Version(k) + 1 /\ Version(k) + 1 # Version(k)' + 1
        BY <1>1, SMTT(20) DEF NewVersion
      <4> QED
        BY <3>1, <4>1
    <3>2. CASE j # k
      <4>1. Version(j)' = Version(j)
        BY <3>2 DEF NewVersion
      <4> QED
        BY <1>1, <3>2, <4>1
    <3> QED
      BY <3>1, <3>2
  <2>2. Contributors' = [j \in Key |-> {v \in Worker : round'[v][j] = Version(j)' + 1}]
    BY DEF Contributors
  <2> QED
    BY <2>1, <2>2 DEF Contributors
<1> QED
  BY <1>2, <1>3, <1>4, <1>5, MapCommit

\* Every step of HiPS is a step of BSP or a stutter.
LEMMA RefinementStep ==
  ASSUME Counting, RInv, RInv', [Next]_vars
  PROVE  Abstract!Next \/ UNCHANGED Abstract!vars
<1>0. IInv /\ IInv' /\ Empty /\ TypeOK /\ LocalInv
  BY DEF RInv, IInv
<1>1. CASE \E w \in Worker, k \in Key : PushGradient(w, k)
  BY <1>1, PushContributes
<1>2. CASE \E m \in lnet : PullDone(m)
  BY <1>2, PullFetches
<1>3. CASE \E k \in Key : NewVersion(k)
  BY <1>3, NewVersionCommits
<1>4. CASE SameFields /\ SameVersions
  <2>1. Versions' = Versions
    BY <1>4 DEF Versions, SameVersions
  <2>2. Contributors' = Contributors
    BY <1>4 DEF Contributors, SameVersions, SameFields
  <2>3. Views' = Views
    BY <1>4 DEF Views, SameFields
  <2> QED
    BY <2>1, <2>2, <2>3, MapStutter
<1> QED
  BY <1>0, <1>1, <1>2, <1>3, <1>4, NextVersions, WorkerFields

-----------------------------------------------------------------------------
(* What follows from the invariant *)

\* What a worker has is what it pulled for its round.
LEMMA InvPulledWeights ==
  IInv => PulledWeights
BY DEF IInv, LocalInv, Workers, WorkerOK, PulledWeights

\* The response to a push of a party is never looked up in vain.
LEMMA InvPushResponseFindsKey ==
  IInv => PushResponseFindsKey
BY DEF IInv, GlobalInv, Globals, GlobalOK, PushResponseFindsKey

\* A tensor is put together from parts of one pull, one of each server.
LEMMA InvPartsOfOnePull ==
  ASSUME IInv
  PROVE  PartsOfOnePull
<1> SUFFICES ASSUME NEW m \in gnet, IsResponse(m, "pull_data"), NEW a \in Parts(m), NEW b \in Parts(m)
             PROVE  a.ts = b.ts /\ (a.server = b.server => a = b)
  BY DEF PartsOfOnePull
<1>1. PICK p, k : p = m.peer /\ k = m.key
  OBVIOUS
<1>2. p \in Party /\ k \in Key /\ m.type = "pull_data"
  BY <1>1, GlobalMsgType DEF IsResponse, IInv, TypeOK
<1>3. Part(m).ts = m.ts /\ Part(m).server = m.server
  BY DEF Part
<1>4. m.ts \in PullTs(p, k) /\ \A c \in recv_kvs_[p][k] : c.ts \in PullTs(p, k)
  BY <1>1, <1>2 DEF PullTs, IsPull
<1>5. \A c \in Parts(m) : c \in recv_kvs_[p][k] \/ c = Part(m)
  BY <1>1 DEF Parts
<1>6. a.ts = b.ts
  BY <1>2, <1>3, <1>4, <1>5 DEF IInv, GlobalInv, OnePull
<1>7. \A c \in recv_kvs_[p][k] : c.server # m.server
  BY <1>1, <1>2 DEF IInv, GlobalInv, Received, ReceivedOK
<1>8. \A c, d \in recv_kvs_[p][k] : c.server = d.server => c = d
  BY <1>2 DEF IInv, GlobalInv, Received
<1> QED
  BY <1>3, <1>5, <1>6, <1>7, <1>8

\* What a party serves is a version of the key, never its sum of gradients.
LEMMA InvNoGradientServed ==
  ASSUME IInv
  PROVE  NoGradientServed
<1> SUFFICES ASSUME NEW p \in Party, NEW m \in PullRequests(p) \cup pulling[p],
                    m.key \in initialized_[p]
             PROVE  store_[p][m.key] = Fill(m.key, Weight(m.ts))
  BY DEF NoGradientServed
<1>0. TypeOK /\ LocalInv
  BY DEF IInv
<1>1. /\ m.worker \in Worker /\ m.key \in Key /\ PartyOf[m.worker] = p
      /\ phase[m.worker][m.key] = "pulling" /\ m.ts = round[m.worker][m.key]
  <2>1. CASE m \in PullRequests(p)
    <3>1. m \in lnet /\ m.type = "pull" /\ PartyOf[m.worker] = p
      BY <2>1 DEF PullRequests
    <3> QED
      BY <1>0, <3>1, LocalMsgType DEF LocalInv, Locals, LocalOK, TypeOK
  <2>2. CASE m \in pulling[p]
    BY <1>0, <2>2, PoppedType DEF LocalInv, LocalPulls, LocalPullOK, TypeOK
  <2> QED
    BY <2>1, <2>2
<1> QED
  BY <1>0, <1>1, ServedWeights

\* The requests of a round are answered before those of the next one take
\* their place.
Kept ==
  \A p \in Party, k \in Key :
    request_tmp[p][k] # {} => request_tmp'[p][k] \in {request_tmp[p][k], {}}

\* By whatever step.
LEMMA StepNoRequestLost ==
  ASSUME Counting, IInv, IInv', [Next]_vars
  PROVE  Kept
<1> USE DEF Kept
<1>0. TypeOK /\ TypeOK' /\ LocalInv /\ GlobalInv
  BY DEF IInv
<1> SUFFICES ASSUME NEW p \in Party, NEW k \in Key, request_tmp[p][k] # {}
             PROVE  request_tmp'[p][k] \in {request_tmp[p][k], {}}
  OBVIOUS
<1>1. CASE \E m \in lnet : LocalForward(m)
  <2>1. PICK m \in lnet : LocalForward(m)
    BY <1>1
  <2>2. PICK q, j, x : /\ q = PartyOf[m.worker] /\ j = m.key
                       /\ request_tmp' = [request_tmp EXCEPT ![q][j] = x]
    BY <2>1 DEF LocalForward
  <2>3. q \in Party /\ j \in Key /\ ~Busy(q, j)
    BY <1>0, <2>1, <2>2, PartyLocal DEF Forwards
  <2>4. q # p \/ j # k
    BY <2>3 DEF Busy
  <2> QED
    BY <1>0, <2>2, <2>4 DEF TypeOK, PartyTypeOK
<1>2. CASE \E m \in gnet : PullResponseLast(m)
  <2>1. PICK m \in gnet : PullResponseLast(m)
    BY <1>2
  <2>2. PICK q, j : /\ q = m.peer /\ j = m.key
                    /\ \/ request_tmp' = request_tmp
                       \/ request_tmp' = [request_tmp EXCEPT ![q][j] = {}]
    BY <2>1 DEF PullResponseLast
  <2>3. q \in Party /\ j \in Key
    BY <1>0, <2>1, <2>2, GlobalMsgType DEF PullResponseLast, IsResponse, TypeOK
  <2>4. DOMAIN request_tmp = Party /\ \A r \in Party : DOMAIN request_tmp[r] = Key
    BY <1>0 DEF TypeOK, PartyTypeOK
  <2>5. CASE q = p /\ j = k
    BY <2>2, <2>4, <2>5
  <2>6. CASE q # p \/ j # k
    BY <2>2, <2>3, <2>4, <2>6, SMTT(20)
  <2> QED
    BY <2>5, <2>6
<1>3. CASE request_tmp' = request_tmp
  BY <1>3
<1>4. WorkerStep \/ MasterStep \/ GlobalStep \/ PullStep \/ UNCHANGED vars => request_tmp' = request_tmp
  BY DEF WorkerStep, InitPush, InitSkip, FirstPull, PushGradient, InitAcked, PushAcked, PullDone,
         MasterStep, MasterInit, MasterAcked, GlobalStep, GlobalInit, GlobalAggregate, GlobalApply,
         PullStep, PullPop, PullRead, PullRespond, party_vars, vars
<1>5. PartyStep => \/ request_tmp' = request_tmp
                   \/ \E m \in lnet : LocalForward(m)
                   \/ \E m \in gnet : PullResponseLast(m)
  BY DEF PartyStep, LocalInit, LocalAggregate, PushResponseWait, PushResponseLast,
         PullResponsePart, party_vars
<1> QED
  BY <1>1, <1>2, <1>3, <1>4, <1>5 DEF Next, Terminated

\* ServedWeights, after a step.
LEMMA ServedAfter ==
  ASSUME TypeOK', LocalInv', NEW w \in Worker, NEW k \in Key, phase'[w][k] = "pulling",
         k \in initialized_'[PartyOf[w]]
  PROVE  ~Busy(PartyOf[w], k)'
<1> DEFINE p == PartyOf[w]
<1>1. p \in Party /\ w \in WorkersOf(p)
  BY ServerType DEF WorkersOf
<1>2. Forwarded(p, k)'
  BY <1>1 DEF LocalInv, Stages, Stage
<1> SUFFICES ASSUME Busy(p, k)' PROVE FALSE
  OBVIOUS
<1>3. PICK q : q = <<w, round'[w][k]>>
  OBVIOUS
<1>4. q \in request_tmp'[p][k] /\ q[1] = w
  BY <1>1, <1>2, <1>3 DEF Forwarded, From
<1>5. phase'[w][k] = "pushing"
  BY <1>2, <1>4 DEF Forwarded, Waiting
<1> QED
  BY <1>5

\* Only one thread at a time is at an entry of store_: the copy that the pull
\* thread makes is that of one version.
Apart ==
  \A s \in Server : \A m \in pulling[s] : reading[s] => store_'[s][m.key] = store_[s][m.key]

\* By whatever step.
LEMMA StepNoReadWriteRace ==
  ASSUME Counting, IInv, IInv', [Next]_vars
  PROVE  Apart
<1> USE DEF Apart
<1>0. TypeOK /\ TypeOK' /\ LocalInv /\ LocalInv' /\ GlobalInv
  BY DEF IInv
<1>1. DOMAIN store_ = Server /\ \A s \in Server : DOMAIN store_[s] = Key
  BY <1>0 DEF TypeOK, StoreTypeOK, ArraysTypeOK
<1>2. CASE store_' = store_
  BY <1>2
<1>3. CASE \E n \in lnet : LocalInit(n) \/ LocalForward(n)
  <2>1. PICK n \in lnet : LocalInit(n) \/ LocalForward(n)
    BY <1>3
  <2>a. PICK p, k : p = PartyOf[n.worker] /\ k = n.key
    OBVIOUS
  <2>2. PICK x : store_' = [store_ EXCEPT ![p][k] = x]
    <3>1. CASE LocalInit(n)
      <4>1. store_' = [store_ EXCEPT ![p][k] = n.val]
        BY <2>a, <3>1 DEF LocalInit
      <4> QED
        BY <4>1
    <3>2. CASE LocalForward(n)
      <4>1. store_' = [store_ EXCEPT ![p][k] = ApplyUpdates(p, store_[p][k], Merge(p, k, n.val))]
        BY <2>a, <3>2 DEF LocalForward
      <4> QED
        BY <4>1
    <3> QED
      BY <2>1, <3>1, <3>2
  <2>3. p \in Party /\ k \in Key
    BY <1>0, <2>a, LocalMsgType, ServerType DEF TypeOK
  <2>4. UNCHANGED <<worker_vars, initialized_, pull_vars>>
    BY <2>1 DEF LocalInit, LocalForward
  <2>5. ASSUME NEW m \in pulling[p], reading[p], m.key = k PROVE FALSE
    <3>1. /\ m.worker \in Worker /\ PartyOf[m.worker] = p /\ phase[m.worker][k] = "pulling"
          /\ k \in initialized_[p]
      <4>1. LocalPullOK(p, m)
        BY <1>0, <2>3, <2>5 DEF LocalInv, LocalPulls
      <4>2. m.worker \in Worker
        BY <1>0, <2>3, <2>5, <4>1, PoppedType DEF LocalPullOK, TypeOK
      <4> QED
        BY <2>5, <4>1, <4>2 DEF LocalPullOK
    <3>2. CASE LocalInit(n)
      BY <1>0, <2>a, <3>1, <3>2, PartyLocal DEF Opens
    <3>3. CASE LocalForward(n)
      <4>1. Busy(p, k)'
        BY <1>0, <2>a, <3>3, PartyLocal DEF Forwards
      <4>2. phase'[m.worker][k] = "pulling" /\ k \in initialized_'[p]
        BY <2>4, <3>1 DEF worker_vars
      <4>3. ~Busy(p, k)'
        <5>1. ASSUME NEW w \in Worker, NEW j \in Key, phase'[w][j] = "pulling",
                     j \in initialized_'[PartyOf[w]]
              PROVE  ~Busy(PartyOf[w], j)'
          BY <1>0, <5>1, ServedAfter
        <5> QED
          BY <2>3, <3>1, <4>2, <5>1
      <4> QED
        BY <4>1, <4>3
    <3> QED
      BY <2>1, <3>2, <3>3
  <2> QED
    BY <1>1, <2>2, <2>3, <2>5, ServerType, SMTT(20)
<1>4. CASE \E n \in gnet : PullResponseLast(n)
  <2>1. PICK n \in gnet : PullResponseLast(n)
    BY <1>4
  <2>2. PICK p, k, x : p = n.peer /\ k = n.key /\ store_' = [store_ EXCEPT ![p][k] = x]
    BY <2>1 DEF PullResponseLast
  <2>3. p \in Party /\ k \in Key /\ PullOK(p, n.server, k, n.ts)
    BY <1>0, <2>1, <2>2, GlobalMsgType
       DEF PullResponseLast, IsResponse, TypeOK, GlobalInv, Globals, GlobalOK
  <2>4. ASSUME NEW m \in pulling[p], reading[p], m.key = k PROVE FALSE
    <3>1. /\ m.worker \in Worker /\ PartyOf[m.worker] = p /\ phase[m.worker][k] = "pulling"
          /\ k \in initialized_[p]
      BY <1>0, <2>3, <2>4, PoppedType, SMTT(20) DEF LocalInv, LocalPulls, LocalPullOK, TypeOK
    <3>2. ~Busy(p, k)
      BY <1>0, <2>3, <3>1, ServedWeights
    <3> QED
      BY <2>3, <3>1, <3>2 DEF PullOK
  <2> QED
    BY <1>1, <2>2, <2>3, <2>4, ServerType, SMTT(20)
<1>5. CASE \E n \in gnet : GlobalInit(n) \/ GlobalApply(n)
  <2>1. PICK n \in gnet : GlobalInit(n) \/ GlobalApply(n)
    BY <1>5
  <2>2. PICK g, k, x : g = n.server /\ k = n.key /\ store_' = [store_ EXCEPT ![g][k] = x]
    BY <2>1, SMTT(20) DEF GlobalInit, GlobalApply
  <2>3. g \in GServer /\ k \in Key
    BY <1>0, <2>2, GlobalMsgType DEF TypeOK
  <2>4. ASSUME NEW m \in pulling[g], reading[g], m.key = k PROVE FALSE
    <3>1. /\ m.peer \in Party /\ ~Pushing(m.peer, k) /\ k \in stored[g]
      BY <1>0, <2>3, <2>4, GlobalPoppedFacts DEF GlobalPullOK
    <3>2. GlobalApply(n)
      BY <2>1, <2>2, <3>1 DEF GlobalInit
    <3>3. /\ n.type = "push" /\ n.key \in stored[n.server]
          /\ GlobalComplete(request[n.server][n.key] \cup {GlobalMeta(n)})
      BY <3>2 DEF GlobalApply, IsGlobalPush
    <3>4. \E t : <<t, k>> \in ts_key_map_[m.peer]
      <4>1. PICK reqs : reqs = request[n.server][n.key] \cup {<<n.peer, n.ts>>}
        OBVIOUS
      <4>2. /\ \A q \in reqs : <<q[2], k>> \in ts_key_map_[q[1]]
            /\ \E q \in reqs : q[1] = m.peer
        BY <1>0, <2>2, <3>1, <3>3, <4>1, CompleteGlobal
      <4> QED
        BY <4>2
    <3>5. \A t : <<t, k>>[2] = k
      OBVIOUS
    <3> QED
      BY <3>1, <3>4, <3>5 DEF Pushing
  <2> QED
    BY <1>1, <2>2, <2>3, <2>4, ServerType, SMTT(20)
<1>6. WorkerStep \/ MasterStep \/ PullStep \/ UNCHANGED vars => store_' = store_
  BY DEF WorkerStep, InitPush, InitSkip, FirstPull, PushGradient, InitAcked, PushAcked, PullDone,
         MasterStep, MasterInit, MasterAcked, PullStep, PullPop, PullRead, PullRespond,
         store_vars, vars
<1>7. PartyStep => \/ store_' = store_
                   \/ \E n \in lnet : LocalInit(n) \/ LocalForward(n)
                   \/ \E n \in gnet : PullResponseLast(n)
  BY DEF PartyStep, LocalAggregate, PushResponseWait, PushResponseLast, PullResponsePart, store_vars
<1>8. GlobalStep => store_' = store_ \/ \E n \in gnet : GlobalInit(n) \/ GlobalApply(n)
  BY DEF GlobalStep, GlobalAggregate
<1> QED
  BY <1>2, <1>3, <1>4, <1>5, <1>6, <1>7, <1>8 DEF Next, Terminated

-----------------------------------------------------------------------------
(* The theorems *)

INSTANCE FiniteSetTheorems

\* The facts on finite sets that the lemmas assume.
LEMMA CountingHolds == Counting
<1>1. \A S : IsFiniteSet(S) => Cardinality(S) \in Nat
  BY FS_CardinalityType
<1>2. \A S, T : IsFiniteSet(S) /\ T \subseteq S => IsFiniteSet(T)
  BY FS_Subset
<1>3. \A S, x : IsFiniteSet(S) /\ x \in S => Cardinality(S \ {x}) = Cardinality(S) - 1
  BY FS_RemoveElement
<1>4. \A S, T : IsFiniteSet(S) /\ T \subseteq S =>
        Cardinality(S \ T) = Cardinality(S) - Cardinality(T)
  <2> SUFFICES ASSUME NEW S, NEW T, IsFiniteSet(S), T \subseteq S
               PROVE  Cardinality(S \ T) = Cardinality(S) - Cardinality(T)
    OBVIOUS
  <2>1. Cardinality(S \ T) = Cardinality(S) - Cardinality(S \cap T)
    BY FS_Difference
  <2>2. S \cap T = T
    OBVIOUS
  <2> QED
    BY <2>1, <2>2
<1>5. \A S : IsFiniteSet(S) /\ Cardinality(S) = 1 => \E x : S = {x}
  BY FS_Singleton
<1>6. \A S, T : \A f \in [S -> T] :
        IsFiniteSet(T) /\ Cardinality(S) = Cardinality(T) /\ (\A x, y \in S : f[x] = f[y] => x = y)
          => \A t \in T : \E s \in S : f[s] = t
  <2> SUFFICES ASSUME NEW S, NEW T, NEW f \in [S -> T], IsFiniteSet(T),
                      Cardinality(S) = Cardinality(T), \A x, y \in S : f[x] = f[y] => x = y
               PROVE  \A t \in T : \E s \in S : f[s] = t
    BY SMTT(20)
  <2>1. f \in Injection(S, T)
    BY DEF Injection, IsInjective
  <2>2. f \in Surjection(S, T)
    BY <2>1, FS_Injection
  <2> QED
    BY <2>2 DEF Surjection
<1>7. Cardinality({}) = 0
  BY FS_EmptySet
<1>8. \A n \in Nat : IsFiniteSet(1 .. n) /\ Cardinality(1 .. n) = n
  BY FS_Interval, SMTT(20)
<1> QED
  BY <1>1, <1>2, <1>3, <1>4, <1>5, <1>6, <1>7, <1>8 DEF Counting

\* HiPS is type correct: whatever the numbers of parties, workers, servers,
\* keys and iterations, every field keeps its shape, so that parties always
\* hold whole tensors and global servers single shards (DataHandleSyncDefault,
\* DataHandlePullResponseDefault, DefaultStorageResponse).
THEOREM HiPSTypeOK == Spec => []TypeOK
<1>1. TypeOK /\ [Next]_vars => TypeOK'
  BY CountingHolds, NextType
<1> QED
  BY <1>1, InitType, PTL DEF Spec

\* Through all interleavings of the workers, the two threads of every server and
\* the two networks, every request, buffer and shard belongs to the round that
\* the invariant gives it, although no message carries a round number.
THEOREM HiPSInv == Spec => []IInv
<1>1. IInv /\ [Next]_vars => IInv'
  BY CountingHolds, NextInv
<1> QED
  BY <1>1, InitInv, PTL DEF Spec

\* Whatever the sizes of the system, what a worker has after its pull of
\* iteration r are the weights of r iterations of all workers of all parties
\* (DataHandleSyncDefault on both levels).
THEOREM HiPSPulledWeights == Spec => []PulledWeights
BY InvPulledWeights, HiPSInv, PTL

\* The response to a push of a party is never looked up in vain.
THEOREM HiPSPushResponseFindsKey == Spec => []PushResponseFindsKey
BY InvPushResponseFindsKey, HiPSInv, PTL

\* A tensor is put together from parts of one pull, one of each server.
THEOREM HiPSPartsOfOnePull == Spec => []PartsOfOnePull
BY InvPartsOfOnePull, HiPSInv, PTL

\* What a party serves is a version of the key, never its sum of gradients.
THEOREM HiPSNoGradientServed == Spec => []NoGradientServed
BY InvNoGradientServed, HiPSInv, PTL

\* The requests of a round are answered before those of the next one take
\* their place.
THEOREM HiPSNoRequestLost == Spec => NoRequestLost
<1>1. IInv /\ IInv' /\ [Next]_vars => Kept
  BY CountingHolds, StepNoRequestLost
<1> QED
  BY <1>1, HiPSInv, PTL DEF Spec, NoRequestLost, Kept

\* Only one thread at a time is at an entry of store_: the copy that the pull
\* thread makes is that of one version.
THEOREM HiPSNoReadWriteRace == Spec => NoReadWriteRace
<1>1. IInv /\ IInv' /\ [Next]_vars => Apart
  BY CountingHolds, StepNoReadWriteRace
<1> QED
  BY <1>1, HiPSInv, PTL DEF Spec, NoReadWriteRace, Apart

\* What the simulation needs holds throughout.
LEMMA RefinementInv == Spec => []RInv
<1>1. Init => RInv
  BY InitHeld, InitInv DEF RInv
<1>2. RInv /\ [Next]_vars => RInv'
  <2> SUFFICES ASSUME RInv, [Next]_vars PROVE RInv'
    OBVIOUS
  <2>1. IInv /\ Held /\ Empty /\ TypeOK /\ LocalInv
    BY DEF RInv, IInv
  <2>2. IInv'
    BY <2>1, CountingHolds, NextInv
  <2>3. Held' /\ Empty'
    BY <2>1, NextHeld, NextEmpty
  <2> QED
    BY <2>2, <2>3 DEF RInv
<1> QED
  BY <1>1, <1>2, PTL DEF Spec

\* A script cannot tell the two-level, sharded, two-threaded parameter server
\* (DataHandleSyncDefault and DataHandlePullDefault on both levels) from one
\* that keeps a single version of every key and commits it when every worker of
\* every party has contributed to it.
THEOREM HiPSRefinesBSP == Spec => ImplementsBSP
<1>1. Init => Abstract!Init
  BY CountingHolds, RefinementInit
<1>2. RInv /\ RInv' /\ [Next]_vars => [Abstract!Next]_(Abstract!vars)
  BY CountingHolds, RefinementStep
<1> QED
  BY <1>1, <1>2, RefinementInv, PTL DEF Spec, ImplementsBSP, Abstract!Spec
=============================================================================
