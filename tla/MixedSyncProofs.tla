--------------------------- MODULE MixedSyncProofs ---------------------------
(***************************************************************************)
(* Proofs about the global server's tensor in both modes, for any parties  *)
(* and central workers: every answered push is in it exactly once, a       *)
(* client sees its own pushes and loses nothing it has seen, and in the    *)
(* synchronous mode no pull overlaps an update although no lock keeps them *)
(* apart.                                                                  *)
(*                                                                         *)
(* The invariant gives every client one place (nowhere, the queue of       *)
(* pushes, the buffer, the update, the queue of pulls, the copy) and says  *)
(* exactly which gradients the buffer, the update and each half hold.      *)
(***************************************************************************)
EXTENDS MixedSync, FiniteSetTheorems, TLAPS

\* What the scripts see to: a central worker is not a party.
Deployment ==
  /\ IsFiniteSet(Parties) /\ IsFiniteSet(CentralWorkers)
  /\ Parties \cap CentralWorkers = {}
  /\ Trainers \subseteq Clients
  /\ MaxRound \in Nat
  /\ sync_global_mode_ \in BOOLEAN /\ EnableCentralWorkers \in BOOLEAN

Shape ==
  /\ TypeOK
  /\ applying \in [half : 0 .. 3, add : Sum, reply : SUBSET Clients]
  /\ copying \in [client : SUBSET Clients, first : Sum]
  /\ applying.half = 0 => applying = Idle

\* Where a client is, by its phase.
Places ==
  /\ \A c \in pushes \cup request \cup applying.reply : phase[c] = "pushing"
  /\ \A c \in pulls \cup copying.client : phase[c] = "pulling"
  /\ pushes \cap request = {} /\ pushes \cap applying.reply = {}
  /\ request \cap applying.reply = {} /\ pulls \cap copying.client = {}
  /\ \A c, d \in copying.client : c = d
  /\ copying.client = {} => copying = NoPull

\* A worker whose pushes are ignored waits for the answer to its first.
Waiting ==
  \A c \in Clients : Ignored(c) =>
    /\ c \notin request \cup applying.reply \cup pulls \cup copying.client
    /\ round[c] = 0 \/ (round[c] = 1 /\ phase[c] = "pushing")

\* The gradients that the pushes of the clients in S brought.
Brought(S, c, r) == IF c \in S /\ r = round[c] THEN 1 ELSE 0

\* What the buffer, the update and the tensor hold of a client's r-th gradient.
Holds(c, r) ==
  /\ request # {} => merged[<<c, r>>] = Brought(request, c, r)
  /\ applying.half # 0 => applying.add[<<c, r>>] = Brought(applying.reply, c, r)
  /\ \A h \in Half :
       stored[h][<<c, r>>] =
         IF Answered(c, r) \/ (c \in applying.reply /\ r = round[c] /\ h < applying.half)
         THEN 1 ELSE 0

Contents == \A c \in Clients, r \in 1 .. MaxRound : Holds(c, r)

\* What has been copied is still in the tensor, and a client's own gradients
\* are in what it copies.
Copies ==
  /\ \A c \in Clients, h \in Half, a \in Atom : seen[c][h][a] <= stored[h][a]
  /\ \A c \in copying.client :
       /\ \A a \in Atom : seen[c][1][a] <= copying.first[a] /\ copying.first[a] <= stored[1][a]
       /\ \A r \in 1 .. MaxRound : r <= round[c] => copying.first[<<c, r>>] = 1
  /\ SeesOwnPushes

\* In the synchronous mode nobody pulls during an update.
Apart ==
  sync_global_mode_ =>
    /\ applying # Idle => pulls = {} /\ copying.client = {}
    /\ copying.client # {} => copying.first = stored[1]
    /\ PulledBetweenUpdates

IInv == Shape /\ Places /\ Waiting /\ Contents /\ Copies /\ Apart
-----------------------------------------------------------------------------
\* The sums that merged, stored and the answers to pulls hold are closed under
\* what DataHandleSyncDefault and the updater do with them.
LEMMA SumType ==
  /\ Nothing \in Sum
  /\ \A x, y \in Sum : Plus(x, y) \in Sum
  /\ \A c, r : Unit(c, r) \in Sum
BY DEF Nothing, Plus, Unit, Sum

\* A sum plus one pushed gradient holds that one once more and the others as
\* before.
LEMMA SumAt ==
  /\ \A a \in Atom : Nothing[a] = 0
  /\ \A x, y \in Sum : \A a \in Atom : Plus(x, y)[a] = x[a] + y[a]
  /\ \A c, r : \A d \in Clients, q \in 1 .. MaxRound :
       Unit(c, r)[<<d, q>>] = IF d = c /\ q = r THEN 1 ELSE 0
  /\ \A c \in Clients, r \in 1 .. MaxRound : <<c, r>> \in Atom
<1>1. \A a \in Atom : Nothing[a] = 0
  BY DEF Nothing
<1>2. \A x, y \in Sum : \A a \in Atom : Plus(x, y)[a] = x[a] + y[a]
  BY DEF Plus
<1>3. \A c \in Clients, r \in 1 .. MaxRound : <<c, r>> \in Atom
  BY DEF Atom
<1>4. ASSUME NEW c, NEW r, NEW d \in Clients, NEW q \in 1 .. MaxRound
      PROVE  Unit(c, r)[<<d, q>>] = IF d = c /\ q = r THEN 1 ELSE 0
  <2>1. <<d, q>> \in Atom
    BY <1>3
  <2>2. Unit(c, r)[<<d, q>>] = IF <<d, q>> = <<c, r>> THEN 1 ELSE 0
    BY <2>1 DEF Unit
  <2> QED
    BY <2>2
<1> QED
  BY <1>1, <1>2, <1>3, <1>4

\* When a global server starts, everything is empty.
LEMMA InitIInv == Deployment /\ Init => IInv
<1> SUFFICES ASSUME Deployment, Init PROVE IInv
  OBVIOUS
<1>1. Shape
  <2>1. Idle \in [half : 0 .. 3, add : Sum, reply : SUBSET Clients]
    BY SumType DEF Idle
  <2>2. NoPull \in [client : SUBSET Clients, first : Sum]
    BY SumType DEF NoPull
  <2>3. Idle.half \in 0 .. 3 /\ Idle.add \in Sum /\ Idle.reply \subseteq Clients
    BY SumType DEF Idle
  <2> QED
    BY <2>1, <2>2, <2>3, SumType DEF Shape, TypeOK, Init, Deployment
<1>2. Places
  BY DEF Places, Init, Idle, NoPull
<1>3. Waiting
  BY DEF Waiting, Init, Idle, NoPull
<1>4. Contents
  <2> SUFFICES ASSUME NEW c \in Clients, NEW r \in 1 .. MaxRound PROVE Holds(c, r)
    BY DEF Contents
  <2>1. \A h \in Half : stored[h][<<c, r>>] = 0
    BY SumAt DEF Init
  <2>2. ~Answered(c, r)
    BY DEF Init, Answered, Deployment
  <2> QED
    BY <2>1, <2>2 DEF Holds, Init, Idle
<1>5. Copies
  BY SumAt DEF Copies, Init, NoPull, SeesOwnPushes, Deployment
<1>6. Apart
  BY DEF Apart, Init, NoPull, PulledBetweenUpdates, Half
<1> QED
  BY <1>1, <1>2, <1>3, <1>4, <1>5, <1>6 DEF IInv

\* A client that pushes begins a round; what is in the tensor stays answered.
LEMMA PushStep ==
  ASSUME Deployment, IInv, NEW c \in Trainers, Push(c)
  PROVE  IInv'
<1> USE DEF IInv
<1> c \in Clients
  BY DEF Deployment
<1>1. Shape'
  BY DEF Push, Shape, TypeOK, Deployment
<1>2. Places'
  BY DEF Push, Shape, TypeOK, Places
<1>3. Waiting'
  BY DEF Push, Shape, TypeOK, Waiting, Ignored, Places
<1>4. Contents'
  <2> SUFFICES ASSUME NEW d \in Clients, NEW r \in 1 .. MaxRound PROVE Holds(d, r)'
    BY DEF Contents
  <2>1. d \in request \cup applying.reply => round'[d] = round[d]
    BY DEF Push, Places, Shape, TypeOK
  <2>2. Answered(d, r)' <=> Answered(d, r)
    <3>1. CASE d = c
      <4>1. round[c] \in Nat /\ r \in Nat
        BY DEF Shape, TypeOK, Deployment
      <4>2. round'[c] = round[c] + 1 /\ phase'[c] = "pushing" /\ phase[c] = "idle"
        BY DEF Push, Shape, TypeOK
      <4> QED
        BY <3>1, <4>1, <4>2 DEF Answered
    <3>2. CASE d # c
      BY <3>2 DEF Push, Shape, TypeOK, Answered
    <3> QED
      BY <3>1, <3>2
  <2>3. Holds(d, r)
    BY DEF Contents
  <2> QED
    BY <2>1, <2>2, <2>3 DEF Push, Holds, Brought
<1>5. Copies'
  BY DEF Push, Shape, TypeOK, Copies, SeesOwnPushes, Places, Deployment
<1>6. Apart'
  BY DEF Push, Apart, PulledBetweenUpdates
<1> QED
  BY <1>1, <1>2, <1>3, <1>4, <1>5, <1>6

\* In the synchronous mode the update begins when every client that counts has
\* pushed: NumWorkers() + NumGlobalWorkers() of them.
LEMMA AllPushed ==
  ASSUME Deployment, Shape, Waiting, sync_global_mode_, NEW c \in Clients, ~Ignored(c),
         Cardinality(request \cup {c}) = Expected
  PROVE  \A d \in Clients : Ignored(d) \/ d \in request \cup {c}
<1> DEFINE Active == {d \in Clients : ~Ignored(d)}
<1>1. IsFiniteSet(Active) /\ Cardinality(Active) = Expected
  <2>1. CASE EnableCentralWorkers
    <3>1. Active = Parties \cup CentralWorkers
      BY <2>1 DEF Ignored, Clients
    <3>2. Cardinality(Parties \cap CentralWorkers) = 0
      BY FS_EmptySet DEF Deployment
    <3>3. /\ IsFiniteSet(Parties \cup CentralWorkers)
          /\ Cardinality(Parties \cup CentralWorkers)
               = Cardinality(Parties) + Cardinality(CentralWorkers)
                   - Cardinality(Parties \cap CentralWorkers)
      BY FS_Union DEF Deployment
    <3>4. Cardinality(Parties) \in Nat /\ Cardinality(CentralWorkers) \in Nat
      BY FS_CardinalityType DEF Deployment
    <3>5. Expected = Cardinality(CentralWorkers) + Cardinality(Parties)
      BY <2>1 DEF Expected, NumWorkers
    <3>6. Cardinality(Parties \cup CentralWorkers)
            = Cardinality(CentralWorkers) + Cardinality(Parties)
      BY <3>2, <3>3, <3>4
    <3> QED
      BY <3>1, <3>3, <3>5, <3>6
  <2>2. CASE ~EnableCentralWorkers
    <3>1. Active = Parties
      BY <2>2 DEF Ignored, Clients, Deployment
    <3>2. Cardinality(Parties) \in Nat
      BY FS_CardinalityType DEF Deployment
    <3>3. Expected = 0 + Cardinality(Parties)
      BY <2>2 DEF Expected
    <3> QED
      BY <3>1, <3>2, <3>3 DEF Deployment
  <2> QED
    BY <2>1, <2>2
<1>2. request \cup {c} \in SUBSET Active
  BY DEF Waiting, Shape, TypeOK
<1>3. Active = request \cup {c}
  BY <1>1, <1>2, FS_Subset
<1> QED
  BY <1>3

\* What a push leaves in the buffer.
Buffered(c) == IF request = {} THEN Unit(c, round[c]) ELSE Plus(merged, Unit(c, round[c]))

\* Adding a push to the buffer, or starting the buffer with it, gives the
\* gradients of all pushes of the round.
LEMMA BufferSum ==
  ASSUME Deployment, IInv, NEW c \in pushes
  PROVE  /\ Buffered(c) \in Sum
         /\ \A d \in Clients, r \in 1 .. MaxRound :
              Buffered(c)[<<d, r>>] = Brought(request \cup {c}, d, r)
<1> DEFINE sum == Buffered(c)
<1> USE DEF Buffered
<1>1. sum \in Sum
  BY SumType DEF IInv, Shape, TypeOK
<1>2. ASSUME NEW d \in Clients, NEW r \in 1 .. MaxRound
      PROVE  sum[<<d, r>>] = Brought(request \cup {c}, d, r)
  <2>1. Unit(c, round[c])[<<d, r>>] = IF d = c /\ r = round[c] THEN 1 ELSE 0
    BY SumAt
  <2>2. CASE request = {}
    BY <2>1, <2>2 DEF Brought
  <2>3. CASE request # {}
    <3>1. sum[<<d, r>>] = merged[<<d, r>>] + Unit(c, round[c])[<<d, r>>]
      BY <2>3, SumAt, SumType DEF IInv, Shape, TypeOK
    <3>2. merged[<<d, r>>] = Brought(request, d, r)
      BY <2>3 DEF IInv, Contents, Holds
    <3>3. c \notin request
      BY DEF IInv, Places
    <3> QED
      BY <2>1, <3>1, <3>2, <3>3 DEF Brought
  <2> QED
    BY <2>2, <2>3
<1> QED
  BY <1>1, <1>2

\* An update starts: its sum and the pushes it answers are those of S, none of
\* which is anywhere else.
LEMMA UpdateStarts ==
  ASSUME Deployment, IInv, applying = Idle,
         NEW S \in SUBSET Clients, S \subseteq pushes \cup request,
         \A d \in S : ~Ignored(d),
         NEW sum \in Sum,
         \A d \in Clients, r \in 1 .. MaxRound : sum[<<d, r>>] = Brought(S, d, r),
         applying' = [half |-> 1, add |-> sum, reply |-> S],
         pushes' = pushes \ S, request' \subseteq request, request' \cap S = {},
         request' # {} => request' = request /\ merged' = merged,
         merged' \in Sum,
         sync_global_mode_ => \A d \in Clients : Ignored(d) \/ d \in S,
         UNCHANGED <<phase, round, pulls, stored, copying, seen>>
  PROVE  IInv'
<1> USE DEF IInv
<1>0. applying.half = 0 /\ applying.reply = {}
  BY DEF Idle
<1>1. Shape'
  BY DEF Shape, TypeOK
<1>2. Places'
  BY DEF Places, Shape, TypeOK
<1>3. Waiting'
  BY DEF Waiting, Ignored
<1>4. Contents'
  <2> SUFFICES ASSUME NEW d \in Clients, NEW r \in 1 .. MaxRound PROVE Holds(d, r)'
    BY DEF Contents
  <2>1. Holds(d, r)
    BY DEF Contents
  <2>2. Answered(d, r)' <=> Answered(d, r)
    BY DEF Answered
  <2>3. \A h \in Half : ~(h < applying'.half)
    BY DEF Half
  <2> QED
    <3>1. applying'.add[<<d, r>>] = Brought(S, d, r) /\ applying'.reply = S
      OBVIOUS
    <3>2. request' # {} => merged'[<<d, r>>] = Brought(request', d, r)
      BY <2>1 DEF Holds
    <3>3. \A h \in Half : stored[h][<<d, r>>] = IF Answered(d, r) THEN 1 ELSE 0
      BY <1>0, <2>1 DEF Holds
    <3> QED
      BY <2>2, <2>3, <3>1, <3>2, <3>3 DEF Holds, Brought
<1>5. Copies'
  BY DEF Copies, SeesOwnPushes
<1>6. Apart'
  <2> SUFFICES ASSUME sync_global_mode_ PROVE pulls' = {} /\ copying'.client = {}
    BY DEF Apart, PulledBetweenUpdates
  <2> QED
    BY DEF Places, Waiting, Shape, TypeOK
<1> QED
  BY <1>1, <1>2, <1>3, <1>4, <1>5, <1>6

\* A push is ignored, added to the buffer, or applied at once.
LEMMA HandleStep ==
  ASSUME Deployment, IInv, NEW c \in Clients, DataHandle(c)
  PROVE  IInv'
<1> USE DEF IInv
<1>0. c \in pushes /\ applying = Idle /\ applying.half = 0 /\ applying.reply = {}
  BY DEF DataHandle, Idle
<1>1. CASE Ignored(c) /\ UNCHANGED <<merged, request, applying>>
  <2>1. UNCHANGED <<phase, round, pulls, merged, request, applying, stored, copying, seen>>
        /\ pushes' = pushes \ {c}
    BY <1>1 DEF DataHandle
  <2>2. Shape' /\ Places' /\ Waiting'
    BY <2>1 DEF Shape, TypeOK, Places, Waiting, Ignored
  <2>3. Contents'
    <3> SUFFICES ASSUME NEW d \in Clients, NEW r \in 1 .. MaxRound PROVE Holds(d, r)'
      BY DEF Contents
    <3>1. Holds(d, r)
      BY DEF Contents
    <3>2. Answered(d, r)' <=> Answered(d, r)
      BY <2>1 DEF Answered
    <3> QED
      BY <2>1, <3>1, <3>2 DEF Holds, Brought
  <2>4. Copies' /\ Apart'
    BY <2>1 DEF Copies, SeesOwnPushes, Apart, PulledBetweenUpdates
  <2> QED
    BY <2>2, <2>3, <2>4
<1>2. CASE ~Ignored(c) /\ Aggregate(c)
  <2> DEFINE sum == Buffered(c)
             S == request \cup {c}
  <2>1. /\ sum \in Sum
        /\ \A d \in Clients, r \in 1 .. MaxRound : sum[<<d, r>>] = Brought(S, d, r)
    BY <1>0, BufferSum
  <2>2. merged' = sum /\ pushes' = pushes \ {c}
        /\ UNCHANGED <<phase, round, pulls, stored, copying, seen>>
    BY <1>2 DEF DataHandle, Aggregate, Buffered
  <2>3. S \subseteq pushes \cup request /\ S \in SUBSET Clients /\ \A d \in S : ~Ignored(d)
    BY <1>0, <1>2 DEF Waiting, Shape, TypeOK
  <2>4. pushes \ {c} = pushes \ S /\ c \notin request
    BY <1>0 DEF Places
  <2> HIDE DEF sum
  <2>5. CASE Cardinality(request \cup {c}) = Expected
    <3>1. request' = {} /\ applying' = [half |-> 1, add |-> sum, reply |-> S]
      BY <1>2, <2>5 DEF Aggregate, Buffered, sum
    <3>2. sync_global_mode_ => \A d \in Clients : Ignored(d) \/ d \in S
      BY <1>2, <2>5, AllPushed
    <3> QED
      BY <1>0, <2>1, <2>2, <2>3, <2>4, <3>1, <3>2, UpdateStarts
  <2>6. CASE Cardinality(request \cup {c}) # Expected
    <3>1. request' = S /\ applying' = applying
      BY <1>2, <2>6 DEF Aggregate
    <3>2. Shape'
      BY <2>1, <2>2, <2>3, <3>1 DEF Shape, TypeOK
    <3>3. Places' /\ Waiting'
      BY <1>0, <1>2, <2>2, <2>4, <3>1 DEF Places, Waiting, Ignored
    <3>4. Contents'
      <4> SUFFICES ASSUME NEW d \in Clients, NEW r \in 1 .. MaxRound PROVE Holds(d, r)'
        BY DEF Contents
      <4> QED
        BY <1>0, <2>1, <2>2, <3>1 DEF Contents, Holds, Brought, Answered
    <3>5. Copies' /\ Apart'
      BY <1>0, <2>2, <3>1 DEF Copies, SeesOwnPushes, Apart, PulledBetweenUpdates
    <3> QED
      BY <3>2, <3>3, <3>4, <3>5
  <2> QED
    BY <2>5, <2>6
<1>3. CASE /\ ~sync_global_mode_ /\ c \in Parties
           /\ applying' = [half |-> 1, add |-> Unit(c, round[c]), reply |-> {c}]
           /\ UNCHANGED <<merged, request>>
  <2>1. pushes' = pushes \ {c} /\ UNCHANGED <<phase, round, pulls, stored, copying, seen>>
    BY DEF DataHandle
  <2>2. \A d \in Clients, r \in 1 .. MaxRound :
          Unit(c, round[c])[<<d, r>>] = Brought({c}, d, r)
    <3> TAKE d \in Clients, r \in 1 .. MaxRound
    <3>1. Unit(c, round[c])[<<d, r>>] = IF d = c /\ r = round[c] THEN 1 ELSE 0
      BY SumAt
    <3> QED
      BY <3>1 DEF Brought
  <2>3. ~Ignored(c)
    BY <1>3 DEF Ignored, Deployment
  <2>4. Unit(c, round[c]) \in Sum /\ merged \in Sum
    BY SumType DEF Shape, TypeOK
  <2>5. request \cap {c} = {}
    BY <1>0 DEF Places
  <2> QED
    BY <1>0, <1>3, <2>1, <2>2, <2>3, <2>4, <2>5, UpdateStarts
<1> QED
  BY <1>1, <1>2, <1>3 DEF DataHandle

\* The updater adds the update to one half; no answered push is in it.
LEMMA UpdateStep ==
  ASSUME Deployment, IInv, Update
  PROVE  IInv'
<1> USE DEF IInv
<1> DEFINE k == applying.half
<1>0. /\ k \in Half /\ stored' = [stored EXCEPT ![k] = Plus(stored[k], applying.add)]
      /\ applying' = [applying EXCEPT !.half = k + 1]
      /\ UNCHANGED <<phase, round, pushes, pulls, merged, request, copying, seen>>
  BY DEF Update
<1> HIDE DEF k
<1>1. /\ applying' \in [half : 0 .. 3, add : Sum, reply : SUBSET Clients]
      /\ applying'.half = k + 1 /\ applying'.add = applying.add /\ applying'.reply = applying.reply
      /\ applying.half = k /\ k + 1 \in 0 .. 3 /\ k + 1 # 0
  BY <1>0 DEF Shape, Half, k
<1>2. stored' \in [Half -> Sum]
  BY <1>0, SumType DEF Shape, TypeOK
<1>3. Shape'
  BY <1>0, <1>1, <1>2 DEF Shape, TypeOK
<1>4. Places' /\ Waiting'
  BY <1>0, <1>1 DEF Places, Waiting, Ignored
<1>5. \A a \in Atom : stored'[k][a] = stored[k][a] + applying.add[a]
  BY <1>0, SumAt DEF Shape, TypeOK
<1>6. \A h \in Half : h # k => stored'[h] = stored[h]
  BY <1>0 DEF Shape, TypeOK
<1>7. Contents'
  <2> SUFFICES ASSUME NEW d \in Clients, NEW r \in 1 .. MaxRound PROVE Holds(d, r)'
    BY DEF Contents
  <2>1. Holds(d, r) /\ <<d, r>> \in Atom
    BY SumAt DEF Contents
  <2>2. Answered(d, r)' <=> Answered(d, r)
    BY <1>0 DEF Answered
  <2>3. d \in applying.reply /\ r = round[d] => ~Answered(d, r)
    BY DEF Places, Answered, Shape, TypeOK, Deployment
  <2>4. ASSUME NEW h \in Half
        PROVE  stored'[h][<<d, r>>] =
                 IF Answered(d, r) \/ (d \in applying.reply /\ r = round[d] /\ h < k + 1)
                 THEN 1 ELSE 0
    <3>1. CASE h = k
      <4>1. stored[k][<<d, r>>] = IF Answered(d, r) THEN 1 ELSE 0
        BY <1>0, <1>1, <2>1 DEF Holds, Half
      <4>2. applying.add[<<d, r>>] = IF d \in applying.reply /\ r = round[d] THEN 1 ELSE 0
        BY <1>0, <1>1, <2>1 DEF Holds, Half, Brought
      <4>3. h < k + 1
        BY <3>1 DEF Half
      <4> QED
        BY <1>5, <2>1, <2>3, <3>1, <4>1, <4>2, <4>3
    <3>2. CASE h # k
      <4>1. h < k + 1 <=> h < k
        BY <1>0, <3>2 DEF Half
      <4> QED
        BY <1>1, <1>6, <2>1, <3>2, <4>1 DEF Holds
    <3> QED
      BY <3>1, <3>2
  <2> QED
    BY <1>0, <1>1, <2>1, <2>2, <2>4 DEF Holds, Brought, Half
<1>8. \A h \in Half, a \in Atom : stored[h][a] <= stored'[h][a] /\ stored[h][a] \in Nat
                                    /\ stored'[h][a] \in Nat
  <2> TAKE h \in Half, a \in Atom
  <2>1. stored[h][a] \in Nat /\ stored'[h][a] \in Nat /\ applying.add[a] \in Nat
    BY <1>2 DEF Shape, TypeOK, Sum
  <2> QED
    BY <1>5, <1>6, <2>1
<1>9. Copies'
  <2>1. \A c \in Clients, h \in Half, a \in Atom : seen[c][h][a] \in Nat
    BY DEF Shape, TypeOK, Sum
  <2>2. \A c \in Clients, h \in Half, a \in Atom : seen[c][h][a] <= stored'[h][a]
    BY <1>8, <2>1 DEF Copies
  <2>3. \A a \in Atom : copying.first[a] \in Nat
    BY DEF Shape, Sum
  <2>4. \A c \in copying.client, a \in Atom : copying.first[a] <= stored'[1][a]
    BY <1>8, <2>3 DEF Copies, Half
  <2> QED
    BY <1>0, <2>2, <2>4 DEF Copies, SeesOwnPushes
<1>10. Apart'
  <2>1. applying # Idle
    BY <1>0, <1>1 DEF Idle, Half
  <2> QED
    BY <1>0, <2>1 DEF Apart, PulledBetweenUpdates
<1> QED
  BY <1>3, <1>4, <1>7, <1>9, <1>10

\* The answers make the clients of the update pull.
LEMMA RespondStep ==
  ASSUME Deployment, IInv, Respond
  PROVE  IInv'
<1> USE DEF IInv
<1>0. /\ applying.half = 3 /\ applying' = Idle
      /\ pulls' = pulls \cup applying.reply
      /\ phase' = [c \in Clients |-> IF c \in applying.reply THEN "pulling" ELSE phase[c]]
      /\ UNCHANGED <<round, pushes, merged, request, stored, copying, seen>>
  BY DEF Respond
<1>1. /\ applying'.half = 0 /\ applying'.reply = {}
      /\ applying' \in [half : 0 .. 3, add : Sum, reply : SUBSET Clients]
  BY <1>0, SumType DEF Idle
<1>2. Shape'
  BY <1>0, <1>1 DEF Shape, TypeOK
<1>3. Places'
  BY <1>0, <1>1 DEF Places, Shape, TypeOK
<1>4. Waiting'
  BY <1>0, <1>1 DEF Waiting, Ignored, Shape, TypeOK
<1>5. Contents'
  <2> SUFFICES ASSUME NEW d \in Clients, NEW r \in 1 .. MaxRound PROVE Holds(d, r)'
    BY DEF Contents
  <2>1. Holds(d, r)
    BY DEF Contents
  <2>2. \A h \in Half : h < 3
    BY DEF Half
  <2>3. Answered(d, r)' <=> Answered(d, r) \/ (d \in applying.reply /\ r = round[d])
    BY <1>0 DEF Answered, Places
  <2> QED
    BY <1>0, <1>1, <2>1, <2>2, <2>3 DEF Holds, Brought
<1>6. Copies'
  <2>1. \A d \in Clients : phase'[d] = "idle" => phase[d] = "idle"
    BY <1>0
  <2>2. SeesOwnPushes'
    BY <1>0, <2>1 DEF Copies, SeesOwnPushes
  <2> QED
    BY <1>0, <2>2 DEF Copies
<1>7. Apart'
  <2>1. sync_global_mode_ => copying.client = {}
    BY <1>0 DEF Apart, Idle
  <2> QED
    BY <1>0, <2>1 DEF Apart, PulledBetweenUpdates
<1> QED
  BY <1>2, <1>3, <1>4, <1>5, <1>6, <1>7

\* A pull starts: a client that pulls has an answer to all of its pushes.
LEMMA PullFirstStep ==
  ASSUME Deployment, IInv, NEW c \in Clients, PullFirst(c)
  PROVE  IInv'
<1> USE DEF IInv
<1>0. /\ c \in pulls /\ copying = NoPull /\ pulls' = pulls \ {c}
      /\ copying' = [client |-> {c}, first |-> stored[1]]
      /\ UNCHANGED <<phase, round, pushes, merged, request, applying, stored, seen>>
  BY DEF PullFirst
<1>1. 1 \in Half /\ stored[1] \in Sum /\ phase[c] = "pulling"
  BY <1>0 DEF Shape, TypeOK, Half, Places
<1>2. Shape' /\ Places' /\ Waiting'
  <2>1. Shape'
    BY <1>0, <1>1 DEF Shape, TypeOK
  <2>2. Places'
    BY <1>0, <1>1 DEF Places
  <2>3. Waiting'
    BY <1>0 DEF Waiting, Ignored
  <2> QED
    BY <2>1, <2>2, <2>3
<1>3. Contents'
  <2> SUFFICES ASSUME NEW d \in Clients, NEW r \in 1 .. MaxRound PROVE Holds(d, r)'
    BY DEF Contents
  <2>1. Holds(d, r)
    BY DEF Contents
  <2>2. Answered(d, r)' <=> Answered(d, r)
    BY <1>0 DEF Answered
  <2> QED
    BY <1>0, <2>1, <2>2 DEF Holds, Brought
<1>4. Copies'
  <2>1. \A a \in Atom : seen[c][1][a] <= stored[1][a] /\ stored[1][a] <= stored[1][a]
    <3>1. \A a \in Atom : seen[c][1][a] <= stored[1][a]
      BY <1>1 DEF Copies
    <3>2. \A a \in Atom : stored[1][a] \in Nat
      BY <1>1 DEF Sum
    <3> QED
      BY <3>1, <3>2
  <2>2. \A r \in 1 .. MaxRound : r <= round[c] => stored[1][<<c, r>>] = 1
    <3> SUFFICES ASSUME NEW r \in 1 .. MaxRound, r <= round[c] PROVE stored[1][<<c, r>>] = 1
      OBVIOUS
    <3>0. round[c] \in Nat /\ r \in Nat
      BY DEF Shape, TypeOK, Deployment
    <3>1. Answered(c, r)
      BY <1>1, <3>0 DEF Answered
    <3> QED
      BY <1>1, <3>1 DEF Contents, Holds
  <2>3. SeesOwnPushes'
    BY <1>0 DEF Copies, SeesOwnPushes
  <2>4. copying'.client = {c} /\ copying'.first = stored[1]
    BY <1>0
  <2>5. \A d \in Clients, h \in Half, a \in Atom : seen'[d][h][a] <= stored'[h][a]
    BY <1>0 DEF Copies
  <2>6. \A d \in copying'.client :
          /\ \A a \in Atom : /\ seen'[d][1][a] <= copying'.first[a]
                             /\ copying'.first[a] <= stored'[1][a]
          /\ \A r \in 1 .. MaxRound : r <= round'[d] => copying'.first[<<d, r>>] = 1
    BY <1>0, <2>1, <2>2, <2>4
  <2> QED
    BY <2>3, <2>5, <2>6 DEF Copies
<1>5. Apart'
  BY <1>0 DEF Apart, PulledBetweenUpdates
<1> QED
  BY <1>2, <1>3, <1>4, <1>5

\* The second half follows, and the client sees both.
LEMMA PullSecondStep ==
  ASSUME Deployment, IInv, NEW c \in Clients, PullSecond(c)
  PROVE  IInv' /\ \A d \in Clients, h \in Half, a \in Atom : seen[d][h][a] <= seen'[d][h][a]
<1> USE DEF IInv
<1>0. /\ copying.client = {c} /\ copying' = NoPull
      /\ seen' = [seen EXCEPT ![c] = <<copying.first, stored[2]>>]
      /\ phase' = [phase EXCEPT ![c] = "idle"]
      /\ UNCHANGED <<round, pushes, pulls, merged, request, applying, stored>>
  BY DEF PullSecond
<1>1. phase[c] = "pulling" /\ 1 \in Half /\ 2 \in Half /\ stored[1] \in Sum /\ stored[2] \in Sum
  BY <1>0 DEF Places, Half, Shape, TypeOK
<1>2. /\ <<copying.first, stored[2]>> \in [Half -> Sum]
      /\ seen'[c][1] = copying.first /\ seen'[c][2] = stored[2]
      /\ \A d \in Clients : d # c => seen'[d] = seen[d]
  <2>1. <<copying.first, stored[2]>> \in [1 .. 2 -> Sum]
    BY <1>1 DEF Shape
  <2>2. 1 .. 2 = Half
    BY DEF Half
  <2> QED
    BY <1>0, <2>1, <2>2 DEF Shape, TypeOK
<1>3. Shape'
  <2>1. NoPull \in [client : SUBSET Clients, first : Sum]
    BY SumType DEF NoPull
  <2> QED
    BY <1>0, <1>2, <2>1 DEF Shape, TypeOK
<1>4. Places' /\ Waiting'
  <2>1. copying'.client = {} /\ c \notin pulls
    BY <1>0 DEF Places, NoPull
  <2>2. \A d \in Clients : phase'[d] # phase[d] => d = c
    BY <1>0 DEF Shape, TypeOK
  <2>3. c \notin pushes \cup request \cup applying.reply
    BY <1>1 DEF Places
  <2>4. Places'
    <3>1. \A d \in pushes \cup request \cup applying.reply : d \in Clients /\ phase'[d] = "pushing"
      BY <2>2, <2>3 DEF Places, Shape, TypeOK
    <3>2. \A d \in pulls : phase'[d] = "pulling"
      BY <2>1, <2>2 DEF Places, Shape, TypeOK
    <3> QED
      BY <1>0, <2>1, <3>1, <3>2 DEF Places
  <2>5. ~Ignored(c)
    BY <1>0 DEF Waiting
  <2>6. Waiting'
    BY <1>0, <2>1, <2>2, <2>5 DEF Waiting, Ignored
  <2> QED
    BY <2>4, <2>6
<1>5. Contents'
  <2> SUFFICES ASSUME NEW d \in Clients, NEW r \in 1 .. MaxRound PROVE Holds(d, r)'
    BY DEF Contents
  <2>1. Answered(d, r)' <=> Answered(d, r)
    BY <1>0, <1>1 DEF Answered, Shape, TypeOK
  <2>2. Holds(d, r)
    BY DEF Contents
  <2> QED
    BY <1>0, <2>1, <2>2 DEF Holds, Brought
<1>6. \A h \in Half : h = 1 \/ h = 2
  BY DEF Half
<1>7. \A h \in Half, a \in Atom : seen[c][h][a] <= seen'[c][h][a] /\ seen'[c][h][a] <= stored[h][a]
  <2> TAKE h \in Half, a \in Atom
  <2>1. stored[2][a] \in Nat
    BY <1>1 DEF Sum
  <2>2. seen[c][1][a] <= copying.first[a] /\ copying.first[a] <= stored[1][a]
    BY <1>0 DEF Copies
  <2>3. seen[c][2][a] <= stored[2][a]
    BY <1>1 DEF Copies
  <2> QED
    BY <1>2, <1>6, <2>1, <2>2, <2>3
<1>8. Copies'
  <2>1. \A d \in Clients, h \in Half, a \in Atom : seen'[d][h][a] <= stored[h][a]
    BY <1>2, <1>7 DEF Copies
  <2>2. SeesOwnPushes'
    <3> SUFFICES ASSUME NEW d \in Clients, NEW h \in Half, NEW r \in 1 .. MaxRound,
                        phase'[d] = "idle", r <= round[d]
                 PROVE  seen'[d][h][<<d, r>>] = 1
      BY <1>0 DEF SeesOwnPushes
    <3>1. CASE d # c
      <4>1. phase[d] = "idle" /\ seen'[d] = seen[d]
        BY <1>0, <1>2, <3>1 DEF Shape, TypeOK
      <4> QED
        BY <4>1 DEF Copies, SeesOwnPushes
    <3>2. CASE d = c
      <4>0. round[c] \in Nat /\ r \in Nat
        BY DEF Shape, TypeOK, Deployment
      <4>1. Answered(c, r)
        BY <1>1, <3>2, <4>0 DEF Answered
      <4>2. stored[2][<<c, r>>] = 1
        BY <1>1, <4>1 DEF Contents, Holds
      <4>3. copying.first[<<c, r>>] = 1
        BY <1>0, <3>2 DEF Copies
      <4> QED
        BY <1>2, <1>6, <3>2, <4>2, <4>3
    <3> QED
      BY <3>1, <3>2
  <2> QED
    BY <1>0, <2>1, <2>2 DEF Copies, NoPull
<1>9. Apart'
  <2> SUFFICES ASSUME sync_global_mode_ PROVE seen'[c][1] = seen'[c][2]
    BY <1>0, <1>2 DEF Apart, PulledBetweenUpdates, NoPull
  <2>1. applying = Idle /\ copying.first = stored[1]
    BY <1>0 DEF Apart
  <2>2. stored[1] = stored[2]
    <3>1. ASSUME NEW d \in Clients, NEW r \in 1 .. MaxRound
          PROVE  stored[1][<<d, r>>] = stored[2][<<d, r>>]
      <4>1. Holds(d, r) /\ applying.reply = {}
        BY <2>1 DEF Contents, Idle
      <4> QED
        BY <1>1, <4>1 DEF Holds
    <3>2. \A a \in Atom : stored[1][a] = stored[2][a]
      BY <3>1 DEF Atom
    <3> QED
      BY <1>1, <3>2 DEF Sum
  <2> QED
    BY <1>2, <2>1, <2>2
<1>10. \A d \in Clients, h \in Half, a \in Atom : seen[d][h][a] <= seen'[d][h][a]
  <2> TAKE d \in Clients, h \in Half, a \in Atom
  <2>1. seen[d][h][a] \in Nat
    BY DEF Shape, TypeOK, Sum
  <2>2. CASE d = c
    BY <1>7, <2>2
  <2>3. CASE d # c
    BY <1>2, <2>1, <2>3
  <2> QED
    BY <2>2, <2>3
<1> QED
  BY <1>3, <1>4, <1>5, <1>8, <1>9, <1>10

\* Every step keeps the invariant, and what a client has seen.
LEMMA IInvStep ==
  ASSUME Deployment, IInv, [Next]_vars
  PROVE  IInv' /\ KeepsSeen
<1>1. CASE UNCHANGED vars
  <2>1. Shape' /\ Places' /\ Waiting'
    BY <1>1 DEF vars, IInv, Shape, TypeOK, Places, Waiting, Ignored
  <2>2. Contents'
    <3> SUFFICES ASSUME NEW c \in Clients, NEW r \in 1 .. MaxRound PROVE Holds(c, r)'
      BY DEF Contents
    <3>1. Holds(c, r)
      BY DEF IInv, Contents
    <3>2. Answered(c, r)' <=> Answered(c, r)
      BY <1>1 DEF vars, Answered
    <3> QED
      BY <1>1, <3>1, <3>2 DEF vars, Holds, Brought
  <2>3. Copies' /\ Apart'
    BY <1>1 DEF vars, IInv, Copies, SeesOwnPushes, Apart, PulledBetweenUpdates
  <2>4. KeepsSeen
    BY <1>1 DEF vars, KeepsSeen, IInv, Shape, TypeOK, Sum
  <2> QED
    BY <2>1, <2>2, <2>3, <2>4 DEF IInv
<1>2. CASE seen' = seen
  <2>1. KeepsSeen
    BY <1>2 DEF KeepsSeen, IInv, Shape, TypeOK, Sum
  <2> QED
    BY <1>1, <2>1, PushStep, HandleStep, UpdateStep, RespondStep, PullFirstStep, PullSecondStep
       DEF Next
<1>3. CASE seen' # seen /\ ~UNCHANGED vars
  <2>1. PICK c \in Clients : PullSecond(c)
    BY <1>3 DEF Next, Push, DataHandle, Update, Respond, PullFirst
  <2> QED
    BY <2>1, PullSecondStep DEF KeepsSeen
<1> QED
  BY <1>1, <1>2, <1>3

\* The invariant of the global server's tensor.
THEOREM TensorInvariant ==
  ASSUME Deployment
  PROVE  Spec => []IInv
<1>1. Init => IInv
  BY InitIInv
<1>2. IInv /\ [Next]_vars => IInv'
  BY IInvStep
<1> QED
  BY <1>1, <1>2, PTL DEF Spec

\* Between updates every answered push of DataHandleSyncDefault or
\* DataHandleAsyncDefault is in the tensor once, and none twice.
THEOREM UpdatesOnce ==
  ASSUME Deployment
  PROVE  Spec => []EveryUpdateOnce
<1>1. IInv => EveryUpdateOnce
  <2> SUFFICES ASSUME IInv, applying = Idle, NEW h \in Half, NEW c \in Clients,
                      NEW r \in 1 .. MaxRound
               PROVE  /\ stored[h][<<c, r>>] <= IF Ignored(c) THEN 0 ELSE 1
                      /\ Answered(c, r) => stored[h][<<c, r>>] = 1
    BY DEF EveryUpdateOnce
  <2>1. stored[h][<<c, r>>] = IF Answered(c, r) THEN 1 ELSE 0
    BY DEF IInv, Contents, Holds, Idle
  <2>2. Ignored(c) => ~Answered(c, r)
    <3> SUFFICES ASSUME Ignored(c) PROVE ~Answered(c, r)
      OBVIOUS
    <3>1. r \in Nat /\ r >= 1
      BY DEF Deployment
    <3>2. round[c] = 0 \/ (round[c] = 1 /\ phase[c] = "pushing")
      BY DEF IInv, Waiting
    <3> QED
      BY <3>1, <3>2 DEF Answered
  <2> QED
    BY <2>1, <2>2
<1> QED
  BY <1>1, TensorInvariant, PTL

\* A client that has pulled has its own gradients, whoever pushed meanwhile.
THEOREM OwnPushesSeen ==
  ASSUME Deployment
  PROVE  Spec => []SeesOwnPushes
<1>1. IInv => SeesOwnPushes
  BY DEF IInv, Copies
<1> QED
  BY <1>1, TensorInvariant, PTL

\* No pull of DefaultStorageResponse loses what an earlier one returned.
THEOREM NothingSeenIsLost ==
  ASSUME Deployment
  PROVE  Spec => SeenOnlyGrows
<1>1. IInv /\ [Next]_vars => [KeepsSeen]_vars
  BY IInvStep
<1> QED
  BY <1>1, TensorInvariant, PTL DEF Spec, SeenOnlyGrows

\* In the synchronous mode DefaultStorageResponse never copies a tensor that
\* the updater is writing, although store_mu_ is taken by the first only.
THEOREM NoTornPull ==
  ASSUME Deployment, sync_global_mode_
  PROVE  Spec => []PulledBetweenUpdates
<1>1. IInv => PulledBetweenUpdates
  BY DEF IInv, Apart
<1> QED
  BY <1>1, TensorInvariant, PTL
=============================================================================
