------------------------------ MODULE MixedSync ------------------------------
(***************************************************************************)
(* A global server with all of its clients, for one key: the parties'      *)
(* servers and the workers of the central party, in the synchronous mode   *)
(* and in MixedSync (dist_async), where a party's push is applied on its   *)
(* own.                                                                    *)
(*                                                                         *)
(* Receiving handles one push at a time and waits for the updater, which   *)
(* writes the tensor in place; ReceivingPull copies the tensor meanwhile.  *)
(* The tensor has two halves so that a copy may see one of them updated.   *)
(* A party's server and its workers are one client: it pushes, and pulls   *)
(* when the push has been answered.  The key is initialised.               *)
(***************************************************************************)
EXTENDS Integers, FiniteSets

CONSTANTS
  Parties,
  CentralWorkers,       \* workers of the central party, the master among them
  Trainers,             \* the clients whose script trains
  sync_global_mode_,    \* dist_sync
  EnableCentralWorkers, \* DMLC_ENABLE_CENTRAL_WORKER
  MaxRound              \* iterations of a trainer (bound)

Clients == Parties \cup CentralWorkers
Half == {1, 2}
Atom == Clients \X (1 .. MaxRound)

\* A sum of gradients: how often each one is in it.
Sum == [Atom -> Nat]
Nothing == [a \in Atom |-> 0]
Plus(x, y) == [a \in Atom |-> x[a] + y[a]]
Unit(c, r) == [a \in Atom |-> IF a = <<c, r>> THEN 1 ELSE 0]
Idle == [half |-> 0, add |-> Nothing, reply |-> {}]
NoPull == [client |-> {}, first |-> Nothing]

VARIABLES
  phase,    \* of a client: idle, pushing, pulling
  round,    \* iterations a client has started
  pushes,   \* clients whose push is in the queue of Receiving
  pulls,    \* clients whose pull is in the queue of ReceivingPull
  merged,   \* update_buf_.merged
  request,  \* update_buf_.request: whose pushes are in merged
  applying, \* ApplyUpdates in progress: next half to write, what to add, whom to answer
  stored,   \* the tensor: the updates in each of its halves
  copying,  \* the pull being answered, with the half already copied
  seen      \* the tensor as the client has last pulled it

vars == <<phase, round, pushes, pulls, merged, request, applying, stored, copying, seen>>

Init ==
  /\ phase = [c \in Clients |-> "idle"] /\ round = [c \in Clients |-> 0]
  /\ pushes = {} /\ pulls = {}
  /\ merged = Nothing /\ request = {}
  /\ applying = Idle /\ copying = NoPull
  /\ stored = [h \in Half |-> Nothing]
  /\ seen = [c \in Clients |-> [h \in Half |-> Nothing]]

\* A client pushes its gradient.
Push(c) ==
  /\ phase[c] = "idle" /\ round[c] < MaxRound
  /\ phase' = [phase EXCEPT ![c] = "pushing"]
  /\ round' = [round EXCEPT ![c] = @ + 1]
  /\ pushes' = pushes \cup {c}
  /\ UNCHANGED <<pulls, merged, request, applying, stored, copying, seen>>

\* ps::NumWorkers() counts the central party's workers, the master included.
NumWorkers == Cardinality(CentralWorkers)

\* The pushes that make an update: in MixedSync only central workers' pushes
\* are collected.
Expected ==
  IF sync_global_mode_
    THEN (IF EnableCentralWorkers THEN NumWorkers ELSE 0) + Cardinality(Parties)
    ELSE NumWorkers

\* Mutant: a push starts from what the buffer holds.
AggregateStale(c) ==
  LET sum == Plus(merged, Unit(c, round[c]))
  IN /\ merged' = sum
     /\ IF Cardinality(request \cup {c}) = Expected
          THEN /\ request' = {}
               /\ applying' = [half |-> 1, add |-> sum, reply |-> request \cup {c}]
          ELSE /\ request' = request \cup {c}
               /\ UNCHANGED applying

\* The push is added to the others of its round; the last one starts the update.
Aggregate(c) ==
  LET sum == IF request = {} THEN Unit(c, round[c]) ELSE Plus(merged, Unit(c, round[c]))
  IN /\ merged' = sum
     /\ IF Cardinality(request \cup {c}) = Expected
          THEN /\ request' = {}
               /\ applying' = [half |-> 1, add |-> sum, reply |-> request \cup {c}]
          ELSE /\ request' = request \cup {c}
               /\ UNCHANGED applying

\* Mutant: nobody's push is taken.
IgnoredAll(c) == ~EnableCentralWorkers

\* The push of a central worker is dropped without an answer.
Ignored(c) == c \in CentralWorkers /\ ~EnableCentralWorkers

\* Mutant: a party's push is answered before the update.
DataHandleEarly(c) ==
  /\ c \in pushes /\ applying = Idle
  /\ pushes' = pushes \ {c}
  /\ \/ Ignored(c) /\ UNCHANGED <<merged, request, applying, phase, pulls>>
     \/ /\ ~Ignored(c)
        /\ sync_global_mode_ \/ c \in CentralWorkers
        /\ Aggregate(c) /\ UNCHANGED <<phase, pulls>>
     \/ /\ ~sync_global_mode_ /\ c \in Parties
        /\ applying' = [half |-> 1, add |-> Unit(c, round[c]), reply |-> {}]
        /\ phase' = [phase EXCEPT ![c] = "pulling"] /\ pulls' = pulls \cup {c}
        /\ UNCHANGED <<merged, request>>
  /\ UNCHANGED <<round, stored, copying, seen>>

\* DataHandleSyncDefault and DataHandleAsyncDefault on the global server.
DataHandle(c) ==
  /\ c \in pushes /\ applying = Idle
  /\ pushes' = pushes \ {c}
  /\ \/ Ignored(c) /\ UNCHANGED <<merged, request, applying>>
     \/ /\ ~Ignored(c)
        /\ sync_global_mode_ \/ c \in CentralWorkers
        /\ Aggregate(c)
     \/ /\ ~sync_global_mode_ /\ c \in Parties
        /\ applying' = [half |-> 1, add |-> Unit(c, round[c]), reply |-> {c}]
        /\ UNCHANGED <<merged, request>>
  /\ UNCHANGED <<phase, round, pulls, stored, copying, seen>>

\* Mutant: the gradient replaces the tensor, as without an updater.
UpdateReplaces ==
  /\ applying.half \in Half
  /\ stored' = [stored EXCEPT ![applying.half] = applying.add]
  /\ applying' = [applying EXCEPT !.half = @ + 1]
  /\ UNCHANGED <<phase, round, pushes, pulls, merged, request, copying, seen>>

\* The updater writes the next half of the tensor.
Update ==
  /\ applying.half \in Half
  /\ stored' = [stored EXCEPT ![applying.half] = Plus(@, applying.add)]
  /\ applying' = [applying EXCEPT !.half = @ + 1]
  /\ UNCHANGED <<phase, round, pushes, pulls, merged, request, copying, seen>>

\* The update is complete and its pushes are answered; their senders pull.
Respond ==
  /\ applying.half = 3
  /\ applying' = Idle
  /\ phase' = [c \in Clients |-> IF c \in applying.reply THEN "pulling" ELSE phase[c]]
  /\ pulls' = pulls \cup applying.reply
  /\ UNCHANGED <<round, pushes, merged, request, stored, copying, seen>>

\* DefaultStorageResponse copies the tensor, the first half ...
PullFirst(c) ==
  /\ c \in pulls /\ copying = NoPull
  /\ pulls' = pulls \ {c}
  /\ copying' = [client |-> {c}, first |-> stored[1]]
  /\ UNCHANGED <<phase, round, pushes, merged, request, applying, stored, seen>>

\* ... and the second, and answers.
PullSecond(c) ==
  /\ copying.client = {c}
  /\ copying' = NoPull
  /\ seen' = [seen EXCEPT ![c] = <<copying.first, stored[2]>>]
  /\ phase' = [phase EXCEPT ![c] = "idle"]
  /\ UNCHANGED <<round, pushes, pulls, merged, request, applying, stored>>

Next ==
  \/ \E c \in Trainers : Push(c)
  \/ \E c \in Clients : DataHandle(c) \/ PullFirst(c) \/ PullSecond(c)
  \/ Update \/ Respond

Spec == Init /\ [][Next]_vars /\ WF_vars(Next)

-----------------------------------------------------------------------------
(* Properties.                                                             *)

\* Every variable has its type.
TypeOK ==
  /\ phase \in [Clients -> {"idle", "pushing", "pulling"}]
  /\ round \in [Clients -> 0 .. MaxRound]
  /\ pushes \subseteq Clients /\ pulls \subseteq Clients /\ request \subseteq Clients
  /\ merged \in Sum /\ stored \in [Half -> Sum] /\ seen \in [Clients -> [Half -> Sum]]
  /\ applying.half \in 0 .. 3 /\ applying.add \in Sum /\ applying.reply \subseteq Clients

Answered(c, r) == r < round[c] \/ (r = round[c] /\ phase[c] # "pushing")

\* Between updates a gradient whose push was answered is in the tensor once,
\* and no gradient is in it twice; nothing of an ignored worker is in it.
EveryUpdateOnce ==
  applying = Idle =>
    \A h \in Half, c \in Clients, r \in 1 .. MaxRound :
      /\ stored[h][<<c, r>>] <= IF Ignored(c) THEN 0 ELSE 1
      /\ Answered(c, r) => stored[h][<<c, r>>] = 1

\* A client that has pulled sees every gradient it has pushed, also when other
\* parties' updates come in between.
SeesOwnPushes ==
  \A c \in Clients, h \in Half, r \in 1 .. MaxRound :
    phase[c] = "idle" /\ r <= round[c] => seen[c][h][<<c, r>>] = 1

\* What a client has seen does not disappear from the tensor it pulls next.
KeepsSeen == \A c \in Clients, h \in Half, a \in Atom : seen[c][h][a] <= seen'[c][h][a]
SeenOnlyGrows == [][KeepsSeen]_vars

\* A pull returns the tensor as it was between two updates.
PulledBetweenUpdates == \A c \in Clients : seen[c][1] = seen[c][2]

\* Every party's script finishes its iterations.
PartiesDone == \A c \in Parties : round[c] = MaxRound /\ phase[c] = "idle"

\* Every trainer finishes its iterations.
AllDone == \A c \in Trainers : round[c] = MaxRound /\ phase[c] = "idle"
AllFinish == <>AllDone
=============================================================================
