--------------------------------- MODULE HFA ---------------------------------
(***************************************************************************)
(* Hierarchical frequency aggregation (MXNET_KVSTORE_USE_HFA).             *)
(*                                                                         *)
(* Every loop of the training script the workers of a party train locally  *)
(* and push their models; the party's server averages them.  In every      *)
(* period_k2-th loop it also sends the progress since the last milestone   *)
(* to the global server, which adds up the progress of all parties, and    *)
(* adds the sum to the milestone.                                          *)
(*                                                                         *)
(* An NDArray is a reference to memory: assigning one to another makes the *)
(* two share it (alias), copying with CopyFromTo does not.  The workers of *)
(* a party are taken together: the pushes of a key are one aggregation,    *)
(* and the keys of a loop are aggregated in any order, since the server's  *)
(* queue does not keep the order of messages of equal priority.            *)
(***************************************************************************)
EXTENDS Integers, FiniteSets, FiniteSetsExt

CONSTANTS
  Party,       \* parties, each with its server
  Key,         \* keys, 0 among them
  period_k2,   \* MXNET_KVSTORE_HFA_K2
  Initial,     \* Initial[p]: the values rank 0 of party p initialises
  Step,        \* what a party's average may change by in a loop: multiples
               \* of the number of parties, which keep its division exact
  MaxLoop      \* loops of the training script (bound)

NumGlobalWorkers == Cardinality(Party)

VARIABLES
  stored,      \* per party and key: store_
  milestone,   \* per party and key: store_milestone_
  marked,      \* per party: keys that have a milestone
  alias,       \* per party and key: the two share their memory
  local_iters, \* per party
  loop,        \* per party: finished loops
  todo,        \* per party: keys not yet aggregated in this loop
  waiting,     \* per party: keys whose pushes wait for the global server
  request,     \* per key: progress received by the global server, by party
  sum,         \* per key: what the global server stores
  pulling,     \* per key: parties with a pull outstanding
  round,       \* per party and key: finished global rounds
  synced,      \* per party and key: the value after the last global round
  sent         \* per party and key: the loops in which progress was sent

vars == <<stored, milestone, marked, alias, local_iters, loop, todo, waiting, request, sum,
          pulling, round, synced, sent>>

Init ==
  /\ stored = [p \in Party |-> [k \in Key |-> Initial[p]]]
  /\ milestone = [p \in Party |-> [k \in Key |-> 0]]
  /\ marked = [p \in Party |-> {}]
  /\ alias = [p \in Party |-> [k \in Key |-> FALSE]]
  /\ local_iters = [p \in Party |-> 0]
  /\ loop = [p \in Party |-> 0]
  /\ todo = [p \in Party |-> Key]
  /\ waiting = [p \in Party |-> {}]
  /\ request = [k \in Key |-> [p \in {} |-> 0]]
  /\ sum = [k \in Key |-> 0]
  /\ pulling = [k \in Key |-> Party]
  /\ round = [p \in Party |-> [k \in Key |-> 0]]
  /\ synced = [p \in Party |-> [k \in Key |-> Initial[p]]]
  /\ sent = [p \in Party |-> [k \in Key |-> {}]]

-----------------------------------------------------------------------------

\* Whether an aggregation is followed by a global round.
GlobalLoop(iters) == iters % period_k2 = 0

\* The progress since the milestone, shared among the parties.
Progress(value, base) == (value - base) \div NumGlobalWorkers

\* DataHandleSyncDefault on a party's server, the last worker's push of key k:
\* the average replaces the stored value in place.  Only key 0 counts loops.
\* In a loop without a global round the pushes are answered at once.
Aggregate(p, k, d) ==
  LET avg   == stored[p][k] + d
      base  == IF alias[p][k] THEN avg ELSE milestone[p][k]
      iters == IF k = 0 THEN local_iters[p] + 1 ELSE local_iters[p]
  IN /\ k \in todo[p] /\ loop[p] < MaxLoop
     /\ marked[p] = Key                  \* the first pulls are answered
     /\ todo' = [todo EXCEPT ![p] = @ \ {k}]
     /\ local_iters' = [local_iters EXCEPT ![p] = iters]
     /\ milestone' = [milestone EXCEPT ![p][k] = base]
     /\ IF ~GlobalLoop(iters)
        THEN /\ stored' = [stored EXCEPT ![p][k] = avg]
             /\ UNCHANGED <<alias, waiting, request, sent>>
        ELSE /\ stored' = [stored EXCEPT ![p][k] = Progress(avg, base)]
             /\ alias' = [alias EXCEPT ![p][k] = FALSE]
             /\ waiting' = [waiting EXCEPT ![p] = @ \cup {k}]
             /\ request' = [request EXCEPT ![k] =
                  [q \in DOMAIN @ \cup {p} |->
                     IF q = p THEN Progress(avg, base) ELSE request[k][q]]]
             /\ sent' = [sent EXCEPT ![p][k] = @ \cup {loop[p] + 1}]
     /\ UNCHANGED <<marked, loop, sum, pulling, round, synced>>

\* Mutant: the global server does not wait for the last party.
GlobalRoundEarly(k) ==
  /\ Cardinality(DOMAIN request[k]) >= NumGlobalWorkers - 1
  /\ sum' = [sum EXCEPT ![k] = MapThenSumSet(LAMBDA p : request[k][p], DOMAIN request[k])]
  /\ pulling' = [pulling EXCEPT ![k] = @ \cup DOMAIN request[k]]
  /\ request' = [request EXCEPT ![k] = [p \in {} |-> 0]]
  /\ UNCHANGED <<stored, milestone, marked, alias, local_iters, loop, todo, waiting, round,
                 synced, sent>>

\* The global server has a push of every party: without an updater their sum
\* becomes its value, and every party's server is told to pull.
GlobalRound(k) ==
  /\ DOMAIN request[k] = Party
  /\ sum' = [sum EXCEPT ![k] = MapThenSumSet(LAMBDA p : request[k][p], Party)]
  /\ pulling' = [pulling EXCEPT ![k] = @ \cup Party]
  /\ request' = [request EXCEPT ![k] = [p \in {} |-> 0]]
  /\ UNCHANGED <<stored, milestone, marked, alias, local_iters, loop, todo, waiting, round,
                 synced, sent>>

\* DataHandlePullResponseDefault and HandleHFAAccumulate: the first answer only
\* copies the server's own value to the milestone; a later one adds what it
\* brings to the milestone, lets the two share memory and answers the pushes.
PullResponse(p, k) ==
  /\ p \in pulling[k]
  /\ pulling' = [pulling EXCEPT ![k] = @ \ {p}]
  /\ IF k \notin marked[p]
     THEN /\ milestone' = [milestone EXCEPT ![p][k] = stored[p][k]]
          /\ marked' = [marked EXCEPT ![p] = @ \cup {k}]
          /\ UNCHANGED <<stored, alias, waiting, round, synced>>
     ELSE LET v == milestone[p][k] + sum[k]
          IN /\ stored' = [stored EXCEPT ![p][k] = v]
             /\ milestone' = [milestone EXCEPT ![p][k] = v]
             /\ alias' = [alias EXCEPT ![p][k] = TRUE]
             /\ waiting' = [waiting EXCEPT ![p] = @ \ {k}]
             /\ round' = [round EXCEPT ![p][k] = @ + 1]
             /\ synced' = [synced EXCEPT ![p][k] = v]
             /\ UNCHANGED marked
  /\ UNCHANGED <<local_iters, loop, todo, request, sum, sent>>

\* waitall: every push of the loop is answered and pulled.
EndLoop(p) ==
  /\ todo[p] = {} /\ waiting[p] = {}
  /\ loop' = [loop EXCEPT ![p] = @ + 1]
  /\ todo' = [todo EXCEPT ![p] = Key]
  /\ UNCHANGED <<stored, milestone, marked, alias, local_iters, waiting, request, sum, pulling,
                 round, synced, sent>>

Next ==
  \/ \E p \in Party, k \in Key : PullResponse(p, k) \/ \E d \in Step : Aggregate(p, k, d)
  \/ \E k \in Key : GlobalRound(k)
  \/ \E p \in Party : EndLoop(p)

\* Messages arrive and every server and worker goes on; the loops are finite.
Spec == Init /\ [][Next]_vars /\ WF_vars(Next)

-----------------------------------------------------------------------------
(* Properties.                                                             *)

\* Every variable has its type.
TypeOK ==
  /\ stored \in [Party -> [Key -> Int]] /\ synced \in [Party -> [Key -> Int]]
  /\ alias \in [Party -> [Key -> BOOLEAN]]
  /\ milestone \in [Party -> [Key -> Int]] /\ marked \in [Party -> SUBSET Key]
  /\ local_iters \in [Party -> 0 .. MaxLoop] /\ loop \in [Party -> 0 .. MaxLoop]
  /\ todo \in [Party -> SUBSET Key] /\ waiting \in [Party -> SUBSET Key]
  /\ \A k \in Key : DOMAIN request[k] \subseteq Party /\ pulling[k] \subseteq Party
  /\ round \in [Party -> [Key -> 0 .. MaxLoop]]

\* The progress of a key is sent in every period_k2-th loop and in no other:
\* "number of loops before a global synchronization".
EveryK2 ==
  \A p \in Party, k \in Key :
    /\ \A n \in sent[p][k] : n % period_k2 = 0
    /\ \A n \in 1 .. loop[p] : n % period_k2 = 0 => n \in sent[p][k]

\* The parties take part in the same global rounds: none is a round ahead of
\* another that has not sent its share of the round.
RoundsTogether ==
  \A p, q \in Party, k \in Key : round[p][k] <= Cardinality(sent[q][k])

\* A global synchronization makes the parties that started equal equal again.
SyncAgrees ==
  \A p, q \in Party, k \in Key : round[p][k] = round[q][k] => synced[p][k] = synced[q][k]

\* After the first global round a party holds its own initial value and the
\* mean progress of all parties, so parties that started equal are equal.
FirstSyncAgrees ==
  \A p, q \in Party, k \in Key :
    round[p][k] = 1 /\ round[q][k] = 1 =>
      synced[p][k] - Initial[p] = synced[q][k] - Initial[q]

\* Every party finishes its loops: no server waits for a push that never comes.
Finished == \A p \in Party : loop[p] = MaxLoop
Finishes == <>Finished
=============================================================================
