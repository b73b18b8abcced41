------------------------------- MODULE TSEngine -------------------------------
(***************************************************************************)
(* TSEngine inside a party (ENABLE_INTRA_TS): workers merge their          *)
(* gradients pairwise on the way to the party's server, and the server's   *)
(* tensors are handed from worker to worker on the way back.  The party's  *)
(* scheduler decides who sends to whom.                                    *)
(*                                                                         *)
(* Pushing: a node that has a tensor to send, or is ready to receive one,  *)
(* asks the scheduler (ASKPUSH); the scheduler pairs two askers and tells  *)
(* one of them to send.  An ask does not name a key: the sender takes the  *)
(* front of its send_q.  Pulling: a node that has a new version of a       *)
(* tensor asks for a receiver (ASKPULL), sends, waits for AUTOPULLREPLY    *)
(* and asks again until every worker has been given the version.           *)
(*                                                                         *)
(* Node 0 is the server (id 100), node n the worker with rank n - 1 (id    *)
(* 99 + 2n); a party has one server, the only one the scheduler pairs.  A  *)
(* worker has its script and the thread of its customer, which handles     *)
(* messages of equal priority in any order and takes none while it passes  *)
(* a tensor on.  The global round of a key takes place between the answer  *)
(* to its last push and the start of its distribution.  Values are sets    *)
(* of gradients.                                                           *)
(***************************************************************************)
EXTENDS Integers, FiniteSets, SequencesExt

CONSTANTS
  NumWorkers,
  NumKeys,
  WaitInit,    \* a key is initialised everywhere before the next is pushed
  WaitEachKey, \* the script waits for a key before it pushes the next (cnn.py:125)
  MaxRound     \* iterations of the script (bound)

Server == 0
Workers == 1 .. NumWorkers
Nodes == {Server} \cup Workers
Keys == 1 .. NumKeys
Gradient == Workers \X (1 .. MaxRound)
Idle == [key |-> 0]  \* a thread that passes nothing on
None == {}           \* no tensor; a tensor v is {v}

VARIABLES
  inited,    \* keys the party has initialised; the barrier of each is passed
  round,     \* iteration of a worker's script
  issued,    \* keys pushed in this iteration
  pushing,   \* pushes of a worker that have not been answered
  pulling,   \* pulls of a worker that have not been completed
  send_q,    \* of a worker
  merged,    \* update_buf_[key].merged and req_meta_buf[key].num_merge of a worker
  asks,      \* ASKPUSH messages of a node on their way to the scheduler
  ask_q,     \* at the scheduler
  orders,    \* how often a worker has been told to send, by receiver
  inbox,     \* messages for the customer of a node
  request,   \* of the server: gradients and count of the pushes of a key
  stored,    \* the server's tensors
  due,       \* keys whose global round is over or underway
  B, iters,  \* at the scheduler: who has been given the version; versions distributed
  iter,      \* of the server: the version it has started last
  passing,   \* what a node's customer is passing on
  auto_pull_kvs_, \* tensors a worker has received and its script has not pulled
  pulled     \* tensors a worker's script has pulled last

script == <<round, issued, pushing, pulling, pulled>>
pushers == <<send_q, merged, asks, ask_q, orders>>
serverSide == <<request, stored, due, iter>>
overlay == <<B, iters, passing, auto_pull_kvs_>>
vars == <<inited, script, pushers, inbox, serverSide, overlay>>

Init ==
  /\ inited = 0
  /\ round = [w \in Workers |-> 0] /\ issued = [w \in Workers |-> NumKeys]
  /\ pushing = [w \in Workers |-> {}] /\ pulling = [w \in Workers |-> {}]
  /\ pulled = [w \in Workers |-> [k \in Keys |-> {}]]
  /\ send_q = [w \in Workers |-> <<>>]
  /\ merged = [w \in Workers |-> [k \in Keys |-> [val |-> {}, num |-> 0]]]
  /\ asks = [n \in Nodes |-> 0] /\ ask_q = <<Server>>
  /\ orders = [w \in Workers |-> [n \in Nodes |-> 0]]
  /\ inbox = [n \in Nodes |-> {}]
  /\ request = [k \in Keys |-> [val |-> {}, num |-> 0, from |-> {}]]
  /\ stored = [k \in Keys |-> None] /\ due = {} /\ iter = 0
  /\ B = {} /\ iters = 0
  /\ passing = [n \in Nodes |-> Idle]
  /\ auto_pull_kvs_ = [w \in Workers |-> [k \in Keys |-> None]]

-----------------------------------------------------------------------------
(* Pushing. *)

\* ZPush: the worker takes the tensor into its own buffer and asks.  What has
\* been merged there before is replaced.
OwnTensor(old, val) == [val |-> val, num |-> 1]

\* Mutant: the worker asks twice.
ZPushTwice(w, k, val) ==
  /\ send_q' = [send_q EXCEPT ![w] = Append(@, k)]
  /\ merged' = [merged EXCEPT ![w][k] = OwnTensor(@, val)]
  /\ asks' = [asks EXCEPT ![w] = @ + 2]
  /\ pushing' = [pushing EXCEPT ![w] = @ \cup {k}]

ZPush(w, k, val) ==
  /\ send_q' = [send_q EXCEPT ![w] = Append(@, k)]
  /\ merged' = [merged EXCEPT ![w][k] = OwnTensor(@, val)]
  /\ asks' = [asks EXCEPT ![w] = @ + 1]
  /\ pushing' = [pushing EXCEPT ![w] = @ \cup {k}]

\* InitImpl: rank 0 pushes the initial tensor of the next key.  The scripts do
\* not wait for the pulls of the previous one (cnn.py:90-94); with WaitInit the
\* messages are fast enough that they are over ...
InitPush ==
  /\ WaitInit => \A w \in Workers : pulling[w] = {}
  /\ inited < NumKeys /\ pushing[1] = {} /\ stored[inited + 1] = None
  /\ ZPush(1, inited + 1, {})
  /\ UNCHANGED <<inited, round, issued, pulling, pulled, ask_q, orders, inbox,
                 serverSide, overlay>>

\* ... and all workers meet in the barrier when it has been answered, and pull.
InitBarrier ==
  /\ inited < NumKeys /\ pushing[1] = {} /\ stored[inited + 1] # None
  /\ inited' = inited + 1
  /\ pulling' = [w \in Workers |-> pulling[w] \cup {inited + 1}]
  /\ UNCHANGED <<round, issued, pushing, pulled, pushers, inbox, serverSide, overlay>>

\* The script's waitall before the next key or the next iteration.
MayPush(w) ==
  /\ inited = NumKeys
  /\ (WaitEachKey \/ issued[w] = NumKeys) => pulling[w] = {}

PushPull(w) ==
  /\ MayPush(w)
  /\ LET r == IF issued[w] = NumKeys THEN round[w] + 1 ELSE round[w]
         k == IF issued[w] = NumKeys THEN 1 ELSE issued[w] + 1
     IN /\ r <= MaxRound
        /\ ZPush(w, k, {<<w, r>>})
        /\ round' = [round EXCEPT ![w] = r]
        /\ issued' = [issued EXCEPT ![w] = k]
        /\ pulling' = [pulling EXCEPT ![w] = @ \cup {k}]
  /\ UNCHANGED <<inited, pulled, ask_q, orders, inbox, serverSide, overlay>>

\* ProcessAskPushCommand.  Between two workers the measured throughputs, which
\* are left open, choose the sender.
Senders(a, b) == IF Server \in {a, b} THEN {a, b} \ {Server} ELSE {a, b}
Repeated(n) == ask_q = <<n>>
AskPush(n) ==
  /\ asks[n] > 0
  /\ asks' = [asks EXCEPT ![n] = @ - 1]
  /\ CASE Repeated(n) -> UNCHANGED <<ask_q, orders>>
       [] ask_q = <<>> -> ask_q' = <<n>> /\ UNCHANGED orders
       [] OTHER -> /\ ask_q' = <<>>
                   /\ \E s \in Senders(ask_q[1], n) :
                        LET to == IF s = n THEN ask_q[1] ELSE n
                        IN orders' = [orders EXCEPT ![s][to] = @ + 1]
  /\ UNCHANGED <<inited, script, send_q, merged, inbox, serverSide, overlay>>

\* The customer of a worker is told to send: WorkersMerge with num_merge = -1.
SendMerged(w) ==
  /\ passing[w] = Idle /\ send_q[w] # <<>>
  /\ \E n \in Nodes :
       /\ orders[w][n] > 0
       /\ orders' = [orders EXCEPT ![w][n] = @ - 1]
       /\ LET k == Head(send_q[w])
          IN inbox' = [inbox EXCEPT ![n] = @ \cup
               {[type |-> "push", from |-> w, key |-> k, round |-> round[w],
                 val |-> merged[w][k].val, num |-> merged[w][k].num]}]
       /\ send_q' = [send_q EXCEPT ![w] = Tail(@)]
  /\ UNCHANGED <<inited, script, merged, asks, ask_q, serverSide, overlay>>

Answer(from, k, r) == [type |-> "response", from |-> from, key |-> k, round |-> r]

\* A worker merges the tensor of another, answers and asks.
Merged(old, m) == [val |-> old.val \cup m.val, num |-> old.num + m.num]
WorkersMerge(w) ==
  /\ passing[w] = Idle
  /\ \E m \in inbox[w] :
       /\ m.type = "push"
       /\ inbox' = [inbox EXCEPT ![w] = @ \ {m},
                                 ![m.from] = @ \cup {Answer(w, m.key, m.round)}]
       /\ merged' = [merged EXCEPT ![w][m.key] = Merged(@, m)]
       /\ asks' = [asks EXCEPT ![w] = @ + 1]
  /\ UNCHANGED <<inited, script, send_q, ask_q, orders, serverSide, overlay>>

\* The answer to a push runs its callback.
Answered(w) ==
  /\ passing[w] = Idle
  /\ \E m \in inbox[w] :
       /\ m.type = "response"
       /\ inbox' = [inbox EXCEPT ![w] = @ \ {m}]
       /\ pushing' = [pushing EXCEPT ![w] = IF m.round = round[w] THEN @ \ {m.key} ELSE @]
  /\ UNCHANGED <<inited, round, issued, pulling, pulled, pushers, serverSide, overlay>>

\* Mutant: complete one gradient early.
OneMissing(num) == num = NumWorkers - 1

\* The gradients of a key are complete.
Complete(num) == num = NumWorkers

\* The server asks, then initialises the key, or counts the gradients and
\* answers when they are complete.
ServerPush ==
  /\ passing[Server] = Idle
  /\ \E m \in inbox[Server] :
       LET k == m.key
           sum == [val |-> request[k].val \cup m.val, num |-> request[k].num + m.num,
                   from |-> request[k].from \cup {m.from}]
           Answers(to) == inbox' = [n \in Nodes |->
             (inbox[n] \ (IF n = Server THEN {m} ELSE {}))
               \cup (IF n \in to THEN {Answer(Server, k, m.round)} ELSE {})]
       IN CASE stored[k] = None ->
                 /\ stored' = [stored EXCEPT ![k] = {m.val}]
                 /\ due' = due \cup {k}
                 /\ Answers({m.from})
                 /\ UNCHANGED request
            [] stored[k] # None /\ Complete(sum.num) ->
                 /\ stored' = [stored EXCEPT ![k] = {UNION @ \cup sum.val}]
                 /\ due' = due \cup {k}
                 /\ Answers(sum.from)
                 /\ request' = [request EXCEPT ![k] = [val |-> {}, num |-> 0, from |-> {}]]
            [] OTHER ->
                 /\ request' = [request EXCEPT ![k] = sum]
                 /\ Answers({})
                 /\ UNCHANGED <<stored, due>>
  /\ asks' = [asks EXCEPT ![Server] = @ + 1]
  /\ UNCHANGED <<inited, script, send_q, merged, ask_q, orders, iter, overlay>>

-----------------------------------------------------------------------------
(* Pulling. *)

Passing(k, version, val) == [key |-> k, version |-> version, val |-> val, wait |-> FALSE]

\* The key's tensor is back from the global servers: DefaultAutoPull.
StartAutoPull ==
  /\ passing[Server] = Idle
  /\ \E k \in due :
       /\ due' = due \ {k}
       /\ iter' = iter + 1
       /\ passing' = [passing EXCEPT ![Server] = Passing(k, iter + 1, UNION stored[k])]
  /\ UNCHANGED <<inited, script, pushers, inbox, request, stored, B, iters, auto_pull_kvs_>>

\* Mutant: a version ends one worker early.
AllButOne(given) == Cardinality(given) >= NumWorkers - 1

\* A version is on the way to all workers: the next one may start.
AllGiven(given) == Cardinality(given) = NumWorkers

\* The workers that have been given the version, with one more.
Given(given, w) == given \cup {w}

\* ProcessAskPullCommand and what the asking node does with the reply: it
\* sends to the receiver, or stops.  A worker that stops has the tensor.
AskPull(n) ==
  /\ passing[n] # Idle
  /\ ~passing[n].wait
  /\ LET p == passing[n]
         given == IF AllGiven(B) THEN {} ELSE B
         done == IF AllGiven(B) THEN iters + 1 ELSE iters
     IN /\ iters' = done
        /\ IF p.version <= done
             THEN /\ B' = given
                  /\ passing' = [passing EXCEPT ![n] = Idle]
                  /\ auto_pull_kvs_' = IF n = Server THEN auto_pull_kvs_
                                       ELSE [auto_pull_kvs_ EXCEPT ![n][p.key] = {p.val}]
                  /\ UNCHANGED inbox
             ELSE \E w \in Workers \ given :
                  /\ B' = Given(given, w)
                  /\ passing' = [passing EXCEPT ![n].wait = TRUE]
                  /\ inbox' = [inbox EXCEPT ![w] = @ \cup
                       {[type |-> "pull", from |-> n, key |-> p.key,
                         version |-> p.version, val |-> p.val]}]
                  /\ UNCHANGED auto_pull_kvs_
  /\ UNCHANGED <<inited, script, pushers, serverSide>>

\* A worker answers the tensor with AUTOPULLREPLY and passes it on.
AutoPull(w) ==
  /\ passing[w] = Idle
  /\ \E m \in inbox[w] :
       /\ m.type = "pull"
       /\ inbox' = [inbox EXCEPT ![w] = @ \ {m}]
       /\ passing' = [passing EXCEPT ![w] = Passing(m.key, m.version, m.val),
                                     ![m.from].wait = FALSE]
  /\ UNCHANGED <<inited, script, pushers, serverSide, B, iters, auto_pull_kvs_>>

\* The pull of the script, after the push of the key has been answered.
Pull(w, k) ==
  /\ k \in pulling[w] \ pushing[w] /\ auto_pull_kvs_[w][k] # None
  /\ pulled' = [pulled EXCEPT ![w][k] = UNION auto_pull_kvs_[w][k]]
  /\ auto_pull_kvs_' = [auto_pull_kvs_ EXCEPT ![w][k] = None]
  /\ pulling' = [pulling EXCEPT ![w] = @ \ {k}]
  /\ UNCHANGED <<inited, round, issued, pushing, pushers, inbox, serverSide, B, iters, passing>>

Next ==
  \/ InitPush \/ InitBarrier \/ ServerPush \/ StartAutoPull
  \/ \E w \in Workers : \/ PushPull(w) \/ SendMerged(w) \/ WorkersMerge(w)
                        \/ Answered(w) \/ AutoPull(w)
                        \/ \E k \in Keys : Pull(w, k)
  \/ \E n \in Nodes : AskPush(n) \/ AskPull(n)

Spec == Init /\ [][Next]_vars /\ WF_vars(Next)

-----------------------------------------------------------------------------
(* Properties. *)

TypeOK ==
  /\ inited \in 0 .. NumKeys
  /\ round \in [Workers -> 0 .. MaxRound] /\ issued \in [Workers -> 0 .. NumKeys]
  /\ pushing \in [Workers -> SUBSET Keys] /\ pulling \in [Workers -> SUBSET Keys]
  /\ pulled \in [Workers -> [Keys -> SUBSET Gradient]]
  /\ \A w \in Workers : ToSet(send_q[w]) \subseteq Keys
  /\ merged \in [Workers -> [Keys -> [val : SUBSET Gradient, num : 0 .. NumWorkers]]]
  /\ asks \in [Nodes -> Nat] /\ ask_q \in {<<>>} \cup {<<n>> : n \in Nodes}
  /\ orders \in [Workers -> [Nodes -> Nat]]
  /\ due \subseteq Keys /\ B \subseteq Workers /\ iters <= iter
  /\ request \in [Keys -> [val : SUBSET Gradient, num : 0 .. NumWorkers, from : SUBSET Workers]]

\* Along the tree that the scheduler makes up, a tensor that is sent or
\* collected holds as many gradients as its num_merge counts, so that the
\* count NumWorkers at the server stands for the gradient of every worker
\* (WorkersMerge, DataHandleSyncDefault).
CountsItsGradients ==
  /\ \A k \in Keys : Cardinality(request[k].val) = request[k].num
  /\ \A n \in Nodes : \A m \in inbox[n] :
       m.type = "push" /\ m.round > 0 => Cardinality(m.val) = m.num

\* A worker that is told to send has a tensor to send: asks and pairs are
\* counted, keys are not named (ProcessAskPushCommand, send_q.front()).
OrderHasTensor ==
  \A w \in Workers : \A n \in Nodes :
    orders[w][n] > 0 => send_q[w] # <<>> /\ n # w

\* While the customer of a worker has a tensor to send or to merge, the script
\* is in the middle of that push and makes no other: WorkersMerge, which reads
\* send_q.front() and the buffer of the key without send_mu, never runs beside
\* the WorkersMerge of another push.
ScriptWaitsWhileMerging ==
  \A w \in Workers :
    (\E n \in Nodes : orders[w][n] > 0) \/ (\E m \in inbox[w] : m.type = "push")
      => pushing[w] # {} /\ ~MayPush(w)

\* No worker is given a version that it already has, or twice, whichever nodes
\* pass it on at the same time and however late they ask
\* (ProcessAskPullCommand).
GivenOnce ==
  \A w \in Workers : \A m \in inbox[w] :
    m.type = "pull" =>
      /\ passing[w] # Idle => passing[w].version # m.version
      /\ \A other \in inbox[w] \ {m} :
           other.type = "pull" => other.version # m.version

\* A worker that has completed an iteration on a key has the gradients of all
\* workers up to that iteration in its tensor, and none of a later one.
PulledInStep ==
  \A w \in Workers, k \in Keys :
    k \notin pulling[w] /\ k <= issued[w] /\ inited = NumKeys
      => pulled[w][k] = Workers \X (1 .. round[w])

\* Every worker gets through initialisation and all its iterations.
TrainingDone ==
  \A w \in Workers : round[w] = MaxRound /\ issued[w] = NumKeys /\ pulling[w] = {}
TrainingFinishes == <>[]TrainingDone

\* "`pull` is executed asynchronously after all previous `pull` calls and only
\* the last `push` call for the same input key(s) are finished"
\* (python/mxnet/kvstore.py:249): a pull that has been issued is completed.
PullsComplete ==
  \A w \in Workers, k \in Keys : k \in pulling[w] ~> k \notin pulling[w]
=============================================================================
