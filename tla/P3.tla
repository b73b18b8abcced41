--------------------------------- MODULE P3 ---------------------------------
(***************************************************************************)
(* Priority-based parameter propagation (ENABLE_P3) inside one party.      *)
(*                                                                         *)
(* A worker cuts each tensor into slices of bigarray_bound_ elements       *)
(* (EncodeP3Key), pushes every slice as a request of its own through a     *)
(* priority queue (P3_ZPush, Van::Sending), and gets the new weights back  *)
(* in the answer to the push; a counter shared by the slices' callbacks    *)
(* ends the engine operation, and the pull that follows a push does        *)
(* nothing.  The worker of rank 0 initialises the tensors; the others pull *)
(* them first, with the keys of EncodeDefaultKey.                          *)
(*                                                                         *)
(* One server per party and one global server, as in scripts/cpu/run_p3.sh.*)
(* A value is the run of elements of a tensor that it holds, with a        *)
(* version: Own for what rank 0 initialised, Gradient for a sum of         *)
(* gradients, and 1, 2, ... for the models of the global server.  The      *)
(* master worker is taken to cut the tensors as the party does.            *)
(***************************************************************************)
EXTENDS Integers, Sequences, FiniteSets

CONSTANTS
  NumWorkers,       \* workers of the party, with ranks 0 .. NumWorkers - 1
  Size,             \* Size[t + 1] is the number of elements of tensor t
  bigarray_bound_,  \* MXNET_KVSTORE_BIGARRAY_BOUND
  MaxIter           \* iterations of the training loop (bound)

Worker == 0 .. NumWorkers - 1
Tensor == 0 .. Len(Size) - 1

Own == 0
Gradient == -1
None == [t |-> -1]

VARIABLES
  ps_kv_,       \* per worker and tensor: its slices, cached
  key_temp,     \* per worker: the next slice key
  inited,       \* number of tensors initialised, each followed by a barrier
  op,           \* per worker and tensor: the engine operation in progress
  unsent,       \* per worker and tensor: slices the operation has yet to queue
  counter,      \* per worker and tensor: answers outstanding
  handling,     \* per worker: the tensor whose callback its thread is in, or -1
  got,          \* per worker and tensor: values the last operation received
  iter,         \* per worker and tensor: finished training iterations
  send_queue_,  \* per worker: requests waiting for the sender thread
  net,          \* messages on their way
  server        \* per key: the state of the party's server

worker_vars == <<ps_kv_, key_temp, inited, op, unsent, counter, handling, got, iter,
                 send_queue_>>
vars == <<worker_vars, net, server>>

-----------------------------------------------------------------------------
(* Keys.                                                                   *)

NumSlices(t) == (Size[t + 1] + bigarray_bound_ - 1) \div bigarray_bound_

NumKeys[n \in 0 .. Len(Size)] == IF n = 0 THEN 0 ELSE NumKeys[n - 1] + NumSlices(n - 1)
Key == 0 .. NumKeys[Len(Size)] - 1

Slice(t, key, from, to) == [key |-> key, val |-> [t |-> t, from |-> from, to |-> to]]

\* One server: the whole tensor is one part, under its own key.
EncodeDefaultKey(t) == <<Slice(t, t, 0, Size[t + 1])>>

\* Slices of bigarray_bound_ elements, under consecutive keys from first on.
EncodeP3Key(t, first) ==
  [j \in 1 .. NumSlices(t) |->
     Slice(t, first + j - 1, (j - 1) * bigarray_bound_,
           IF j = NumSlices(t) THEN Size[t + 1] ELSE j * bigarray_bound_)]

\* The key of the first slice: the counter starts again at tensor 0.
FirstKey(w, t) == IF t = 0 THEN 0 ELSE key_temp[w]

Slices(w, t) == IF ps_kv_[w][t] # <<>> THEN ps_kv_[w][t]
                ELSE EncodeP3Key(t, FirstKey(w, t))

-----------------------------------------------------------------------------
(* The worker.                                                             *)

\* Push_ and the start of PushDefault's operation: the slices are cached and
\* the counter of the answers outstanding is set to their number.
StartPush(w, t, kind) ==
  /\ ps_kv_' = [ps_kv_ EXCEPT ![w][t] = Slices(w, t)]
  /\ key_temp' = IF ps_kv_[w][t] # <<>> THEN key_temp
                 ELSE [key_temp EXCEPT ![w] = FirstKey(w, t) + NumSlices(t)]
  /\ unsent' = [unsent EXCEPT ![w][t] = Slices(w, t)]
  /\ counter' = [counter EXCEPT ![w][t] = Len(Slices(w, t))]
  /\ got' = [got EXCEPT ![w][t] = {}]
  /\ op' = [op EXCEPT ![w][t] = kind]
  /\ UNCHANGED <<inited, handling, iter, send_queue_, net, server>>

\* InitImpl on rank 0; the script initialises one tensor after the other.
InitPush(t) ==
  /\ t = inited /\ op[0][t] = "none"
  /\ StartPush(0, t, "init")

\* The end of InitImpl: rank 0 has waited for its push, all pass the barrier.
InitBarrier(t) ==
  /\ t = inited /\ op[0][t] = "inited"
  /\ inited' = inited + 1
  /\ UNCHANGED <<ps_kv_, key_temp, op, unsent, counter, handling, got, iter,
                 send_queue_, net, server>>

\* PullImpl on rank 0, where the init push has left a buffer: nothing is pulled.
FirstPullMaster(t) ==
  /\ t < inited /\ op[0][t] = "inited"
  /\ op' = [op EXCEPT ![0][t] = "idle"]
  /\ UNCHANGED <<ps_kv_, key_temp, inited, unsent, counter, handling, got, iter,
                 send_queue_, net, server>>

\* PullImpl on the other ranks: a ZPull of the default key, not queued.
FirstPull(w, t) ==
  LET s == EncodeDefaultKey(t)
  IN /\ w # 0 /\ t < inited /\ op[w][t] = "none"
     /\ op' = [op EXCEPT ![w][t] = "pull"]
     /\ ps_kv_' = [ps_kv_ EXCEPT ![w][t] = s]
     /\ net' = net \cup {[type |-> "pull", w |-> w, key |-> s[1].key, val |-> s[1].val]}
     /\ UNCHANGED <<key_temp, inited, unsent, counter, handling, got, iter,
                    send_queue_, server>>

\* An iteration pushes every tensor once; waitall ends it.
Push(w, t) ==
  /\ op[w][t] = "idle" /\ iter[w][t] < MaxIter
  /\ \A u \in Tensor : op[w][u] \in {"idle", "push"} /\ iter[w][u] >= iter[w][t]
  /\ StartPush(w, t, "push")

\* One turn of the operation's loop: the next slice is queued with the priority
\* of the tensor, 0 for an init.
P3_ZPush(w, t) ==
  /\ unsent[w][t] # <<>>
  /\ LET s == Head(unsent[w][t])
     IN send_queue_' = [send_queue_ EXCEPT ![w] = @ \cup
          {[type |-> "push", w |-> w, key |-> s.key, val |-> s.val,
            priority |-> IF op[w][t] = "init" THEN 0 ELSE -t]}]
  /\ unsent' = [unsent EXCEPT ![w][t] = Tail(@)]
  /\ UNCHANGED <<ps_kv_, key_temp, inited, op, counter, handling, got, iter, net, server>>

\* The sender thread sends a waiting request of the highest priority.
Sending(w) ==
  \E m \in send_queue_[w] :
    /\ \A n \in send_queue_[w] : n.priority <= m.priority
    /\ send_queue_' = [send_queue_ EXCEPT ![w] = @ \ {m}]
    /\ net' = net \cup {m}
    /\ UNCHANGED <<ps_kv_, key_temp, inited, op, unsent, counter, handling, got, iter,
                   server>>

\* The customer's thread runs the callback of an answered slice: it copies the
\* values and takes one off the counter ...
CallbackDecrement(w, m) ==
  /\ m \in net /\ m.type = "pushed" /\ m.w = w /\ handling[w] = -1
  /\ net' = net \ {m}
  /\ counter' = [counter EXCEPT ![w][m.val.t] = @ - 1]
  /\ got' = [got EXCEPT ![w][m.val.t] = @ \cup {[run |-> m.run, ver |-> m.ver]}]
  /\ handling' = [handling EXCEPT ![w] = m.val.t]
  /\ UNCHANGED <<ps_kv_, key_temp, inited, op, unsent, iter, send_queue_, server>>

\* ... and then reads the counter: at 0 it is deleted and the operation ends.
CallbackLoad(w) ==
  LET t == handling[w]
  IN /\ t # -1
     /\ handling' = [handling EXCEPT ![w] = -1]
     /\ IF counter[w][t] = 0
        THEN /\ op' = [op EXCEPT ![w][t] = IF @ = "init" THEN "inited" ELSE "idle"]
             /\ iter' = IF op[w][t] = "push" THEN [iter EXCEPT ![w][t] = @ + 1] ELSE iter
        ELSE UNCHANGED <<op, iter>>
     /\ UNCHANGED <<ps_kv_, key_temp, inited, unsent, counter, got, send_queue_, net, server>>

\* The callback of the first pull.
PullCallback(w, m) ==
  /\ m \in net /\ m.type = "pulled" /\ m.w = w /\ handling[w] = -1
  /\ net' = net \ {m}
  /\ got' = [got EXCEPT ![w][m.val.t] = {[run |-> m.run, ver |-> m.ver]}]
  /\ op' = [op EXCEPT ![w][m.val.t] = "idle"]
  /\ UNCHANGED <<ps_kv_, key_temp, inited, unsent, counter, handling, iter,
                 send_queue_, server>>

-----------------------------------------------------------------------------
(* The party's server.                                                     *)

\* The answer to request m with a value of version ver.
Answer(m, type, run, ver) ==
  [type |-> type, w |-> m.w, key |-> m.key, val |-> m.val, run |-> run, ver |-> ver]

\* DataHandleSyncDefault, the first push of a key: its value is stored and the
\* push is answered, then the model is pulled from the global server.  The
\* answer refers to the server's memory, where the pulled model may already be
\* when the answer is read.
HandleInit(m) ==
  /\ m \in net /\ m.type = "push" /\ server[m.key].stored = None
  /\ server' = [server EXCEPT ![m.key].stored = m.val, ![m.key].ver = Own,
                              ![m.key].pulls = 1]
  /\ \E ver \in {Own, 1} : net' = (net \ {m}) \cup {Answer(m, "pushed", m.val, ver)}
  /\ UNCHANGED worker_vars

\* Mutant: the pushes are answered before the global round.
HandlePushEarly(m) ==
  LET r == server[m.key].request \cup {m}
  IN /\ m \in net /\ m.type = "push" /\ server[m.key].stored # None
     /\ IF Cardinality(r) = NumWorkers
        THEN /\ server' = [server EXCEPT ![m.key].request = {}, ![m.key].ver = Gradient,
                                         ![m.key].pushing = TRUE]
             /\ net' = (net \ {m}) \cup
                         {Answer(n, "pushed", server[m.key].stored, Gradient) : n \in r}
        ELSE /\ server' = [server EXCEPT ![m.key].request = r]
             /\ net' = net \ {m}
     /\ UNCHANGED worker_vars

\* DataHandleSyncDefault, a later push: it is added up; the last worker's push
\* replaces the stored value by the sum and sends it to the global server.
HandlePush(m) ==
  LET r == server[m.key].request \cup {m}
  IN /\ m \in net /\ m.type = "push" /\ server[m.key].stored # None
     /\ server' = IF Cardinality(r) = NumWorkers
                  THEN [server EXCEPT ![m.key].request = {}, ![m.key].tmp = r,
                                      ![m.key].ver = Gradient, ![m.key].pushing = TRUE]
                  ELSE [server EXCEPT ![m.key].request = r]
     /\ net' = net \ {m}
     /\ UNCHANGED worker_vars

\* The round of the global server and DataHandlePushResponseDefault: the new
\* model is pulled.
PushResponse(x) ==
  /\ server[x].pushing
  /\ server' = [server EXCEPT ![x].pushing = FALSE, ![x].rounds = @ + 1, ![x].pulls = @ + 1]
  /\ UNCHANGED <<worker_vars, net>>

\* DataHandlePullResponseDefault: the model is stored.  The first answer only
\* marks the key initialized; a later one answers the pushes of the round.
PullResponse(x) ==
  LET v == server[x].rounds + 1
  IN /\ server[x].pulls > 0
     /\ IF server[x].initialized
        THEN /\ server' = [server EXCEPT ![x].pulls = @ - 1, ![x].ver = v, ![x].tmp = {}]
             /\ net' = net \cup {Answer(m, "pushed", server[x].stored, v) : m \in server[x].tmp}
        ELSE /\ server' = [server EXCEPT ![x].pulls = @ - 1, ![x].ver = v,
                                         ![x].initialized = TRUE]
             /\ UNCHANGED net
     /\ UNCHANGED worker_vars

\* Mutant: a pull does not wait for the key to be initialized.
HandlePullAtOnce(m) ==
  /\ m \in net /\ m.type = "pull" /\ server[m.key].stored # None
  /\ net' = (net \ {m}) \cup {Answer(m, "pulled", server[m.key].stored, server[m.key].ver)}
  /\ UNCHANGED <<worker_vars, server>>

\* DataHandlePullDefault: a pull waits for the key to be initialized.
HandlePull(m) ==
  /\ m \in net /\ m.type = "pull" /\ server[m.key].initialized
  /\ net' = (net \ {m}) \cup {Answer(m, "pulled", server[m.key].stored, server[m.key].ver)}
  /\ UNCHANGED <<worker_vars, server>>

-----------------------------------------------------------------------------
Init ==
  /\ ps_kv_ = [w \in Worker |-> [t \in Tensor |-> <<>>]]
  /\ key_temp = [w \in Worker |-> 0]
  /\ inited = 0
  /\ op = [w \in Worker |-> [t \in Tensor |-> "none"]]
  /\ unsent = [w \in Worker |-> [t \in Tensor |-> <<>>]]
  /\ counter = [w \in Worker |-> [t \in Tensor |-> 0]]
  /\ handling = [w \in Worker |-> -1]
  /\ got = [w \in Worker |-> [t \in Tensor |-> {}]]
  /\ iter = [w \in Worker |-> [t \in Tensor |-> 0]]
  /\ send_queue_ = [w \in Worker |-> {}]
  /\ net = {}
  /\ server = [x \in Key |->
                 [stored |-> None, ver |-> Own, request |-> {}, tmp |-> {}, pushing |-> FALSE,
                  pulls |-> 0, initialized |-> FALSE, rounds |-> 0]]

Next ==
  \/ \E t \in Tensor : InitPush(t) \/ InitBarrier(t) \/ FirstPullMaster(t)
  \/ \E w \in Worker, t \in Tensor : FirstPull(w, t) \/ Push(w, t) \/ P3_ZPush(w, t)
  \/ \E w \in Worker : Sending(w) \/ CallbackLoad(w)
  \/ \E w \in Worker, m \in net : CallbackDecrement(w, m) \/ PullCallback(w, m)
  \/ \E m \in net : HandleInit(m) \/ HandlePush(m) \/ HandlePull(m)
  \/ \E x \in Key : PushResponse(x) \/ PullResponse(x)

\* Every thread goes on as long as it has work; each step is taken finitely often.
Spec == Init /\ [][Next]_vars /\ WF_vars(Next)

-----------------------------------------------------------------------------
(* Properties.                                                             *)

Val == [t : Tensor, from : Nat, to : Nat]
Ops == {"none", "init", "inited", "pull", "idle", "push"}

\* Every variable has its type: the queues hold requests, the messages are
\* requests and answers of this party and the keys stay in the server's range.
TypeOK ==
  /\ \A w \in Worker, t \in Tensor :
       /\ op[w][t] \in Ops /\ counter[w][t] \in Nat /\ iter[w][t] \in 0 .. MaxIter
       /\ \A j \in DOMAIN ps_kv_[w][t] : ps_kv_[w][t][j] \in [key : Key, val : Val]
  /\ \A w \in Worker : key_temp[w] \in Nat /\ handling[w] \in Tensor \cup {-1}
  /\ \A w \in Worker : \A m \in send_queue_[w] :
       m.type = "push" /\ m.w = w /\ m.key \in Key /\ m.val \in Val
  /\ \A m \in net : m.type \in {"push", "pull", "pushed", "pulled"} /\ m.w \in Worker
  /\ \A x \in Key : server[x].stored \in Val \cup {None} /\ server[x].pulls \in Nat

\* A key stands for the same slice everywhere: what the server adds up under it
\* is that slice of every worker, and what it answers has the length that the
\* CHECKs of P3_ZPush's callback demand, and is the slice that was pushed.
SlicesWhole ==
  /\ \A x \in Key : \A m \in server[x].request \cup server[x].tmp :
       m.val = server[x].stored
  /\ \A m \in net : m.type = "pushed" => m.run = m.val

\* The first pull of a worker brings as many elements as it asked for, as the
\* CHECK_EQ(vals->size(), total_val) of Pull_ demands.
PullFits ==
  \A m \in net : m.type = "pulled" => m.run.to - m.run.from = m.val.to - m.val.from

\* The party's server adds up no round of a key whose first model it has not
\* got: the pull of the other ranks holds their pushes back until then.
RoundsAfterInit ==
  \A x \in Key : server[x].pushing \/ server[x].tmp # {} => server[x].initialized

\* When the operation of a push ends, every slice of the tensor has been
\* answered, once, with the model of that round.
PushReturnsModel ==
  \A w \in Worker, t \in Tensor :
    op[w][t] = "idle" /\ iter[w][t] > 0 =>
      got[w][t] = {[run |-> ps_kv_[w][t][j].val, ver |-> iter[w][t] + 1] :
                     j \in DOMAIN ps_kv_[w][t]}

\* Training ends: no priority, counter or wait holds a worker back for ever.
TrainingDone == \A w \in Worker, t \in Tensor : iter[w][t] = MaxIter
Trained == <>TrainingDone

\* "The returned values are guaranteed to be the latest values in the store":
\* when the first pull of a tensor ends, what the worker holds is no older than
\* what its server holds.
PullReturnsLatest ==
  [][\A w \in Worker, t \in Tensor :
       (op'[w][t] = "idle" /\ op[w][t] \in {"inited", "pull"}) =>
         \A g \in got'[w][t] : \E x \in Key :
           server[x].stored = g.run /\ server[x].ver <= g.ver]_vars
=============================================================================
