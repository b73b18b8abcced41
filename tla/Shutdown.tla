------------------------------ MODULE Shutdown ------------------------------
(***************************************************************************)
(* How a deployment ends.  The destructor of a worker's store, the         *)
(* kStopServer command on its way from a party's rank 0 over the party's   *)
(* server to the global servers, the executors of the servers (the main    *)
(* thread runs the updater and the stop command for the Receiving thread,  *)
(* which waits for it), and Finalize with its two barriers and Van::Stop.  *)
(*                                                                         *)
(* Training is what the shutdown has to wait for: a trainer (a party's     *)
(* server, or a worker of the central party) pushes to every global server *)
(* and starts its next round when all of them have answered.  Barriers are *)
(* rendezvous (module Barrier has their messages).                         *)
(***************************************************************************)
EXTENDS Integers, FiniteSets

CONSTANTS
  Parties, GlobalServers, Central, GlobalScheduler,
  NumWorkers,           \* workers of a party
  NumCentral,           \* workers of the central party, the master among them
  MasterRank,           \* the rank the scheduler gave to the master worker
  MasterTrains,         \* whether the master's script goes on to train
  sync_global_mode_, EnableCentralWorkers,
  ENABLE_P3, ENABLE_DGT,
  MaxRound              \* rounds of a trainer (bound)

Groups == Parties \cup {Central}
Ranks(l) == 0 .. (IF l = Central THEN NumCentral ELSE NumWorkers) - 1
WorkersOf(l) == {<<l, i>> : i \in Ranks(l)}
Workers == UNION {WorkersOf(l) : l \in Groups}
ServersOf(l) == IF l = Central THEN GlobalServers ELSE {l}
Servers == Parties \cup GlobalServers
Scheduler(l) == <<l, -1>>
Schedulers == {Scheduler(l) : l \in Groups} \cup {GlobalScheduler}
Nodes == Workers \cup Servers \cup Schedulers

MasterWorker == <<Central, MasterRank>>
CentralTrainers ==
  IF ~EnableCentralWorkers THEN {}
  ELSE IF MasterTrains THEN WorkersOf(Central) ELSE WorkersOf(Central) \ {MasterWorker}
Trainers == Parties \cup CentralTrainers

NoJob == [f |-> "none", reply |-> {}]
Message == [type : {"push", "stop"}, from : Trainers \cup Workers \cup Parties]

VARIABLES
  pc,                 \* where the main thread of a node is
  handler,            \* Receiving of a server: idle, waiting in Exec, about to answer
  job,                \* the block in the executor's queue, with whom to answer
  inbox,              \* requests that a server has not handled
  request,            \* update_buf_.request on a global server
  num_stop_executor_, \* stop commands a global server has counted
  left,               \* rounds a trainer has still to start
  awaits              \* servers whose answer a trainer or a worker waits for

vars == <<pc, handler, job, inbox, request, num_stop_executor_, left, awaits>>

Init ==
  /\ pc = [n \in Nodes |-> IF n \in Workers THEN "train"
                           ELSE IF n \in Servers THEN "run"
                           ELSE IF n = GlobalScheduler THEN "finalize_global" ELSE "finalize"]
  /\ handler = [s \in Servers |-> "idle"]
  /\ job = [s \in Servers |-> NoJob]
  /\ inbox = [s \in Servers |-> {}]
  /\ request = [g \in GlobalServers |-> {}]
  /\ num_stop_executor_ = [g \in GlobalServers |-> 0]
  /\ left = [t \in Trainers |-> MaxRound]
  /\ awaits = [n \in Trainers \cup Workers |-> {}]

Deliver(m, to) ==
  inbox' = [s \in Servers |-> IF s \in to THEN inbox[s] \cup {m} ELSE inbox[s]]

-----------------------------------------------------------------------------
\* Training.

\* A trainer starts a round.
Push(t) ==
  /\ left[t] > 0 /\ awaits[t] = {}
  /\ left' = [left EXCEPT ![t] = @ - 1]
  /\ awaits' = [awaits EXCEPT ![t] = GlobalServers]
  /\ Deliver([type |-> "push", from |-> t], GlobalServers)
  /\ UNCHANGED <<pc, handler, job, request, num_stop_executor_>>

\* Exec: the block is in the queue, and Receiving waits for its future.
Exec(s, f, reply) ==
  /\ job' = [job EXCEPT ![s] = [f |-> f, reply |-> reply]]
  /\ handler' = [handler EXCEPT ![s] = "exec"]

\* The pushes that make an update.
Expected ==
  (IF EnableCentralWorkers THEN NumCentral ELSE 0)
    + (IF sync_global_mode_ THEN Cardinality(Parties) ELSE 0)

\* A global server handles a push; the updater runs on the main thread.
HandlePush(g, t) ==
  LET m == [type |-> "push", from |-> t] IN
  /\ handler[g] = "idle" /\ m \in inbox[g]
  /\ inbox' = [inbox EXCEPT ![g] = @ \ {m}]
  /\ \/ /\ ~sync_global_mode_ /\ t \in Parties
        /\ Exec(g, "update", {t}) /\ UNCHANGED request
     \/ /\ sync_global_mode_ \/ t \notin Parties
        /\ LET all == request[g] \cup {t}
           IN IF Cardinality(all) = Expected
                THEN Exec(g, "update", all) /\ request' = [request EXCEPT ![g] = {}]
                ELSE request' = [request EXCEPT ![g] = all] /\ UNCHANGED <<job, handler>>
  /\ UNCHANGED <<pc, num_stop_executor_, left, awaits>>

-----------------------------------------------------------------------------
\* The destructor of KVStoreDist.

\* WaitForAll: a worker has its last answer and enters the barrier.
Done(w) ==
  LET t == IF w[1] \in Parties THEN w[1] ELSE w IN
  /\ pc[w] = "train"
  /\ t \in Trainers => left[t] = 0 /\ awaits[t] = {}
  /\ pc' = [pc EXCEPT ![w] = "barrier"]
  /\ UNCHANGED <<handler, job, inbox, request, num_stop_executor_, left, awaits>>

SendsStop(w) == w # MasterWorker /\ w[2] = 0

\* The workers of a party pass their barrier.
WorkerBarrier(l) ==
  /\ \A w \in WorkersOf(l) : pc[w] = "barrier"
  /\ pc' = [n \in Nodes |-> IF n \notin WorkersOf(l) THEN pc[n]
                            ELSE IF SendsStop(n) THEN "stop" ELSE "finalize"]
  /\ UNCHANGED <<handler, job, inbox, request, num_stop_executor_, left, awaits>>

SendCommandToServers(w) ==
  /\ pc[w] = "stop"
  /\ awaits' = [awaits EXCEPT ![w] = ServersOf(w[1])]
  /\ Deliver([type |-> "stop", from |-> w], ServersOf(w[1]))
  /\ pc' = [pc EXCEPT ![w] = "stopping"]
  /\ UNCHANGED <<handler, job, request, num_stop_executor_, left>>

\* Mutant: the worker does not wait for the answers.
WaitNothing(w) ==
  /\ pc[w] = "stopping"
  /\ pc' = [pc EXCEPT ![w] = "finalize"]
  /\ UNCHANGED <<handler, job, inbox, request, num_stop_executor_, left, awaits>>

Wait(w) ==
  /\ pc[w] = "stopping" /\ awaits[w] = {}
  /\ pc' = [pc EXCEPT ![w] = "finalize"]
  /\ UNCHANGED <<handler, job, inbox, request, num_stop_executor_, left, awaits>>

-----------------------------------------------------------------------------
\* CommandHandle(kStopServer) and the executor.

\* Mutant: the party's server keeps the command to itself.
StopPartyAlone(p, w) ==
  LET m == [type |-> "stop", from |-> w] IN
  /\ handler[p] = "idle" /\ m \in inbox[p]
  /\ inbox' = [inbox EXCEPT ![p] = @ \ {m}]
  /\ Exec(p, "stop", {w})
  /\ UNCHANGED <<pc, request, num_stop_executor_, left, awaits>>

\* A party's server passes the command on to the global servers, does not wait
\* for their answers, and stops.
StopParty(p, w) ==
  LET m == [type |-> "stop", from |-> w] IN
  /\ handler[p] = "idle" /\ m \in inbox[p]
  /\ inbox' = [s \in Servers |->
       IF s = p THEN inbox[p] \ {m}
       ELSE IF s \in GlobalServers THEN inbox[s] \cup {[type |-> "stop", from |-> p]}
       ELSE inbox[s]]
  /\ Exec(p, "stop", {w})
  /\ UNCHANGED <<pc, request, num_stop_executor_, left, awaits>>

\* A global server stops with the NumGlobalWorkers()-th command.
StopGlobal(g, n) ==
  LET m == [type |-> "stop", from |-> n] IN
  /\ handler[g] = "idle" /\ m \in inbox[g]
  /\ inbox' = [inbox EXCEPT ![g] = @ \ {m}]
  /\ num_stop_executor_' = [num_stop_executor_ EXCEPT ![g] = @ + 1]
  /\ IF num_stop_executor_[g] + 1 = Cardinality(Parties)
       THEN Exec(g, "stop", {n})
       ELSE /\ job' = [job EXCEPT ![g] = [f |-> "none", reply |-> {n}]]
            /\ handler' = [handler EXCEPT ![g] = "reply"]
  /\ UNCHANGED <<pc, request, left, awaits>>

\* Executor::Start: the main thread takes the block, runs it, and sets the
\* promise; the empty function ends the loop.
Start(s) ==
  /\ pc[s] = "run" /\ handler[s] = "exec"
  /\ handler' = [handler EXCEPT ![s] = "reply"]
  /\ pc' = IF job[s].f = "stop" THEN [pc EXCEPT ![s] = "finalize"] ELSE pc
  /\ UNCHANGED <<job, inbox, request, num_stop_executor_, left, awaits>>

\* Receiving goes on: it answers whom it has to.
Response(s) ==
  /\ handler[s] = "reply"
  /\ handler' = [handler EXCEPT ![s] = "idle"]
  /\ job' = [job EXCEPT ![s] = NoJob]
  /\ awaits' = [n \in DOMAIN awaits |->
       IF n \in job[s].reply THEN awaits[n] \ {s} ELSE awaits[n]]
  /\ UNCHANGED <<pc, inbox, request, num_stop_executor_, left>>

-----------------------------------------------------------------------------
\* Finalize.

LocalGroup(l) == WorkersOf(l) \cup ServersOf(l) \cup {Scheduler(l)}
GlobalGroup == Servers \cup {GlobalScheduler}

\* The first barrier: servers go on to the second one, the others stop their van.
FinalizeLocal(l) ==
  /\ \A n \in LocalGroup(l) : pc[n] = "finalize"
  /\ pc' = [n \in Nodes |-> IF n \notin LocalGroup(l) THEN pc[n]
                            ELSE IF n \in Servers THEN "finalize_global" ELSE "closing"]
  /\ UNCHANGED <<handler, job, inbox, request, num_stop_executor_, left, awaits>>

FinalizeGlobal ==
  /\ \A n \in GlobalGroup : pc[n] = "finalize_global"
  /\ pc' = [n \in Nodes |-> IF n \in GlobalGroup THEN "closing" ELSE pc[n]]
  /\ UNCHANGED <<handler, job, inbox, request, num_stop_executor_, left, awaits>>

\* Van::Stop joins the threads of the van.  Sending waits on its queue for a
\* TERMINATE that nobody puts there, and the two schedulers of DGT loop for
\* ever; without DGT their pointers are null, and joining them is a crash.  On
\* the global scheduler is_scheduler_ is not initialised.
StopOutcome(n) ==
  IF n \in Workers THEN (IF ENABLE_P3 THEN {} ELSE {"exited"})
  ELSE IF n \in Servers THEN (IF ENABLE_DGT THEN {} ELSE {"crashed"})
  ELSE IF n = GlobalScheduler THEN {"exited", "crashed"}
  ELSE {"exited"}

Stop(n) ==
  /\ pc[n] = "closing"
  /\ \E end \in StopOutcome(n) : pc' = [pc EXCEPT ![n] = end]
  /\ UNCHANGED <<handler, job, inbox, request, num_stop_executor_, left, awaits>>

Next ==
  \/ \E t \in Trainers : Push(t)
  \/ \E g \in GlobalServers, t \in Trainers : HandlePush(g, t)
  \/ \E w \in Workers : Done(w) \/ SendCommandToServers(w) \/ Wait(w)
  \/ \E l \in Groups : WorkerBarrier(l) \/ FinalizeLocal(l)
  \/ \E p \in Parties, w \in Workers : StopParty(p, w)
  \/ \E g \in GlobalServers, n \in Parties \cup Workers : StopGlobal(g, n)
  \/ \E s \in Servers : Start(s) \/ Response(s)
  \/ FinalizeGlobal
  \/ \E n \in Nodes : Stop(n)

\* The threads are scheduled and the network delivers.
Spec == Init /\ [][Next]_vars /\ WF_vars(Next)

-----------------------------------------------------------------------------
TypeOK ==
  /\ pc \in [Nodes -> {"train", "barrier", "stop", "stopping", "run", "finalize",
                       "finalize_global", "closing", "exited", "crashed"}]
  /\ handler \in [Servers -> {"idle", "exec", "reply"}]
  /\ \A s \in Servers : job[s].f \in {"none", "update", "stop"} /\ job[s].reply \subseteq DOMAIN awaits
  /\ \A s \in Servers : inbox[s] \subseteq Message
  /\ request \in [GlobalServers -> SUBSET Trainers]
  /\ num_stop_executor_ \in [GlobalServers -> 0 .. Cardinality(Parties) + 1]
  /\ left \in [Trainers -> 0 .. MaxRound]
  /\ \A n \in Trainers \cup Workers : awaits[n] \subseteq Servers

\* A global server's executor ends only when nobody will need the updater any
\* more: every trainer has had its last round answered, although the server
\* only counts commands.
UpdatesBeforeStop ==
  \A g \in GlobalServers : pc[g] # "run" =>
    \A t \in Trainers :
      left[t] = 0 /\ (g \in awaits[t] => t \in Workers /\ pc[t] = "stopping")

\* A server does not close its sockets while a worker waits for its answer to
\* kStopServer: the answer is sent by Receiving after exec_.Stop() has let the
\* main thread go on to Finalize.
AnsweredBeforeClosing ==
  \A s \in Servers : pc[s] \in {"closing", "exited", "crashed"} =>
    \A n \in DOMAIN awaits : s \notin awaits[n]

\* Every trainer gets its last answer (the updater is never left waiting for
\* an executor that has stopped).
TrainingDone == \A t \in Trainers : left[t] = 0 /\ awaits[t] = {}
TrainingFinishes == <>TrainingDone

\* kStopServer reaches every server: each executor ends and Finalize passes
\* both barriers.
ServersStopped == \A s \in Servers : pc[s] \in {"closing", "exited", "crashed"}

\* Every worker leaves its destructor, the master (which sends no command and
\* waits in its barrier while the others train) included.
WorkersGone == \A w \in Workers : pc[w] = "exited"
WorkersExit == <>WorkersGone

\* "terminate the system": every node leaves Finalize.
EveryNodeExits == <>(\A n \in Nodes : pc[n] = "exited")
=============================================================================
