------------------------------ MODULE Startup ------------------------------
(***************************************************************************)
(* How a deployment starts: the barriers after registration, the commands  *)
(* that configure the servers (synchronous modes, optimizer, compression), *)
(* the initialisation of the tensors, and the first gradients, which need  *)
(* the configuration.                                                      *)
(*                                                                         *)
(* Receiving takes requests of equal priority in any order (module HiPS),  *)
(* so a server's requests are a set.  A worker waits for the answers to a  *)
(* command and to the push that initialises a tensor.  The one second that *)
(* the scripts sleep after the commands is not a step of the model.        *)
(***************************************************************************)
EXTENDS Integers, Sequences, FiniteSets

CONSTANTS
  Parties, GlobalServers, Central,
  First,        \* the global server with rank 0
  NumWorkers,   \* workers of a party
  NumCentral,   \* workers of the central party, the master among them
  MasterRank,   \* the rank the scheduler gave to the master worker
  dist_sync,    \* the type of the store
  Config,       \* the commands of the master's script
  HomeOf        \* the global servers that hold a part of each tensor

Groups == Parties \cup {Central}
Ranks(l) == 0 .. (IF l = Central THEN NumCentral ELSE NumWorkers) - 1
WorkersOf(l) == {<<l, i>> : i \in Ranks(l)}
Workers == UNION {WorkersOf(l) : l \in Groups}
MasterWorker == <<Central, MasterRank>>
ServersOf(l) == IF l = Central THEN GlobalServers ELSE {l}
Servers == Parties \cup GlobalServers
Keys == DOMAIN HomeOf
Nobody == <<>>

\* What a worker's script and KVStore::Create send, in order.
Commands(w) ==
  (IF w[2] = 0 THEN <<"kSyncMode">> ELSE <<>>) \o
  (IF w # MasterWorker THEN <<>>
   ELSE (IF dist_sync THEN <<"kSyncGlobalMode">> ELSE <<>>) \o Config)

Flags == {"kSyncMode", "kSyncGlobalMode", "kController", "kSetGradientCompression"}

VARIABLES
  pc,          \* of a worker
  sent,        \* commands a worker has sent
  at,          \* the tensor a worker initialises
  main,        \* the main thread of a server: new, started (local barrier), run
  exec_,       \* whose optimizer waits for a global server's executor
  requests,    \* what a server's Receiving has not handled
  awaits,      \* servers whose answer a worker waits for
  flags,       \* the commands that have taken effect on a server
  initialized_,\* tensors a server holds
  pulls,       \* the first pulls of a party: global servers still to answer
  merged,      \* workers whose gradient of a tensor a party has
  used         \* the flags each server had when it handled a gradient

vars == <<pc, sent, at, main, exec_, requests, awaits, flags, initialized_, pulls, merged, used>>

Init ==
  /\ pc = [w \in Workers |-> "new"] /\ main = [s \in Servers |-> "new"]
  /\ sent = [w \in Workers |-> 0] /\ at = [w \in Workers |-> 1]
  /\ exec_ = [g \in GlobalServers |-> Nobody]
  /\ requests = [s \in Servers |-> {}] /\ awaits = [w \in Workers |-> {}]
  /\ flags = [s \in Servers |-> {}] /\ initialized_ = [s \in Servers |-> {}]
  /\ pulls = [p \in Parties |-> [k \in Keys |-> {}]]
  /\ merged = [p \in Parties |-> [k \in Keys |-> {}]]
  /\ used = [s \in Servers |-> {}]

Request(type, w, k) == [type |-> type, from |-> w, key |-> k]
Post(r, to) == requests' = [s \in Servers |-> IF s \in to THEN requests[s] \cup {r} ELSE requests[s]]
Answered(w, s) == [awaits EXCEPT ![w] = @ \ {s}]

-----------------------------------------------------------------------------
\* The barriers of KVStoreDist() and RunServer().

StartLocal(l) ==
  /\ \A w \in WorkersOf(l) : pc[w] = "new"
  /\ pc' = [w \in Workers |-> IF w \in WorkersOf(l) THEN "command" ELSE pc[w]]
  /\ main' = [s \in Servers |-> IF s \in ServersOf(l) THEN "started" ELSE main[s]]
  /\ UNCHANGED <<sent, at, exec_, requests, awaits, flags, initialized_, pulls, merged, used>>

StartGlobal ==
  /\ \A s \in Servers : main[s] = "started"
  /\ main' = [s \in Servers |-> "run"]
  /\ UNCHANGED <<pc, sent, at, exec_, requests, awaits, flags, initialized_, pulls, merged, used>>

-----------------------------------------------------------------------------
\* Workers.

SendCommandToServers(w) ==
  /\ pc[w] = "command" /\ awaits[w] = {} /\ sent[w] < Len(Commands(w))
  /\ sent' = [sent EXCEPT ![w] = @ + 1]
  /\ awaits' = [awaits EXCEPT ![w] = ServersOf(w[1])]
  /\ Post(Request(Commands(w)[sent[w] + 1], w, 0), ServersOf(w[1]))
  /\ UNCHANGED <<pc, at, main, exec_, flags, initialized_, pulls, merged, used>>

\* Mutant: the worker does not wait for the answer to its last command.
InitImplEarly(w) ==
  /\ pc[w] = "command" /\ sent[w] = Len(Commands(w))
  /\ IF w[2] = 0
       THEN /\ Post(Request("init", w, at[w]), IF w[1] = Central THEN HomeOf[at[w]] ELSE {w[1]})
            /\ awaits' = [awaits EXCEPT ![w] = IF w[1] = Central THEN HomeOf[at[w]] ELSE {w[1]}]
       ELSE UNCHANGED <<requests, awaits>>
  /\ pc' = [pc EXCEPT ![w] = "barrier"]
  /\ UNCHANGED <<sent, at, main, exec_, flags, initialized_, pulls, merged, used>>

\* Rank 0 pushes the tensor.
InitImpl(w) ==
  /\ pc[w] = "command" /\ awaits[w] = {} /\ sent[w] = Len(Commands(w))
  /\ IF w[2] = 0
       THEN /\ Post(Request("init", w, at[w]), IF w[1] = Central THEN HomeOf[at[w]] ELSE {w[1]})
            /\ awaits' = [awaits EXCEPT ![w] = IF w[1] = Central THEN HomeOf[at[w]] ELSE {w[1]}]
       ELSE UNCHANGED <<requests, awaits>>
  /\ pc' = [pc EXCEPT ![w] = "barrier"]
  /\ UNCHANGED <<sent, at, main, exec_, flags, initialized_, pulls, merged, used>>

\* Where a worker goes after a tensor: to the next one, to its pulls (waitall),
\* or, if it is the master, out of the script.
AfterInit(w) ==
  IF at[w] < Len(HomeOf) THEN "command" ELSE IF w = MasterWorker THEN "done" ELSE "waitall"

\* The barrier that ends the initialisation of a tensor.
InitBarrier(l) ==
  /\ \A w \in WorkersOf(l) : pc[w] = "barrier" /\ awaits[w] = {}
  /\ pc' = [w \in Workers |-> IF w \in WorkersOf(l) THEN AfterInit(w) ELSE pc[w]]
  /\ at' = [w \in Workers |-> IF w \in WorkersOf(l) THEN at[w] + 1 ELSE at[w]]
  /\ UNCHANGED <<sent, main, exec_, requests, awaits, flags, initialized_, pulls, merged, used>>

\* The pulls of all tensors have been answered: the first gradients are pushed.
FirstPush(w) ==
  LET servers(k) == IF w[1] = Central THEN HomeOf[k] ELSE {w[1]} IN
  /\ pc[w] = "waitall"
  /\ \A k \in Keys : \A s \in servers(k) : k \in initialized_[s]
  /\ pc' = [pc EXCEPT ![w] = "done"]
  /\ requests' = [s \in Servers |-> requests[s] \cup
       {Request("gradient", w, k) : k \in {j \in Keys : s \in servers(j)}}]
  /\ UNCHANGED <<sent, at, main, exec_, awaits, flags, initialized_, pulls, merged, used>>

-----------------------------------------------------------------------------
\* Servers.

\* Receiving of s takes a request of this type.
Takes(s, r, type) ==
  /\ r \in requests[s] /\ r.type = type
  /\ s \in GlobalServers => exec_[s] = Nobody

\* CommandHandle, but for the optimizer: the flag is set and the command is
\* answered.  The first global server passes the compression on and does not
\* wait for the parties.
CommandHandle(s, r) ==
  /\ \E type \in Flags \ {"kController"} : Takes(s, r, type)
  /\ flags' = [flags EXCEPT ![s] = @ \cup {r.type}]
  /\ requests' = [n \in Servers |->
       IF n = s THEN requests[s] \ {r}
       ELSE IF s = First /\ r.type = "kSetGradientCompression" /\ n \in Parties
              THEN requests[n] \cup {Request(r.type, Nobody, 0)}
              ELSE requests[n]]
  /\ awaits' = IF r.from = Nobody THEN awaits ELSE Answered(r.from, s)
  /\ UNCHANGED <<pc, sent, at, main, exec_, initialized_, pulls, merged, used>>

\* CommandHandle(kController): Receiving waits for the main thread ...
Controller(g, r) ==
  /\ Takes(g, r, "kController")
  /\ requests' = [requests EXCEPT ![g] = @ \ {r}]
  /\ exec_' = [exec_ EXCEPT ![g] = r.from]
  /\ UNCHANGED <<pc, sent, at, main, awaits, flags, initialized_, pulls, merged, used>>

\* ... which sets the optimizer once it runs the executor.
SetUpdater(g) ==
  /\ exec_[g] # Nobody /\ main[g] = "run"
  /\ flags' = [flags EXCEPT ![g] = @ \cup {"kController"}]
  /\ awaits' = Answered(exec_[g], g)
  /\ exec_' = [exec_ EXCEPT ![g] = Nobody]
  /\ UNCHANGED <<pc, sent, at, main, requests, initialized_, pulls, merged, used>>

\* The push that initialises a tensor; a party's server answers it and pulls
\* the tensor from the global servers.
HandleInit(s, r) ==
  /\ Takes(s, r, "init")
  /\ requests' = [requests EXCEPT ![s] = @ \ {r}]
  /\ awaits' = Answered(r.from, s)
  /\ IF s \in GlobalServers
       THEN initialized_' = [initialized_ EXCEPT ![s] = @ \cup {r.key}] /\ UNCHANGED pulls
       ELSE pulls' = [pulls EXCEPT ![s][r.key] = HomeOf[r.key]] /\ UNCHANGED initialized_
  /\ UNCHANGED <<pc, sent, at, main, exec_, flags, merged, used>>

\* ReceivingPull of a global server waits for the tensor and answers; the last
\* answer makes the tensor the party's.
AnswerPull(g, p, k) ==
  /\ g \in pulls[p][k] /\ k \in initialized_[g]
  /\ pulls' = [pulls EXCEPT ![p][k] = @ \ {g}]
  /\ initialized_' = IF pulls[p][k] = {g} THEN [initialized_ EXCEPT ![p] = @ \cup {k}]
                                          ELSE initialized_
  /\ UNCHANGED <<pc, sent, at, main, exec_, requests, awaits, flags, merged, used>>

\* A party's server collects the gradients of its workers; the last one goes on
\* to the global servers.
HandleGradient(p, r) ==
  /\ Takes(p, r, "gradient") /\ p \in Parties
  /\ used' = [used EXCEPT ![p] = @ \cup {flags[p]}]
  /\ merged' = [merged EXCEPT ![p][r.key] = @ \cup {r.from}]
  /\ LET last == merged'[p][r.key] = WorkersOf(p) IN
     requests' = [s \in Servers |->
       IF s = p THEN requests[p] \ {r}
       ELSE IF last /\ s \in HomeOf[r.key]
              THEN requests[s] \cup {Request("gradient", p, r.key)} ELSE requests[s]]
  /\ UNCHANGED <<pc, sent, at, main, exec_, awaits, flags, initialized_, pulls>>

\* A global server chooses its handler by the mode and uses its updater.
HandleGradientGlobal(g, r) ==
  /\ Takes(g, r, "gradient") /\ g \in GlobalServers
  /\ used' = [used EXCEPT ![g] = @ \cup {flags[g]}]
  /\ requests' = [requests EXCEPT ![g] = @ \ {r}]
  /\ UNCHANGED <<pc, sent, at, main, exec_, awaits, flags, initialized_, pulls, merged>>

Next ==
  \/ \E l \in Groups : StartLocal(l) \/ InitBarrier(l)
  \/ StartGlobal
  \/ \E w \in Workers : SendCommandToServers(w) \/ InitImpl(w) \/ FirstPush(w)
  \/ \E s \in Servers : \E r \in requests[s] :
       \/ CommandHandle(s, r) \/ HandleInit(s, r)
       \/ HandleGradient(s, r) \/ HandleGradientGlobal(s, r)
  \/ \E g \in GlobalServers : SetUpdater(g) \/ \E r \in requests[g] : Controller(g, r)
  \/ \E g \in GlobalServers, p \in Parties, k \in Keys : AnswerPull(g, p, k)

\* The threads are scheduled and the network delivers.
Spec == Init /\ [][Next]_vars /\ WF_vars(Next)

-----------------------------------------------------------------------------
TypeOK ==
  /\ pc \in [Workers -> {"new", "command", "barrier", "waitall", "done"}]
  /\ main \in [Servers -> {"new", "started", "run"}]
  /\ \A w \in Workers : sent[w] \in 0 .. Len(Commands(w)) /\ awaits[w] \subseteq ServersOf(w[1])
  /\ at \in [Workers -> 1 .. Len(HomeOf) + 1]
  /\ exec_ \in [GlobalServers -> Workers \cup {Nobody}]
  /\ flags \in [Servers -> SUBSET Flags]
  /\ initialized_ \in [Servers -> SUBSET Keys]
  /\ \A p \in Parties, k \in Keys : pulls[p][k] \subseteq HomeOf[k] /\ merged[p][k] \subseteq WorkersOf(p)
  /\ \A s \in Servers : used[s] \subseteq SUBSET Flags

\* A party's server has been told to be synchronous when the first gradient
\* arrives, from whichever worker: CHECK(sync_mode_) never fails.  Only rank 0
\* sends the command; the others are held back by the tensors, which rank 0
\* initialises when its command has been answered.
PartyConfigured == \A p \in Parties : \A f \in used[p] : "kSyncMode" \in f

\* A global server has its mode and its optimizer when it handles the first
\* gradient: it never takes the handler of the other mode, and never an update
\* without an updater.  Parties are held back by the tensors they pull.
GlobalConfigured ==
  \A g \in GlobalServers : \A f \in used[g] :
    /\ dist_sync => "kSyncGlobalMode" \in f
    /\ \A i \in DOMAIN Config : Config[i] \in f

\* "waiting for configurations to complete": a party's server compresses from
\* the first gradient on.
PartyCompresses ==
  \A p \in Parties : \A f \in used[p] :
    (\E i \in DOMAIN Config : Config[i] = "kSetGradientCompression") => "kSetGradientCompression" \in f

\* Nobody waits for ever: every gradient of the first round is handled by every
\* server it belongs to.
Started ==
  /\ \A w \in Workers : pc[w] = "done"
  /\ \A s \in Servers : used[s] # {} /\ requests[s] = {}
=============================================================================
