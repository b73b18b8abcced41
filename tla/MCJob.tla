------------------------------- MODULE MCJob -------------------------------
(***************************************************************************)
(* The stages of a job: the nodes of a party register with its scheduler   *)
(* (Registration), the servers are configured and the tensors initialised  *)
(* (Startup), and after training everybody stops (Shutdown).  Init picks a *)
(* stage and a deployment, named by conf, and its module then runs alone.  *)
(***************************************************************************)
EXTENDS Integers, FiniteSets

CONSTANTS s1, w1, w2, w3, p1, p2, g1, g2, c, gs

VARIABLES
  conf,                                                       \* the deployment
  starts, state, myId, senders, addNode, back, nodes, byId,
  recovery, alive, aborted,                                   \* of Registration
  sent, at, main, exec_, requests, flags, initialized_,
  pulls, merged, used,                                        \* of Startup
  handler, job, inbox, request, num_stop_executor_, left,     \* of Shutdown
  pc, awaits                                                  \* of the last two

regVars == <<starts, state, myId, senders, addNode, back, nodes, byId, recovery, alive, aborted>>
upVars == <<sent, at, main, exec_, requests, flags, initialized_, pulls, merged, used>>
downVars == <<handler, job, inbox, request, num_stop_executor_, left>>
vars == <<conf, regVars, upVars, downVars, pc, awaits>>

Party == {s1, w1, w2, w3}

\* Registration: a node may restart, after the scheduler has noticed its death.
Restart == INSTANCE Registration WITH
  Servers <- {s1}, Workers <- {w1, w2, w3},
  Timeout <- TRUE, OnTime <- TRUE, Patient <- TRUE, MaxCrashes <- 1

\* Registration: nobody restarts, and heartbeats may come late.
Late == INSTANCE Registration WITH
  Servers <- {s1}, Workers <- {w1, w2, w3},
  Timeout <- TRUE, OnTime <- FALSE, Patient <- TRUE, MaxCrashes <- 0

\* Registration: two restarts, perhaps before the death was noticed.
Crashes == INSTANCE Registration WITH
  Servers <- {s1}, Workers <- {w1, w2},
  Timeout <- TRUE, OnTime <- TRUE, Patient <- FALSE, MaxCrashes <- 2

\* Startup with an optimizer: one tensor on each of two global servers.
Spread == INSTANCE Startup WITH
  Parties <- {p1}, GlobalServers <- {g1, g2}, Central <- c, First <- g1, NumWorkers <- 2,
  NumCentral <- 1, MasterRank <- 0, dist_sync <- TRUE, Config <- <<"kController">>,
  HomeOf <- <<{g1}, {g2}>>

\* Startup with compression: two parties and a tensor cut over both servers.
Cut == INSTANCE Startup WITH
  Parties <- {p1, p2}, GlobalServers <- {g1, g2}, Central <- c, First <- g1, NumWorkers <- 1,
  NumCentral <- 1, MasterRank <- 0, dist_sync <- TRUE,
  Config <- <<"kSetGradientCompression">>, HomeOf <- <<{g1, g2}>>

\* Shutdown in the synchronous mode, with two global servers.
Sync == INSTANCE Shutdown WITH
  Parties <- {p1}, GlobalServers <- {g1, g2}, Central <- c, GlobalScheduler <- gs,
  NumWorkers <- 1, NumCentral <- 1, MasterRank <- 0, MasterTrains <- FALSE,
  sync_global_mode_ <- TRUE, EnableCentralWorkers <- FALSE,
  ENABLE_P3 <- FALSE, ENABLE_DGT <- FALSE, MaxRound <- 1

\* Shutdown in the asynchronous mode, with two workers in each party.
Async == INSTANCE Shutdown WITH
  Parties <- {p1, p2}, GlobalServers <- {g1}, Central <- c, GlobalScheduler <- gs,
  NumWorkers <- 2, NumCentral <- 1, MasterRank <- 0, MasterTrains <- FALSE,
  sync_global_mode_ <- FALSE, EnableCentralWorkers <- FALSE,
  ENABLE_P3 <- FALSE, ENABLE_DGT <- FALSE, MaxRound <- 2

\* Shutdown with training central workers, of which the master is not rank 0.
Central == INSTANCE Shutdown WITH
  Parties <- {p1, p2}, GlobalServers <- {g1}, Central <- c, GlobalScheduler <- gs,
  NumWorkers <- 1, NumCentral <- 2, MasterRank <- 1, MasterTrains <- TRUE,
  sync_global_mode_ <- TRUE, EnableCentralWorkers <- TRUE,
  ENABLE_P3 <- FALSE, ENABLE_DGT <- FALSE, MaxRound <- 1

\* What a stage does not use stays 0.
NoRegistration ==
  /\ starts = 0 /\ state = 0 /\ myId = 0 /\ senders = 0 /\ addNode = 0 /\ back = 0
  /\ nodes = 0 /\ byId = 0 /\ recovery = 0 /\ alive = 0 /\ aborted = 0
NoStartup ==
  /\ sent = 0 /\ at = 0 /\ main = 0 /\ exec_ = 0 /\ requests = 0 /\ flags = 0
  /\ initialized_ = 0 /\ pulls = 0 /\ merged = 0 /\ used = 0
NoShutdown ==
  /\ handler = 0 /\ job = 0 /\ inbox = 0 /\ request = 0 /\ num_stop_executor_ = 0 /\ left = 0

Init ==
  \/ /\ NoStartup /\ NoShutdown /\ pc = 0 /\ awaits = 0
     /\ \/ conf = "restart" /\ Restart!Init
        \/ conf = "late" /\ Late!Init
        \/ conf = "crashes" /\ Crashes!Init
  \/ /\ NoRegistration /\ NoShutdown
     /\ (conf = "spread" /\ Spread!Init) \/ (conf = "cut" /\ Cut!Init)
  \/ /\ NoRegistration /\ NoStartup
     /\ \/ conf = "sync" /\ Sync!Init
        \/ conf = "async" /\ Async!Init
        \/ conf = "central" /\ Central!Init

Register ==
  /\ UNCHANGED <<conf, upVars, downVars, pc, awaits>>
  /\ \/ conf = "restart" /\ Restart!Next
     \/ conf = "late" /\ Late!Next
     \/ conf = "crashes" /\ Crashes!Next
StartUp ==
  /\ UNCHANGED <<conf, regVars, downVars>>
  /\ (conf = "spread" /\ Spread!Next) \/ (conf = "cut" /\ Cut!Next)
ShutDown ==
  /\ UNCHANGED <<conf, regVars, upVars>>
  /\ \/ conf = "sync" /\ Sync!Next
     \/ conf = "async" /\ Async!Next
     \/ conf = "central" /\ Central!Next

\* The fairness of the modules, each for its own deployments.
Start(n) == (conf = "restart" /\ Restart!Start(n)) \/ (conf = "late" /\ Late!Start(n))
ReceiveNodes(n) ==
  (conf = "restart" /\ Restart!ReceiveNodes(n)) \/ (conf = "late" /\ Late!ReceiveNodes(n))
AddNode ==
  \/ conf = "restart" /\ \E a \in addNode : Restart!AddNode(a)
  \/ conf = "late" /\ \E a \in addNode : Late!AddNode(a)
Expire(i) ==
  \/ conf = "restart" /\ i \in DOMAIN byId /\ Restart!Expire(i)
  \/ conf = "late" /\ i \in DOMAIN byId /\ Late!Expire(i)
RegistrationFairness ==
  /\ \A n \in Party : WF_regVars(Start(n)) /\ WF_regVars(ReceiveNodes(n))
  /\ WF_regVars(AddNode)
  /\ \A i \in Restart!Ids : WF_regVars(Expire(i))

Spec ==
  /\ Init /\ [][Register \/ StartUp \/ ShutDown]_vars
  /\ RegistrationFairness /\ WF_vars(StartUp \/ ShutDown)

-----------------------------------------------------------------------------
\* However the nodes restart, no two running processes hold one id, and ready
\* nodes send to the present addresses of ready nodes (Registration).
OneAddressBook == conf = "crashes" => Crashes!UniqueIds /\ Crashes!SameAddresses

\* A node that restarts gets the id it had (Registration).
IdStaysWithNode == [][conf = "restart" => Restart!KeepsIds]_vars

\* When the first gradient comes a party's server is synchronous, and a global
\* server has its mode and its optimizer (Startup).
Configured ==
  /\ conf = "spread" => Spread!PartyConfigured /\ Spread!GlobalConfigured
  /\ conf = "cut" => Cut!PartyConfigured /\ Cut!GlobalConfigured

\* An executor ends only when nobody needs the updater any more, and sockets stay
\* open while an answer to kStopServer is awaited (Shutdown).
StopsInOrder ==
  /\ conf = "sync" => Sync!AnsweredBeforeClosing
  /\ conf = "async" => Async!UpdatesBeforeStop
  /\ conf = "central" => Central!UpdatesBeforeStop /\ Central!AnsweredBeforeClosing

\* A process that waits for the scheduler becomes ready (Registration); every
\* gradient of the first round is handled by every server (Startup); every
\* trainer gets its last answer, kStopServer reaches every server, and every
\* worker, the master included, leaves its destructor (Shutdown).
EveryStageEnds ==
  /\ []<>(/\ conf = "restart" => Restart!NobodyWaits
          /\ conf = "late" => Late!NobodyWaits)
  /\ <>(/\ conf = "spread" => Spread!Started
        /\ conf = "cut" => Cut!Started
        /\ conf = "sync" => Sync!ServersStopped
        /\ conf = "async" => Async!TrainingDone /\ Async!WorkersGone
        /\ conf = "central" => Central!WorkersGone)
=============================================================================
