------------------------------ MODULE MCModes ------------------------------
(***************************************************************************)
(* The modes in which the parties and the global server may be started     *)
(* (scripts/cpu/run_mixed_sync.sh, run_hfa_sync.sh, run_vanilla_hips.sh    *)
(* with central workers).  Init picks a deployment, named by conf, and the *)
(* module that models it then runs alone.                                  *)
(***************************************************************************)
EXTENDS Integers, FiniteSets

CONSTANTS pa, pb, m, w

VARIABLES
  conf,                                                          \* the deployment
  phase, pushes, pulls, merged, applying, copying, seen,         \* of MixedSync
  milestone, marked, alias, local_iters, loop, todo, waiting,
  sum, pulling, synced, sent,                                    \* of HFA
  request, stored, round                                         \* of both

mixedVars == <<phase, pushes, pulls, merged, applying, copying, seen>>
hfaVars == <<milestone, marked, alias, local_iters, loop, todo, waiting, sum, pulling, synced, sent>>
vars == <<conf, mixedVars, hfaVars, request, stored, round>>

\* MixedSync with two parties and a central worker whose pushes are ignored.
Async == INSTANCE MixedSync WITH
  Parties <- {pa, pb}, CentralWorkers <- {m, w}, Trainers <- {pa, pb, w},
  sync_global_mode_ <- FALSE, EnableCentralWorkers <- FALSE, MaxRound <- 2

\* MixedSync with one party and two training central workers.
Central == INSTANCE MixedSync WITH
  Parties <- {pa}, CentralWorkers <- {m, w}, Trainers <- {pa, m, w},
  sync_global_mode_ <- FALSE, EnableCentralWorkers <- TRUE, MaxRound <- 2

\* The synchronous mode with central workers that all train.
Sync == INSTANCE MixedSync WITH
  Parties <- {pa, pb}, CentralWorkers <- {m, w}, Trainers <- {pa, pb, m, w},
  sync_global_mode_ <- TRUE, EnableCentralWorkers <- TRUE, MaxRound <- 2

\* HFA: two parties that start apart, a global round every second loop.
Frequency == INSTANCE HFA WITH
  Party <- {1, 2}, Key <- {0}, period_k2 <- 2, Initial <- <<0, 1>>, Step <- {0, 2}, MaxLoop <- 4

NoMixed ==
  /\ phase = 0 /\ pushes = 0 /\ pulls = 0 /\ merged = 0
  /\ applying = 0 /\ copying = 0 /\ seen = 0
NoHFA ==
  /\ milestone = 0 /\ marked = 0 /\ alias = 0 /\ local_iters = 0 /\ loop = 0 /\ todo = 0
  /\ waiting = 0 /\ sum = 0 /\ pulling = 0 /\ synced = 0 /\ sent = 0

Init ==
  \/ conf = "async" /\ Async!Init /\ NoHFA
  \/ conf = "central" /\ Central!Init /\ NoHFA
  \/ conf = "sync" /\ Sync!Init /\ NoHFA
  \/ conf = "hfa" /\ Frequency!Init /\ NoMixed

Next ==
  /\ UNCHANGED conf
  /\ \/ conf = "async" /\ Async!Next /\ UNCHANGED hfaVars
     \/ conf = "central" /\ Central!Next /\ UNCHANGED hfaVars
     \/ conf = "sync" /\ Sync!Next /\ UNCHANGED hfaVars
     \/ conf = "hfa" /\ Frequency!Next /\ UNCHANGED mixedVars

\* As in both modules: nobody stops while some thread can act.
Spec == Init /\ [][Next]_vars /\ WF_vars(Next)

-----------------------------------------------------------------------------
\* In MixedSync and with central workers an answered push is in the tensor once,
\* and no push twice (MixedSync).
EveryUpdateOnce ==
  /\ conf = "async" => Async!EveryUpdateOnce
  /\ conf = "central" => Central!EveryUpdateOnce
  /\ conf = "sync" => Sync!EveryUpdateOnce

\* In MixedSync a client that has pulled sees its own pushes; in the synchronous
\* mode a pull sees the tensor between two updates (MixedSync).
PullsConsistent ==
  /\ conf = "async" => Async!SeesOwnPushes
  /\ conf = "central" => Central!SeesOwnPushes
  /\ conf = "sync" => Sync!PulledBetweenUpdates

\* In MixedSync what a client has seen is in the tensor it pulls next (MixedSync).
SeenOnlyGrows ==
  [][/\ conf = "async" => Async!KeepsSeen
     /\ conf = "central" => Central!KeepsSeen]_vars

\* Parties send their progress in every period_k2-th loop and in no other, take
\* part in the same global rounds, and the first of these gives all of them the
\* same progress over their initial values (HFA).
SyncTogether ==
  conf = "hfa" => Frequency!EveryK2 /\ Frequency!RoundsTogether /\ Frequency!FirstSyncAgrees

\* Every party ends its iterations whatever becomes of an ignored worker; with
\* central workers that train, every trainer does (MixedSync, HFA).
AllFinish ==
  <>(/\ conf = "async" => Async!PartiesDone
     /\ conf = "central" => Central!AllDone
     /\ conf = "sync" => Sync!AllDone
     /\ conf = "hfa" => Frequency!Finished)
=============================================================================
