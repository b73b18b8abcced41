----------------------------- MODULE MCTransfer -----------------------------
(***************************************************************************)
(* The ways of sending gradients and models that a deployment may enable,  *)
(* one at a time: P3, DGT and TSEngine (scripts/cpu/run_p3.sh,             *)
(* run_dgt.sh, run_tsengine.sh). Init picks a deployment, named by conf,   *)
(* and the module that models it runs alone.                               *)
(***************************************************************************)
EXTENDS Naturals

VARIABLES
  conf,  \* the deployment
  \* of P3
  ps_kv_, key_temp, op, unsent, counter, handling, got, send_queue_, server,
  \* of P3 and TSEngine
  inited, iter,
  \* of P3 and DGT
  net,
  \* of DGT and TSEngine
  round, inbox, request,
  \* of DGT
  gradient, contribution, assigning, important_queue_, popped, unimportant_queue_,
  seenEmpty, msg_map, accepted, awaits,
  \* of TSEngine
  issued, pushing, pulling, send_q, merged, asks, ask_q, orders, stored, due, B, iters,
  passing, auto_pull_kvs_, pulled

vP3 == <<ps_kv_, key_temp, op, unsent, counter, handling, got, send_queue_, server>>
vP3TSEngine == <<inited, iter>>
vP3DGT == <<net>>
vDGTTSEngine == <<round, inbox, request>>
vDGT == <<gradient, contribution, assigning, important_queue_, popped,
    unimportant_queue_, seenEmpty, msg_map, accepted, awaits>>
vTSEngine == <<issued, pushing, pulling, send_q, merged, asks, ask_q, orders, stored,
    due, B, iters, passing, auto_pull_kvs_, pulled>>
vars == <<conf, vP3, vP3TSEngine, vP3DGT, vDGTTSEngine, vDGT, vTSEngine>>

\* P3 with two workers and tensors of one slice each.
P3Pair == INSTANCE P3 WITH
  NumWorkers <- 2, Size <- <<2, 1>>, bigarray_bound_ <- 2, MaxIter <- 2

\* P3 with a tensor of two slices, the last one short, and one of exactly one
\* slice.
P3Slices == INSTANCE P3 WITH
  NumWorkers <- 1, Size <- <<3, 2>>, bigarray_bound_ <- 2, MaxIter <- 2

\* DGT with one party that pushes a tensor of three chunks twice, some of
\* them zero.
DGTLate == INSTANCE DGT WITH
  Parties <- {"p1"}, Keys <- {"k1"}, Holders <- [k \in {"k1"} |-> {0}],
  Gradients <- {{0, 1, 2}, {0, 2}, {1}}, NumChunks <- 3, DMLC_K <- 34, MaxRound <- 2

\* DGT with two parties and every chunk but the last unimportant.
DGTPair == INSTANCE DGT WITH
  Parties <- {"p1", "p2"}, Keys <- {"k1"}, Holders <- [k \in {"k1"} |-> {0}],
  Gradients <- {{0, 1}}, NumChunks <- 2, DMLC_K <- 0, MaxRound <- 2

\* TSEngine with three workers and one tensor.
TSMerge == INSTANCE TSEngine WITH
  NumWorkers <- 3, NumKeys <- 1, WaitInit <- FALSE, WaitEachKey <- TRUE, MaxRound <- 2

\* TSEngine with two workers and two tensors.
TSKeys == INSTANCE TSEngine WITH
  NumWorkers <- 2, NumKeys <- 2, WaitInit <- TRUE, WaitEachKey <- TRUE, MaxRound <- 2

\* What a deployment does not use stays 0.
NoP3 ==
  /\ ps_kv_ = 0 /\ key_temp = 0 /\ op = 0 /\ unsent = 0 /\ counter = 0 /\ handling = 0
  /\ got = 0 /\ send_queue_ = 0 /\ server = 0
NoP3TSEngine ==
  /\ inited = 0 /\ iter = 0
NoP3DGT ==
  /\ net = 0
NoDGTTSEngine ==
  /\ round = 0 /\ inbox = 0 /\ request = 0
NoDGT ==
  /\ gradient = 0 /\ contribution = 0 /\ assigning = 0 /\ important_queue_ = 0
  /\ popped = 0 /\ unimportant_queue_ = 0 /\ seenEmpty = 0 /\ msg_map = 0
  /\ accepted = 0 /\ awaits = 0
NoTSEngine ==
  /\ issued = 0 /\ pushing = 0 /\ pulling = 0 /\ send_q = 0 /\ merged = 0 /\ asks = 0
  /\ ask_q = 0 /\ orders = 0 /\ stored = 0 /\ due = 0 /\ B = 0 /\ iters = 0
  /\ passing = 0 /\ auto_pull_kvs_ = 0 /\ pulled = 0

Init ==
  \/ conf = "p3_pair" /\ P3Pair!Init /\ NoDGTTSEngine /\ NoDGT /\ NoTSEngine
  \/ conf = "p3_slices" /\ P3Slices!Init /\ NoDGTTSEngine /\ NoDGT /\ NoTSEngine
  \/ conf = "dgt_late" /\ DGTLate!Init /\ NoP3 /\ NoP3TSEngine /\ NoTSEngine
  \/ conf = "dgt_pair" /\ DGTPair!Init /\ NoP3 /\ NoP3TSEngine /\ NoTSEngine
  \/ conf = "ts_merge" /\ TSMerge!Init /\ NoP3 /\ NoP3DGT /\ NoDGT
  \/ conf = "ts_keys" /\ TSKeys!Init /\ NoP3 /\ NoP3DGT /\ NoDGT

Next ==
  /\ UNCHANGED conf
  /\ \/ conf = "p3_pair" /\ P3Pair!Next /\ UNCHANGED <<vDGTTSEngine, vDGT, vTSEngine>>
     \/ conf = "p3_slices" /\ P3Slices!Next /\ UNCHANGED <<vDGTTSEngine, vDGT, vTSEngine>>
     \/ conf = "dgt_late" /\ DGTLate!Next /\ UNCHANGED <<vP3, vP3TSEngine, vTSEngine>>
     \/ conf = "dgt_pair" /\ DGTPair!Next /\ UNCHANGED <<vP3, vP3TSEngine, vTSEngine>>
     \/ conf = "ts_merge" /\ TSMerge!Next /\ UNCHANGED <<vP3, vP3DGT, vDGT>>
     \/ conf = "ts_keys" /\ TSKeys!Next /\ UNCHANGED <<vP3, vP3DGT, vDGT>>

\* As in the modules: nobody stops while some thread can act.
Spec == Init /\ [][Next]_vars /\ WF_vars(Next)

-----------------------------------------------------------------------------
\* With P3 a key stands for the same slice on every worker and on the server, a
\* first pull brings as many elements as it asked for when tensors are one slice
\* each, and the operation of a push ends when every slice has been answered,
\* once, with the model of its round (P3).
SlicesReturnModel ==
  /\ conf = "p3_pair" => P3Pair!PullFits /\ P3Pair!PushReturnsModel
  /\ conf = "p3_slices" => P3Slices!SlicesWhole /\ P3Slices!PushReturnsModel

\* With P3 the party's server adds up no round of a key before it has the first
\* model (P3).
RoundsAfterInit == conf = "p3_pair" => P3Pair!RoundsAfterInit

\* With DGT no chunk of a gradient is dropped or added twice, however the
\* chunks of successive pushes overtake each other (DGT).
EveryChunkOnce ==
  /\ conf = "dgt_late" => DGTLate!EveryChunkOnce
  /\ conf = "dgt_pair" => DGTPair!EveryChunkOnce

\* With TSEngine a worker that is told to send has a tensor to send, and its
\* WorkersMerge never runs beside that of another push (TSEngine).
MergesInOrder ==
  /\ conf = "ts_merge" => TSMerge!OrderHasTensor
  /\ conf = "ts_keys" => TSKeys!OrderHasTensor /\ TSKeys!ScriptWaitsWhileMerging

\* With TSEngine, whatever tree of merges the scheduler makes up and whichever
\* nodes pass a version on, a tensor holds as many gradients as it counts, no
\* worker is given a version twice, and after an iteration a worker holds the
\* gradients of all up to that iteration and none of a later one (TSEngine).
ModelInStep ==
  /\ conf = "ts_merge" =>
       TSMerge!CountsItsGradients /\ TSMerge!GivenOnce /\ TSMerge!PulledInStep
  /\ conf = "ts_keys" =>
       TSKeys!CountsItsGradients /\ TSKeys!GivenOnce /\ TSKeys!PulledInStep

\* No priority, counter or wait of P3 holds a worker back for ever; with DGT
\* every push is completed by its last chunk and answered and no chunk stays in a
\* queue; with TSEngine every worker gets through all its iterations.
AllFinish ==
  <>[](/\ conf = "p3_pair" => P3Pair!TrainingDone
       /\ conf = "p3_slices" => P3Slices!TrainingDone
       /\ conf = "dgt_late" => DGTLate!AllAnswered
       /\ conf = "dgt_pair" => DGTPair!AllAnswered
       /\ conf = "ts_merge" => TSMerge!TrainingDone
       /\ conf = "ts_keys" => TSKeys!TrainingDone)
=============================================================================
