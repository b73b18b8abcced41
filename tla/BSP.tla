-------------------------------- MODULE BSP ---------------------------------
(***************************************************************************)
(* What fully synchronous training (FSA) promises a training script: every *)
(* key has one sequence of versions; version n + 1 is made of version n    *)
(* and one gradient of every worker; a worker computes each gradient on    *)
(* the newest version and sees nothing else.                               *)
(***************************************************************************)
EXTENDS Integers

CONSTANTS Worker, Key, MaxRound

VARIABLES
  version,  \* [Key -> Nat], updates committed
  contrib,  \* [Key -> SUBSET Worker], workers that have pushed for the next one
  view      \* [Worker -> [Key -> version the worker holds]], Nothing before any

vars == <<version, contrib, view>>

Nothing == -1

Init ==
  /\ version = [k \in Key |-> 0]
  /\ contrib = [k \in Key |-> {}]
  /\ view = [w \in Worker |-> [k \in Key |-> Nothing]]

\* An iteration starts once the worker has the results of the previous one for
\* all keys.
Contribute(w, k) ==
  /\ version[k] < MaxRound
  /\ w \notin contrib[k]
  /\ view[w][k] = version[k]
  /\ \A j \in Key : view[w][j] >= version[k]
  /\ contrib' = [contrib EXCEPT ![k] = @ \cup {w}]
  /\ UNCHANGED <<version, view>>

Commit(k) ==
  /\ contrib[k] = Worker
  /\ version' = [version EXCEPT ![k] = @ + 1]
  /\ contrib' = [contrib EXCEPT ![k] = {}]
  /\ UNCHANGED view

Fetch(w, k) ==
  /\ w \notin contrib[k]
  /\ view[w][k] # version[k]
  /\ view' = [view EXCEPT ![w][k] = version[k]]
  /\ UNCHANGED <<version, contrib>>

Next ==
  \/ \E w \in Worker, k \in Key : Contribute(w, k) \/ Fetch(w, k)
  \/ \E k \in Key : Commit(k)

Spec == Init /\ [][Next]_vars
=============================================================================
