------------------------------ MODULE MCBarrier ------------------------------
(***************************************************************************)
(* A party: its scheduler, its server and two workers.  All of them meet   *)
(* when they start and when they finalize; in between the workers meet     *)
(* after the init of a key and before the store is torn down.  A worker    *)
(* that is alone in its group calls those two barriers beside them.        *)
(***************************************************************************)
EXTENDS Barrier, TLC

CONSTANTS sched, srv, w1, w2, v, All, WorkerGroup, Single

PartyMembers == All :> {sched, srv, w1, w2} @@ WorkerGroup :> {w1, w2} @@ Single :> {v}

PartyScript ==
  sched :> <<All, All>> @@ srv :> <<All, All>>
    @@ w1 :> <<All, WorkerGroup, WorkerGroup, All>>
    @@ w2 :> <<All, WorkerGroup, WorkerGroup, All>>
    @@ v :> <<Single, Single>>
=============================================================================
