------------------------------- MODULE Barrier -------------------------------
(***************************************************************************)
(* The barrier of ps-lite on one plane: Postoffice::Barrier on the nodes,  *)
(* Van::ProcessBarrierCommand at the scheduler, Postoffice::Manage for the *)
(* scheduler's answer.                                                     *)
(*                                                                         *)
(* A node has two threads here: the one that calls Barrier and waits, and  *)
(* the receive thread of its van.  They share barrier_done_, guarded by    *)
(* barrier_mu_; the request is sent before that lock is taken.             *)
(***************************************************************************)
EXTENDS Naturals, Sequences, FiniteSets

CONSTANTS
  Node,     \* the nodes of the plane, its scheduler among them
  Group,    \* node groups a barrier can be over
  Members,  \* [Group -> SUBSET Node], Postoffice::GetNodeIDs
  Script    \* [Node -> Seq(Group)], the barriers each node calls, in order

ASSUME BarrierAssumption ==
  /\ IsFiniteSet(Node)
  /\ Members \in [Group -> SUBSET Node]
  /\ Script \in [Node -> Seq(Group)]
  /\ \A n \in Node : \A i \in 1 .. Len(Script[n]) : n \in Members[Script[n][i]]

VARIABLES
  pc,             \* where the calling thread is
  done,           \* barriers the node has returned from
  barrier_done_,  \* barrier_done_[0][customer_id]; "none" before it exists
  barrier_count_, \* at the scheduler, per group
  net             \* messages in flight

vars == <<pc, done, barrier_done_, barrier_count_, net>>

Request(n, grp) == [type |-> "request", node |-> n, group |-> grp]
Response(n, grp) == [type |-> "response", node |-> n, group |-> grp]

Init ==
  /\ pc = [n \in Node |-> "running"]
  /\ done = [n \in Node |-> 0]
  /\ barrier_done_ = [n \in Node |-> "none"]
  /\ barrier_count_ = [grp \in Group |-> 0]
  /\ net = {}

Called(n) == Script[n][done[n] + 1]
HasNext(n) == pc[n] = "running" /\ done[n] < Len(Script[n])

\* A group of one node needs no barrier.
Skip(n) ==
  /\ HasNext(n)
  /\ Cardinality(Members[Called(n)]) <= 1
  /\ done' = [done EXCEPT ![n] = @ + 1]
  /\ UNCHANGED <<pc, barrier_done_, barrier_count_, net>>

Enter(n) ==
  /\ HasNext(n)
  /\ Cardinality(Members[Called(n)]) > 1
  /\ net' = net \cup {Request(n, Called(n))}
  /\ pc' = [pc EXCEPT ![n] = "sent"]
  /\ UNCHANGED <<done, barrier_done_, barrier_count_>>

\* Mutant: the flag of the previous barrier is not cleared.
WaitUncleared(n) ==
  /\ pc[n] = "sent"
  /\ barrier_done_' = [barrier_done_ EXCEPT ![n] = IF @ = "none" THEN "false" ELSE @]
  /\ pc' = [pc EXCEPT ![n] = "waiting"]
  /\ UNCHANGED <<done, barrier_count_, net>>

\* Takes barrier_mu_, clears the flag and waits on the condition.
Wait(n) ==
  /\ pc[n] = "sent"
  /\ barrier_done_' = [barrier_done_ EXCEPT ![n] = "false"]
  /\ pc' = [pc EXCEPT ![n] = "waiting"]
  /\ UNCHANGED <<done, barrier_count_, net>>

Leave(n) ==
  /\ pc[n] = "waiting"
  /\ barrier_done_[n] = "true"
  /\ pc' = [pc EXCEPT ![n] = "running"]
  /\ done' = [done EXCEPT ![n] = @ + 1]
  /\ UNCHANGED <<barrier_done_, barrier_count_, net>>

GroupComplete(grp, count) == count = Cardinality(Members[grp])

\* ProcessBarrierCommand, at the scheduler.
CountRequest(m) ==
  LET count == barrier_count_[m.group] + 1 IN
  /\ m.type = "request"
  /\ IF GroupComplete(m.group, count)
       THEN /\ barrier_count_' = [barrier_count_ EXCEPT ![m.group] = 0]
            /\ net' = (net \ {m}) \cup {Response(n, m.group) : n \in Members[m.group]}
       ELSE /\ barrier_count_' = [barrier_count_ EXCEPT ![m.group] = count]
            /\ net' = net \ {m}
  /\ UNCHANGED <<pc, done, barrier_done_>>

\* Manage sets the flags that exist; before the first barrier there is none.
Manage(m) ==
  /\ m.type = "response"
  /\ barrier_done_' = [barrier_done_ EXCEPT ![m.node] = IF @ = "none" THEN @ ELSE "true"]
  /\ net' = net \ {m}
  /\ UNCHANGED <<pc, done, barrier_count_>>

NodeStep(n) == Skip(n) \/ Enter(n) \/ Wait(n) \/ Leave(n)
Receive(m) == CountRequest(m) \/ Manage(m)

Next == (\E n \in Node : NodeStep(n)) \/ (\E m \in net : Receive(m))

Spec == Init /\ [][Next]_vars

\* Every thread that can run does: the calling threads (Wait and Leave need
\* only the mutex, which is never held across a wait) and the receive threads.
FairSpec ==
  /\ Spec
  /\ \A n \in Node : WF_vars(NodeStep(n))
  /\ WF_vars(\E m \in net : Receive(m))

-----------------------------------------------------------------------------
\* Type invariant.
TypeOK ==
  /\ pc \in [Node -> {"running", "sent", "waiting"}]
  /\ done \in [Node -> Nat]
  /\ \A n \in Node : done[n] <= Len(Script[n])
  /\ barrier_done_ \in [Node -> {"none", "false", "true"}]
  /\ barrier_count_ \in [Group -> Nat]
  /\ net \subseteq [type : {"request", "response"}, node : Node, group : Group]

\* Number of barriers over grp among the first i of node n's script.
Barriers(n, grp, i) == Cardinality({j \in 1 .. i : Script[n][j] = grp})
Entered(n, grp) == Barriers(n, grp, IF pc[n] = "running" THEN done[n] ELSE done[n] + 1)
Left(n, grp) == Barriers(n, grp, done[n])

\* A barrier holds: nobody returns from its i-th barrier over a group before
\* every member of the group has called its i-th (Start and Finalize "block
\* until every nodes are started" and "finalized").
BarrierHolds ==
  \A grp \in Group : \A n, m \in Members[grp] : Left(n, grp) <= Entered(m, grp)

\* A node that has sent its request returns from Barrier, given that all
\* members of the group call it as well.
BarrierReturns == \A n \in Node : pc[n] = "sent" ~> pc[n] = "running"
=============================================================================
