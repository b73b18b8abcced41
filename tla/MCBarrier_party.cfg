\* A party of a scheduler, a server and two workers, and a single worker.
CONSTANTS
  sched = sched
  srv = srv
  w1 = w1
  w2 = w2
  v = v
  All = All
  WorkerGroup = WorkerGroup
  Single = Single
  Node = {sched, srv, w1, w2, v}
  Group = {All, WorkerGroup, Single}
  Members <- PartyMembers
  Script <- PartyScript
SPECIFICATION Spec
INVARIANT BarrierHolds
\* Nodes stop at the end of their scripts.
CHECK_DEADLOCK FALSE
