------------------------------- MODULE Engine -------------------------------
(***************************************************************************)
(* MXNet's dependency engine: threads push operations that read and mutate *)
(* variables; each variable keeps a queue of the operations that wait for  *)
(* it; pool threads run an operation when none of its variables makes it   *)
(* wait.  The key-value stores rely on it for the order of everything that *)
(* touches one array.                                                      *)
(*                                                                         *)
(* Every mutex scope and every atomic operation of the code is one step.   *)
(***************************************************************************)
EXTENDS Integers, Sequences, FiniteSets, Functions

CONSTANTS
  Thread,    \* threads that call the engine
  Process,   \* sets of threads: an engine serves those of one process
  Var,       \* variables
  Program,   \* [Thread -> Seq of calls], see Call
  Failing,   \* operations whose function throws
  None

\* A call: PushAsync of an operation, WaitForVar (which pushes an operation
\* that reads the variable) or WaitForAll.
Call ==
  [call : {"push", "wait", "waitall"}, const_vars : Seq(Var), mutable_vars : Seq(Var)]

\* An operation is named by its place in a program.
Ops == UNION {{t} \X (1 .. Len(Program[t])) : t \in Thread}
CallOf(o) == Program[o[1]][o[2]]
Vars(o) == CallOf(o).const_vars \o CallOf(o).mutable_vars

\* No operation names a variable twice: callers see to it (DeduplicateVarHandle),
\* CheckDuplicate looks for it with ENGINE_DEBUG only.  WaitForVar reads one
\* variable, WaitForAll none.
ASSUME ProgramAssumption ==
  /\ Program \in [Thread -> Seq(Call)] /\ Process \subseteq SUBSET Thread
  /\ None \notin Ops \cup {"normally", "throws"}
  /\ \A o \in Ops :
       /\ \A j, k \in 1 .. Len(Vars(o)) : Vars(o)[j] = Vars(o)[k] => j = k
       /\ CallOf(o).call = "wait" => Len(CallOf(o).const_vars) = 1 /\ CallOf(o).mutable_vars = <<>>
       /\ CallOf(o).call = "waitall" => Vars(o) = <<>>

VARIABLES
  process,   \* the threads that run
  next,      \* [Thread -> Nat], calls the thread has begun
  at,        \* [Thread -> where in the call it is]
  appended,  \* [Thread -> Nat], variables Push has gone through
  wait,      \* [Ops -> Int], OprBlock::wait
  pending_,  \* operations pushed and not completed
  num_pending_reads_, \* [Var -> Int]
  queue,     \* [Var -> Seq of blocks], from pending_write_ up to head_
  ready,     \* operations given to the pool
  running,   \* operations whose function runs
  executed,  \* operations whose function has returned
  completed, \* [Ops -> Nat], variables OnComplete has gone through
  triggers,  \* [Ops -> Seq(Ops)], whom OnComplete has still to trigger
  finished,  \* operations whose OnComplete is over
  opr_exception, var_exception, \* the operation that threw, or None
  thrown,    \* exceptions thrown to a waiting thread, which clears them
  returned   \* [Ops -> how a WaitForVar returned]

push_vars == <<process, next, at, appended>>
run_vars == <<ready, running, executed, completed, finished>>
exc_vars == <<opr_exception, var_exception, thrown, returned>>
vars == <<push_vars, wait, pending_, num_pending_reads_, queue, run_vars, triggers, exc_vars>>

kWriteTriggered == -1
Current(t) == <<t, next[t]>>
Reads(o, k) == k <= Len(CallOf(o).const_vars)
Mutates(o, v) == v \in Range(CallOf(o).mutable_vars)
Uses(o, v) == v \in Range(Vars(o))

Init ==
  /\ process \in Process
  /\ next = [t \in Thread |-> 0] /\ at = [t \in Thread |-> "idle"]
  /\ appended = [t \in Thread |-> 0]
  /\ wait = [o \in Ops |-> 0] /\ pending_ = 0
  /\ num_pending_reads_ = [v \in Var |-> 0] /\ queue = [v \in Var |-> <<>>]
  /\ ready = {} /\ running = {} /\ executed = {} /\ finished = {}
  /\ completed = [o \in Ops |-> 0] /\ triggers = [o \in Ops |-> <<>>]
  /\ opr_exception = [o \in Ops |-> None] /\ var_exception = [v \in Var |-> None]
  /\ thrown = {} /\ returned = [o \in Ops |-> None]

-----------------------------------------------------------------------------

\* Push creates the block; one more than the variables, so that it cannot run
\* while its dependencies are being added.
Push(t) ==
  LET o == <<t, next[t] + 1>> IN
  /\ at[t] = "idle" /\ o \in Ops
  /\ \/ CallOf(o).call = "push"
     \/ CallOf(o).call = "wait" /\ queue[CallOf(o).const_vars[1]] # <<>>
  /\ next' = [next EXCEPT ![t] = @ + 1]
  /\ at' = [at EXCEPT ![t] = "push"]
  /\ appended' = [appended EXCEPT ![t] = 0]
  /\ wait' = [wait EXCEPT ![o] = Len(Vars(o)) + 1]
  /\ pending_' = pending_ + 1
  /\ UNCHANGED <<process, num_pending_reads_, queue, run_vars, triggers, exc_vars>>

AppendReadDependency(o, v) ==
  IF queue[v] = <<>>
    THEN /\ num_pending_reads_' = [num_pending_reads_ EXCEPT ![v] = @ + 1]
         /\ wait' = [wait EXCEPT ![o] = @ - 1]
         /\ UNCHANGED queue
    ELSE /\ queue' = [queue EXCEPT ![v] = Append(@, [trigger |-> o, write |-> FALSE])]
         /\ UNCHANGED <<num_pending_reads_, wait>>

AppendWriteDependency(o, v) ==
  /\ queue' = [queue EXCEPT ![v] = Append(@, [trigger |-> o, write |-> TRUE])]
  /\ IF queue[v] = <<>> /\ num_pending_reads_[v] = 0
       THEN /\ num_pending_reads_' = [num_pending_reads_ EXCEPT ![v] = kWriteTriggered]
            /\ wait' = [wait EXCEPT ![o] = @ - 1]
       ELSE UNCHANGED <<num_pending_reads_, wait>>

\* The next variable of the operation, under the variable's mutex.
AppendDependency(t) ==
  LET o == Current(t)
      k == appended[t] + 1
  IN
  /\ at[t] = "push" /\ k <= Len(Vars(o))
  /\ appended' = [appended EXCEPT ![t] = k]
  /\ IF Reads(o, k) THEN AppendReadDependency(o, Vars(o)[k]) ELSE AppendWriteDependency(o, Vars(o)[k])
  /\ UNCHANGED <<process, next, at, pending_, run_vars, triggers, exc_vars>>

\* decr_wait, and PushToExecute at zero.
DecrWait(o) ==
  /\ wait' = [wait EXCEPT ![o] = @ - 1]
  /\ ready' = IF wait[o] = 1 THEN ready \cup {o} ELSE ready

PushEnd(t) ==
  LET o == Current(t) IN
  /\ at[t] = "push" /\ appended[t] = Len(Vars(o))
  /\ DecrWait(o)
  /\ at' = [at EXCEPT ![t] = IF CallOf(o).call = "wait" THEN "wait" ELSE "idle"]
  /\ UNCHANGED <<process, next, appended, pending_, num_pending_reads_, queue, running, executed, completed, finished, triggers, exc_vars>>

\* ThrowException: the exception is cleared for all who share it.
Pending(e) == e # None /\ e \notin thrown

Return(o) ==
  LET e == var_exception[CallOf(o).const_vars[1]] IN
  /\ returned' = [returned EXCEPT ![o] = IF Pending(e) THEN "throws" ELSE "normally"]
  /\ thrown' = IF Pending(e) THEN thrown \cup {e} ELSE thrown
  /\ UNCHANGED <<opr_exception, var_exception>>

\* WaitForVar of a variable that no write is pending for.
WaitForVarReady(t) ==
  LET o == <<t, next[t] + 1>> IN
  /\ at[t] = "idle" /\ o \in Ops /\ CallOf(o).call = "wait"
  /\ queue[CallOf(o).const_vars[1]] = <<>>
  /\ next' = [next EXCEPT ![t] = @ + 1]
  /\ Return(o)
  /\ UNCHANGED <<process, at, appended, wait, pending_, num_pending_reads_, queue, run_vars, triggers>>

\* Mutant: WaitForVar does not wait for its operation.
WaitForVarNoBlock(t) ==
  /\ at[t] = "wait"
  /\ at' = [at EXCEPT ![t] = "idle"]
  /\ Return(Current(t))
  /\ UNCHANGED <<process, next, appended, wait, pending_, num_pending_reads_, queue, run_vars, triggers>>

\* WaitForVar wakes up when the function of its operation has been executed.
WaitForVarReturn(t) ==
  LET o == Current(t) IN
  /\ at[t] = "wait" /\ o \in executed
  /\ at' = [at EXCEPT ![t] = "idle"]
  /\ Return(o)
  /\ UNCHANGED <<process, next, appended, wait, pending_, num_pending_reads_, queue, run_vars, triggers>>

WaitForAll(t) ==
  LET o == <<t, next[t] + 1>> IN
  /\ at[t] = "idle" /\ o \in Ops /\ CallOf(o).call = "waitall"
  /\ pending_ = 0
  /\ next' = [next EXCEPT ![t] = @ + 1]
  /\ UNCHANGED <<process, at, appended, wait, pending_, num_pending_reads_, queue, run_vars, triggers, exc_vars>>

-----------------------------------------------------------------------------
\* ExecuteOprBlock: OnStart takes over the exception of a variable ...
Inherited(o) ==
  LET bad == {k \in 1 .. Len(Vars(o)) : Pending(var_exception[Vars(o)[k]])} IN
  IF bad = {} THEN None ELSE var_exception[Vars(o)[CHOOSE k \in bad : \A j \in bad : k <= j]]

ExecuteOprBlock(o) ==
  /\ o \in ready
  /\ ready' = ready \ {o} /\ running' = running \cup {o}
  /\ opr_exception' = [opr_exception EXCEPT ![o] = Inherited(o)]
  /\ UNCHANGED <<push_vars, wait, pending_, num_pending_reads_, queue, executed, completed, finished, triggers, var_exception, thrown, returned>>

\* ... and the function, which is skipped after an exception, may throw one.
Execute(o) ==
  /\ o \in running \ executed
  /\ executed' = executed \cup {o}
  /\ opr_exception' = [opr_exception EXCEPT ![o] = IF ~Pending(@) /\ o \in Failing THEN o ELSE @]
  /\ UNCHANGED <<push_vars, wait, pending_, num_pending_reads_, queue, ready, running, completed, finished, triggers, var_exception, thrown, returned>>

\* Mutant: the first completed read starts the write.
CompleteReadEarly(o, v) ==
  /\ num_pending_reads_' = [num_pending_reads_ EXCEPT ![v] = IF queue[v] # <<>> THEN kWriteTriggered ELSE @ - 1]
  /\ triggers' = [triggers EXCEPT ![o] = IF queue[v] # <<>> THEN <<queue[v][1].trigger>> ELSE <<>>]
  /\ UNCHANGED <<queue, var_exception>>

CompleteReadDependency(o, v) ==
  LET last == num_pending_reads_[v] = 1 /\ queue[v] # <<>> IN
  /\ num_pending_reads_' = [num_pending_reads_ EXCEPT ![v] = IF last THEN kWriteTriggered ELSE @ - 1]
  /\ triggers' = [triggers EXCEPT ![o] = IF last THEN <<queue[v][1].trigger>> ELSE <<>>]
  /\ UNCHANGED <<queue, var_exception>>

\* The blocks behind the completed write, up to the next write.
ReadChain(blocks) ==
  CHOOSE n \in 0 .. Len(blocks) :
    /\ \A i \in 1 .. n : ~blocks[i].write
    /\ n = Len(blocks) \/ blocks[n + 1].write

\* What CompleteWriteDependency leaves, and its mutants: the next write is
\* not triggered, or exceptions are dropped.
Completed(o, v, signal, exception) ==
  LET rest == Tail(queue[v])
      n == ReadChain(rest)
      fire == n = 0 /\ rest # <<>>
  IN
  /\ queue' = [queue EXCEPT ![v] = SubSeq(rest, n + 1, Len(rest))]
  /\ num_pending_reads_' = [num_pending_reads_ EXCEPT ![v] = IF fire THEN kWriteTriggered ELSE n]
  /\ triggers' = [triggers EXCEPT ![o] =
       IF fire THEN (IF signal THEN <<rest[1].trigger>> ELSE <<>>)
               ELSE [i \in 1 .. n |-> rest[i].trigger]]
  /\ var_exception' = [var_exception EXCEPT ![v] = IF Pending(exception) THEN exception ELSE @]

CompleteWriteSilent(o, v) == Completed(o, v, FALSE, opr_exception[o])
CompleteWriteForgets(o, v) == Completed(o, v, TRUE, None)

CompleteWriteDependency(o, v) == Completed(o, v, TRUE, opr_exception[o])

\* OnComplete: the next variable, under its mutex ...
CompleteDependency(o) ==
  LET k == completed[o] + 1 IN
  /\ o \in executed /\ triggers[o] = <<>> /\ k <= Len(Vars(o))
  /\ completed' = [completed EXCEPT ![o] = k]
  /\ IF Reads(o, k) THEN CompleteReadDependency(o, Vars(o)[k]) ELSE CompleteWriteDependency(o, Vars(o)[k])
  /\ UNCHANGED <<push_vars, wait, pending_, ready, running, executed, finished, opr_exception, thrown, returned>>

\* ... then, without it, the operations it releases ...
Trigger(o) ==
  /\ triggers[o] # <<>>
  /\ DecrWait(Head(triggers[o]))
  /\ triggers' = [triggers EXCEPT ![o] = Tail(@)]
  /\ UNCHANGED <<push_vars, pending_, num_pending_reads_, queue, running, executed, completed, finished, exc_vars>>

\* ... and in the end pending_.
CompleteEnd(o) ==
  /\ o \in executed \ finished /\ triggers[o] = <<>> /\ completed[o] = Len(Vars(o))
  /\ pending_' = pending_ - 1
  /\ finished' = finished \cup {o}
  /\ running' = running \ {o}
  /\ UNCHANGED <<push_vars, wait, num_pending_reads_, queue, ready, executed, completed, triggers, exc_vars>>

ThreadStep(t) ==
  \/ Push(t) \/ AppendDependency(t) \/ PushEnd(t)
  \/ WaitForVarReady(t) \/ WaitForVarReturn(t) \/ WaitForAll(t)
PoolStep(o) ==
  \/ ExecuteOprBlock(o) \/ Execute(o)
  \/ CompleteDependency(o) \/ Trigger(o) \/ CompleteEnd(o)

Done == /\ \A t \in process : at[t] = "idle" /\ next[t] = Len(Program[t])
        /\ pending_ = 0

Next == (\E t \in process : ThreadStep(t)) \/ (\E o \in Ops : PoolStep(o))

Spec == Init /\ [][Next]_vars

\* Threads and the pool are scheduled, functions return.  Every behaviour is
\* finite, so one fairness condition for all of them will do.
FairSpec == Spec /\ WF_vars(Next)
-----------------------------------------------------------------------------
TypeOK ==
  /\ process \in Process
  /\ next \in [Thread -> Nat] /\ at \in [Thread -> {"idle", "push", "wait"}]
  /\ appended \in [Thread -> Nat] /\ completed \in [Ops -> Nat]
  /\ wait \in [Ops -> Nat] /\ pending_ \in Nat
  /\ num_pending_reads_ \in [Var -> Nat \cup {kWriteTriggered}]
  /\ queue \in [Var -> Seq([trigger : Ops, write : BOOLEAN])]
  /\ triggers \in [Ops -> Seq(Ops)]
  /\ ready \subseteq Ops /\ running \subseteq Ops
  /\ executed \subseteq Ops /\ finished \subseteq executed
  /\ opr_exception \in [Ops -> Ops \cup {None}] /\ var_exception \in [Var -> Ops \cup {None}]
  /\ thrown \subseteq Ops /\ returned \in [Ops -> {None, "normally", "throws"}]

ConflictOn(o, p, v) == Uses(o, v) /\ Uses(p, v) /\ (Mutates(o, v) \/ Mutates(p, v))
Conflict(o, p) == \E v \in Var : ConflictOn(o, p, v)

\* p is an operation that the thread of o has pushed before it called o.
Before(p, o) == p[1] = o[1] /\ p[2] < o[2] /\ CallOf(p).call = "push"

\* While a function that mutates a variable runs, no other function that uses
\* the variable runs: what the array operations of the servers rely on.
Exclusive == \A o, p \in running \ executed : o # p => ~Conflict(o, p)

\* Operations of one thread that conflict run in the order they were pushed,
\* whatever the other threads push.
ProgramOrder == \A o \in running, p \in Ops : Before(p, o) /\ Conflict(o, p) => p \in executed

\* The CHECKs of the code about num_pending_reads_: a completed write finds
\* its own mark, a completed read finds itself counted, and an operation is
\* queued behind a pending write only while somebody holds the variable.
ChecksHold ==
  /\ \A o \in executed : \A k \in completed[o] + 1 .. Len(Vars(o)) :
       IF Reads(o, k)
         THEN num_pending_reads_[Vars(o)[k]] > 0
         ELSE /\ num_pending_reads_[Vars(o)[k]] = kWriteTriggered
              /\ queue[Vars(o)[k]] # <<>> /\ queue[Vars(o)[k]][1].trigger = o
  /\ \A v \in Var : queue[v] # <<>> => num_pending_reads_[v] # 0

\* A function that mutates a variable runs beside no other that uses it,
\* conflicting operations of a thread run in the order of their pushes, and the
\* CHECKs of threaded_engine.cc on num_pending_reads_ hold.
ConflictsOrdered == Exclusive /\ ProgramOrder /\ ChecksHold

\* The call has returned to its thread.
Over(o) == o[2] < next[o[1]] \/ (o[2] = next[o[1]] /\ at[o[1]] = "idle")

\* A WaitForVar that has returned has seen all earlier writes of its thread to
\* the variable, on the short way past an idle queue too; a WaitForAll, all
\* operations of its thread.
WaitSees ==
  \A o, p \in Ops :
    /\ Before(p, o) /\ Over(o)
    /\ \/ CallOf(o).call = "wait" /\ Mutates(p, CallOf(o).const_vars[1])
       \/ CallOf(o).call = "waitall"
    => p \in executed

\* When a WaitForVar returns normally although an earlier operation of the
\* same thread on the variable failed or was skipped, its exception has been
\* thrown to some waiting thread, or the one that has replaced it in the
\* variable has: a failure does not pass unnoticed.
FailureReported ==
  [][\A o, p \in Ops :
       LET v == CallOf(o).const_vars[1] IN
       /\ returned[o] = None /\ returned'[o] = "normally"
       /\ Before(p, o) /\ Mutates(p, v) /\ opr_exception[p] # None
       => {opr_exception[p], var_exception[v]} \cap thrown # {}]_vars

\* Every operation pushed is executed and every call returns.
Completes == <>Done
=============================================================================
