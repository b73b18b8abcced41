---------------------------- MODULE EngineProofs -----------------------------
(***************************************************************************)
(* The dependency engine for any number of threads, any programs and any   *)
(* variables: conflicting operations never run together and run in the     *)
(* order of their pushes, the waits see what they wait for, and failures   *)
(* are reported (EngineConflictsOrdered, EngineWaitSees,                   *)
(* EngineFailureReported).                                                 *)
(*                                                                         *)
(* None of the three is inductive.  The engine knows of an operation only  *)
(* through counters and queues: its wait, and for every variable a queue   *)
(* and num_pending_reads_, which are updated one variable at a time while  *)
(* other threads push and other operations complete.  The invariant IInv   *)
(* says what these stand for in between.  A variable is joined by an       *)
(* operation when Push has gone past it, and left when OnComplete has; in  *)
(* between the operation is live there, and granted the variable or        *)
(* queued.  A grant found by OnComplete is in flight until the pool thread *)
(* has decremented the wait it belongs to.  The wait of an operation is    *)
(* then the number of variables that it misses, so an operation that is in *)
(* the pool holds all of its variables, as the only writer or with other   *)
(* readers; the rest follows.                                              *)
(***************************************************************************)
EXTENDS Engine, TLAPS

\* The prover of a step that does not name one.
USE ZenonT(30)

-----------------------------------------------------------------------------
(* Where an operation is *)

\* Pushed: it waits for something, is in the pool, or has run.
Begun(o) == wait[o] > 0 \/ o \in ready \cup running \cup executed

\* Push is going through its variables.
Adding(o) == at[o[1]] = "push" /\ o[2] = next[o[1]]

\* The place of a variable among those of the operation.
Pos(o, v) == CHOOSE k \in 1 .. Len(Vars(o)) : Vars(o)[k] = v

\* The variable knows the operation; it has seen its end.
Joined(o, v) == Uses(o, v) /\ Begun(o) /\ (Adding(o) => Pos(o, v) <= appended[o[1]])
Left(o, v) == Uses(o, v) /\ Pos(o, v) <= completed[o]
Live(o, v) == Joined(o, v) /\ ~Left(o, v)

\* In the queue of the variable; at its head, with the variable marked for it;
\* granted the variable, as the writer at the head or as a reader that has
\* left the queue or never was in it.
Queued(o, v) == \E i \in 1 .. Len(queue[v]) : queue[v][i].trigger = o
Writing(o, v) ==
  num_pending_reads_[v] = kWriteTriggered /\ queue[v] # <<>> /\ queue[v][1].trigger = o
Granted(o, v) == Live(o, v) /\ (Queued(o, v) => Writing(o, v))

\* Granted, but the pool thread that has found out has still to count it.
Sends(p, o, v) ==
  /\ completed[p] > 0 /\ v = Vars(p)[completed[p]]
  /\ \E i \in 1 .. Len(triggers[p]) : triggers[p][i] = o
InFlight(o, v) == \E p \in Ops : Sends(p, o, v)

\* The variables that the operation waits for.
Missing(o) ==
  {v \in Var : /\ Uses(o, v) /\ ~Left(o, v)
               /\ ~(Granted(o, v) /\ ~InFlight(o, v))}

-----------------------------------------------------------------------------
(* The invariant *)

\* A thread is within its program, and inside a call only after beginning one.
ThreadOK(t) == next[t] <= Len(Program[t]) /\ (at[t] # "idle" => next[t] > 0)
Threads == \A t \in Thread : ThreadOK(t)

\* The operation of a thread that is inside a call has been pushed, and Push is
\* within its variables.
PlaceOK(o) ==
  /\ o[2] = next[o[1]] /\ at[o[1]] # "idle" => Begun(o)
  /\ Adding(o) => appended[o[1]] <= Len(Vars(o))
  /\ o[2] = next[o[1]] /\ at[o[1]] = "wait" => CallOf(o).call = "wait"
Places == \A o \in Ops : PlaceOK(o)

\* What is pushed is what its thread has come to; an operation waits, is in the
\* pool, runs, has run and is finished, in this order, and completes its
\* variables only after it has run.
StageOK(o) ==
  /\ Begun(o) => o[2] <= next[o[1]] /\ CallOf(o).call \in {"push", "wait"}
  /\ o[2] <= next[o[1]] /\ CallOf(o).call = "push" => Begun(o)
  /\ wait[o] > 0 => o \notin ready \cup running \cup executed
  /\ o \in ready => o \notin running \cup executed
  /\ o \in executed => o \in running \/ o \in finished
  /\ o \in finished => o \notin running
  /\ completed[o] > 0 \/ triggers[o] # <<>> => o \in executed
  /\ completed[o] <= Len(Vars(o))
  /\ o \in finished => completed[o] = Len(Vars(o)) /\ triggers[o] = <<>>
  /\ triggers[o] # <<>> => completed[o] > 0
Stages == \A o \in Ops : StageOK(o)

\* The counter of an operation: what it waits for, and the push itself.
CountOK(o) == Begun(o) => wait[o] = Cardinality(Missing(o)) + (IF Adding(o) THEN 1 ELSE 0)
Counts == \A o \in Ops : CountOK(o)

\* The operations that num_pending_reads_ counts.
Readers(v) == {o \in Ops : Live(o, v) /\ ~Queued(o, v)}

\* A variable: its queue holds live operations, each once, all live writers
\* among them, and begins with a writer that waits for the readers or has been
\* triggered; num_pending_reads_ is the number of readers, or the mark of the
\* writer at the head when there are none.
VarOK(v) ==
  /\ \A i \in 1 .. Len(queue[v]) :
       \A o \in Ops : queue[v][i].trigger = o => Live(o, v) /\ (queue[v][i].write <=> Mutates(o, v))
  /\ \A i, j \in 1 .. Len(queue[v]) : queue[v][i].trigger = queue[v][j].trigger => i = j
  /\ \A o \in Ops : Live(o, v) /\ Mutates(o, v) => Queued(o, v)
  /\ queue[v] # <<>> => queue[v][1].write /\ num_pending_reads_[v] # 0
  /\ IsFiniteSet(Readers(v))
  /\ IF num_pending_reads_[v] = kWriteTriggered
       THEN queue[v] # <<>> /\ Readers(v) = {}
       ELSE num_pending_reads_[v] = Cardinality(Readers(v))
Variables == \A v \in Var : VarOK(v)

\* What OnComplete of an operation has still to trigger has been granted the
\* variable it has just left, is there once, and no other OnComplete has it.
FlightOK(p) ==
  /\ \A h \in Ops, v \in Var : Sends(p, h, v) => Granted(h, v)
  /\ \A i, j \in 1 .. Len(triggers[p]) : triggers[p][i] = triggers[p][j] => i = j
  /\ \A q, h \in Ops, v \in Var : Sends(p, h, v) /\ Sends(q, h, v) => p = q
Flights == \A p \in Ops : FlightOK(p)

\* Of two conflicting operations of a thread the later one is queued behind the
\* earlier one while this is live.
Ordered ==
  \A o, p \in Ops, v \in Var :
    /\ Before(p, o) /\ ConflictOn(o, p, v) /\ Live(p, v) /\ Joined(o, v)
    => \E j \in 1 .. Len(queue[v]) :
         /\ queue[v][j].trigger = o
         /\ \A i \in 1 .. Len(queue[v]) : queue[v][i].trigger = p => i < j

\* An operation that has been started found the earlier ones of its thread that
\* it conflicts with gone from the variable.
Ran ==
  \A o, p \in Ops, v \in Var :
    o \in running \cup executed /\ Before(p, o) /\ ConflictOn(o, p, v) => Left(p, v)

\* pending_ counts the operations pushed and not finished.
Unfinished == {o \in Ops : Begun(o)} \ finished
PendingCount == IsFiniteSet(Unfinished) /\ pending_ = Cardinality(Unfinished)

\* The exception of an operation that has left a variable it mutates has been
\* thrown, or the variable holds one.
Exceptions ==
  \A p \in Ops, v \in Var :
    Mutates(p, v) /\ Left(p, v) /\ opr_exception[p] # None =>
      opr_exception[p] \in thrown \/ var_exception[v] # None

\* The inductive invariant.
IInv ==
  /\ TypeOK /\ Threads /\ Places /\ Stages /\ Counts /\ Variables /\ Flights
  /\ Ordered /\ Ran /\ PendingCount /\ WaitSees /\ Exceptions

\* The facts on finite sets and numbers that the proofs use.  CountingHolds proves them, at
\* the end; the lemmas before it that count something assume them.
CountType == \A S : IsFiniteSet(S) => Cardinality(S) \in Nat
CountEmpty ==
  /\ IsFiniteSet({}) /\ Cardinality({}) = 0
  /\ \A S : IsFiniteSet(S) => (Cardinality(S) = 0 <=> S = {})
CountSubset == \A S, T : IsFiniteSet(S) /\ T \subseteq S => IsFiniteSet(T)
CountAdd ==
  \A S, x : IsFiniteSet(S) /\ x \notin S =>
    IsFiniteSet(S \cup {x}) /\ Cardinality(S \cup {x}) = Cardinality(S) + 1
CountRemove ==
  \A S, x : IsFiniteSet(S) /\ x \in S =>
    IsFiniteSet(S \ {x}) /\ Cardinality(S \ {x}) = Cardinality(S) - 1
CountInterval == \A n \in Nat : IsFiniteSet(1 .. n) /\ Cardinality(1 .. n) = n
CountBijection ==
  \A S, T : IsFiniteSet(S) /\ ExistsBijection(S, T) =>
    IsFiniteSet(T) /\ Cardinality(T) = Cardinality(S)
LeastNumber == \A T : T \subseteq Nat /\ T # {} => \E n \in T : \A m \in T : n <= m
Counting ==
  /\ CountType /\ CountEmpty /\ CountSubset /\ CountAdd /\ CountRemove
  /\ CountInterval /\ CountBijection /\ LeastNumber

-----------------------------------------------------------------------------
(* Programs *)

\* An operation is a place in a program.
LEMMA OpsFacts ==
  /\ \A o \in Ops : /\ o[1] \in Thread /\ o[2] \in 1 .. Len(Program[o[1]])
                    /\ o = <<o[1], o[2]>> /\ CallOf(o) \in Call
  /\ \A t \in Thread : Len(Program[t]) \in Nat
  /\ \A t \in Thread, n \in Nat :
       /\ <<t, n>> \in Ops <=> n \in 1 .. Len(Program[t])
       /\ <<t, n>>[1] = t /\ <<t, n>>[2] = n
<1>1. \A t \in Thread : Program[t] \in Seq(Call) /\ Len(Program[t]) \in Nat
  BY ProgramAssumption, SMTT(20)
<1>2. ASSUME NEW o \in Ops
      PROVE  /\ o[1] \in Thread /\ o[2] \in 1 .. Len(Program[o[1]])
             /\ o = <<o[1], o[2]>> /\ CallOf(o) \in Call
  <2>1. PICK t \in Thread : o \in {t} \X (1 .. Len(Program[t]))
    BY DEF Ops
  <2>2. o[1] = t /\ o[2] \in 1 .. Len(Program[t]) /\ o = <<o[1], o[2]>>
    BY <2>1, SMTT(20)
  <2>3. Program[t][o[2]] \in Call
    BY <1>1, <2>2, SMTT(20)
  <2> QED
    BY <2>2, <2>3 DEF CallOf
<1>3. ASSUME NEW t \in Thread, NEW n \in Nat
      PROVE  /\ <<t, n>> \in Ops <=> n \in 1 .. Len(Program[t])
             /\ <<t, n>>[1] = t /\ <<t, n>>[2] = n
  <2>1. <<t, n>>[1] = t /\ <<t, n>>[2] = n
    OBVIOUS
  <2>2. ASSUME <<t, n>> \in Ops PROVE n \in 1 .. Len(Program[t])
    BY <1>2, <2>1, <2>2
  <2>3. ASSUME n \in 1 .. Len(Program[t]) PROVE <<t, n>> \in Ops
    BY <2>3, SMTT(20) DEF Ops
  <2> QED
    BY <2>1, <2>2, <2>3
<1> QED
  BY <1>1, <1>2, <1>3

\* Two operations with the same place are the same.
LEMMA OpsEqual ==
  ASSUME NEW o \in Ops, NEW p \in Ops, o[1] = p[1], o[2] = p[2]
  PROVE  o = p
BY OpsFacts

\* The variables of an operation are its const_vars followed by its mutable_vars.
LEMMA VarsFacts ==
  ASSUME NEW o \in Ops
  PROVE  LET c == CallOf(o).const_vars  m == CallOf(o).mutable_vars IN
         /\ c \in Seq(Var) /\ m \in Seq(Var) /\ Vars(o) \in Seq(Var)
         /\ Len(c) \in Nat /\ Len(m) \in Nat /\ Len(Vars(o)) = Len(c) + Len(m)
         /\ \A k \in 1 .. Len(Vars(o)) :
              Vars(o)[k] = IF k <= Len(c) THEN c[k] ELSE m[k - Len(c)]
<1>1. CallOf(o) \in Call
  BY OpsFacts
<1>2. CallOf(o).const_vars \in Seq(Var) /\ CallOf(o).mutable_vars \in Seq(Var)
  BY <1>1 DEF Call
<1>3. PICK c, m : c = CallOf(o).const_vars /\ m = CallOf(o).mutable_vars
  OBVIOUS
<1>4. c \in Seq(Var) /\ m \in Seq(Var) /\ Vars(o) = c \o m
  BY <1>2, <1>3 DEF Vars
<1>5. /\ c \o m \in Seq(Var) /\ Len(c) \in Nat /\ Len(m) \in Nat /\ Len(c \o m) = Len(c) + Len(m)
      /\ \A k \in 1 .. Len(c) + Len(m) : (c \o m)[k] = IF k <= Len(c) THEN c[k] ELSE m[k - Len(c)]
  BY <1>4, SMTT(20)
<1>6. /\ Vars(o) \in Seq(Var) /\ Len(Vars(o)) = Len(c) + Len(m)
      /\ \A k \in 1 .. Len(Vars(o)) : Vars(o)[k] = IF k <= Len(c) THEN c[k] ELSE m[k - Len(c)]
  BY <1>4, <1>5
<1> QED
  BY <1>3, <1>4, <1>5, <1>6, Zenon

\* What an operation uses, by place.
LEMMA UsesFacts ==
  ASSUME NEW o \in Ops
  PROVE  /\ \A v : Uses(o, v) <=> \E k \in 1 .. Len(Vars(o)) : Vars(o)[k] = v
         /\ \A v : Mutates(o, v) =>
              \E k \in 1 .. Len(Vars(o)) : Vars(o)[k] = v /\ ~Reads(o, k)
         /\ \A k \in 1 .. Len(Vars(o)) : ~Reads(o, k) => Mutates(o, Vars(o)[k])
         /\ Len(Vars(o)) \in Nat
         /\ \A k \in 1 .. Len(Vars(o)) : Vars(o)[k] \in Var
<1> DEFINE c == CallOf(o).const_vars
           m == CallOf(o).mutable_vars
<1>1. /\ c \in Seq(Var) /\ m \in Seq(Var) /\ Vars(o) \in Seq(Var)
      /\ Len(c) \in Nat /\ Len(m) \in Nat /\ Len(Vars(o)) = Len(c) + Len(m)
      /\ \A k \in 1 .. Len(Vars(o)) : Vars(o)[k] = IF k <= Len(c) THEN c[k] ELSE m[k - Len(c)]
  BY VarsFacts
<1> HIDE DEF c, m
<1>2. ASSUME NEW v PROVE Uses(o, v) <=> \E k \in 1 .. Len(Vars(o)) : Vars(o)[k] = v
  <2>1. DOMAIN Vars(o) = 1 .. Len(Vars(o))
    BY <1>1, SMTT(20)
  <2> QED
    BY <2>1, Zenon DEF Uses, Range
<1>3. ASSUME NEW v, Mutates(o, v)
      PROVE  \E k \in 1 .. Len(Vars(o)) : Vars(o)[k] = v /\ ~Reads(o, k)
  <2>1. PICK i \in 1 .. Len(m) : m[i] = v
    BY <1>1, <1>3, SMTT(20) DEF Mutates, Range, m
  <2>2. /\ Len(c) + i \in 1 .. Len(Vars(o)) /\ ~(Len(c) + i <= Len(c))
        /\ (Len(c) + i) - Len(c) = i
    BY <1>1, SMTT(20)
  <2>3. Vars(o)[Len(c) + i] = m[(Len(c) + i) - Len(c)]
    BY <1>1, <2>2
  <2>4. Vars(o)[Len(c) + i] = v
    BY <2>1, <2>2, <2>3
  <2> QED
    BY <2>2, <2>4 DEF Reads, c
<1>4. ASSUME NEW k \in 1 .. Len(Vars(o)), ~Reads(o, k) PROVE Mutates(o, Vars(o)[k])
  <2>1. ~(k <= Len(c)) /\ k - Len(c) \in 1 .. Len(m)
    BY <1>1, <1>4, SMTT(20) DEF Reads, c
  <2>2. Vars(o)[k] = m[k - Len(c)]
    BY <1>1, <2>1
  <2> QED
    BY <1>1, <2>1, <2>2, SMTT(20) DEF Mutates, Range, m
<1>5. \A k \in 1 .. Len(Vars(o)) : Vars(o)[k] \in Var
  BY <1>1, SMTT(20)
<1> QED
  BY <1>1, <1>2, <1>3, <1>4, <1>5, SMTT(20)

\* A variable has one place.
LEMMA PosFacts ==
  ASSUME NEW o \in Ops
  PROVE  /\ \A v : Uses(o, v) =>
              Pos(o, v) \in 1 .. Len(Vars(o)) /\ Vars(o)[Pos(o, v)] = v /\ v \in Var
         /\ \A k \in 1 .. Len(Vars(o)) : Uses(o, Vars(o)[k]) /\ Pos(o, Vars(o)[k]) = k
         /\ \A v : Mutates(o, v) => Uses(o, v)
         /\ \A v : Uses(o, v) => (Reads(o, Pos(o, v)) <=> ~Mutates(o, v))
<1>1. \A j, k \in 1 .. Len(Vars(o)) : Vars(o)[j] = Vars(o)[k] => j = k
  BY ProgramAssumption
<1>2. ASSUME NEW v, Uses(o, v)
      PROVE  Pos(o, v) \in 1 .. Len(Vars(o)) /\ Vars(o)[Pos(o, v)] = v /\ v \in Var
  <2>1. \E k \in 1 .. Len(Vars(o)) : Vars(o)[k] = v
    BY <1>2, UsesFacts
  <2>2. Pos(o, v) \in 1 .. Len(Vars(o)) /\ Vars(o)[Pos(o, v)] = v
    BY <2>1 DEF Pos
  <2> QED
    BY <2>2, UsesFacts
<1>3. ASSUME NEW k \in 1 .. Len(Vars(o)) PROVE Uses(o, Vars(o)[k]) /\ Pos(o, Vars(o)[k]) = k
  <2>1. Uses(o, Vars(o)[k])
    BY UsesFacts
  <2> QED
    BY <1>1, <1>2, <2>1
<1>4. ASSUME NEW v, Mutates(o, v) PROVE Uses(o, v)
  BY <1>4, UsesFacts
<1>5. ASSUME NEW v, Uses(o, v) PROVE Reads(o, Pos(o, v)) <=> ~Mutates(o, v)
  <2>1. Pos(o, v) \in 1 .. Len(Vars(o)) /\ Vars(o)[Pos(o, v)] = v
    BY <1>2, <1>5
  <2>2. ~Reads(o, Pos(o, v)) => Mutates(o, v)
    BY <2>1, UsesFacts
  <2>3. ASSUME Mutates(o, v) PROVE ~Reads(o, Pos(o, v))
    <3>1. PICK k \in 1 .. Len(Vars(o)) : Vars(o)[k] = v /\ ~Reads(o, k)
      BY <2>3, UsesFacts
    <3> QED
      BY <1>1, <2>1, <3>1
  <2> QED
    BY <2>2, <2>3
<1> QED
  BY <1>2, <1>3, <1>4, <1>5

\* There are as many variables as places.
LEMMA VarsCount ==
  ASSUME Counting, NEW o \in Ops
  PROVE  LET U == {v \in Var : Uses(o, v)} IN
         IsFiniteSet(U) /\ Cardinality(U) = Len(Vars(o))
<1> DEFINE U == {v \in Var : Uses(o, v)}
           D == 1 .. Len(Vars(o))
           f == [k \in D |-> Vars(o)[k]]
<1>1. Len(Vars(o)) \in Nat
  BY UsesFacts
<1>2. f \in Bijection(D, U)
  <2>1. \A k \in D : Vars(o)[k] \in U
    BY UsesFacts, PosFacts
  <2>2. f \in [D -> U]
    BY <2>1
  <2>3. \A j, k \in D : f[j] = f[k] => j = k
    BY ProgramAssumption
  <2>4. \A v \in U : \E k \in D : f[k] = v
    BY UsesFacts
  <2> QED
    BY <2>2, <2>3, <2>4 DEF Bijection, Injection, Surjection, IsInjective
<1>3. IsFiniteSet(D) /\ Cardinality(D) = Len(Vars(o))
  BY <1>1 DEF Counting, CountInterval
<1>4. ExistsBijection(D, U)
  BY <1>2 DEF ExistsBijection
<1> QED
  BY <1>3, <1>4 DEF Counting, CountBijection

-----------------------------------------------------------------------------
(* Sequences *)

\* The length of the read chain is what its definition asks for.
LEMMA ReadChainFacts ==
  ASSUME Counting, NEW s \in Seq([trigger : Ops, write : BOOLEAN])
  PROVE  /\ ReadChain(s) \in 0 .. Len(s)
         /\ \A i \in 1 .. ReadChain(s) : ~s[i].write
         /\ ReadChain(s) = Len(s) \/ s[ReadChain(s) + 1].write
<1> DEFINE Q(n) == /\ \A i \in 1 .. n : ~s[i].write
                   /\ n = Len(s) \/ s[n + 1].write
           T == {i \in 1 .. Len(s) : s[i].write}
<1>1. Len(s) \in Nat
  BY SMTT(20)
<1>2. \E n \in 0 .. Len(s) : Q(n)
  <2>1. CASE T = {}
    <3>1. Len(s) \in 0 .. Len(s) /\ \A i \in 1 .. Len(s) : ~s[i].write
      BY <1>1, <2>1, SMTT(20)
    <3> QED
      BY <3>1
  <2>2. CASE T # {}
    <3>1. T \subseteq Nat
      BY <1>1, SMTT(20)
    <3>2. PICK n \in T : \A m \in T : n <= m
      BY <2>2, <3>1 DEF Counting, LeastNumber
    <3>3. n - 1 \in 0 .. Len(s) /\ s[(n - 1) + 1].write
      BY <1>1, <3>2, SMTT(20)
    <3>4. \A i \in 1 .. n - 1 : ~s[i].write
      BY <1>1, <3>2, SMTT(20)
    <3> QED
      BY <3>3, <3>4
  <2> QED
    BY <2>1, <2>2
<1>3. ReadChain(s) = CHOOSE n \in 0 .. Len(s) : Q(n)
  BY DEF ReadChain
<1>4. ReadChain(s) \in 0 .. Len(s) /\ Q(ReadChain(s))
  BY <1>2, <1>3, Zenon
<1> QED
  BY <1>4

\* What is left of a sequence without its head and the n elements after it.
LEMMA Dropped ==
  ASSUME NEW S, NEW s \in Seq(S), s # <<>>, NEW n \in 0 .. Len(s) - 1
  PROVE  LET t == SubSeq(Tail(s), n + 1, Len(Tail(s))) IN
         /\ t \in Seq(S) /\ Len(t) = (Len(s) - 1) - n
         /\ \A i \in 1 .. Len(t) : t[i] = s[(i + n) + 1] /\ (i + n) + 1 \in 1 .. Len(s)
<1>0. Len(s) \in Nat /\ Len(s) > 0
  BY SMTT(20)
<1>1. PICK r : r = Tail(s)
  OBVIOUS
<1>2. r \in Seq(S) /\ Len(r) = Len(s) - 1 /\ \A i \in 1 .. Len(r) : r[i] = s[i + 1]
  BY <1>1, SMTT(20)
<1>3. PICK t : t = SubSeq(r, n + 1, Len(r))
  OBVIOUS
<1>4. /\ t \in Seq(S) /\ Len(t) = Len(r) - n
      /\ \A i \in 1 .. Len(t) : t[i] = r[i + n]
  <2>1. n \in Nat /\ Len(r) \in Nat /\ n <= Len(r)
    BY <1>0, <1>2, SMTT(20)
  <2>2. t = [i \in 1 .. (Len(r) - n) |-> r[i + n]]
    <3>1. SubSeq(r, n + 1, Len(r)) = [i \in 1 .. ((Len(r) - (n + 1)) + 1) |-> r[(i + (n + 1)) - 1]]
      BY <1>2, <2>1, SMTT(20)
    <3>2. (Len(r) - (n + 1)) + 1 = Len(r) - n
      BY <2>1, SMTT(20)
    <3>3. \A i \in 1 .. (Len(r) - n) : (i + (n + 1)) - 1 = i + n
      BY <2>1, SMTT(20)
    <3> QED
      BY <1>3, <3>1, <3>2, <3>3
  <2>3. \A i \in 1 .. (Len(r) - n) : r[i + n] \in S
    BY <1>2, <2>1, SMTT(20)
  <2>4. Len(r) - n \in Nat
    BY <2>1, SMTT(20)
  <2>5. t \in Seq(S) /\ Len(t) = Len(r) - n
    BY <2>2, <2>3, <2>4, SMTT(20)
  <2> QED
    BY <2>2, <2>5
<1>5. \A i \in 1 .. Len(t) : t[i] = s[(i + n) + 1] /\ (i + n) + 1 \in 1 .. Len(s)
  <2> SUFFICES ASSUME NEW i \in 1 .. Len(t)
               PROVE  t[i] = s[(i + n) + 1] /\ (i + n) + 1 \in 1 .. Len(s)
    OBVIOUS
  <2>1. i + n \in 1 .. Len(r) /\ (i + n) + 1 \in 1 .. Len(s)
    BY <1>0, <1>2, <1>4, SMTT(20)
  <2> QED
    BY <1>2, <1>4, <2>1
<1>6. Len(t) = (Len(s) - 1) - n
  BY <1>2, <1>4
<1> QED
  BY <1>1, <1>3, <1>4, <1>5, <1>6

\* A sequence without its head.
LEMMA TailFacts ==
  ASSUME NEW S, NEW s \in Seq(S), s # <<>>
  PROVE  /\ Tail(s) \in Seq(S) /\ Len(Tail(s)) = Len(s) - 1 /\ Head(s) = s[1]
         /\ \A i \in 1 .. Len(Tail(s)) : Tail(s)[i] = s[i + 1] /\ i + 1 \in 1 .. Len(s)
         /\ Len(s) \in Nat /\ Len(s) >= 1 /\ s[1] \in S
BY SMTT(20)

\* A sequence with a new last element.
LEMMA AppendFacts ==
  ASSUME NEW S, NEW s \in Seq(S), NEW e \in S
  PROVE  /\ Append(s, e) \in Seq(S) /\ Len(Append(s, e)) = Len(s) + 1
         /\ Append(s, e)[Len(s) + 1] = e /\ Len(s) \in Nat
         /\ \A i \in 1 .. Len(s) : Append(s, e)[i] = s[i]
         /\ s = <<>> <=> Len(s) = 0
BY SMTT(20)

\* The blocks of a queue.
LEMMA BlockFacts ==
  ASSUME NEW s \in Seq([trigger : Ops, write : BOOLEAN])
  PROVE  /\ Len(s) \in Nat
         /\ \A i \in 1 .. Len(s) :
              s[i] \in [trigger : Ops, write : BOOLEAN] /\ s[i].trigger \in Ops /\ s[i].write \in BOOLEAN
<1> DEFINE B == [trigger : Ops, write : BOOLEAN]
<1>1. \A e \in B : e.trigger \in Ops /\ e.write \in BOOLEAN
  OBVIOUS
<1> HIDE DEF B
<1>2. s \in Seq(B)
  BY DEF B
<1>3. Len(s) \in Nat /\ \A i \in 1 .. Len(s) : s[i] \in B
  BY <1>2, SMTT(20)
<1> QED
  BY <1>1, <1>3 DEF B

\* Different elements are counted by their places.
LEMMA Counted ==
  ASSUME Counting, NEW n \in Nat, NEW f, NEW R, R = {f[i] : i \in 1 .. n},
         \A i, j \in 1 .. n : f[i] = f[j] => i = j
  PROVE  IsFiniteSet(R) /\ Cardinality(R) = n
<1> DEFINE D == 1 .. n
           g == [i \in D |-> f[i]]
<1>1. g \in Bijection(D, R)
  <2>1. g \in [D -> R]
    OBVIOUS
  <2>2. \A i, j \in D : g[i] = g[j] => i = j
    OBVIOUS
  <2>3. \A r \in R : \E i \in D : g[i] = r
    OBVIOUS
  <2> QED
    BY <2>1, <2>2, <2>3 DEF Bijection, Injection, Surjection, IsInjective
<1>2. ExistsBijection(D, R)
  BY <1>1 DEF ExistsBijection
<1>3. IsFiniteSet(D) /\ Cardinality(D) = n
  BY DEF Counting, CountInterval
<1> QED
  BY <1>2, <1>3 DEF Counting, CountBijection

-----------------------------------------------------------------------------
(* Steps that no variable notices *)

\* OnComplete begins after the function and ends with all variables left.
LEMMA LeftFacts ==
  ASSUME TypeOK, Stages, NEW o \in Ops, NEW v
  PROVE  /\ Left(o, v) => o \in executed
         /\ o \in finished /\ Uses(o, v) => Left(o, v)
<1>1. completed[o] \in Nat /\ StageOK(o)
  BY DEF TypeOK, Stages
<1>2. Uses(o, v) => Pos(o, v) \in 1 .. Len(Vars(o))
  BY PosFacts
<1>3. Left(o, v) => completed[o] > 0
  BY <1>1, <1>2, SMTT(20) DEF Left
<1>4. o \in finished /\ Uses(o, v) => Pos(o, v) <= completed[o]
  BY <1>1, <1>2, SMTT(20) DEF StageOK
<1> QED
  BY <1>1, <1>3, <1>4 DEF Left, StageOK

\* A variable notices a step only when the operations it knows change, or its
\* queue, its count or the completions.
LEMMA VariablesQuiet ==
  ASSUME TypeOK, Variables, Ordered,
         UNCHANGED <<num_pending_reads_, queue, completed>>,
         \A p \in Ops, u \in Var : Joined(p, u)' <=> Joined(p, u)
  PROVE  /\ Variables' /\ Ordered'
         /\ \A p \in Ops, u \in Var : (Left(p, u)' <=> Left(p, u)) /\ (Granted(p, u)' <=> Granted(p, u))
<1>0. num_pending_reads_' = num_pending_reads_ /\ queue' = queue /\ completed' = completed
  OBVIOUS
<1>1. \A p \in Ops, u \in Var : Left(p, u)' <=> Left(p, u)
  BY <1>0 DEF Left
<1>2. \A p \in Ops, u \in Var : Live(p, u)' <=> Live(p, u)
  BY <1>1 DEF Live
<1>3. \A p \in Ops, u \in Var : (Queued(p, u)' <=> Queued(p, u)) /\ (Writing(p, u)' <=> Writing(p, u))
  BY <1>0 DEF Queued, Writing
<1>4. \A p \in Ops, u \in Var : Granted(p, u)' <=> Granted(p, u)
  BY <1>2, <1>3 DEF Granted
<1>5. \A u \in Var : Readers(u)' = Readers(u)
  BY <1>2, <1>3 DEF Readers
<1>6. Variables'
  <2> SUFFICES ASSUME NEW u \in Var PROVE VarOK(u)'
    BY DEF Variables
  <2>1. VarOK(u)
    BY DEF Variables
  <2>2. Readers(u)' = Readers(u)
    BY <1>5
  <2>3. \A p \in Ops : (Live(p, u)' <=> Live(p, u)) /\ (Queued(p, u)' <=> Queued(p, u))
    BY <1>2, <1>3
  <2> QED
    BY <1>0, <2>1, <2>2, <2>3 DEF VarOK
<1>7. Ordered'
  BY <1>0, <1>2, SMTT(20) DEF Ordered
<1> QED
  BY <1>1, <1>4, <1>6, <1>7

\* If in addition nobody is triggered, nothing is granted or missing anew.
LEMMA QuietStep ==
  ASSUME TypeOK, Variables, Flights, Ordered,
         UNCHANGED <<num_pending_reads_, queue, completed, triggers>>,
         \A p \in Ops, u \in Var : Joined(p, u)' <=> Joined(p, u)
  PROVE  /\ Variables' /\ Flights' /\ Ordered'
         /\ \A p \in Ops : Missing(p)' = Missing(p)
         /\ \A p \in Ops, u \in Var : Left(p, u)' <=> Left(p, u)
<1>0. completed' = completed /\ triggers' = triggers
  OBVIOUS
<1>1. /\ Variables' /\ Ordered'
      /\ \A p \in Ops, u \in Var : (Left(p, u)' <=> Left(p, u)) /\ (Granted(p, u)' <=> Granted(p, u))
  BY VariablesQuiet
<1>2. \A p, h \in Ops, u \in Var : Sends(p, h, u)' <=> Sends(p, h, u)
  BY <1>0 DEF Sends
<1>3. \A p \in Ops, u \in Var : InFlight(p, u)' <=> InFlight(p, u)
  BY <1>2 DEF InFlight
<1>4. \A p \in Ops : Missing(p)' = Missing(p)
  BY <1>1, <1>3 DEF Missing
<1>5. Flights'
  <2> SUFFICES ASSUME NEW p \in Ops PROVE FlightOK(p)'
    BY DEF Flights
  <2>1. FlightOK(p)
    BY DEF Flights
  <2> QED
    BY <1>0, <1>1, <1>2, <2>1 DEF FlightOK
<1> QED
  BY <1>1, <1>4, <1>5

\* What a variable knows of an operation it knows from its counter, its stage
\* and the push.
LEMMA JoinedKept ==
  ASSUME NEW o \in Ops, Begun(o)' <=> Begun(o), Adding(o)' <=> Adding(o),
         Adding(o) => appended'[o[1]] = appended[o[1]], NEW v
  PROVE  Joined(o, v)' <=> Joined(o, v)
BY DEF Joined

\* Counters follow what is missing.
LEMMA CountKept ==
  ASSUME NEW o \in Ops, CountOK(o), Missing(o)' = Missing(o), Adding(o)' <=> Adding(o),
         Begun(o)' => Begun(o), Begun(o) => wait'[o] = wait[o]
  PROVE  CountOK(o)'
BY DEF CountOK

\* What has run stays ordered as long as nothing starts to run.
LEMMA RanKept ==
  ASSUME Ran, running' \cup executed' \subseteq running \cup executed,
         \A p \in Ops, u \in Var : Left(p, u) => Left(p, u)'
  PROVE  Ran'
BY DEF Ran

\* What an operation misses is among its variables.
LEMMA MissingFinite ==
  ASSUME Counting, NEW o \in Ops
  PROVE  IsFiniteSet(Missing(o)) /\ Cardinality(Missing(o)) \in Nat
<1>1. Missing(o) \subseteq {v \in Var : Uses(o, v)}
  BY DEF Missing
<1>2. IsFiniteSet({v \in Var : Uses(o, v)})
  BY VarsCount
<1> QED
  BY <1>1, <1>2 DEF Counting, CountSubset, CountType

\* WaitForVar reads its variable.
LEMMA WaitFacts ==
  ASSUME NEW o \in Ops, CallOf(o).call = "wait"
  PROVE  CallOf(o).const_vars[1] \in Var /\ Uses(o, CallOf(o).const_vars[1])
<1>1. PICK c : c = CallOf(o).const_vars
  OBVIOUS
<1>2. Len(c) = 1 /\ c \in Seq(Var)
  BY <1>1, ProgramAssumption, VarsFacts
<1>3. Len(Vars(o)) \in Nat /\ 1 \in 1 .. Len(Vars(o)) /\ Vars(o)[1] = c[1]
  <2> PICK m, w : m = CallOf(o).mutable_vars /\ w = Vars(o)
    OBVIOUS
  <2>1. /\ Len(m) \in Nat /\ Len(w) = Len(c) + Len(m)
        /\ \A k \in 1 .. Len(w) : w[k] = IF k <= Len(c) THEN c[k] ELSE m[k - Len(c)]
    BY <1>1, VarsFacts, Zenon
  <2>2. Len(w) \in Nat /\ 1 \in 1 .. Len(w) /\ 1 <= Len(c)
    BY <1>2, <2>1, SMTT(20)
  <2> QED
    BY <2>1, <2>2
<1>4. c[1] \in Var
  BY <1>2, SMTT(20)
<1> QED
  BY <1>1, <1>3, <1>4, PosFacts

\* A wait that is over stays over, and what it has seen stays executed.
LEMMA WaitSeesKept ==
  ASSUME WaitSees, executed \subseteq executed',
         \A o \in Ops : Over(o)' /\ CallOf(o).call # "push" => Over(o)
  PROVE  WaitSees'
BY DEF WaitSees

\* pending_ counts the same operations.
LEMMA PendingKept ==
  ASSUME PendingCount, pending_' = pending_, finished' = finished, \A o \in Ops : Begun(o)' <=> Begun(o)
  PROVE  PendingCount'
<1>1. Unfinished' = Unfinished
  BY DEF Unfinished
<1> QED
  BY <1>1 DEF PendingCount

\* A failure that a variable has learned of stays known.
LEMMA ExceptionsKept ==
  ASSUME Exceptions, opr_exception' = opr_exception, thrown \subseteq thrown',
         var_exception' = var_exception,
         \A p \in Ops, u \in Var : Left(p, u)' => Left(p, u)
  PROVE  Exceptions'
BY DEF Exceptions

-----------------------------------------------------------------------------
(* Steps of the threads that no variable notices *)

\* Push creates a block that counts all its variables as missing.
LEMMA PushInv ==
  ASSUME Counting, IInv, NEW t \in process, Push(t)
  PROVE  IInv'
<1>0. TypeOK /\ t \in Thread /\ next[t] \in Nat /\ at[t] = "idle"
  BY ProgramAssumption DEF IInv, TypeOK, Push
<1> PICK o : o = <<t, next[t] + 1>>
  OBVIOUS
<1>1. o \in Ops /\ o[1] = t /\ o[2] = next[t] + 1 /\ o[2] <= Len(Program[t])
  <2>1. o \in Ops
    BY DEF Push
  <2> QED
    BY <1>0, <2>1, OpsFacts, SMTT(20)
<1>2. /\ next' = [next EXCEPT ![t] = @ + 1] /\ at' = [at EXCEPT ![t] = "push"]
      /\ appended' = [appended EXCEPT ![t] = 0] /\ wait' = [wait EXCEPT ![o] = Len(Vars(o)) + 1]
      /\ pending_' = pending_ + 1 /\ CallOf(o).call \in {"push", "wait"}
  BY DEF Push
<1>3. /\ process' = process /\ num_pending_reads_' = num_pending_reads_ /\ queue' = queue
      /\ ready' = ready /\ running' = running /\ executed' = executed /\ completed' = completed
      /\ finished' = finished /\ triggers' = triggers
      /\ opr_exception' = opr_exception /\ var_exception' = var_exception
      /\ thrown' = thrown /\ returned' = returned
  BY DEF Push, run_vars, exc_vars
<1>4. /\ next'[t] = next[t] + 1 /\ at'[t] = "push" /\ appended'[t] = 0
      /\ \A u \in Thread \ {t} : next'[u] = next[u] /\ at'[u] = at[u] /\ appended'[u] = appended[u]
      /\ \A p \in Ops \ {o} : wait'[p] = wait[p]
      /\ wait'[o] = Len(Vars(o)) + 1 /\ Len(Vars(o)) \in Nat
  <2>1. Len(Vars(o)) \in Nat
    BY <1>1, UsesFacts
  <2> QED
    BY <1>0, <1>1, <1>2, <2>1 DEF TypeOK
<1>5. ~Begun(o) /\ o \notin ready \cup running \cup executed /\ o \notin finished
  <2>1. StageOK(o)
    BY <1>1 DEF IInv, Stages
  <2>2. ~Begun(o)
    BY <1>0, <1>1, <2>1, SMTT(20) DEF StageOK
  <2> QED
    BY <1>0, <2>2 DEF Begun, TypeOK
<1>6. Begun(o)' /\ \A p \in Ops \ {o} : Begun(p)' <=> Begun(p)
  BY <1>3, <1>4, SMTT(20) DEF Begun
<1>7. \A p \in Ops \ {o} : p[1] \in Thread /\ p[2] \in Nat /\ (p[1] = t => p[2] # next[t] + 1)
  BY <1>1, OpsFacts, OpsEqual, SMTT(20)
<1>8. Adding(o)' /\ \A p \in Ops \ {o} : Adding(p)' <=> Adding(p)
  BY <1>0, <1>1, <1>4, <1>7, SMTT(20) DEF Adding
<1>9. \A p \in Ops, u \in Var : Joined(p, u)' <=> Joined(p, u)
  <2> SUFFICES ASSUME NEW p \in Ops, NEW u \in Var PROVE Joined(p, u)' <=> Joined(p, u)
    OBVIOUS
  <2>1. CASE p = o
    <3>2. ~Joined(o, u)'
      <4>1. Uses(o, u) => ~(Pos(o, u) <= 0)
        <5>1. Uses(o, u) => Pos(o, u) \in 1 .. Len(Vars(o))
          BY <1>1, PosFacts
        <5> QED
          BY <5>1, SMTT(20)
      <4> QED
        BY <1>1, <1>4, <1>8, <4>1 DEF Joined
    <3> QED
      BY <1>5, <2>1, <3>2 DEF Joined
  <2>2. CASE p # o
    <3>1. Adding(p) => p[1] # t
      BY <1>0 DEF Adding
    <3>2. Adding(p) => appended'[p[1]] = appended[p[1]]
      BY <1>4, <1>7, <2>2, <3>1
    <3> QED
      BY <1>6, <1>8, <2>2, <3>2, JoinedKept
  <2> QED
    BY <2>1, <2>2
<1>10. /\ Variables' /\ Flights' /\ Ordered'
       /\ \A p \in Ops : Missing(p)' = Missing(p)
       /\ \A p \in Ops, u \in Var : Left(p, u)' <=> Left(p, u)
  BY <1>3, <1>9, QuietStep DEF IInv
<1>11. TypeOK'
  BY <1>0, <1>1, <1>2, <1>3, <1>4, SMTT(20) DEF TypeOK
<1>12. Threads'
  <2> SUFFICES ASSUME NEW u \in Thread PROVE ThreadOK(u)'
    BY DEF Threads
  <2>1. ThreadOK(u)
    BY DEF IInv, Threads
  <2> QED
    BY <1>0, <1>1, <1>4, <2>1, SMTT(20) DEF ThreadOK
<1>13. Places'
  <2> SUFFICES ASSUME NEW p \in Ops PROVE PlaceOK(p)'
    BY DEF Places
  <2>1. PlaceOK(p)
    BY DEF IInv, Places
  <2>2. CASE p = o
    BY <1>1, <1>4, <1>6, <2>2, SMTT(20) DEF PlaceOK
  <2>3. CASE p # o
    <3>1. CASE p[1] = t
      BY <1>4, <1>7, <2>3, <3>1, SMTT(20) DEF PlaceOK, Adding
    <3>2. CASE p[1] # t
      BY <1>4, <1>6, <1>7, <1>8, <2>1, <2>3, <3>2 DEF PlaceOK
    <3> QED
      BY <3>1, <3>2
  <2> QED
    BY <2>2, <2>3
<1>14. Stages'
  <2> SUFFICES ASSUME NEW p \in Ops PROVE StageOK(p)'
    BY DEF Stages
  <2>1. StageOK(p)
    BY DEF IInv, Stages
  <2>2. CASE p = o
    <3>1. o[2] <= next'[o[1]]
      BY <1>0, <1>1, <1>4, SMTT(20)
    <3> QED
      BY <1>2, <1>3, <1>5, <1>6, <2>1, <2>2, <3>1 DEF StageOK
  <2>3. CASE p # o
    <3>1. (p[2] <= next'[p[1]]) <=> (p[2] <= next[p[1]])
      BY <1>0, <1>4, <1>7, <2>3, SMTT(20)
    <3>2. wait'[p] = wait[p] /\ (Begun(p)' <=> Begun(p))
      BY <1>4, <1>6, <2>3
    <3> QED
      BY <1>3, <2>1, <3>1, <3>2 DEF StageOK
  <2> QED
    BY <2>2, <2>3
<1>15. Counts'
  <2> SUFFICES ASSUME NEW p \in Ops PROVE CountOK(p)'
    BY DEF Counts
  <2>1. CASE p = o
    <3>1. \A u : ~Left(o, u)
      BY <1>1, <1>5, LeftFacts DEF IInv
    <3>2. Missing(o) = {u \in Var : Uses(o, u)}
      BY <1>5, <3>1 DEF Missing, Granted, Live, Joined
    <3>3. Cardinality(Missing(o)') = Len(Vars(o))
      BY <1>1, <1>10, <3>2, VarsCount
    <3> QED
      BY <1>4, <1>8, <2>1, <3>3 DEF CountOK
  <2>2. CASE p # o
    BY <1>4, <1>6, <1>8, <1>10, <2>2, CountKept DEF IInv, Counts
  <2> QED
    BY <2>1, <2>2
<1>16. Ran'
  BY <1>3, <1>10, RanKept DEF IInv
<1>17. WaitSees'
  <2>1. \A p \in Ops : Over(p)' => Over(p)
    BY <1>0, <1>1, <1>4, <1>7, SMTT(20) DEF Over
  <2> QED
    BY <1>3, <2>1, WaitSeesKept DEF IInv
<1>18. PendingCount'
  <2>1. Unfinished' = Unfinished \cup {o} /\ o \notin Unfinished
    BY <1>1, <1>3, <1>5, <1>6 DEF Unfinished
  <2>2. IsFiniteSet(Unfinished) /\ pending_ = Cardinality(Unfinished)
    BY DEF IInv, PendingCount
  <2>3. IsFiniteSet(Unfinished') /\ Cardinality(Unfinished') = Cardinality(Unfinished) + 1
    BY <2>1, <2>2 DEF Counting, CountAdd
  <2> QED
    BY <1>2, <2>2, <2>3 DEF PendingCount
<1>19. Exceptions'
  BY <1>3, <1>10, ExceptionsKept DEF IInv
<1> QED
  BY <1>10, <1>11, <1>12, <1>13, <1>14, <1>15, <1>16, <1>17, <1>18, <1>19 DEF IInv

\* The end of the push takes its share out of the counter.
LEMMA PushEndInv ==
  ASSUME Counting, IInv, NEW t \in process, PushEnd(t)
  PROVE  IInv'
<1>0. TypeOK /\ t \in Thread /\ next[t] \in Nat /\ at[t] = "push"
  BY ProgramAssumption DEF IInv, TypeOK, PushEnd
<1> PICK o : o = <<t, next[t]>>
  OBVIOUS
<1>1. o \in Ops /\ o[1] = t /\ o[2] = next[t]
  <2>1. next[t] > 0 /\ next[t] <= Len(Program[t])
    BY <1>0 DEF IInv, Threads, ThreadOK
  <2> QED
    BY <1>0, <2>1, OpsFacts, SMTT(20)
<1>2. /\ appended[t] = Len(Vars(o)) /\ wait' = [wait EXCEPT ![o] = @ - 1]
      /\ ready' = IF wait[o] = 1 THEN ready \cup {o} ELSE ready
      /\ at' = [at EXCEPT ![t] = IF CallOf(o).call = "wait" THEN "wait" ELSE "idle"]
  BY DEF PushEnd, Current, DecrWait
<1>3. /\ process' = process /\ next' = next /\ appended' = appended /\ pending_' = pending_
      /\ num_pending_reads_' = num_pending_reads_ /\ queue' = queue
      /\ running' = running /\ executed' = executed /\ completed' = completed
      /\ finished' = finished /\ triggers' = triggers
      /\ opr_exception' = opr_exception /\ var_exception' = var_exception
      /\ thrown' = thrown /\ returned' = returned
  BY DEF PushEnd, exc_vars
<1>4. PlaceOK(o) /\ StageOK(o) /\ CountOK(o) /\ Adding(o) /\ Begun(o)
  BY <1>0, <1>1 DEF IInv, Places, Stages, Counts, Adding, PlaceOK
<1>5. Cardinality(Missing(o)) \in Nat /\ wait[o] = Cardinality(Missing(o)) + 1
  BY <1>1, <1>4, MissingFinite DEF CountOK
<1>6. /\ wait'[o] = Cardinality(Missing(o)) /\ \A p \in Ops \ {o} : wait'[p] = wait[p]
      /\ wait[o] = 1 <=> wait'[o] = 0
      /\ \A u \in Thread \ {t} : at'[u] = at[u]
      /\ at'[t] = IF CallOf(o).call = "wait" THEN "wait" ELSE "idle"
  BY <1>0, <1>1, <1>2, <1>5, SMTT(20) DEF TypeOK
<1>7. o \notin ready \cup running \cup executed
  BY <1>4, <1>5, SMTT(20) DEF StageOK
<1>8. \A p \in Ops : Begun(p)' <=> Begun(p)
  BY <1>2, <1>3, <1>4, <1>5, <1>6, SMTT(20) DEF Begun
<1>9. \A p \in Ops \ {o} : p[1] \in Thread /\ p[2] \in Nat /\ (p[1] = t => p[2] # next[t])
  BY <1>1, OpsFacts, OpsEqual, SMTT(20)
<1>10. ~Adding(o)' /\ \A p \in Ops \ {o} : Adding(p)' <=> Adding(p)
  BY <1>0, <1>1, <1>3, <1>6, <1>9 DEF Adding
<1>11. \A p \in Ops, u \in Var : Joined(p, u)' <=> Joined(p, u)
  <2> SUFFICES ASSUME NEW p \in Ops, NEW u \in Var PROVE Joined(p, u)' <=> Joined(p, u)
    OBVIOUS
  <2>1. CASE p = o
    <3>1. Uses(o, u) => Pos(o, u) <= appended[o[1]]
      BY <1>1, <1>2, PosFacts, UsesFacts, SMTT(20)
    <3> QED
      BY <1>8, <1>10, <2>1, <3>1 DEF Joined
  <2>2. CASE p # o
    BY <1>3, <1>8, <1>10, <2>2, JoinedKept
  <2> QED
    BY <2>1, <2>2
<1>12. /\ Variables' /\ Flights' /\ Ordered'
       /\ \A p \in Ops : Missing(p)' = Missing(p)
       /\ \A p \in Ops, u \in Var : Left(p, u)' <=> Left(p, u)
  BY <1>3, <1>11, QuietStep DEF IInv
<1>13. TypeOK'
  <2>1. wait' \in [Ops -> Nat]
    <3>1. wait'[o] \in Nat /\ wait' = [wait EXCEPT ![o] = wait'[o]]
      BY <1>0, <1>1, <1>2, <1>5, <1>6 DEF TypeOK
    <3> QED
      BY <1>0, <1>1, <3>1 DEF TypeOK
  <2>2. at' \in [Thread -> {"idle", "push", "wait"}]
    BY <1>0, <1>2 DEF TypeOK
  <2>3. ready' \subseteq Ops
    BY <1>0, <1>1, <1>2 DEF TypeOK
  <2> QED
    BY <1>0, <1>3, <2>1, <2>2, <2>3 DEF TypeOK
<1>14. Threads'
  <2> SUFFICES ASSUME NEW u \in Thread PROVE ThreadOK(u)'
    BY DEF Threads
  <2> QED
    BY <1>0, <1>3, <1>6 DEF ThreadOK, IInv, Threads
<1>15. Places'
  <2> SUFFICES ASSUME NEW p \in Ops PROVE PlaceOK(p)'
    BY DEF Places
  <2>1. PlaceOK(p)
    BY DEF IInv, Places
  <2>2. CASE p = o
    BY <1>1, <1>4, <1>6, <1>8, <1>10, <2>2 DEF PlaceOK
  <2>3. CASE p # o
    <3>1. CASE p[1] = t
      BY <1>3, <1>9, <2>3, <3>1 DEF PlaceOK, Adding
    <3>2. CASE p[1] # t
      BY <1>3, <1>6, <1>8, <1>9, <1>10, <2>1, <2>3, <3>2 DEF PlaceOK
    <3> QED
      BY <3>1, <3>2
  <2> QED
    BY <2>2, <2>3
<1>16. Stages'
  <2> SUFFICES ASSUME NEW p \in Ops PROVE StageOK(p)'
    BY DEF Stages
  <2>1. StageOK(p) /\ (Begun(p)' <=> Begun(p))
    BY <1>8 DEF IInv, Stages
  <2>2. CASE p = o
    <3>1. wait'[p] > 0 => p \notin ready'
      BY <1>2, <1>5, <1>6, <1>7, <2>2, SMTT(20)
    <3> QED
      BY <1>3, <1>7, <2>1, <2>2, <3>1 DEF StageOK
  <2>3. CASE p # o
    BY <1>2, <1>3, <1>6, <2>1, <2>3 DEF StageOK
  <2> QED
    BY <2>2, <2>3
<1>17. Counts'
  <2> SUFFICES ASSUME NEW p \in Ops PROVE CountOK(p)'
    BY DEF Counts
  <2>1. CASE p = o
    BY <1>5, <1>6, <1>10, <1>12, <2>1, SMTT(20) DEF CountOK
  <2>2. CASE p # o
    BY <1>6, <1>8, <1>10, <1>12, <2>2, CountKept DEF IInv, Counts
  <2> QED
    BY <2>1, <2>2
<1>18. Ran'
  BY <1>3, <1>12, RanKept DEF IInv
<1>19. WaitSees'
  <2>1. \A p \in Ops : Over(p)' /\ CallOf(p).call # "push" => Over(p)
    <3> SUFFICES ASSUME NEW p \in Ops, Over(p)', CallOf(p).call # "push" PROVE Over(p)
      OBVIOUS
    <3>1. CASE p = o
      BY <1>1, <1>3, <1>4, <1>6, <3>1 DEF Over, StageOK
    <3>2. CASE p # o
      BY <1>3, <1>6, <1>9, <3>2 DEF Over
    <3> QED
      BY <3>1, <3>2
  <2> QED
    BY <1>3, <2>1, WaitSeesKept DEF IInv
<1>20. PendingCount'
  BY <1>3, <1>8, PendingKept DEF IInv
<1>21. Exceptions'
  BY <1>3, <1>12, ExceptionsKept DEF IInv
<1> QED
  BY <1>12, <1>13, <1>14, <1>15, <1>16, <1>17, <1>18, <1>19, <1>20, <1>21 DEF IInv

\* A call that waits is over: nothing else has changed, and it has seen what it
\* waited for.
LEMMA WaitStep ==
  ASSUME IInv, NEW t \in Thread, NEW o \in Ops, o[1] = t, CallOf(o).call \in {"wait", "waitall"},
         at[t] # "push", o[2] = next[t] \/ (o[2] = next[t] + 1 /\ at[t] = "idle"),
         next' \in [Thread -> Nat], next'[t] = o[2], \A u \in Thread \ {t} : next'[u] = next[u],
         at' \in [Thread -> {"idle", "push", "wait"}], at'[t] = "idle",
         \A u \in Thread \ {t} : at'[u] = at[u],
         UNCHANGED <<process, appended, wait, pending_, num_pending_reads_, queue, run_vars,
                     triggers, opr_exception, var_exception>>,
         thrown \subseteq thrown', thrown' \subseteq Ops,
         returned' \in [Ops -> {None, "normally", "throws"}],
         \A p \in Ops : /\ Before(p, o)
                        /\ \/ CallOf(o).call = "wait" /\ Mutates(p, CallOf(o).const_vars[1])
                           \/ CallOf(o).call = "waitall"
                        => p \in executed
  PROVE  IInv'
<1>0. TypeOK /\ next[t] \in Nat /\ o[2] \in Nat /\ o[2] <= Len(Program[t]) /\ o[2] > 0
  <2>1. o[2] \in 1 .. Len(Program[t]) /\ Len(Program[t]) \in Nat
    BY OpsFacts
  <2>2. TypeOK /\ next[t] \in Nat
    BY DEF IInv, TypeOK
  <2> QED
    BY <2>1, <2>2, SMTT(20)
<1>1. /\ process' = process /\ appended' = appended /\ wait' = wait /\ pending_' = pending_
      /\ num_pending_reads_' = num_pending_reads_ /\ queue' = queue
      /\ ready' = ready /\ running' = running /\ executed' = executed /\ completed' = completed
      /\ finished' = finished /\ triggers' = triggers
      /\ opr_exception' = opr_exception /\ var_exception' = var_exception
  BY DEF run_vars
<1>2. \A p \in Ops : Begun(p)' <=> Begun(p)
  BY <1>1 DEF Begun
<1>3. \A p \in Ops : p[1] \in Thread /\ p[2] \in Nat /\ (p # o /\ p[1] = t => p[2] # o[2])
  BY OpsFacts, OpsEqual, SMTT(20)
<1>4. \A p \in Ops : Adding(p)' <=> Adding(p)
  BY <1>3 DEF Adding
<1>5. \A p \in Ops, u \in Var : Joined(p, u)' <=> Joined(p, u)
  BY <1>1, <1>2, <1>4, JoinedKept
<1>6. /\ Variables' /\ Flights' /\ Ordered'
      /\ \A p \in Ops : Missing(p)' = Missing(p)
      /\ \A p \in Ops, u \in Var : Left(p, u)' <=> Left(p, u)
  BY <1>1, <1>5, QuietStep DEF IInv
<1>7. TypeOK'
  BY <1>0, <1>1 DEF TypeOK
<1>8. Threads'
  <2> SUFFICES ASSUME NEW u \in Thread PROVE ThreadOK(u)'
    BY DEF Threads
  <2> QED
    BY <1>0 DEF ThreadOK, IInv, Threads
<1>9. Places'
  <2> SUFFICES ASSUME NEW p \in Ops PROVE PlaceOK(p)'
    BY DEF Places
  <2>1. PlaceOK(p)
    BY DEF IInv, Places
  <2>2. CASE p[1] = t
    BY <2>2 DEF PlaceOK, Adding
  <2>3. CASE p[1] # t
    BY <1>1, <1>2, <1>3, <1>4, <2>1, <2>3 DEF PlaceOK
  <2> QED
    BY <2>2, <2>3
<1>10. Stages'
  <2> SUFFICES ASSUME NEW p \in Ops PROVE StageOK(p)'
    BY DEF Stages
  <2>1. StageOK(p) /\ (Begun(p)' <=> Begun(p))
    BY <1>2 DEF IInv, Stages
  <2>2. /\ p[2] <= next[p[1]] => p[2] <= next'[p[1]]
        /\ p[2] <= next'[p[1]] /\ CallOf(p).call = "push" => p[2] <= next[p[1]]
    BY <1>0, <1>3, SMTT(20)
  <2> QED
    BY <1>1, <2>1, <2>2 DEF StageOK
<1>11. Counts'
  BY <1>1, <1>2, <1>4, <1>6, CountKept DEF IInv, Counts
<1>12. Ran'
  BY <1>1, <1>6, RanKept DEF IInv
<1>13. WaitSees'
  <2>1. \A p \in Ops \ {o} : Over(p)' => Over(p)
    BY <1>0, <1>3, SMTT(20) DEF Over
  <2> QED
    BY <1>1, <2>1 DEF WaitSees, IInv
<1>14. PendingCount'
  BY <1>1, <1>2, PendingKept DEF IInv
<1>15. Exceptions'
  BY <1>1, <1>6, ExceptionsKept DEF IInv
<1> QED
  BY <1>6, <1>7, <1>8, <1>9, <1>10, <1>11, <1>12, <1>13, <1>14, <1>15 DEF IInv

\* Nobody is queued at a variable: the earlier writes of the thread have left it.
LEMMA IdleVariable ==
  ASSUME IInv, NEW o \in Ops, at[o[1]] = "idle", o[2] = next[o[1]] + 1,
         NEW v \in Var, queue[v] = <<>>, NEW p \in Ops, Before(p, o), Mutates(p, v)
  PROVE  Left(p, v)
<1>1. next[o[1]] \in Nat /\ p[2] \in Nat /\ p[1] = o[1] /\ p[2] <= next[p[1]] /\ CallOf(p).call = "push"
  BY OpsFacts, SMTT(20) DEF IInv, TypeOK, Before
<1>2. Begun(p) /\ ~Adding(p)
  BY <1>1 DEF IInv, Stages, StageOK, Adding
<1>3. Joined(p, v)
  BY <1>2, PosFacts DEF Joined
<1>4. ~Queued(p, v)
  BY SMTT(20) DEF Queued
<1> QED
  BY <1>3, <1>4 DEF IInv, Variables, VarOK, Live

\* What a returning WaitForVar does to the exceptions.
LEMMA ReturnFacts ==
  ASSUME TypeOK, NEW o \in Ops, CallOf(o).call = "wait", Return(o)
  PROVE  /\ thrown \subseteq thrown' /\ thrown' \subseteq Ops
         /\ returned' \in [Ops -> {None, "normally", "throws"}]
         /\ opr_exception' = opr_exception /\ var_exception' = var_exception
<1> PICK e : e = var_exception[CallOf(o).const_vars[1]]
  OBVIOUS
<1>1. e \in Ops \cup {None}
  BY WaitFacts DEF TypeOK
<1>2. /\ returned' = [returned EXCEPT ![o] = IF Pending(e) THEN "throws" ELSE "normally"]
      /\ thrown' = IF Pending(e) THEN thrown \cup {e} ELSE thrown
      /\ opr_exception' = opr_exception /\ var_exception' = var_exception
  BY DEF Return
<1> QED
  BY <1>1, <1>2 DEF TypeOK, Pending

\* The short way of WaitForVar.
LEMMA WaitForVarReadyInv ==
  ASSUME IInv, NEW t \in process, WaitForVarReady(t)
  PROVE  IInv'
<1>0. TypeOK /\ t \in Thread /\ next[t] \in Nat /\ at[t] = "idle"
  BY ProgramAssumption DEF IInv, TypeOK, WaitForVarReady
<1> PICK o : o = <<t, next[t] + 1>>
  OBVIOUS
<1>1. o \in Ops /\ o[1] = t /\ o[2] = next[t] + 1 /\ CallOf(o).call = "wait"
  <2>1. o \in Ops /\ CallOf(o).call = "wait"
    BY DEF WaitForVarReady
  <2> QED
    BY <1>0, <2>1, OpsFacts
<1>2. /\ next' = [next EXCEPT ![t] = @ + 1] /\ Return(o)
      /\ queue[CallOf(o).const_vars[1]] = <<>>
      /\ UNCHANGED <<process, at, appended, wait, pending_, num_pending_reads_, queue, run_vars, triggers>>
  BY DEF WaitForVarReady
<1>3. /\ thrown \subseteq thrown' /\ thrown' \subseteq Ops
      /\ returned' \in [Ops -> {None, "normally", "throws"}]
      /\ opr_exception' = opr_exception /\ var_exception' = var_exception
  BY <1>0, <1>1, <1>2, ReturnFacts
<1>4. /\ next' \in [Thread -> Nat] /\ next'[t] = o[2] /\ \A u \in Thread \ {t} : next'[u] = next[u]
      /\ at' \in [Thread -> {"idle", "push", "wait"}] /\ at'[t] = "idle"
      /\ \A u \in Thread \ {t} : at'[u] = at[u]
  BY <1>0, <1>1, <1>2, SMTT(20) DEF TypeOK
<1>5. \A p \in Ops : Before(p, o) /\ Mutates(p, CallOf(o).const_vars[1]) => p \in executed
  BY <1>0, <1>1, <1>2, IdleVariable, WaitFacts, LeftFacts DEF IInv
<1>6. UNCHANGED <<process, appended, wait, pending_, num_pending_reads_, queue, run_vars,
                  triggers, opr_exception, var_exception>>
  BY <1>2, <1>3
<1> QED
  BY <1>0, <1>1, <1>3, <1>4, <1>5, <1>6, WaitStep

\* WaitForVar wakes up.
LEMMA WaitForVarReturnInv ==
  ASSUME IInv, NEW t \in process, WaitForVarReturn(t)
  PROVE  IInv'
<1>0. TypeOK /\ t \in Thread /\ next[t] \in Nat /\ at[t] = "wait"
  BY ProgramAssumption DEF IInv, TypeOK, WaitForVarReturn
<1> PICK o : o = <<t, next[t]>>
  OBVIOUS
<1>1. o \in Ops /\ o[1] = t /\ o[2] = next[t] /\ CallOf(o).call = "wait"
  <2>1. next[t] > 0 /\ next[t] <= Len(Program[t])
    BY <1>0 DEF IInv, Threads, ThreadOK
  <2>2. o \in Ops /\ o[1] = t /\ o[2] = next[t]
    BY <1>0, <2>1, OpsFacts, SMTT(20)
  <2> QED
    BY <1>0, <2>2 DEF IInv, Places, PlaceOK
<1>2. /\ o \in executed /\ at' = [at EXCEPT ![t] = "idle"] /\ Return(o)
      /\ UNCHANGED <<process, next, appended, wait, pending_, num_pending_reads_, queue, run_vars, triggers>>
  BY DEF WaitForVarReturn, Current
<1>3. /\ thrown \subseteq thrown' /\ thrown' \subseteq Ops
      /\ returned' \in [Ops -> {None, "normally", "throws"}]
      /\ opr_exception' = opr_exception /\ var_exception' = var_exception
  BY <1>0, <1>1, <1>2, ReturnFacts
<1>4. /\ next' \in [Thread -> Nat] /\ next'[t] = o[2] /\ \A u \in Thread \ {t} : next'[u] = next[u]
      /\ at' \in [Thread -> {"idle", "push", "wait"}] /\ at'[t] = "idle"
      /\ \A u \in Thread \ {t} : at'[u] = at[u]
  BY <1>0, <1>1, <1>2 DEF TypeOK
<1>5. \A p \in Ops : Before(p, o) /\ Mutates(p, CallOf(o).const_vars[1]) => p \in executed
  <2> SUFFICES ASSUME NEW p \in Ops, Before(p, o), Mutates(p, CallOf(o).const_vars[1])
               PROVE  p \in executed
    OBVIOUS
  <2> PICK v : v = CallOf(o).const_vars[1]
    OBVIOUS
  <2>1. v \in Var /\ Uses(o, v) /\ Mutates(p, v) /\ Uses(p, v)
    BY <1>1, WaitFacts, PosFacts
  <2>2. Left(p, v)
    BY <1>1, <1>2, <2>1 DEF IInv, Ran, ConflictOn
  <2> QED
    BY <2>2, LeftFacts DEF IInv
<1>6. UNCHANGED <<process, appended, wait, pending_, num_pending_reads_, queue, run_vars,
                  triggers, opr_exception, var_exception>>
  BY <1>2, <1>3
<1> QED
  BY <1>0, <1>1, <1>3, <1>4, <1>5, <1>6, WaitStep

\* WaitForAll returns when nothing is pending.
LEMMA WaitForAllInv ==
  ASSUME Counting, IInv, NEW t \in process, WaitForAll(t)
  PROVE  IInv'
<1>0. TypeOK /\ t \in Thread /\ next[t] \in Nat /\ at[t] = "idle"
  BY ProgramAssumption DEF IInv, TypeOK, WaitForAll
<1> PICK o : o = <<t, next[t] + 1>>
  OBVIOUS
<1>1. o \in Ops /\ o[1] = t /\ o[2] = next[t] + 1 /\ CallOf(o).call = "waitall"
  <2>1. o \in Ops /\ CallOf(o).call = "waitall"
    BY DEF WaitForAll
  <2> QED
    BY <1>0, <2>1, OpsFacts
<1>2. /\ pending_ = 0 /\ next' = [next EXCEPT ![t] = @ + 1]
      /\ UNCHANGED <<process, at, appended, wait, pending_, num_pending_reads_, queue, run_vars, triggers, exc_vars>>
  BY DEF WaitForAll
<1>3. /\ thrown \subseteq thrown' /\ thrown' \subseteq Ops
      /\ returned' \in [Ops -> {None, "normally", "throws"}]
      /\ opr_exception' = opr_exception /\ var_exception' = var_exception
  BY <1>0, <1>2 DEF exc_vars, TypeOK
<1>4. /\ next' \in [Thread -> Nat] /\ next'[t] = o[2] /\ \A u \in Thread \ {t} : next'[u] = next[u]
      /\ at' \in [Thread -> {"idle", "push", "wait"}] /\ at'[t] = "idle"
      /\ \A u \in Thread \ {t} : at'[u] = at[u]
  BY <1>0, <1>1, <1>2, SMTT(20) DEF TypeOK
<1>5. \A p \in Ops : Before(p, o) => p \in executed
  <2> SUFFICES ASSUME NEW p \in Ops, Before(p, o) PROVE p \in executed
    OBVIOUS
  <2>1. p[1] = t /\ p[2] <= next[t] /\ CallOf(p).call = "push"
    BY <1>0, <1>1, OpsFacts, SMTT(20) DEF Before
  <2>2. Begun(p)
    BY <2>1 DEF IInv, Stages, StageOK
  <2>3. Unfinished = {}
    BY <1>2 DEF IInv, PendingCount, Counting, CountEmpty
  <2> QED
    BY <1>0, <2>2, <2>3 DEF Unfinished, TypeOK
<1>6. UNCHANGED <<process, appended, wait, pending_, num_pending_reads_, queue, run_vars,
                  triggers, opr_exception, var_exception>>
  BY <1>2, <1>3
<1> QED
  BY <1>0, <1>1, <1>3, <1>4, <1>5, <1>6, WaitStep

-----------------------------------------------------------------------------
(* Steps of the pool that no variable notices *)

\* A thread has pushed what it has called before, to the last variable.
LEMMA JoinedBefore ==
  ASSUME IInv, NEW o \in Ops, NEW p \in Ops, Before(p, o), o[2] <= next[o[1]], NEW v, Uses(p, v)
  PROVE  Joined(p, v) /\ ~Adding(p)
<1>1. /\ next[o[1]] \in Nat /\ p[2] \in Nat /\ o[2] \in Nat /\ p[1] = o[1] /\ p[2] < next[p[1]]
      /\ CallOf(p).call = "push"
  <2>1. p[2] \in Nat /\ o[2] \in Nat /\ o[1] \in Thread
    BY OpsFacts, SMTT(20)
  <2>2. next[o[1]] \in Nat
    BY <2>1 DEF IInv, TypeOK
  <2> QED
    BY <2>1, <2>2, SMTT(20) DEF Before
<1>2. Begun(p) /\ ~Adding(p)
  BY <1>1, SMTT(20) DEF IInv, Stages, StageOK, Adding
<1> QED
  BY <1>2 DEF Joined

\* An operation is granted a variable only after the earlier conflicting ones
\* of its thread have left it.
LEMMA GrantedAfter ==
  ASSUME IInv, NEW o \in Ops, NEW p \in Ops, NEW v \in Var,
         Before(p, o), ConflictOn(o, p, v), Granted(o, v)
  PROVE  Left(p, v)
<1> SUFFICES ASSUME ~Left(p, v) PROVE FALSE
  OBVIOUS
<1>1. Joined(o, v) /\ Begun(o)
  BY DEF Granted, Live, Joined
<1>2. o[2] <= next[o[1]]
  BY <1>1 DEF IInv, Stages, StageOK
<1>3. Live(p, v)
  BY <1>2, JoinedBefore DEF Live, ConflictOn
<1>4. PICK j \in 1 .. Len(queue[v]) :
        /\ queue[v][j].trigger = o
        /\ \A i \in 1 .. Len(queue[v]) : queue[v][i].trigger = p => i < j
  BY <1>1, <1>3, SMTT(20) DEF IInv, Ordered
<1>5. Writing(o, v)
  BY <1>4 DEF Granted, Queued
<1>6. VarOK(v) /\ Len(queue[v]) \in Nat /\ j \in Nat
  BY SMTT(20) DEF IInv, Variables, TypeOK
<1>7. 1 \in 1 .. Len(queue[v])
  BY <1>6, SMTT(20)
<1>8. j = 1
  BY <1>4, <1>5, <1>6, <1>7 DEF VarOK, Writing
<1>9. ~Queued(p, v)
  BY <1>4, <1>6, <1>8, SMTT(20) DEF Queued
<1>10. p \in Readers(v)
  BY <1>3, <1>9 DEF Readers
<1> QED
  BY <1>5, <1>6, <1>10 DEF VarOK, Writing

\* What a step of the pool that no variable notices keeps.
LEMMA PoolQuiet ==
  ASSUME IInv, UNCHANGED <<push_vars, wait, num_pending_reads_, queue, completed, triggers>>,
         \A p \in Ops : Begun(p)' <=> Begun(p), executed \subseteq executed'
  PROVE  /\ Threads' /\ Places' /\ Counts' /\ Variables' /\ Flights' /\ Ordered' /\ WaitSees'
         /\ \A p \in Ops, u \in Var : Left(p, u)' <=> Left(p, u)
<1>1. /\ process' = process /\ next' = next /\ at' = at /\ appended' = appended /\ wait' = wait
      /\ num_pending_reads_' = num_pending_reads_ /\ queue' = queue
      /\ completed' = completed /\ triggers' = triggers
  BY DEF push_vars
<1>2. \A p \in Ops : Adding(p)' <=> Adding(p)
  BY <1>1 DEF Adding
<1>3. \A p \in Ops, u \in Var : Joined(p, u)' <=> Joined(p, u)
  BY <1>1, <1>2, JoinedKept
<1>4. /\ Variables' /\ Flights' /\ Ordered'
      /\ \A p \in Ops : Missing(p)' = Missing(p)
      /\ \A p \in Ops, u \in Var : Left(p, u)' <=> Left(p, u)
  BY <1>1, <1>3, QuietStep DEF IInv
<1>5. Threads'
  BY <1>1 DEF IInv, Threads, ThreadOK
<1>6. Places'
  BY <1>1, <1>2 DEF IInv, Places, PlaceOK
<1>7. Counts'
  BY <1>1, <1>2, <1>4, CountKept DEF IInv, Counts
<1>8. WaitSees'
  <2>1. \A p \in Ops : Over(p)' => Over(p)
    BY <1>1 DEF Over
  <2> QED
    BY <2>1, WaitSeesKept DEF IInv
<1> QED
  BY <1>4, <1>5, <1>6, <1>7, <1>8

\* The exception that an operation takes over is one of its variables'.
LEMMA InheritedType ==
  ASSUME Counting, TypeOK, NEW o \in Ops
  PROVE  Inherited(o) \in Ops \cup {None}
<1> DEFINE bad == {k \in 1 .. Len(Vars(o)) : Pending(var_exception[Vars(o)[k]])}
           least == CHOOSE k \in bad : \A j \in bad : k <= j
<1>1. Inherited(o) = IF bad = {} THEN None ELSE var_exception[Vars(o)[least]]
  BY DEF Inherited
<1>2. bad # {} => \E k \in bad : \A j \in bad : k <= j
  <2>1. bad \subseteq Nat
    BY UsesFacts, SMTT(20)
  <2> HIDE DEF bad
  <2> QED
    BY <2>1 DEF Counting, LeastNumber
<1>3. bad # {} => least \in bad
  <2> HIDE DEF bad
  <2> QED
    BY <1>2
<1>4. bad # {} => Vars(o)[least] \in Var
  <2> HIDE DEF least
  <2> QED
    BY <1>3, UsesFacts
<1> QED
  BY <1>1, <1>4 DEF TypeOK

\* An operation begins to run when nothing that conflicts is before it.
LEMMA ExecuteOprBlockInv ==
  ASSUME Counting, IInv, NEW o \in Ops, ExecuteOprBlock(o)
  PROVE  IInv'
<1>0. TypeOK /\ Stages /\ Exceptions /\ StageOK(o)
  BY DEF IInv, Stages
<1>1. /\ o \in ready /\ ready' = ready \ {o} /\ running' = running \cup {o}
      /\ opr_exception' = [opr_exception EXCEPT ![o] = Inherited(o)]
      /\ UNCHANGED <<push_vars, wait, num_pending_reads_, queue, completed, triggers>>
      /\ pending_' = pending_ /\ executed' = executed /\ finished' = finished
      /\ var_exception' = var_exception /\ thrown' = thrown /\ returned' = returned
      /\ wait' = wait /\ completed' = completed /\ triggers' = triggers
  BY DEF ExecuteOprBlock
<1>2. process' = process /\ next' = next /\ at' = at /\ appended' = appended
  BY <1>1 DEF push_vars
<1>3. \A p \in Ops : Begun(p)' <=> Begun(p)
  BY <1>1 DEF Begun
<1>4. /\ Threads' /\ Places' /\ Counts' /\ Variables' /\ Flights' /\ Ordered' /\ WaitSees'
      /\ \A p \in Ops, u \in Var : Left(p, u)' <=> Left(p, u)
  BY <1>1, <1>3, PoolQuiet
<1>5. o \notin running \cup executed /\ wait[o] = 0 /\ Begun(o) /\ \A u : ~Left(o, u)
  BY <1>0, <1>1, LeftFacts, SMTT(20) DEF StageOK, TypeOK, Begun
<1>6. TypeOK'
  BY <1>0, <1>1, <1>2, InheritedType DEF TypeOK
<1>7. Stages'
  <2> SUFFICES ASSUME NEW p \in Ops PROVE StageOK(p)'
    BY DEF Stages
  <2>1. StageOK(p) /\ (Begun(p)' <=> Begun(p))
    BY <1>0, <1>3 DEF Stages
  <2>2. (p \in ready' <=> p \in ready /\ p # o) /\ (p \in running' <=> p \in running \/ p = o)
    BY <1>1
  <2>3. o \notin finished
    BY <1>0, <1>5 DEF TypeOK
  <2> QED
    BY <1>1, <1>2, <1>5, <2>1, <2>2, <2>3 DEF StageOK
<1>8. Ran'
  <2> SUFFICES ASSUME NEW q \in Ops, NEW p \in Ops, NEW v \in Var,
                      q \in running' \cup executed', Before(p, q), ConflictOn(q, p, v)
               PROVE  Left(p, v)'
    BY DEF Ran
  <2>1. CASE q # o
    BY <1>1, <1>4, <2>1 DEF IInv, Ran
  <2>2. CASE q = o
    <3>1. Missing(o) = {}
      <4>1. Cardinality(Missing(o)) \in Nat /\ IsFiniteSet(Missing(o))
        BY MissingFinite
      <4>2. Cardinality(Missing(o)) = 0
        BY <1>5, <4>1, SMTT(20) DEF IInv, Counts, CountOK
      <4> QED
        BY <4>1, <4>2 DEF Counting, CountEmpty
    <3>2. Granted(o, v)
      BY <1>5, <2>2, <3>1 DEF Missing, ConflictOn
    <3> QED
      BY <1>4, <2>2, <3>2, GrantedAfter
  <2> QED
    BY <2>1, <2>2
<1>9. PendingCount'
  BY <1>1, <1>3, PendingKept DEF IInv
<1>10. Exceptions'
  <2>1. \A p \in Ops \ {o} : opr_exception'[p] = opr_exception[p]
    BY <1>0, <1>1 DEF TypeOK
  <2> QED
    BY <1>0, <1>1, <1>4, <1>5, <2>1, SMTT(20) DEF Exceptions
<1> QED
  BY <1>4, <1>6, <1>7, <1>8, <1>9, <1>10 DEF IInv

\* The function returns.
LEMMA ExecuteInv ==
  ASSUME IInv, NEW o \in Ops, Execute(o)
  PROVE  IInv'
<1>0. TypeOK /\ Stages /\ Exceptions /\ StageOK(o)
  BY DEF IInv, Stages
<1>1. /\ o \in running /\ o \notin executed /\ executed' = executed \cup {o}
      /\ opr_exception' = [opr_exception EXCEPT ![o] = IF ~Pending(@) /\ o \in Failing THEN o ELSE @]
      /\ UNCHANGED <<push_vars, wait, num_pending_reads_, queue, completed, triggers>>
      /\ pending_' = pending_ /\ ready' = ready /\ running' = running /\ finished' = finished
      /\ var_exception' = var_exception /\ thrown' = thrown /\ returned' = returned
      /\ wait' = wait /\ completed' = completed /\ triggers' = triggers
  BY DEF Execute
<1>2. process' = process /\ next' = next /\ at' = at /\ appended' = appended
  BY <1>1 DEF push_vars
<1>3. \A p \in Ops : Begun(p)' <=> Begun(p)
  BY <1>1 DEF Begun
<1>4. /\ Threads' /\ Places' /\ Counts' /\ Variables' /\ Flights' /\ Ordered' /\ WaitSees'
      /\ \A p \in Ops, u \in Var : Left(p, u)' <=> Left(p, u)
  BY <1>1, <1>3, PoolQuiet
<1>5. \A u : ~Left(o, u)
  BY <1>0, <1>1, LeftFacts
<1>6. TypeOK'
  BY <1>0, <1>1, <1>2 DEF TypeOK
<1>7. Stages'
  <2> SUFFICES ASSUME NEW p \in Ops PROVE StageOK(p)'
    BY DEF Stages
  <2>1. StageOK(p) /\ (Begun(p)' <=> Begun(p))
    BY <1>0, <1>3 DEF Stages
  <2> QED
    BY <1>0, <1>1, <1>2, <2>1 DEF StageOK
<1>8. Ran'
  BY <1>1, <1>4, RanKept DEF IInv
<1>9. PendingCount'
  BY <1>1, <1>3, PendingKept DEF IInv
<1>10. Exceptions'
  <2>1. \A p \in Ops \ {o} : opr_exception'[p] = opr_exception[p]
    BY <1>0, <1>1 DEF TypeOK
  <2> QED
    BY <1>0, <1>1, <1>4, <1>5, <2>1, SMTT(20) DEF Exceptions
<1> QED
  BY <1>4, <1>6, <1>7, <1>8, <1>9, <1>10 DEF IInv

\* OnComplete is over.
LEMMA CompleteEndInv ==
  ASSUME Counting, IInv, NEW o \in Ops, CompleteEnd(o)
  PROVE  IInv'
<1>0. TypeOK /\ Stages /\ StageOK(o) /\ PendingCount
  BY DEF IInv, Stages
<1>1. /\ o \in executed /\ o \notin finished /\ triggers[o] = <<>> /\ completed[o] = Len(Vars(o))
      /\ pending_' = pending_ - 1 /\ finished' = finished \cup {o} /\ running' = running \ {o}
      /\ UNCHANGED <<push_vars, wait, num_pending_reads_, queue, completed, triggers>>
      /\ ready' = ready /\ executed' = executed
      /\ wait' = wait /\ completed' = completed /\ triggers' = triggers
  BY DEF CompleteEnd
<1>2. /\ process' = process /\ next' = next /\ at' = at /\ appended' = appended
      /\ opr_exception' = opr_exception /\ var_exception' = var_exception
      /\ thrown' = thrown /\ returned' = returned
  BY DEF CompleteEnd, push_vars, exc_vars
<1>3. \A p \in Ops : Begun(p)' <=> Begun(p)
  BY <1>1 DEF Begun
<1>4. /\ Threads' /\ Places' /\ Counts' /\ Variables' /\ Flights' /\ Ordered' /\ WaitSees'
      /\ \A p \in Ops, u \in Var : Left(p, u)' <=> Left(p, u)
  BY <1>1, <1>3, PoolQuiet
<1>5. Stages'
  <2> SUFFICES ASSUME NEW p \in Ops PROVE StageOK(p)'
    BY DEF Stages
  <2>1. StageOK(p) /\ (Begun(p)' <=> Begun(p))
    BY <1>0, <1>3 DEF Stages
  <2> QED
    BY <1>0, <1>1, <1>2, <2>1 DEF StageOK
<1>6. Ran'
  BY <1>1, <1>4, RanKept DEF IInv
<1>7. PendingCount' /\ pending_' \in Nat
  <2>1. Unfinished' = Unfinished \ {o} /\ o \in Unfinished
    BY <1>1, <1>3 DEF Unfinished, Begun
  <2>2. IsFiniteSet(Unfinished) /\ pending_ = Cardinality(Unfinished)
    BY <1>0 DEF PendingCount
  <2>3. IsFiniteSet(Unfinished') /\ Cardinality(Unfinished') = Cardinality(Unfinished) - 1
    BY <2>1, <2>2 DEF Counting, CountRemove
  <2>4. Cardinality(Unfinished') \in Nat
    BY <2>3 DEF Counting, CountType
  <2> QED
    BY <1>1, <2>2, <2>3, <2>4 DEF PendingCount
<1>8. TypeOK'
  BY <1>0, <1>1, <1>2, <1>7 DEF TypeOK, CompleteEnd
<1>9. Exceptions'
  BY <1>2, <1>4, ExceptionsKept DEF IInv
<1> QED
  BY <1>4, <1>5, <1>6, <1>7, <1>8, <1>9 DEF IInv

-----------------------------------------------------------------------------
(* Counting a grant *)

\* A pool thread counts one variable of another operation as granted.
LEMMA TriggerInv ==
  ASSUME Counting, IInv, NEW o \in Ops, Trigger(o)
  PROVE  IInv'
<1>0. TypeOK /\ Stages /\ StageOK(o) /\ Flights /\ Variables /\ Ordered /\ Counts /\ completed[o] \in Nat
  BY DEF IInv, Stages, TypeOK
<1> PICK h : h = Head(triggers[o])
  OBVIOUS
<1> PICK v : v = Vars(o)[completed[o]]
  OBVIOUS
<1>1. /\ triggers[o] # <<>> /\ triggers' = [triggers EXCEPT ![o] = Tail(@)]
      /\ wait' = [wait EXCEPT ![h] = @ - 1]
      /\ ready' = IF wait[h] = 1 THEN ready \cup {h} ELSE ready
  BY DEF Trigger, DecrWait
<1>2. /\ process' = process /\ next' = next /\ at' = at /\ appended' = appended /\ pending_' = pending_
      /\ num_pending_reads_' = num_pending_reads_ /\ queue' = queue
      /\ running' = running /\ executed' = executed /\ completed' = completed
      /\ finished' = finished /\ opr_exception' = opr_exception
      /\ var_exception' = var_exception /\ thrown' = thrown /\ returned' = returned
  BY DEF Trigger, push_vars, exc_vars
<1> DEFINE s == triggers[o]
<1>3. /\ s \in Seq(Ops) /\ h = s[1] /\ h \in Ops /\ Len(s) \in Nat /\ Len(s) >= 1
      /\ Tail(s) \in Seq(Ops) /\ Len(Tail(s)) = Len(s) - 1
      /\ \A i \in 1 .. Len(Tail(s)) : Tail(s)[i] = s[i + 1] /\ i + 1 \in 1 .. Len(s)
  <2>1. s \in Seq(Ops) /\ s # <<>>
    BY <1>0, <1>1 DEF TypeOK
  <2> HIDE DEF s
  <2>2. h = Head(s)
    BY DEF s
  <2> QED
    BY <2>1, <2>2, TailFacts, SMTT(20)
<1>4. triggers'[o] = Tail(s) /\ \A p \in Ops \ {o} : triggers'[p] = triggers[p]
  BY <1>0, <1>1 DEF TypeOK
<1>5. v \in Var /\ completed[o] > 0 /\ completed[o] \in 1 .. Len(Vars(o))
  <2>1. completed[o] \in 1 .. Len(Vars(o)) /\ completed[o] > 0
    BY <1>0, <1>1, UsesFacts, SMTT(20) DEF StageOK
  <2> QED
    BY <2>1, UsesFacts
<1>6. Sends(o, h, v)
  BY <1>3, <1>5, SMTT(20) DEF Sends
<1>7. FlightOK(o) /\ Granted(h, v) /\ InFlight(h, v)
  BY <1>0, <1>3, <1>5, <1>6 DEF Flights, FlightOK, InFlight
<1>8. Uses(h, v) /\ ~Left(h, v) /\ Begun(h) /\ v \in Missing(h)
  BY <1>5, <1>7 DEF Granted, Live, Joined, Missing
<1>9. /\ IsFiniteSet(Missing(h)) /\ Cardinality(Missing(h)) \in Nat
      /\ Cardinality(Missing(h) \ {v}) = Cardinality(Missing(h)) - 1
      /\ Cardinality(Missing(h) \ {v}) \in Nat
  <2>1. IsFiniteSet(Missing(h)) /\ Cardinality(Missing(h)) \in Nat
    BY <1>3, MissingFinite
  <2>2. IsFiniteSet(Missing(h) \ {v}) /\ Cardinality(Missing(h) \ {v}) = Cardinality(Missing(h)) - 1
    BY <1>8, <2>1 DEF Counting, CountRemove
  <2> QED
    BY <2>1, <2>2 DEF Counting, CountType
<1>10. wait[h] = Cardinality(Missing(h)) + (IF Adding(h) THEN 1 ELSE 0)
  BY <1>0, <1>3, <1>8 DEF Counts, CountOK
<1>11. /\ wait[h] \in Nat /\ wait[h] > 0 /\ wait'[h] = wait[h] - 1
       /\ \A p \in Ops \ {h} : wait'[p] = wait[p]
  <2>1. wait[h] \in Nat /\ wait'[h] = wait[h] - 1 /\ \A p \in Ops \ {h} : wait'[p] = wait[p]
    BY <1>0, <1>1, <1>3 DEF TypeOK
  <2>2. wait[h] >= Cardinality(Missing(h))
    BY <1>9, <1>10, SMTT(20)
  <2> QED
    BY <1>9, <2>1, <2>2, SMTT(20)
<1>12. h \notin ready \cup running \cup executed
  BY <1>0, <1>3, <1>11 DEF Stages, StageOK
<1>13. \A p \in Ops : Begun(p)' <=> Begun(p)
  BY <1>1, <1>2, <1>8, <1>11, SMTT(20) DEF Begun
<1>14. \A p \in Ops : Adding(p)' <=> Adding(p)
  BY <1>2 DEF Adding
<1>15. \A p \in Ops, u \in Var : Joined(p, u)' <=> Joined(p, u)
  BY <1>2, <1>13, <1>14, JoinedKept
<1>16. /\ Variables' /\ Ordered'
       /\ \A p \in Ops, u \in Var : (Left(p, u)' <=> Left(p, u)) /\ (Granted(p, u)' <=> Granted(p, u))
  BY <1>0, <1>2, <1>15, VariablesQuiet
<1>17. \A p \in Ops \ {o}, q \in Ops, u \in Var : Sends(p, q, u)' <=> Sends(p, q, u)
  BY <1>2, <1>4 DEF Sends
<1>18. \A q \in Ops, u \in Var : Sends(o, q, u)' <=> Sends(o, q, u) /\ q # h
  <2> SUFFICES ASSUME NEW q \in Ops
               PROVE  (\E i \in 1 .. Len(Tail(s)) : Tail(s)[i] = q) <=>
                      (\E i \in 1 .. Len(s) : s[i] = q) /\ q # h
    BY <1>2, <1>4 DEF Sends
  <2>1. \A i, j \in 1 .. Len(s) : s[i] = s[j] => i = j
    BY <1>7 DEF FlightOK
  <2> HIDE DEF s
  <2>2. ASSUME NEW i \in 1 .. Len(Tail(s)), Tail(s)[i] = q
        PROVE  (\E j \in 1 .. Len(s) : s[j] = q) /\ q # h
    <3>1. s[i + 1] = q /\ i + 1 \in 1 .. Len(s) /\ 1 \in 1 .. Len(s) /\ i + 1 # 1
      BY <1>3, <2>2, SMTT(20)
    <3> QED
      BY <1>3, <2>1, <3>1
  <2>3. ASSUME NEW i \in 1 .. Len(s), s[i] = q, q # h
        PROVE  \E j \in 1 .. Len(Tail(s)) : Tail(s)[j] = q
    <3>1. i # 1 /\ i - 1 \in 1 .. Len(Tail(s)) /\ (i - 1) + 1 = i
      BY <1>3, <2>3, SMTT(20)
    <3> QED
      BY <1>3, <2>3, <3>1
  <2> QED
    BY <2>2, <2>3
<1>19. ~InFlight(h, v)'
  <2> SUFFICES ASSUME NEW p \in Ops, Sends(p, h, v)' PROVE FALSE
    BY DEF InFlight
  <2>1. Sends(p, h, v) /\ p # o
    BY <1>3, <1>5, <1>17, <1>18
  <2> QED
    BY <1>3, <1>5, <1>6, <1>7, <2>1 DEF FlightOK
<1>20. \A q \in Ops, u \in Var : q # h \/ u # v => (InFlight(q, u)' <=> InFlight(q, u))
  <2> SUFFICES ASSUME NEW q \in Ops, NEW u \in Var, q # h \/ u # v, NEW p \in Ops
               PROVE  Sends(p, q, u)' <=> Sends(p, q, u)
    BY DEF InFlight
  <2>1. CASE p # o
    BY <1>17, <2>1
  <2>2. CASE p = o /\ q # h
    BY <1>18, <2>2
  <2>3. CASE p = o /\ u # v
    BY <1>18, <2>3 DEF Sends
  <2> QED
    BY <2>1, <2>2, <2>3
<1>21. Missing(h)' = Missing(h) \ {v} /\ \A p \in Ops \ {h} : Missing(p)' = Missing(p)
  <2>1. \A p \in Ops, u \in Var : p # h \/ u # v => (u \in Missing(p)' <=> u \in Missing(p))
    BY <1>16, <1>20 DEF Missing
  <2>2. v \notin Missing(h)'
    BY <1>3, <1>5, <1>7, <1>16, <1>19 DEF Missing
  <2>3. \A p \in Ops : Missing(p) \subseteq Var /\ Missing(p)' \subseteq Var
    BY DEF Missing
  <2>4. \A u : u \in Missing(h)' <=> u \in Missing(h) \ {v}
    BY <1>3, <2>1, <2>2, <2>3
  <2>5. ASSUME NEW p \in Ops \ {h} PROVE Missing(p)' = Missing(p)
    BY <2>1, <2>3
  <2> QED
    BY <2>4, <2>5
<1>22. Flights'
  <2> SUFFICES ASSUME NEW p \in Ops PROVE FlightOK(p)'
    BY DEF Flights
  <2>1. FlightOK(p)
    BY <1>0 DEF Flights
  <2>2. \A q, r \in Ops, u \in Var : Sends(r, q, u)' => Sends(r, q, u)
    BY <1>17, <1>18
  <2>3. \A i, j \in 1 .. Len(triggers'[p]) : triggers'[p][i] = triggers'[p][j] => i = j
    <3>1. CASE p # o
      BY <1>4, <2>1, <3>1 DEF FlightOK
    <3>2. CASE p = o
      <4> SUFFICES ASSUME NEW i \in 1 .. Len(Tail(s)), NEW j \in 1 .. Len(Tail(s)),
                          Tail(s)[i] = Tail(s)[j]
                   PROVE  i = j
        BY <1>4, <3>2
      <4>1. \A a, b \in 1 .. Len(s) : s[a] = s[b] => a = b
        BY <1>7 DEF FlightOK
      <4>2. s[i + 1] = s[j + 1] /\ i + 1 \in 1 .. Len(s) /\ j + 1 \in 1 .. Len(s)
        BY <1>3
      <4>3. i + 1 = j + 1
        BY <4>1, <4>2
      <4> QED
        BY <1>3, <4>3, SMTT(20)
    <3> QED
      BY <3>1, <3>2
  <2> QED
    BY <1>16, <2>1, <2>2, <2>3 DEF FlightOK
<1>23. TypeOK'
  <2>1. triggers' \in [Ops -> Seq(Ops)]
    BY <1>0, <1>1, <1>3 DEF TypeOK
  <2>2. wait' \in [Ops -> Nat]
    BY <1>0, <1>1, <1>11, SMTT(20) DEF TypeOK
  <2>3. ready' \subseteq Ops
    BY <1>0, <1>1, <1>3 DEF TypeOK
  <2> QED
    BY <1>0, <1>2, <2>1, <2>2, <2>3 DEF TypeOK
<1>24. Threads'
  BY <1>2 DEF IInv, Threads, ThreadOK
<1>25. Places'
  BY <1>2, <1>13, <1>14 DEF IInv, Places, PlaceOK
<1>26. Stages'
  <2> SUFFICES ASSUME NEW p \in Ops PROVE StageOK(p)'
    BY DEF Stages
  <2>1. StageOK(p) /\ (Begun(p)' <=> Begun(p))
    BY <1>0, <1>13 DEF Stages
  <2>2. triggers'[p] # <<>> => triggers[p] # <<>>
    BY <1>1, <1>4
  <2>3. wait'[p] > 0 => p \notin ready' \cup running \cup executed
    BY <1>1, <1>11, <1>12, <2>1, SMTT(20) DEF StageOK
  <2>4. p \in ready' => p \notin running \cup executed
    BY <1>1, <1>12, <2>1 DEF StageOK
  <2> QED
    BY <1>2, <2>1, <2>2, <2>3, <2>4 DEF StageOK
<1>27. Counts'
  <2> SUFFICES ASSUME NEW p \in Ops PROVE CountOK(p)'
    BY DEF Counts
  <2>1. CASE p = h
    <3> PICK m : m = Cardinality(Missing(h))
      OBVIOUS
    <3>0. m \in Nat /\ Cardinality(Missing(h)') = m - 1
      BY <1>9, <1>21
    <3>1. wait'[h] = Cardinality(Missing(h)') + (IF Adding(h)' THEN 1 ELSE 0)
      <4>1. CASE Adding(h)
        <5>1. wait[h] = m + 1 /\ Adding(h)'
          BY <1>3, <1>10, <1>14, <4>1
        <5> QED
          BY <1>11, <3>0, <5>1, SMTT(20)
      <4>2. CASE ~Adding(h)
        <5>1. wait[h] = m + 0 /\ ~Adding(h)'
          BY <1>3, <1>10, <1>14, <4>2
        <5> QED
          BY <1>11, <3>0, <5>1, SMTT(20)
      <4> QED
        BY <4>1, <4>2
    <3> QED
      BY <2>1, <3>1 DEF CountOK
  <2>2. CASE p # h
    BY <1>0, <1>11, <1>13, <1>14, <1>21, <2>2, CountKept DEF Counts
  <2> QED
    BY <2>1, <2>2
<1>28. Ran'
  BY <1>2, <1>16, RanKept DEF IInv
<1>29. WaitSees'
  <2>1. \A p \in Ops : Over(p)' => Over(p)
    BY <1>2 DEF Over
  <2> QED
    BY <1>2, <2>1, WaitSeesKept DEF IInv
<1>30. PendingCount'
  BY <1>2, <1>13, PendingKept DEF IInv
<1>31. Exceptions'
  BY <1>2, <1>16, ExceptionsKept DEF IInv
<1> QED
  BY <1>16, <1>22, <1>23, <1>24, <1>25, <1>26, <1>27, <1>28, <1>29, <1>30, <1>31 DEF IInv

-----------------------------------------------------------------------------
(* Adding a dependency *)

\* An operation joins a variable: it is granted the variable at once, or
\* queued behind everybody there.
LEMMA AppendDependencyInv ==
  ASSUME Counting, IInv, NEW t \in process, AppendDependency(t)
  PROVE  IInv'
<1>0. /\ TypeOK /\ Stages /\ Places /\ Counts /\ Variables /\ Flights /\ Ordered
      /\ t \in Thread /\ next[t] \in Nat /\ appended[t] \in Nat /\ at[t] = "push"
  BY ProgramAssumption DEF IInv, TypeOK, AppendDependency
<1>o. PICK o : o = <<t, next[t]>>
  OBVIOUS
<1>k. PICK k : k = appended[t] + 1
  OBVIOUS
<1>v. PICK v : v = Vars(o)[k]
  OBVIOUS
<1>1. o \in Ops /\ o[1] = t /\ o[2] = next[t]
  <2>1. next[t] > 0 /\ next[t] <= Len(Program[t])
    BY <1>0 DEF IInv, Threads, ThreadOK
  <2> QED
    BY <1>o, <1>0, <2>1, OpsFacts, SMTT(20)
<1>2. /\ k <= Len(Vars(o)) /\ appended' = [appended EXCEPT ![t] = k]
      /\ IF Reads(o, k) THEN AppendReadDependency(o, v) ELSE AppendWriteDependency(o, v)
  BY <1>o, <1>k, <1>v DEF AppendDependency, Current
<1>3. /\ process' = process /\ next' = next /\ at' = at /\ pending_' = pending_
      /\ ready' = ready /\ running' = running /\ executed' = executed /\ completed' = completed
      /\ finished' = finished /\ triggers' = triggers /\ opr_exception' = opr_exception
      /\ var_exception' = var_exception /\ thrown' = thrown /\ returned' = returned
  BY DEF AppendDependency, run_vars, exc_vars
<1>4. /\ k \in 1 .. Len(Vars(o)) /\ v \in Var /\ Uses(o, v) /\ Pos(o, v) = k
      /\ (Reads(o, k) <=> ~Mutates(o, v))
  <2>1. k \in 1 .. Len(Vars(o))
    BY <1>0, <1>1, <1>2, <1>k, UsesFacts, SMTT(20)
  <2>2. v \in Var /\ Uses(o, v) /\ Pos(o, v) = k
    BY <1>1, <1>v, <2>1, UsesFacts, PosFacts
  <2> QED
    BY <1>1, <2>1, <2>2, PosFacts
<1>5. appended'[t] = k /\ \A u \in Thread \ {t} : appended'[u] = appended[u]
  BY <1>0, <1>2 DEF TypeOK
<1>6. Adding(o) /\ Begun(o) /\ StageOK(o) /\ CountOK(o)
  BY <1>0, <1>1 DEF Places, Stages, Counts, Adding, PlaceOK
<1>7. ~Joined(o, v)
  BY <1>0, <1>1, <1>4, <1>6, <1>k, SMTT(20) DEF Joined
<1>m. PICK m : m = Cardinality(Missing(o))
  OBVIOUS
<1>8. wait[o] = m + 1 /\ m \in Nat /\ o \notin ready \cup running \cup executed
  <2>1. wait[o] = m + 1 /\ m \in Nat
    BY <1>1, <1>6, <1>m, MissingFinite DEF CountOK
  <2> QED
    BY <1>6, <2>1, SMTT(20) DEF StageOK
<1>9. \A u : ~Left(o, u)
  BY <1>0, <1>1, <1>8, LeftFacts
<1>10. v \in Missing(o) /\ ~Granted(o, v)
  BY <1>4, <1>7, <1>9 DEF Missing, Granted, Live
<1>11. /\ m - 1 \in Nat /\ Cardinality(Missing(o) \ {v}) = m - 1
  <2>1. IsFiniteSet(Missing(o))
    BY <1>1, MissingFinite
  <2>2. IsFiniteSet(Missing(o) \ {v}) /\ Cardinality(Missing(o) \ {v}) = m - 1
    BY <1>10, <1>m, <2>1 DEF Counting, CountRemove
  <2> QED
    BY <2>2 DEF Counting, CountType
<1>12. wait' = wait \/ wait' = [wait EXCEPT ![o] = @ - 1]
  BY <1>2 DEF AppendReadDependency, AppendWriteDependency
<1>13. /\ wait'[o] \in Nat /\ wait'[o] > 0 /\ \A p \in Ops \ {o} : wait'[p] = wait[p]
       /\ wait' \in [Ops -> Nat]
  <2>1. CASE wait' = wait
    BY <1>0, <1>1, <1>8, <2>1, SMTT(20) DEF TypeOK
  <2>2. CASE wait' = [wait EXCEPT ![o] = @ - 1]
    <3>1. wait'[o] = m /\ m > 0 /\ \A p \in Ops \ {o} : wait'[p] = wait[p]
      BY <1>0, <1>1, <1>8, <1>11, <2>2, SMTT(20) DEF TypeOK
    <3>2. wait' = [wait EXCEPT ![o] = m]
      BY <1>8, <2>2, SMTT(20)
    <3>3. wait' \in [Ops -> Nat]
      BY <1>0, <1>8, <3>2 DEF TypeOK
    <3> QED
      BY <1>8, <3>1, <3>3
  <2> QED
    BY <1>12, <2>1, <2>2
<1>14. \A p \in Ops : Begun(p)' <=> Begun(p)
  BY <1>3, <1>6, <1>13 DEF Begun
<1>15. \A p \in Ops : Adding(p)' <=> Adding(p)
  BY <1>3 DEF Adding
<1>16. \A p \in Ops \ {o} : p[1] \in Thread /\ p[2] \in Nat /\ (p[1] = t => p[2] # next[t])
  <2> SUFFICES ASSUME NEW p \in Ops, p # o
               PROVE  p[1] \in Thread /\ p[2] \in Nat /\ (p[1] = t => p[2] # next[t])
    OBVIOUS
  <2>1. o \in Ops /\ o[1] = t /\ o[2] = next[t]
    BY <1>1
  <2>2. p[1] \in Thread /\ p[2] \in Nat
    BY OpsFacts, SMTT(20)
  <2>3. p[1] = t => p[2] # next[t]
    BY <2>1, OpsEqual
  <2> QED
    BY <2>2, <2>3
<1>17. Joined(o, v)'
  BY <1>1, <1>4, <1>5, <1>6, <1>14, SMTT(20) DEF Joined
<1>18. \A p \in Ops, u \in Var : p # o \/ u # v => (Joined(p, u)' <=> Joined(p, u))
  <2> SUFFICES ASSUME NEW p \in Ops, NEW u \in Var, p # o \/ u # v
               PROVE  Joined(p, u)' <=> Joined(p, u)
    OBVIOUS
  <2>1. CASE p # o
    <3>1. Adding(p) => appended'[p[1]] = appended[p[1]]
      BY <1>5, <1>16, <2>1 DEF Adding
    <3> QED
      BY <1>14, <1>15, <3>1, JoinedKept
  <2>2. CASE p = o
    <3>1. Uses(o, u) => Pos(o, u) \in Nat /\ Pos(o, u) # k
      <4>1. Len(Vars(o)) \in Nat /\ (Uses(o, u) => Pos(o, u) \in 1 .. Len(Vars(o)) /\ Vars(o)[Pos(o, u)] = u)
        BY <1>1, PosFacts, UsesFacts
      <4> QED
        BY <1>1, <1>v, <2>2, <4>1, SMTT(20)
    <3>2. Uses(o, u) => (Pos(o, u) <= appended'[t] <=> Pos(o, u) <= appended[t])
      BY <1>0, <1>5, <1>k, <3>1, SMTT(20)
    <3> QED
      BY <1>1, <1>14, <1>15, <2>2, <3>2 DEF Joined
  <2> QED
    BY <2>1, <2>2
<1>19. \A p \in Ops, u \in Var : Left(p, u)' <=> Left(p, u)
  BY <1>3 DEF Left
<1>20. /\ Live(o, v)' /\ ~Live(o, v)
       /\ \A p \in Ops, u \in Var : p # o \/ u # v => (Live(p, u)' <=> Live(p, u))
  BY <1>1, <1>4, <1>7, <1>9, <1>17, <1>18, <1>19 DEF Live
<1>21. \A p, h \in Ops, u \in Var : Sends(p, h, u)' <=> Sends(p, h, u)
  BY <1>3 DEF Sends
<1>22. (\A p \in Ops, u \in Var : InFlight(p, u)' <=> InFlight(p, u)) /\ ~InFlight(o, v)
  <2>1. ~InFlight(o, v)
    BY <1>0, <1>1, <1>4, <1>10 DEF InFlight, Flights, FlightOK
  <2> QED
    BY <1>21, <2>1 DEF InFlight
<1>s. PICK s, s1 : s = queue[v] /\ s1 = queue'[v]
  OBVIOUS
<1>23. /\ VarOK(v) /\ s \in Seq([trigger : Ops, write : BOOLEAN]) /\ Len(s) \in Nat
       /\ \A i \in 1 .. Len(s) : s[i].trigger \in Ops /\ s[i].trigger # o
       /\ ~Queued(o, v)
  <2>1. VarOK(v) /\ s \in Seq([trigger : Ops, write : BOOLEAN])
    BY <1>0, <1>4, <1>s DEF Variables, TypeOK
  <2>2. Len(s) \in Nat /\ \A i \in 1 .. Len(s) : s[i].trigger \in Ops
    BY <2>1, BlockFacts
  <2>3. \A i \in 1 .. Len(s) : s[i].trigger # o
    <3>1. \A i \in 1 .. Len(queue[v]) : queue[v][i].trigger # o
      BY <1>1, <1>20, <2>1 DEF VarOK
    <3> QED
      BY <1>s, <3>1
  <2>4. ~Queued(o, v)
    BY <1>s, <2>3, Zenon DEF Queued
  <2> QED
    BY <2>1, <2>2, <2>3, <2>4
\* The three ways a dependency is added.
<1> DEFINE b == [trigger |-> o, write |-> ~Reads(o, k)]
           ReadNow == /\ s = <<>> /\ Reads(o, k) /\ wait' = [wait EXCEPT ![o] = @ - 1] /\ queue' = queue
                      /\ num_pending_reads_' = [num_pending_reads_ EXCEPT ![v] = @ + 1]
           WriteNow == /\ s = <<>> /\ ~Reads(o, k) /\ num_pending_reads_[v] = 0
                       /\ wait' = [wait EXCEPT ![o] = @ - 1] /\ queue' = [queue EXCEPT ![v] = Append(@, b)]
                       /\ num_pending_reads_' = [num_pending_reads_ EXCEPT ![v] = kWriteTriggered]
           Later == /\ s # <<>> \/ (~Reads(o, k) /\ num_pending_reads_[v] # 0)
                    /\ wait' = wait /\ queue' = [queue EXCEPT ![v] = Append(@, b)]
                    /\ num_pending_reads_' = num_pending_reads_
<1>24. ReadNow \/ WriteNow \/ Later
  <2>1. CASE Reads(o, k) /\ s = <<>>
    BY <1>2, <1>s, <2>1 DEF AppendReadDependency
  <2>2. CASE Reads(o, k) /\ s # <<>>
    <3>1. b = [trigger |-> o, write |-> FALSE]
      BY <2>2
    <3> HIDE DEF b
    <3> QED
      BY <1>2, <1>s, <2>2, <3>1 DEF AppendReadDependency
  <2>3. CASE ~Reads(o, k)
    <3>1. b = [trigger |-> o, write |-> TRUE]
      BY <2>3
    <3>2. AppendWriteDependency(o, v)
      BY <1>2, <2>3
    <3> HIDE DEF b
    <3>3. CASE s = <<>> /\ num_pending_reads_[v] = 0
      BY <1>s, <2>3, <3>1, <3>2, <3>3 DEF AppendWriteDependency
    <3>4. CASE ~(s = <<>> /\ num_pending_reads_[v] = 0)
      BY <1>s, <2>3, <3>1, <3>2, <3>4 DEF AppendWriteDependency
    <3> QED
      BY <3>3, <3>4
  <2> QED
    BY <2>1, <2>2, <2>3
<1> HIDE DEF b, ReadNow, WriteNow, Later
<1>26. \A u \in Var \ {v} : queue'[u] = queue[u] /\ num_pending_reads_'[u] = num_pending_reads_[u]
  <2>1. CASE ReadNow
    BY <1>0, <2>1 DEF ReadNow, TypeOK
  <2>2. CASE WriteNow
    BY <1>0, <2>2 DEF WriteNow, TypeOK
  <2>3. CASE Later
    BY <1>0, <2>3 DEF Later, TypeOK
  <2> QED
    BY <1>24, <2>1, <2>2, <2>3
<1>25. \A p \in Ops, u \in Var \ {v} : (Queued(p, u)' <=> Queued(p, u)) /\ (Writing(p, u)' <=> Writing(p, u))
  BY <1>26 DEF Queued, Writing
<1>27. /\ b \in [trigger : Ops, write : BOOLEAN] /\ b.trigger = o /\ (b.write <=> Mutates(o, v))
  <2>1. b.trigger = o /\ b.write = ~Reads(o, k) /\ b \in [trigger : Ops, write : BOOLEAN]
    BY <1>1 DEF b
  <2> QED
    BY <1>4, <2>1
<1>28. WriteNow \/ Later =>
         /\ s1 = Append(s, b) /\ Len(s1) = Len(s) + 1 /\ s1[Len(s) + 1] = b
         /\ \A i \in 1 .. Len(s) : s1[i] = s[i]
         /\ queue' \in [Var -> Seq([trigger : Ops, write : BOOLEAN])]
  <2> SUFFICES ASSUME WriteNow \/ Later
               PROVE  /\ s1 = Append(s, b) /\ Len(s1) = Len(s) + 1 /\ s1[Len(s) + 1] = b
                      /\ \A i \in 1 .. Len(s) : s1[i] = s[i]
                      /\ queue' \in [Var -> Seq([trigger : Ops, write : BOOLEAN])]
    OBVIOUS
  <2>1. PICK B : B = [trigger : Ops, write : BOOLEAN]
    OBVIOUS
  <2>2. queue \in [Var -> Seq(B)] /\ queue' = [queue EXCEPT ![v] = Append(s, b)] /\ s \in Seq(B) /\ b \in B
    BY <1>0, <1>s, <1>23, <1>27, <2>1 DEF TypeOK, WriteNow, Later
  <2>3. /\ Append(s, b) \in Seq(B) /\ Len(Append(s, b)) = Len(s) + 1 /\ Append(s, b)[Len(s) + 1] = b
        /\ \A i \in 1 .. Len(s) : Append(s, b)[i] = s[i]
    BY <2>2, AppendFacts, SMTT(20)
  <2>4. queue' \in [Var -> Seq(B)] /\ s1 = Append(s, b)
    BY <1>s, <1>4, <2>2, <2>3
  <2> QED
    BY <2>1, <2>3, <2>4
<1>29. WriteNow \/ Later =>
         /\ Queued(o, v)' /\ \A p \in Ops \ {o} : Queued(p, v)' <=> Queued(p, v)
         /\ Readers(v)' = Readers(v)
  <2> SUFFICES ASSUME WriteNow \/ Later
               PROVE  /\ Queued(o, v)' /\ \A p \in Ops \ {o} : Queued(p, v)' <=> Queued(p, v)
                      /\ Readers(v)' = Readers(v)
    OBVIOUS
  <2>1. Len(s) + 1 \in 1 .. Len(s1) /\ s1[Len(s) + 1].trigger = o
    BY <1>23, <1>27, <1>28, SMTT(20)
  <2>2. \A i \in 1 .. Len(s1) : i \in 1 .. Len(s) \/ i = Len(s) + 1
    BY <1>23, <1>28, SMTT(20)
  <2>3. \A i \in 1 .. Len(s) : i \in 1 .. Len(s1) /\ s1[i] = s[i]
    BY <1>23, <1>28, SMTT(20)
  <2>4. \A p \in Ops \ {o} : (\E i \in 1 .. Len(s1) : s1[i].trigger = p) <=> (\E i \in 1 .. Len(s) : s[i].trigger = p)
    BY <2>1, <2>2, <2>3
  <2>5. Queued(o, v)' /\ \A p \in Ops \ {o} : Queued(p, v)' <=> Queued(p, v)
    BY <1>s, <2>1, <2>4 DEF Queued
  <2> QED
    BY <1>4, <1>20, <1>23, <2>5 DEF Readers
<1>30. num_pending_reads_ \in [Var -> Nat \cup {-1}]
  BY <1>0 DEF TypeOK, kWriteTriggered
<1>31. /\ ReadNow => num_pending_reads_[v] \in Nat /\ num_pending_reads_'[v] = num_pending_reads_[v] + 1
       /\ WriteNow => num_pending_reads_'[v] = -1
       /\ Later => num_pending_reads_'[v] = num_pending_reads_[v]
  <2>1. s = <<>> => num_pending_reads_[v] # -1
    BY <1>23, <1>s DEF VarOK, kWriteTriggered
  <2>2. ReadNow => num_pending_reads_[v] \in Nat
    BY <1>4, <1>30, <2>1 DEF ReadNow
  <2> QED
    BY <1>4, <1>30, <2>2 DEF ReadNow, WriteNow, Later, kWriteTriggered
\* Who holds the variable: nobody new but the operation.
<1>32. \A p \in Ops \ {o} : Granted(p, v)' <=> Granted(p, v)
  <2> SUFFICES ASSUME NEW p \in Ops \ {o} PROVE Granted(p, v)' <=> Granted(p, v)
    OBVIOUS
  <2>1. Live(p, v)' <=> Live(p, v)
    BY <1>4, <1>20
  <2>2. CASE ReadNow
    <3>1. ~Queued(p, v)' /\ ~Queued(p, v)
      <4>1. queue'[v] = <<>> /\ queue[v] = <<>>
        BY <1>s, <2>2 DEF ReadNow
      <4> QED
        BY <4>1, SMTT(20) DEF Queued
    <3> QED
      BY <2>1, <3>1 DEF Granted
  <2>3. CASE WriteNow
    <3>1. ~Queued(p, v)
      BY <1>s, <2>3, SMTT(20) DEF WriteNow, Queued
    <3> QED
      BY <1>29, <2>1, <2>3, <3>1 DEF Granted
  <2>4. CASE Later
    <3>1. Writing(p, v)' <=> Writing(p, v)
      <4>1. CASE s = <<>>
        <5>1. num_pending_reads_[v] # kWriteTriggered
          BY <1>23, <1>s, <4>1 DEF VarOK
        <5> QED
          BY <1>31, <2>4, <5>1 DEF Writing, Later
      <4>2. CASE s # <<>>
        <5>1. 1 \in 1 .. Len(s) /\ s1[1] = s[1] /\ s1 # <<>>
          BY <1>23, <1>28, <2>4, <4>2, SMTT(20)
        <5> QED
          BY <1>s, <2>4, <4>2, <5>1 DEF Writing, Later
      <4> QED
        BY <4>1, <4>2
    <3> QED
      BY <1>29, <2>1, <2>4, <3>1 DEF Granted
  <2> QED
    BY <1>24, <2>2, <2>3, <2>4
<1>33. \A p \in Ops, u \in Var : p # o \/ u # v => (Granted(p, u)' <=> Granted(p, u))
  BY <1>20, <1>25, <1>32 DEF Granted
<1>34. \/ Granted(o, v)' /\ wait'[o] = m
       \/ ~Granted(o, v)' /\ wait'[o] = m + 1
  <2>1. CASE ReadNow
    <3>1. ~Queued(o, v)'
      <4>1. queue'[v] = <<>>
        BY <1>s, <2>1 DEF ReadNow
      <4> QED
        BY <4>1, SMTT(20) DEF Queued
    <3>2. wait'[o] = m
      BY <1>0, <1>1, <1>8, <2>1, SMTT(20) DEF ReadNow, TypeOK
    <3> QED
      BY <1>20, <3>1, <3>2 DEF Granted
  <2>2. CASE WriteNow
    <3>1. s1 # <<>> /\ s1[1].trigger = o
      <4>1. Len(s) = 0
        BY <2>2 DEF WriteNow
      <4>2. Len(s1) = 1 /\ s1[1] = b
        BY <1>28, <2>2, <4>1, SMTT(20)
      <4> QED
        BY <1>27, <4>2, SMTT(20)
    <3>2. Writing(o, v)'
      BY <1>s, <1>31, <2>2, <3>1 DEF Writing, kWriteTriggered
    <3>3. wait'[o] = m
      BY <1>0, <1>1, <1>8, <2>2, SMTT(20) DEF WriteNow, TypeOK
    <3> QED
      BY <1>20, <3>2, <3>3 DEF Granted
  <2>3. CASE Later
    <3>1. ~Writing(o, v)'
      <4>1. CASE s = <<>>
        <5>1. num_pending_reads_[v] # kWriteTriggered
          BY <1>23, <1>s, <4>1 DEF VarOK
        <5> QED
          BY <1>31, <2>3, <5>1 DEF Writing
      <4>2. CASE s # <<>>
        <5>1. 1 \in 1 .. Len(s) /\ s1[1] = s[1]
          BY <1>23, <1>28, <2>3, <4>2, SMTT(20)
        <5>2. s1[1].trigger # o
          BY <1>23, <5>1
        <5> QED
          BY <1>s, <5>2 DEF Writing
      <4> QED
        BY <4>1, <4>2
    <3>2. wait'[o] = m + 1
      BY <1>8, <2>3 DEF Later
    <3> QED
      BY <1>29, <2>3, <3>1, <3>2 DEF Granted
  <2> QED
    BY <1>24, <2>1, <2>2, <2>3
<1>35. \/ Missing(o)' = Missing(o) \ {v} /\ wait'[o] = m
       \/ Missing(o)' = Missing(o) /\ wait'[o] = m + 1
  <2>1. \A u \in Var \ {v} : u \in Missing(o)' <=> u \in Missing(o)
    BY <1>1, <1>19, <1>22, <1>33 DEF Missing
  <2>2. v \in Missing(o)' <=> ~Granted(o, v)'
    BY <1>1, <1>4, <1>9, <1>19, <1>22 DEF Missing
  <2>3. Missing(o) \subseteq Var /\ Missing(o)' \subseteq Var
    BY DEF Missing
  <2>4. CASE Granted(o, v)' /\ wait'[o] = m
    <3>1. Missing(o)' = Missing(o) \ {v}
      BY <2>1, <2>2, <2>3, <2>4
    <3> QED
      BY <2>4, <3>1
  <2>5. CASE ~Granted(o, v)' /\ wait'[o] = m + 1
    <3>1. Missing(o)' = Missing(o)
      BY <1>10, <2>1, <2>2, <2>3, <2>5, SMTT(20)
    <3> QED
      BY <2>5, <3>1
  <2> QED
    BY <1>34, <2>4, <2>5
<1>36. \A p \in Ops \ {o} : Missing(p)' = Missing(p)
  BY <1>19, <1>22, <1>33 DEF Missing
<1>37. Counts'
  <2> SUFFICES ASSUME NEW p \in Ops PROVE CountOK(p)'
    BY DEF Counts
  <2>1. CASE p # o
    BY <1>0, <1>13, <1>14, <1>15, <1>36, <2>1, CountKept DEF Counts
  <2>2. CASE p = o
    <3>1. wait'[o] = Cardinality(Missing(o)') + 1
      <4>1. CASE Missing(o)' = Missing(o) \ {v} /\ wait'[o] = m
        <5>1. Cardinality(Missing(o)') = m - 1
          BY <1>11, <4>1
        <5> QED
          BY <1>8, <4>1, <5>1, SMTT(20)
      <4>2. CASE Missing(o)' = Missing(o) /\ wait'[o] = m + 1
        BY <1>m, <4>2
      <4> QED
        BY <1>35, <4>1, <4>2
    <3> QED
      BY <1>6, <1>15, <2>2, <3>1 DEF CountOK
  <2> QED
    BY <2>1, <2>2
<1>38. Flights'
  <2> SUFFICES ASSUME NEW p \in Ops PROVE FlightOK(p)'
    BY DEF Flights
  <2>1. FlightOK(p)
    BY <1>0 DEF Flights
  <2>2. \A h \in Ops, u \in Var : Granted(h, u) => Granted(h, u)'
    BY <1>10, <1>33
  <2> QED
    BY <1>3, <1>21, <2>1, <2>2 DEF FlightOK
\* The order of the queues.
<1>39. /\ Len(s1) \in Nat
       /\ \A i \in 1 .. Len(s) : i \in 1 .. Len(s1) /\ s1[i] = s[i]
       /\ \A i \in 1 .. Len(s1) : i \notin 1 .. Len(s) => i = Len(s) + 1 /\ s1[i] = b
  <2>1. CASE ReadNow
    BY <1>23, <1>s, <2>1 DEF ReadNow
  <2>2. CASE WriteNow \/ Later
    BY <1>23, <1>28, <2>2, SMTT(20)
  <2> QED
    BY <1>24, <2>1, <2>2
<1>40. Ordered'
  <2> SUFFICES ASSUME NEW q \in Ops, NEW p \in Ops, NEW u \in Var,
                      Before(p, q), ConflictOn(q, p, u), Live(p, u)', Joined(q, u)'
               PROVE  \E j \in 1 .. Len(queue'[u]) :
                        /\ queue'[u][j].trigger = q
                        /\ \A i \in 1 .. Len(queue'[u]) : queue'[u][i].trigger = p => i < j
    BY SMTT(20) DEF Ordered
  <2>1. p # q /\ p # o
    <3>1. p # q /\ p[2] \in Nat /\ q[2] \in Nat /\ q[1] \in Thread
      BY OpsFacts, SMTT(20) DEF Before
    <3>2. Begun(q) /\ StageOK(q)
      BY <1>0, <1>14 DEF Joined, Stages
    <3>3. q[2] <= next[q[1]] /\ next[q[1]] \in Nat
      BY <1>0, <3>1, <3>2 DEF StageOK, TypeOK
    <3> QED
      BY <1>1, <3>1, <3>3, SMTT(20) DEF Before
  <2>2. Live(p, u)
    BY <1>20, <2>1
  <2>3. CASE u # v
    BY <1>0, <1>18, <1>26, <2>2, <2>3, SMTT(20) DEF Ordered
  <2>4. CASE u = v /\ q # o
    <3>1. PICK j \in 1 .. Len(s) : s[j].trigger = q /\ \A i \in 1 .. Len(s) : s[i].trigger = p => i < j
      BY <1>0, <1>18, <1>s, <2>2, <2>4, SMTT(20) DEF Ordered
    <3>2. j \in 1 .. Len(s1) /\ s1[j].trigger = q
      BY <1>39, <3>1
    <3>3. \A i \in 1 .. Len(s1) : s1[i].trigger = p => i < j
      BY <1>27, <1>39, <2>1, <3>1
    <3> QED
      BY <1>s, <2>4, <3>2, <3>3
  <2>5. CASE u = v /\ q = o
    <3>1. CASE ReadNow
      <4>1. Mutates(p, v)
        BY <1>4, <2>5, <3>1 DEF ReadNow, ConflictOn
      <4>2. Queued(p, v)
        BY <1>23, <2>2, <2>5, <4>1 DEF VarOK
      <4>3. queue[v] = <<>>
        BY <1>s, <3>1 DEF ReadNow
      <4>4. \A i \in 1 .. Len(queue[v]) : FALSE
        BY <4>3, SMTT(20)
      <4> QED
        BY <4>2, <4>4 DEF Queued
    <3>2. CASE WriteNow \/ Later
      <4>1. Len(s) + 1 \in 1 .. Len(s1) /\ s1[Len(s) + 1].trigger = o
        BY <1>23, <1>27, <1>28, <3>2, SMTT(20)
      <4>2. \A i \in 1 .. Len(s1) : s1[i].trigger = p => i < Len(s) + 1
        BY <1>23, <1>27, <1>39, <2>1, SMTT(20)
      <4> QED
        BY <1>s, <2>5, <4>1, <4>2
    <3> QED
      BY <1>24, <3>1, <3>2
  <2> QED
    BY <2>3, <2>4, <2>5
\* The variable counts its readers.
<1>41. VarOK(v)'
  <2>1. /\ \A i \in 1 .. Len(s) : \A p \in Ops : s[i].trigger = p => Live(p, v) /\ (s[i].write <=> Mutates(p, v))
        /\ \A i, j \in 1 .. Len(s) : s[i].trigger = s[j].trigger => i = j
        /\ \A p \in Ops : Live(p, v) /\ Mutates(p, v) => Queued(p, v)
        /\ s # <<>> => s[1].write /\ num_pending_reads_[v] # 0
        /\ IsFiniteSet(Readers(v))
        /\ IF num_pending_reads_[v] = -1
             THEN s # <<>> /\ Readers(v) = {}
             ELSE num_pending_reads_[v] = Cardinality(Readers(v))
    BY <1>s, <1>23 DEF VarOK, kWriteTriggered
  <2>2. \A i \in 1 .. Len(s1) : \A p \in Ops : s1[i].trigger = p => Live(p, v)' /\ (s1[i].write <=> Mutates(p, v))
    <3> SUFFICES ASSUME NEW i \in 1 .. Len(s1), NEW p \in Ops, s1[i].trigger = p
                 PROVE  Live(p, v)' /\ (s1[i].write <=> Mutates(p, v))
      OBVIOUS
    <3>1. CASE i \in 1 .. Len(s)
      <4>1. s[i] = s1[i] /\ p # o
        BY <1>23, <1>39, <3>1
      <4> QED
        BY <1>4, <1>20, <2>1, <3>1, <4>1
    <3>2. CASE i \notin 1 .. Len(s)
      <4>1. s1[i] = b
        BY <1>39, <3>2
      <4> QED
        BY <1>20, <1>27, <4>1
    <3> QED
      BY <3>1, <3>2
  <2>3. \A i, j \in 1 .. Len(s1) : s1[i].trigger = s1[j].trigger => i = j
    <3> SUFFICES ASSUME NEW i \in 1 .. Len(s1), NEW j \in 1 .. Len(s1), s1[i].trigger = s1[j].trigger
                 PROVE  i = j
      OBVIOUS
    <3>1. CASE i \in 1 .. Len(s) /\ j \in 1 .. Len(s)
      BY <1>39, <2>1, <3>1
    <3>2. CASE i \notin 1 .. Len(s) /\ j \notin 1 .. Len(s)
      BY <1>39, <3>2
    <3>3. CASE i \in 1 .. Len(s) /\ j \notin 1 .. Len(s)
      BY <1>23, <1>27, <1>39, <3>3
    <3>4. CASE i \notin 1 .. Len(s) /\ j \in 1 .. Len(s)
      BY <1>23, <1>27, <1>39, <3>4
    <3> QED
      BY <3>1, <3>2, <3>3, <3>4
  <2>4. \A p \in Ops : Live(p, v)' /\ Mutates(p, v) => Queued(p, v)'
    <3>1. CASE ReadNow
      <4>1. \A p \in Ops : Queued(p, v)' <=> Queued(p, v)
        BY <3>1 DEF ReadNow, Queued
      <4>2. ~Mutates(o, v)
        BY <1>4, <3>1 DEF ReadNow
      <4> QED
        BY <1>4, <1>20, <2>1, <4>1, <4>2
    <3>2. CASE WriteNow \/ Later
      BY <1>4, <1>20, <1>29, <2>1, <3>2
    <3> QED
      BY <1>24, <3>1, <3>2
  <2>5. s1 # <<>> => s1[1].write /\ num_pending_reads_'[v] # 0
    <3>1. CASE ReadNow
      BY <1>s, <3>1 DEF ReadNow
    <3>2. CASE WriteNow \/ Later
      <4>1. CASE s = <<>>
        <5>1. Len(s) = 0 /\ ~Reads(o, k)
          BY <3>2, <4>1 DEF WriteNow, Later
        <5>2. s1[1] = b
          BY <1>28, <3>2, <5>1, SMTT(20)
        <5>3. s1[1].write
          BY <1>4, <1>27, <5>1, <5>2
        <5>4. num_pending_reads_'[v] # 0
          BY <1>31, <3>2, <4>1, SMTT(20) DEF Later
        <5> QED
          BY <5>3, <5>4
      <4>2. CASE s # <<>>
        <5>1. 1 \in 1 .. Len(s) /\ Later
          BY <1>23, <3>2, <4>2, SMTT(20) DEF WriteNow
        <5> QED
          BY <1>31, <1>39, <2>1, <4>2, <5>1
      <4> QED
        BY <4>1, <4>2
    <3> QED
      BY <1>24, <3>1, <3>2
  <2>6. /\ IsFiniteSet(Readers(v)')
        /\ IF num_pending_reads_'[v] = -1
             THEN s1 # <<>> /\ Readers(v)' = {}
             ELSE num_pending_reads_'[v] = Cardinality(Readers(v)')
    <3>1. CASE ReadNow
      <4>1. num_pending_reads_[v] \in Nat /\ num_pending_reads_'[v] = num_pending_reads_[v] + 1
        BY <1>31, <3>1
      <4>2. \A p \in Ops : Queued(p, v)' <=> Queued(p, v)
        BY <3>1 DEF ReadNow, Queued
      <4>3. Readers(v)' = Readers(v) \cup {o} /\ o \notin Readers(v)
        BY <1>1, <1>4, <1>20, <1>23, <4>2 DEF Readers
      <4>4. IsFiniteSet(Readers(v)') /\ Cardinality(Readers(v)') = Cardinality(Readers(v)) + 1
        BY <2>1, <4>3 DEF Counting, CountAdd
      <4>5. num_pending_reads_[v] = Cardinality(Readers(v))
        BY <2>1, <4>1, SMTT(20)
      <4>6. num_pending_reads_'[v] = Cardinality(Readers(v)') /\ num_pending_reads_'[v] # -1
        BY <4>1, <4>4, <4>5, SMTT(20)
      <4> QED
        BY <4>4, <4>6
    <3>2. CASE WriteNow
      <4>1. num_pending_reads_[v] = 0
        BY <3>2 DEF WriteNow
      <4>2. Cardinality(Readers(v)) = 0
        BY <2>1, <4>1
      <4>3. Readers(v) = {}
        BY <2>1, <4>2 DEF Counting, CountEmpty
      <4>4. s1 # <<>> /\ num_pending_reads_'[v] = -1 /\ Readers(v)' = {}
        BY <1>23, <1>28, <1>29, <1>31, <3>2, <4>3, SMTT(20)
      <4> QED
        BY <2>1, <4>3, <4>4
    <3>3. CASE Later
      <4>1. num_pending_reads_'[v] = num_pending_reads_[v] /\ Readers(v)' = Readers(v) /\ s1 # <<>>
        BY <1>23, <1>28, <1>29, <1>31, <3>3, SMTT(20)
      <4> QED
        BY <2>1, <4>1
    <3> QED
      BY <1>24, <3>1, <3>2, <3>3
  <2> QED
    BY <1>s, <2>2, <2>3, <2>4, <2>5, <2>6 DEF VarOK, kWriteTriggered
<1>42. Variables'
  <2> SUFFICES ASSUME NEW u \in Var, u # v PROVE VarOK(u)'
    BY <1>41 DEF Variables
  <2>1. VarOK(u)
    BY <1>0 DEF Variables
  <2>2. \A p \in Ops : (Live(p, u)' <=> Live(p, u)) /\ (Queued(p, u)' <=> Queued(p, u))
    BY <1>20, <1>25
  <2>3. Readers(u)' = Readers(u)
    BY <2>2 DEF Readers
  <2>4. queue'[u] = queue[u] /\ num_pending_reads_'[u] = num_pending_reads_[u]
    BY <1>26
  <2> QED
    BY <2>1, <2>2, <2>3, <2>4 DEF VarOK
<1>43. TypeOK'
  <2>1. appended' \in [Thread -> Nat]
    BY <1>0, <1>2, <1>k, SMTT(20) DEF TypeOK
  <2>2. queue' \in [Var -> Seq([trigger : Ops, write : BOOLEAN])]
    BY <1>0, <1>24, <1>28 DEF TypeOK, ReadNow
  <2>3. num_pending_reads_' \in [Var -> Nat \cup {-1}]
    <3>1. CASE ReadNow
      BY <1>30, <1>31, <3>1, SMTT(20) DEF ReadNow
    <3>2. CASE WriteNow
      BY <1>30, <3>2 DEF WriteNow, kWriteTriggered
    <3>3. CASE Later
      BY <1>30, <3>3 DEF Later
    <3> QED
      BY <1>24, <3>1, <3>2, <3>3
  <2> QED
    BY <1>0, <1>3, <1>13, <2>1, <2>2, <2>3 DEF TypeOK, kWriteTriggered
<1>44. Threads'
  BY <1>3 DEF IInv, Threads, ThreadOK
<1>45. Places'
  <2> SUFFICES ASSUME NEW p \in Ops PROVE PlaceOK(p)'
    BY DEF Places
  <2>1. PlaceOK(p)
    BY <1>0 DEF Places
  <2>2. Adding(p) => appended'[p[1]] <= Len(Vars(p))
    <3>1. CASE p = o
      BY <1>1, <1>2, <1>5, <3>1
    <3>2. CASE p # o
      <4>1. Adding(p) => appended'[p[1]] = appended[p[1]]
        BY <1>5, <1>16, <3>2 DEF Adding
      <4> QED
        BY <2>1, <4>1 DEF PlaceOK
    <3> QED
      BY <3>1, <3>2
  <2> QED
    BY <1>3, <1>14, <1>15, <2>1, <2>2 DEF PlaceOK
<1>46. Stages'
  <2> SUFFICES ASSUME NEW p \in Ops PROVE StageOK(p)'
    BY DEF Stages
  <2>1. StageOK(p) /\ (Begun(p)' <=> Begun(p))
    BY <1>0, <1>14 DEF Stages
  <2>2. wait'[p] > 0 => p \notin ready \cup running \cup executed
    BY <1>8, <1>13, <2>1 DEF StageOK
  <2> QED
    BY <1>3, <2>1, <2>2 DEF StageOK
<1>47. Ran'
  BY <1>3, <1>19, RanKept DEF IInv
<1>48. WaitSees'
  <2>1. \A p \in Ops : Over(p)' => Over(p)
    BY <1>3 DEF Over
  <2> QED
    BY <1>3, <2>1, WaitSeesKept DEF IInv
<1>49. PendingCount'
  BY <1>3, <1>14, PendingKept DEF IInv
<1>50. Exceptions'
  BY <1>3, <1>19, ExceptionsKept DEF IInv
<1> QED
  BY <1>37, <1>38, <1>40, <1>42, <1>43, <1>44, <1>45, <1>46, <1>47, <1>48, <1>49, <1>50 DEF IInv

-----------------------------------------------------------------------------
(* Completing a dependency *)

\* The operation goes on to its variable k, which is v.
Leaves(o, v, k) ==
  /\ o \in executed /\ triggers[o] = <<>> /\ k = completed[o] + 1 /\ k <= Len(Vars(o)) /\ v = Vars(o)[k]
  /\ completed' = [completed EXCEPT ![o] = k]
  /\ UNCHANGED <<push_vars, wait, pending_, ready, running, executed, finished,
                 opr_exception, thrown, returned>>

\* An operation that completes a variable holds it.
LEMMA CompleteBegin ==
  ASSUME Counting, IInv, NEW o \in Ops, NEW v \in Var, NEW k,
         Leaves(o, v, k)
  PROVE  /\ k \in Nat /\ k > 0 /\ completed'[o] = k /\ \A p \in Ops \ {o} : completed'[p] = completed[p]
         /\ Uses(o, v) /\ (Reads(o, k) <=> ~Mutates(o, v))
         /\ Missing(o) = {} /\ Granted(o, v) /\ ~InFlight(o, v) /\ Live(o, v) /\ ~Live(o, v)'
         /\ Left(o, v)' /\ ~Left(o, v)
         /\ \A p \in Ops : (Begun(p)' <=> Begun(p)) /\ (Adding(p)' <=> Adding(p))
         /\ \A p \in Ops, u \in Var : Joined(p, u)' <=> Joined(p, u)
         /\ \A p \in Ops, u \in Var : p # o \/ u # v =>
              (Left(p, u)' <=> Left(p, u)) /\ (Live(p, u)' <=> Live(p, u))
<1>a. /\ o \in executed /\ k = completed[o] + 1 /\ k <= Len(Vars(o)) /\ v = Vars(o)[k]
      /\ completed' = [completed EXCEPT ![o] = k]
  BY DEF Leaves
<1>0. TypeOK /\ StageOK(o) /\ CountOK(o) /\ completed[o] \in Nat /\ wait[o] \in Nat
  BY DEF IInv, Stages, Counts, TypeOK
<1>1. k \in Nat /\ k > 0 /\ completed'[o] = k /\ \A p \in Ops \ {o} : completed'[p] = completed[p]
  BY <1>a, <1>0, SMTT(20) DEF TypeOK
<1>2. k \in 1 .. Len(Vars(o)) /\ Uses(o, v) /\ Pos(o, v) = k /\ (Reads(o, k) <=> ~Mutates(o, v))
  <2>1. k \in 1 .. Len(Vars(o))
    BY <1>a, <1>1, UsesFacts, SMTT(20)
  <2>2. Uses(o, v) /\ Pos(o, v) = k
    BY <1>a, <2>1, PosFacts
  <2> QED
    BY <1>a, <2>1, <2>2, PosFacts
<1>3. ~Left(o, v) /\ Left(o, v)'
  <2>1. ~(k <= completed[o]) /\ k <= k
    BY <1>a, <1>0, <1>1, SMTT(20)
  <2> QED
    BY <1>1, <1>2, <2>1 DEF Left
<1>4. Begun(o) /\ wait[o] = 0
  BY <1>a, <1>0, SMTT(20) DEF Begun, StageOK
<1>5. Missing(o) = {} /\ ~Adding(o)
  <2>1. IsFiniteSet(Missing(o)) /\ Cardinality(Missing(o)) \in Nat
    BY MissingFinite
  <2>2. 0 = Cardinality(Missing(o)) + (IF Adding(o) THEN 1 ELSE 0)
    BY <1>0, <1>4 DEF CountOK
  <2>3. Cardinality(Missing(o)) = 0 /\ ~Adding(o)
    BY <2>1, <2>2, SMTT(20)
  <2> QED
    BY <2>1, <2>3 DEF Counting, CountEmpty
<1>6. Granted(o, v) /\ ~InFlight(o, v)
  BY <1>2, <1>3, <1>5 DEF Missing
<1>7. /\ next' = next /\ at' = at /\ appended' = appended /\ wait' = wait
      /\ ready' = ready /\ running' = running /\ executed' = executed
  BY DEF push_vars, Leaves
<1>8. \A p \in Ops : (Begun(p)' <=> Begun(p)) /\ (Adding(p)' <=> Adding(p))
  BY <1>7 DEF Begun, Adding
<1>9. \A p \in Ops, u \in Var : Joined(p, u)' <=> Joined(p, u)
  BY <1>7, <1>8, JoinedKept
<1>10. \A p \in Ops, u \in Var : p # o \/ u # v => (Left(p, u)' <=> Left(p, u))
  <2> SUFFICES ASSUME NEW p \in Ops, NEW u \in Var, p # o \/ u # v PROVE Left(p, u)' <=> Left(p, u)
    OBVIOUS
  <2>1. CASE p # o
    BY <1>1, <2>1 DEF Left
  <2>2. CASE p = o
    <3>1. Uses(o, u) => Pos(o, u) \in Nat /\ Pos(o, u) # k
      <4>1. Len(Vars(o)) \in Nat /\ (Uses(o, u) => Pos(o, u) \in 1 .. Len(Vars(o)) /\ Vars(o)[Pos(o, u)] = u)
        BY PosFacts, UsesFacts
      <4> QED
        BY <1>a, <2>2, <4>1, SMTT(20)
    <3> QED
      BY <1>a, <1>0, <1>1, <2>2, <3>1, SMTT(20) DEF Left
  <2> QED
    BY <2>1, <2>2
<1>11. Live(o, v) /\ ~Live(o, v)'
  BY <1>3, <1>6 DEF Granted, Live
<1>12. \A p \in Ops, u \in Var : p # o \/ u # v => (Live(p, u)' <=> Live(p, u))
  BY <1>9, <1>10 DEF Live
<1> QED
  BY <1>1, <1>2, <1>3, <1>5, <1>6, <1>8, <1>9, <1>10, <1>11, <1>12

\* OnComplete of o has still to trigger p.
Released(o, p) == \E i \in 1 .. Len(triggers[o]) : triggers[o][i] = p

\* A step of o that leaves v grants v to those it triggers, and to nobody else.
HandsOver(o, v) ==
  /\ \A i, j \in 1 .. Len(triggers'[o]) : triggers'[o][i] = triggers'[o][j] => i = j
  /\ \A p \in Ops : Released(o, p)' => p # o /\ ~Granted(p, v) /\ Granted(p, v)'
  /\ \A p \in Ops \ {o} : ~Released(o, p)' => (Granted(p, v)' <=> Granted(p, v))

\* A step that leaves v keeps the order of those behind.
KeepsOrder(o, v) ==
  \A q, p \in Ops :
    Before(p, q) /\ ConflictOn(q, p, v) /\ Live(p, v) /\ p # o /\ Joined(q, v) =>
      \E j \in 1 .. Len(queue'[v]) :
        /\ queue'[v][j].trigger = q
        /\ \A i \in 1 .. Len(queue'[v]) : queue'[v][i].trigger = p => i < j

\* Whatever the variable decides: if it grants itself to those it triggers and
\* nobody else, and is left in order, so are the operations.
LEMMA CompleteStep ==
  ASSUME Counting, IInv, NEW o \in Ops, NEW v \in Var, NEW k,
         Leaves(o, v, k),
         triggers' \in [Ops -> Seq(Ops)], \A p \in Ops \ {o} : triggers'[p] = triggers[p],
         queue' \in [Var -> Seq([trigger : Ops, write : BOOLEAN])],
         num_pending_reads_' \in [Var -> Nat \cup {kWriteTriggered}],
         \A u \in Var \ {v} : queue'[u] = queue[u] /\ num_pending_reads_'[u] = num_pending_reads_[u],
         var_exception' \in [Var -> Ops \cup {None}],
         HandsOver(o, v), VarOK(v)', Exceptions', KeepsOrder(o, v)
  PROVE  IInv'
<1>0. TypeOK /\ Stages /\ StageOK(o) /\ Counts /\ Variables /\ Flights /\ Ordered
  BY DEF IInv, Stages
<1>1. /\ process' = process /\ next' = next /\ at' = at /\ appended' = appended /\ wait' = wait
      /\ pending_' = pending_ /\ ready' = ready /\ running' = running /\ executed' = executed
      /\ finished' = finished /\ opr_exception' = opr_exception /\ thrown' = thrown /\ returned' = returned
  BY DEF push_vars, Leaves
<1>2. o \in executed /\ triggers[o] = <<>> /\ k = completed[o] + 1 /\ k <= Len(Vars(o)) /\ v = Vars(o)[k]
  BY DEF Leaves
<1>3. /\ k \in Nat /\ k > 0 /\ completed'[o] = k /\ \A p \in Ops \ {o} : completed'[p] = completed[p]
      /\ Uses(o, v) /\ (Reads(o, k) <=> ~Mutates(o, v))
      /\ Missing(o) = {} /\ Granted(o, v) /\ ~InFlight(o, v) /\ Live(o, v) /\ ~Live(o, v)'
      /\ Left(o, v)' /\ ~Left(o, v)
      /\ \A p \in Ops : (Begun(p)' <=> Begun(p)) /\ (Adding(p)' <=> Adding(p))
      /\ \A p \in Ops, u \in Var : Joined(p, u)' <=> Joined(p, u)
      /\ \A p \in Ops, u \in Var : p # o \/ u # v =>
           (Left(p, u)' <=> Left(p, u)) /\ (Live(p, u)' <=> Live(p, u))
  BY CompleteBegin, Zenon
<1>4. /\ \A p \in Ops : (Begun(p)' <=> Begun(p)) /\ (Adding(p)' <=> Adding(p))
      /\ \A p \in Ops, u \in Var : Joined(p, u)' <=> Joined(p, u)
      /\ \A p \in Ops, u \in Var : p # o \/ u # v =>
           (Left(p, u)' <=> Left(p, u)) /\ (Live(p, u)' <=> Live(p, u))
  BY <1>3
<1>5. \A p \in Ops, u \in Var \ {v} : (Queued(p, u)' <=> Queued(p, u)) /\ (Granted(p, u)' <=> Granted(p, u))
  <2>1. \A p \in Ops, u \in Var \ {v} : (Queued(p, u)' <=> Queued(p, u)) /\ (Writing(p, u)' <=> Writing(p, u))
    BY DEF Queued, Writing
  <2> QED
    BY <1>4, <2>1 DEF Granted
<1>6. /\ \A p \in Ops \ {o}, h \in Ops, u \in Var : Sends(p, h, u)' <=> Sends(p, h, u)
      /\ \A h \in Ops, u \in Var : ~Sends(o, h, u)
      /\ \A h \in Ops, u \in Var : Sends(o, h, u)' <=> u = v /\ Released(o, h)'
  <2>1. \A p \in Ops \ {o}, h \in Ops, u \in Var : Sends(p, h, u)' <=> Sends(p, h, u)
    BY <1>3 DEF Sends
  <2>2. \A h \in Ops, u \in Var : ~Sends(o, h, u)
    BY <1>2, SMTT(20) DEF Sends
  <2>3. \A h \in Ops, u \in Var : Sends(o, h, u)' <=> u = v /\ Released(o, h)'
    BY <1>2, <1>3 DEF Sends, Released
  <2> QED
    BY <2>1, <2>2, <2>3
<1>7. \A p \in Ops : Released(o, p)' => p # o /\ ~Granted(p, v) /\ Granted(p, v)'
  BY DEF HandsOver
<1>8. \A p \in Ops \ {o} : ~Released(o, p)' => (Granted(p, v)' <=> Granted(p, v))
  BY DEF HandsOver
<1>9. \A p \in Ops, u \in Var : ~(u = v /\ Released(o, p)') => (InFlight(p, u)' <=> InFlight(p, u))
  BY <1>6 DEF InFlight
<1>10. \A p \in Ops : Released(o, p)' => InFlight(p, v)'
  BY <1>6 DEF InFlight
<1>11. \A p \in Ops : Missing(p)' = Missing(p)
  <2> SUFFICES ASSUME NEW p \in Ops, NEW u \in Var PROVE u \in Missing(p)' <=> u \in Missing(p)
    BY DEF Missing
  <2>1. CASE u # v
    BY <1>4, <1>5, <1>9, <2>1 DEF Missing
  <2>2. CASE u = v /\ p = o
    BY <1>3, <2>2 DEF Missing
  <2>3. CASE u = v /\ p # o /\ Released(o, p)'
    BY <1>4, <1>7, <1>10, <2>3 DEF Missing
  <2>4. CASE u = v /\ p # o /\ ~Released(o, p)'
    BY <1>4, <1>8, <1>9, <2>4 DEF Missing
  <2> QED
    BY <2>1, <2>2, <2>3, <2>4
<1>12. Counts'
  BY <1>0, <1>1, <1>4, <1>11, CountKept DEF Counts
<1>13. Flights'
  <2> SUFFICES ASSUME NEW p \in Ops PROVE FlightOK(p)'
    BY DEF Flights
  <2>1. \A q \in Ops : FlightOK(q)
    BY <1>0 DEF Flights
  <2>2. \A h \in Ops, u \in Var : Sends(p, h, u)' => Granted(h, u)'
    <3> SUFFICES ASSUME NEW h \in Ops, NEW u \in Var, Sends(p, h, u)' PROVE Granted(h, u)'
      OBVIOUS
    <3>1. CASE p = o
      BY <1>6, <1>7, <3>1
    <3>2. CASE p # o
      <4>1. Sends(p, h, u) /\ Granted(h, u)
        BY <1>6, <2>1, <3>2 DEF FlightOK
      <4>2. u = v => h # o
        BY <1>3, <4>1 DEF InFlight
      <4>3. CASE u # v
        BY <1>5, <4>1, <4>3
      <4>4. CASE u = v
        BY <1>7, <1>8, <4>1, <4>2, <4>4
      <4> QED
        BY <4>3, <4>4
    <3> QED
      BY <3>1, <3>2
  <2>3. \A i, j \in 1 .. Len(triggers'[p]) : triggers'[p][i] = triggers'[p][j] => i = j
    <3>1. CASE p = o
      BY <3>1 DEF HandsOver
    <3>2. CASE p # o
      <4>1. triggers'[p] = triggers[p]
        BY <3>2
      <4> QED
        BY <2>1, <4>1 DEF FlightOK
    <3> QED
      BY <3>1, <3>2
  <2>4. \A q, h \in Ops, u \in Var : Sends(p, h, u)' /\ Sends(q, h, u)' => p = q
    <3>1. \A q, h \in Ops, u \in Var : Sends(q, h, u)' /\ Sends(o, h, u)' => q = o
      <4> SUFFICES ASSUME NEW q \in Ops, NEW h \in Ops, NEW u \in Var,
                          Sends(q, h, u)', Sends(o, h, u)', q # o
                   PROVE  FALSE
        OBVIOUS
      <4>1. Sends(q, h, u) /\ u = v /\ ~Granted(h, v)
        BY <1>6, <1>7
      <4> QED
        BY <2>1, <4>1 DEF FlightOK
    <3>2. \A q, h \in Ops, u \in Var : p # o /\ q # o /\ Sends(p, h, u)' /\ Sends(q, h, u)' => p = q
      BY <1>6, <2>1 DEF FlightOK
    <3> QED
      BY <3>1, <3>2
  <2> QED
    BY <2>2, <2>3, <2>4 DEF FlightOK
<1>14. Ordered'
  <2> SUFFICES ASSUME NEW q \in Ops, NEW p \in Ops, NEW u \in Var,
                      Before(p, q), ConflictOn(q, p, u), Live(p, u)', Joined(q, u)'
               PROVE  \E j \in 1 .. Len(queue'[u]) :
                        /\ queue'[u][j].trigger = q
                        /\ \A i \in 1 .. Len(queue'[u]) : queue'[u][i].trigger = p => i < j
    BY SMTT(20) DEF Ordered
  <2>1. Live(p, u) /\ Joined(q, u) /\ (u = v => p # o)
    BY <1>3, <1>4
  <2>2. CASE u = v
    <3>1. ConflictOn(q, p, v) /\ Live(p, v) /\ Joined(q, v) /\ p # o
      BY <2>1, <2>2
    <3> QED
      BY <2>2, <3>1, SMTT(20) DEF KeepsOrder
  <2>3. CASE u # v
    <3>1. queue'[u] = queue[u]
      BY <2>3
    <3> QED
      BY <1>0, <2>1, <3>1, SMTT(20) DEF Ordered
  <2> QED
    BY <2>2, <2>3
<1>15. Variables'
  <2> SUFFICES ASSUME NEW u \in Var, u # v PROVE VarOK(u)'
    BY DEF Variables
  <2>1. VarOK(u)
    BY <1>0 DEF Variables
  <2>2. \A p \in Ops : (Live(p, u)' <=> Live(p, u)) /\ (Queued(p, u)' <=> Queued(p, u))
    BY <1>4, <1>5
  <2>3. Readers(u)' = Readers(u)
    BY <2>2 DEF Readers
  <2>4. queue'[u] = queue[u] /\ num_pending_reads_'[u] = num_pending_reads_[u]
    OBVIOUS
  <2>5. \A i \in 1 .. Len(queue'[u]) :
             \A p \in Ops : queue'[u][i].trigger = p => Live(p, u)' /\ (queue'[u][i].write <=> Mutates(p, u))
    <3>1. \A i \in 1 .. Len(queue[u]) :
             \A p \in Ops : queue[u][i].trigger = p => Live(p, u) /\ (queue[u][i].write <=> Mutates(p, u))
      BY <2>1 DEF VarOK
    <3> QED
      BY <2>2, <2>4, <3>1
  <2>8. \A p \in Ops : Live(p, u)' /\ Mutates(p, u) => Queued(p, u)'
    BY <2>1, <2>2 DEF VarOK
  <2>6. /\ \A i, j \in 1 .. Len(queue'[u]) : queue'[u][i].trigger = queue'[u][j].trigger => i = j
        /\ queue'[u] # <<>> => queue'[u][1].write /\ num_pending_reads_'[u] # 0
    BY <2>1, <2>4 DEF VarOK
  <2>7. /\ IsFiniteSet(Readers(u)')
        /\ IF num_pending_reads_'[u] = kWriteTriggered
             THEN queue'[u] # <<>> /\ Readers(u)' = {}
             ELSE num_pending_reads_'[u] = Cardinality(Readers(u)')
    BY <2>1, <2>3, <2>4 DEF VarOK
  <2> QED
    BY <2>5, <2>6, <2>7, <2>8 DEF VarOK
<1>16. TypeOK'
  BY <1>0, <1>1, <1>3 DEF TypeOK, Leaves
<1>17. Threads'
  BY <1>1 DEF IInv, Threads, ThreadOK
<1>18. Places'
  BY <1>1, <1>4 DEF IInv, Places, PlaceOK
<1>19. Stages'
  <2> SUFFICES ASSUME NEW p \in Ops PROVE StageOK(p)'
    BY DEF Stages
  <2>1. StageOK(p) /\ (Begun(p)' <=> Begun(p))
    BY <1>0, <1>4 DEF Stages
  <2>2. CASE p = o
    <3>1. o \notin finished
      <4>1. completed[o] \in Nat /\ Len(Vars(o)) \in Nat
        BY <1>0, UsesFacts DEF TypeOK
      <4>2. completed[o] # Len(Vars(o))
        BY <1>2, <4>1, SMTT(20)
      <4> QED
        BY <1>0, <4>2 DEF StageOK
    <3> QED
      BY <1>1, <1>2, <1>3, <2>1, <2>2, <3>1 DEF StageOK
  <2>3. CASE p # o
    BY <1>1, <1>3, <2>1, <2>3 DEF StageOK
  <2> QED
    BY <2>2, <2>3
<1>20. Ran'
  <2>1. \A p \in Ops, u \in Var : Left(p, u) => Left(p, u)'
    BY <1>3, <1>4
  <2> QED
    BY <1>1, <2>1, RanKept DEF IInv
<1>21. WaitSees'
  <2>1. \A p \in Ops : Over(p)' => Over(p)
    BY <1>1 DEF Over
  <2> QED
    BY <1>1, <2>1, WaitSeesKept DEF IInv
<1>22. PendingCount'
  BY <1>1, <1>4, PendingKept DEF IInv
<1> QED
  BY <1>12, <1>13, <1>14, <1>15, <1>16, <1>17, <1>18, <1>19, <1>20, <1>21, <1>22 DEF IInv

\* What every step that leaves a variable starts from.
LEMMA LeaveFacts ==
  ASSUME Counting, IInv, NEW o \in Ops, NEW v \in Var, NEW k, Leaves(o, v, k)
  PROVE  /\ TypeOK /\ VarOK(v) /\ Ordered /\ Ran /\ Exceptions
         /\ queue[v] \in Seq([trigger : Ops, write : BOOLEAN])
         /\ num_pending_reads_[v] \in Nat \cup {kWriteTriggered}
         /\ Granted(o, v) /\ Live(o, v) /\ ~Live(o, v)' /\ (Reads(o, k) <=> ~Mutates(o, v))
         /\ \A p \in Ops \ {o} : Live(p, v)' <=> Live(p, v)
         /\ \A p \in Ops, u \in Var : p # o \/ u # v => (Left(p, u)' <=> Left(p, u))
<1>1. TypeOK /\ VarOK(v) /\ Ordered /\ Ran /\ Exceptions
  BY DEF IInv, Variables
<1>2. /\ k \in Nat /\ k > 0 /\ completed'[o] = k /\ \A p \in Ops \ {o} : completed'[p] = completed[p]
      /\ Uses(o, v) /\ (Reads(o, k) <=> ~Mutates(o, v))
      /\ Missing(o) = {} /\ Granted(o, v) /\ ~InFlight(o, v) /\ Live(o, v) /\ ~Live(o, v)'
      /\ Left(o, v)' /\ ~Left(o, v)
      /\ \A p \in Ops : (Begun(p)' <=> Begun(p)) /\ (Adding(p)' <=> Adding(p))
      /\ \A p \in Ops, u \in Var : Joined(p, u)' <=> Joined(p, u)
      /\ \A p \in Ops, u \in Var : p # o \/ u # v =>
           (Left(p, u)' <=> Left(p, u)) /\ (Live(p, u)' <=> Live(p, u))
  BY CompleteBegin, Zenon
<1>3. queue[v] \in Seq([trigger : Ops, write : BOOLEAN]) /\ num_pending_reads_[v] \in Nat \cup {kWriteTriggered}
  BY <1>1 DEF TypeOK
<1> QED
  BY <1>1, <1>2, <1>3

\* The end of a read: the last one triggers the write that waits.
LEMMA CompleteReadInv ==
  ASSUME Counting, IInv, NEW o \in Ops, NEW v \in Var, NEW k, Leaves(o, v, k), Reads(o, k),
         CompleteReadDependency(o, v)
  PROVE  IInv'
<1>0. /\ TypeOK /\ VarOK(v) /\ Ordered /\ Ran /\ Exceptions
      /\ queue[v] \in Seq([trigger : Ops, write : BOOLEAN])
      /\ num_pending_reads_[v] \in Nat \cup {kWriteTriggered}
      /\ Granted(o, v) /\ Live(o, v) /\ ~Live(o, v)' /\ ~Mutates(o, v)
      /\ \A p \in Ops \ {o} : Live(p, v)' <=> Live(p, v)
      /\ \A p \in Ops, u \in Var : p # o \/ u # v => (Left(p, u)' <=> Left(p, u))
  BY LeaveFacts
<1>s. PICK s : s = queue[v]
  OBVIOUS
<1>n. PICK n : n = num_pending_reads_[v]
  OBVIOUS
<1>h. PICK h : h = s[1].trigger
  OBVIOUS
<1> DEFINE last == n = 1 /\ s # <<>>
<1>1. /\ queue' = queue /\ var_exception' = var_exception
      /\ num_pending_reads_' = [num_pending_reads_ EXCEPT ![v] = IF last THEN kWriteTriggered ELSE @ - 1]
      /\ triggers' = [triggers EXCEPT ![o] = IF last THEN <<h>> ELSE <<>>]
  BY <1>s, <1>n, <1>h DEF CompleteReadDependency
<1>2. s \in Seq([trigger : Ops, write : BOOLEAN]) /\ Len(s) \in Nat /\ n \in Nat \cup {kWriteTriggered}
      /\ (s # <<>> => 1 \in 1 .. Len(s) /\ h \in Ops /\ s[1].write)
  <2>1. s \in Seq([trigger : Ops, write : BOOLEAN]) /\ n \in Nat \cup {kWriteTriggered}
    BY <1>0, <1>s, <1>n
  <2>2. s # <<>> => Len(s) \in Nat /\ Len(s) >= 1 /\ s[1].write
    BY <1>0, <1>s, <2>1, TailFacts DEF VarOK
  <2>3. Len(s) \in Nat /\ \A i \in 1 .. Len(s) : s[i].trigger \in Ops
    BY <2>1, BlockFacts
  <2>4. s # <<>> => 1 \in 1 .. Len(s)
    BY <2>2, SMTT(20)
  <2> QED
    BY <1>h, <2>1, <2>2, <2>3, <2>4
<1>3. ~Queued(o, v)
  <2> SUFFICES ASSUME Queued(o, v) PROVE FALSE
    OBVIOUS
  <2>1. s # <<>> /\ s[1].trigger = o
    BY <1>0, <1>s DEF Granted, Writing
  <2>2. s[1].write <=> Mutates(o, v)
    BY <1>0, <1>2, <1>s, <2>1 DEF VarOK
  <2> QED
    BY <1>0, <1>2, <2>1, <2>2
<1>4. o \in Readers(v) /\ IsFiniteSet(Readers(v)) /\ n = Cardinality(Readers(v)) /\ n # kWriteTriggered
  BY <1>0, <1>3, <1>n DEF Readers, VarOK
<1>5. \A p \in Ops, u \in Var : Queued(p, u)' <=> Queued(p, u)
  BY <1>1 DEF Queued
<1>6. Readers(v)' = Readers(v) \ {o}
  BY <1>0, <1>5 DEF Readers
<1>7. n \in Nat /\ n >= 1 /\ IsFiniteSet(Readers(v)') /\ Cardinality(Readers(v)') = n - 1
  <2>1. IsFiniteSet(Readers(v) \ {o}) /\ Cardinality(Readers(v) \ {o}) = Cardinality(Readers(v)) - 1
    BY <1>4 DEF Counting, CountRemove
  <2>2. n \in Nat /\ n # 0
    BY <1>4 DEF Counting, CountEmpty, CountType
  <2> QED
    BY <1>4, <1>6, <2>1, <2>2, SMTT(20)
<1>8. /\ num_pending_reads_'[v] = (IF last THEN kWriteTriggered ELSE n - 1)
      /\ triggers'[o] = (IF last THEN <<h>> ELSE <<>>)
      /\ \A p \in Ops \ {o} : triggers'[p] = triggers[p]
      /\ \A u \in Var \ {v} : queue'[u] = queue[u] /\ num_pending_reads_'[u] = num_pending_reads_[u]
      /\ queue'[v] = s
  BY <1>0, <1>1, <1>n, <1>s DEF TypeOK
<1>9. /\ triggers' \in [Ops -> Seq(Ops)] /\ queue' \in [Var -> Seq([trigger : Ops, write : BOOLEAN])]
      /\ num_pending_reads_' \in [Var -> Nat \cup {kWriteTriggered}]
      /\ var_exception' \in [Var -> Ops \cup {None}]
  <2>1. (IF last THEN <<h>> ELSE <<>>) \in Seq(Ops)
    BY <1>2, SMTT(20)
  <2>2. (IF last THEN kWriteTriggered ELSE n - 1) \in Nat \cup {kWriteTriggered}
    BY <1>7, SMTT(20)
  <2>3. triggers' = [triggers EXCEPT ![o] = IF last THEN <<h>> ELSE <<>>]
    BY <1>1
  <2>4. num_pending_reads_' = [num_pending_reads_ EXCEPT ![v] = IF last THEN kWriteTriggered ELSE n - 1]
    BY <1>1, <1>n
  <2>5. triggers' \in [Ops -> Seq(Ops)]
    BY <1>0, <2>1, <2>3 DEF TypeOK
  <2>6. num_pending_reads_' \in [Var -> Nat \cup {kWriteTriggered}]
    BY <1>0, <2>2, <2>4 DEF TypeOK
  <2> QED
    BY <1>0, <1>1, <2>5, <2>6 DEF TypeOK
<1>10. Exceptions'
  <2>1. opr_exception' = opr_exception /\ thrown' = thrown
    BY DEF Leaves
  <2>2. \A p \in Ops, u \in Var : Mutates(p, u) => (Left(p, u)' <=> Left(p, u))
    BY <1>0
  <2> QED
    BY <1>0, <1>1, <2>1, <2>2 DEF Exceptions
<1>11. KeepsOrder(o, v)
  <2> SUFFICES ASSUME NEW q \in Ops, NEW p \in Ops, Before(p, q), ConflictOn(q, p, v), Live(p, v),
                      Joined(q, v)
               PROVE  \E j \in 1 .. Len(queue[v]) :
                        /\ queue[v][j].trigger = q
                        /\ \A i \in 1 .. Len(queue[v]) : queue[v][i].trigger = p => i < j
    BY <1>1 DEF KeepsOrder
  <2>1. Ordered
    BY <1>0
  <2> QED
    BY <2>1, SMTT(20) DEF Ordered
<1>12. \A p \in Ops : Queued(p, v) => p # o /\ Live(p, v) /\ Live(p, v)'
  BY <1>0, <1>3 DEF VarOK, Queued
<1>13. VarOK(v)'
  <2>1. \A i \in 1 .. Len(queue'[v]) :
          \A p \in Ops : queue'[v][i].trigger = p => Live(p, v)' /\ (queue'[v][i].write <=> Mutates(p, v))
    <3> SUFFICES ASSUME NEW i \in 1 .. Len(s), NEW p \in Ops, s[i].trigger = p
                 PROVE  Live(p, v)' /\ (s[i].write <=> Mutates(p, v))
      BY <1>8
    <3>1. Queued(p, v) /\ (s[i].write <=> Mutates(p, v))
      BY <1>0, <1>s DEF VarOK, Queued
    <3> QED
      BY <1>12, <3>1
  <2>2. \A i, j \in 1 .. Len(queue'[v]) : queue'[v][i].trigger = queue'[v][j].trigger => i = j
    BY <1>0, <1>1 DEF VarOK
  <2>3. \A p \in Ops : Live(p, v)' /\ Mutates(p, v) => Queued(p, v)'
    BY <1>0, <1>5 DEF VarOK
  <2>a. kWriteTriggered # 0 /\ kWriteTriggered \notin Nat /\ 1 - 1 = 0
        /\ \A m \in Nat : m >= 1 /\ m # 1 => m - 1 # 0
    BY SMTT(20) DEF kWriteTriggered
  <2>b. \A m \in Nat : m >= 1 => m - 1 \in Nat
    BY SMTT(20)
  <2>4. queue'[v] # <<>> => queue'[v][1].write /\ num_pending_reads_'[v] # 0
    BY <1>2, <1>7, <1>8, <2>a
  <2>5. last => Readers(v)' = {} /\ queue'[v] # <<>>
    <3>1. last => Cardinality(Readers(v)') = 0 /\ queue'[v] # <<>>
      BY <1>7, <1>8, <2>a
    <3> QED
      BY <1>7, <3>1 DEF Counting, CountEmpty
  <2>6. IF num_pending_reads_'[v] = kWriteTriggered
          THEN queue'[v] # <<>> /\ Readers(v)' = {}
          ELSE num_pending_reads_'[v] = Cardinality(Readers(v)')
    BY <1>7, <1>8, <2>5, <2>a, <2>b
  <2> QED
    BY <1>7, <2>1, <2>2, <2>3, <2>4, <2>6 DEF VarOK
<1>14. HandsOver(o, v)
  <2>0. \A p \in Ops : ~Writing(p, v)
    BY <1>4, <1>n DEF Writing
  <2>1. \A p \in Ops \ {o} : Granted(p, v) <=> Live(p, v) /\ ~Queued(p, v)
    BY <2>0 DEF Granted
  <2>2. CASE ~last
    <3>1. triggers'[o] = <<>> /\ num_pending_reads_'[v] = n - 1
      BY <1>8, <2>2
    <3>2. \A p \in Ops : ~Released(o, p)'
      BY <3>1, SMTT(20) DEF Released
    <3>3. \A p \in Ops : ~Writing(p, v)'
      <4>1. n - 1 # kWriteTriggered
        BY <1>7, SMTT(20) DEF kWriteTriggered
      <4> QED
        BY <3>1, <4>1 DEF Writing
    <3>4. \A p \in Ops \ {o} : Granted(p, v)' <=> Live(p, v)' /\ ~Queued(p, v)'
      BY <3>3 DEF Granted
    <3>5. \A p \in Ops \ {o} : Granted(p, v)' <=> Granted(p, v)
      BY <1>0, <1>5, <2>1, <3>4
    <3> QED
      BY <3>1, <3>2, <3>5, SMTT(20) DEF HandsOver
  <2>3. CASE last
    <3>1. triggers'[o] = <<h>> /\ num_pending_reads_'[v] = kWriteTriggered /\ s # <<>> /\ n = 1
      BY <1>8, <2>3
    <3>2. \A p \in Ops : Released(o, p)' <=> p = h
      BY <3>1, SMTT(20) DEF Released
    <3>3. \A p \in Ops : Writing(p, v)' <=> p = h
      BY <1>8, <1>h, <3>1 DEF Writing
    <3>4. Queued(h, v) /\ h \in Ops
      BY <1>2, <1>h, <1>s, <3>1 DEF Queued
    <3>5. h # o /\ ~Granted(h, v) /\ Granted(h, v)'
      BY <1>12, <2>1, <3>3, <3>4 DEF Granted
    <3>6. Readers(v) = {o}
      <4>1. Cardinality(Readers(v)') = 0
        BY <1>7, <3>1, SMTT(20)
      <4>2. Readers(v)' = {}
        BY <1>7, <4>1 DEF Counting, CountEmpty
      <4> QED
        BY <1>4, <1>6, <4>2
    <3>7. \A p \in Ops \ {o} : Live(p, v) => Queued(p, v)
      BY <3>6 DEF Readers
    <3>8. \A p \in Ops \ {o} : p # h => ~Granted(p, v) /\ ~Granted(p, v)'
      <4> SUFFICES ASSUME NEW p \in Ops \ {o}, p # h PROVE ~Granted(p, v) /\ ~Granted(p, v)'
        OBVIOUS
      <4>1. ~Granted(p, v)
        BY <2>1, <3>7
      <4>2. ~Granted(p, v)'
        BY <1>0, <1>5, <3>3, <3>7 DEF Granted
      <4> QED
        BY <4>1, <4>2
    <3>9. \A i, j \in 1 .. Len(triggers'[o]) : triggers'[o][i] = triggers'[o][j] => i = j
      BY <3>1, SMTT(20)
    <3> QED
      BY <3>2, <3>5, <3>8, <3>9 DEF HandsOver
  <2> QED
    BY <2>2, <2>3
<1> QED
  BY <1>8, <1>9, <1>10, <1>11, <1>13, <1>14, CompleteStep

\* The end of a write: the reads behind it, up to the next write, or that write.
LEMMA CompleteWriteInv ==
  ASSUME Counting, IInv, NEW o \in Ops, NEW v \in Var, NEW k, Leaves(o, v, k), ~Reads(o, k),
         CompleteWriteDependency(o, v)
  PROVE  IInv'
<1>0. /\ TypeOK /\ VarOK(v) /\ Ordered /\ Exceptions
      /\ queue[v] \in Seq([trigger : Ops, write : BOOLEAN])
      /\ num_pending_reads_[v] \in Nat \cup {kWriteTriggered}
      /\ Granted(o, v) /\ Live(o, v) /\ ~Live(o, v)' /\ Mutates(o, v)
      /\ \A p \in Ops \ {o} : Live(p, v)' <=> Live(p, v)
      /\ \A p \in Ops, u \in Var : p # o \/ u # v => (Left(p, u)' <=> Left(p, u))
  BY LeaveFacts
<1>s. PICK s : s = queue[v]
  OBVIOUS
<1>n. PICK n : n = ReadChain(Tail(s))
  OBVIOUS
<1>t. PICK t : t = SubSeq(Tail(s), n + 1, Len(Tail(s)))
  OBVIOUS
<1> DEFINE fire == n = 0 /\ Tail(s) # <<>>
           released == IF fire THEN <<Tail(s)[1].trigger>> ELSE [i \in 1 .. n |-> Tail(s)[i].trigger]
<1>1. /\ queue' = [queue EXCEPT ![v] = t]
      /\ num_pending_reads_' = [num_pending_reads_ EXCEPT ![v] = IF fire THEN kWriteTriggered ELSE n]
      /\ triggers' = [triggers EXCEPT ![o] = released]
      /\ var_exception' = [var_exception EXCEPT ![v] =
                             IF Pending(opr_exception[o]) THEN opr_exception[o] ELSE @]
  BY <1>s, <1>n, <1>t DEF CompleteWriteDependency, Completed
<1>2. /\ s \in Seq([trigger : Ops, write : BOOLEAN]) /\ s # <<>> /\ s[1].trigger = o
      /\ num_pending_reads_[v] = kWriteTriggered /\ Readers(v) = {}
  <2>1. Queued(o, v)
    BY <1>0 DEF VarOK
  <2>2. Writing(o, v)
    BY <1>0, <2>1 DEF Granted
  <2>3. Readers(v) = {}
    BY <1>0, <2>2 DEF VarOK, Writing
  <2> QED
    BY <1>0, <1>s, <2>2, <2>3 DEF Writing
<1>3. /\ Len(s) \in Nat /\ Len(s) >= 1 /\ Tail(s) \in Seq([trigger : Ops, write : BOOLEAN])
      /\ Len(Tail(s)) = Len(s) - 1
      /\ \A i \in 1 .. Len(Tail(s)) : Tail(s)[i] = s[i + 1] /\ i + 1 \in 1 .. Len(s)
      /\ \A i \in 1 .. Len(s) : s[i].trigger \in Ops /\ s[i].write \in BOOLEAN
  <2>1. /\ Tail(s) \in Seq([trigger : Ops, write : BOOLEAN]) /\ Len(Tail(s)) = Len(s) - 1
        /\ \A i \in 1 .. Len(Tail(s)) : Tail(s)[i] = s[i + 1] /\ i + 1 \in 1 .. Len(s)
        /\ Len(s) \in Nat /\ Len(s) >= 1
    BY <1>2, TailFacts
  <2>2. \A i \in 1 .. Len(s) : s[i].trigger \in Ops /\ s[i].write \in BOOLEAN
    BY <1>2, BlockFacts
  <2> QED
    BY <2>1, <2>2
<1>a. Len(s) \in Nat /\ Len(s) >= 1 /\ Len(Tail(s)) = Len(s) - 1
  BY <1>3
<1>4. /\ n \in Nat /\ n <= Len(s) - 1
      /\ \A i \in 2 .. n + 1 : ~s[i].write
      /\ n < Len(s) - 1 => s[n + 2].write
  <2>1. /\ n \in 0 .. Len(Tail(s)) /\ \A i \in 1 .. n : ~Tail(s)[i].write
        /\ n = Len(Tail(s)) \/ Tail(s)[n + 1].write
    BY <1>3, <1>n, ReadChainFacts
  <2>2. n \in Nat /\ n <= Len(s) - 1
    <3>1. PICK l : l = Len(Tail(s))
      OBVIOUS
    <3>2. n \in 0 .. l /\ l = Len(s) - 1 /\ Len(s) \in Nat /\ Len(s) >= 1
      BY <1>3, <2>1, <3>1
    <3> QED
      BY <3>2, SMTT(20)
  <2>3. ASSUME NEW i \in 2 .. n + 1 PROVE ~s[i].write
    <3>1. i - 1 \in 1 .. n /\ i - 1 \in 1 .. Len(Tail(s)) /\ (i - 1) + 1 = i
      BY <1>a, <2>2, SMTT(20)
    <3> QED
      BY <1>3, <2>1, <3>1
  <2>4. ASSUME n < Len(s) - 1 PROVE s[n + 2].write
    <3>1. n + 1 \in 1 .. Len(Tail(s)) /\ (n + 1) + 1 = n + 2 /\ n # Len(Tail(s))
      BY <1>a, <2>2, <2>4, SMTT(20)
    <3>2. Tail(s)[n + 1] = s[n + 2] /\ Tail(s)[n + 1].write
      BY <1>3, <2>1, <3>1
    <3> QED
      BY <3>2
  <2> QED
    BY <2>2, <2>3, <2>4
<1>b. n \in Nat /\ n <= Len(s) - 1
  BY <1>4
<1>5. /\ t \in Seq([trigger : Ops, write : BOOLEAN]) /\ Len(t) = (Len(s) - 1) - n
      /\ \A i \in 1 .. Len(t) : t[i] = s[(i + n) + 1] /\ (i + n) + 1 \in 1 .. Len(s)
  <2>1. n \in 0 .. Len(s) - 1
    BY <1>a, <1>b, SMTT(20)
  <2> QED
    BY <1>2, <1>t, <2>1, Dropped
<1>c. Len(t) = (Len(s) - 1) - n
  BY <1>5
<1>6. /\ queue'[v] = t /\ num_pending_reads_'[v] = (IF fire THEN kWriteTriggered ELSE n)
      /\ triggers'[o] = released /\ \A p \in Ops \ {o} : triggers'[p] = triggers[p]
      /\ \A u \in Var \ {v} : queue'[u] = queue[u] /\ num_pending_reads_'[u] = num_pending_reads_[u]
  <2> HIDE DEF released
  <2> QED
    BY <1>0, <1>1 DEF TypeOK
<1>7. \A i, j \in 1 .. Len(s) : s[i].trigger = s[j].trigger => i = j
  BY <1>0, <1>s DEF VarOK
<1>8. \A p \in Ops : Live(p, v) <=> \E i \in 1 .. Len(s) : s[i].trigger = p
  BY <1>0, <1>2, <1>s DEF VarOK, Readers, Queued
<1>9. \A p \in Ops : Live(p, v)' <=> \E i \in 2 .. Len(s) : s[i].trigger = p
  <2> SUFFICES ASSUME NEW p \in Ops PROVE Live(p, v)' <=> \E i \in 2 .. Len(s) : s[i].trigger = p
    OBVIOUS
  <2>1. \A i \in 2 .. Len(s) : i \in 1 .. Len(s) /\ i # 1
    BY <1>a, SMTT(20)
  <2>2. 1 \in 1 .. Len(s) /\ \A i \in 1 .. Len(s) : i = 1 \/ i \in 2 .. Len(s)
    BY <1>a, SMTT(20)
  <2>3. CASE p = o
    BY <1>0, <1>2, <1>7, <2>1, <2>2, <2>3
  <2>4. CASE p # o
    <3>1. Live(p, v)' <=> \E i \in 1 .. Len(s) : s[i].trigger = p
      BY <1>0, <1>8, <2>4
    <3> QED
      BY <1>2, <2>1, <2>2, <2>4, <3>1
  <2> QED
    BY <2>3, <2>4
<1>10. \A p \in Ops : Queued(p, v)' <=> \E i \in n + 2 .. Len(s) : s[i].trigger = p
  <2> SUFFICES ASSUME NEW p \in Ops
               PROVE  (\E i \in 1 .. Len(t) : t[i].trigger = p) <=> \E i \in n + 2 .. Len(s) : s[i].trigger = p
    BY <1>6 DEF Queued
  <2>1. ASSUME NEW i \in 1 .. Len(t) PROVE (i + n) + 1 \in n + 2 .. Len(s) /\ t[i] = s[(i + n) + 1]
    <3>1. t[i] = s[(i + n) + 1] /\ (i + n) + 1 \in 1 .. Len(s)
      BY <1>5
    <3>2. i \in Nat /\ i >= 1 /\ n \in Nat /\ Len(s) \in Nat
      BY <1>a, <1>b, <1>c, SMTT(20)
    <3> QED
      BY <3>1, <3>2, SMTT(20)
  <2>2. ASSUME NEW i \in n + 2 .. Len(s) PROVE (i - n) - 1 \in 1 .. Len(t) /\ t[(i - n) - 1] = s[i]
    <3>1. (i - n) - 1 \in 1 .. Len(t) /\ (((i - n) - 1) + n) + 1 = i
      BY <1>a, <1>b, <1>c, SMTT(20)
    <3> QED
      BY <1>5, <3>1
  <2> QED
    BY <2>1, <2>2
<1>11. \A p \in Ops : Granted(p, v) => p = o
  BY <1>2, <1>8, <1>s DEF Granted, Queued, Writing
<1>12. \A i \in 1 .. n : Tail(s)[i] = s[i + 1] /\ i + 1 \in 2 .. n + 1 /\ i + 1 \in 1 .. Len(s)
  BY <1>a, <1>b, SMTT(20)
<1>13. /\ triggers' \in [Ops -> Seq(Ops)] /\ queue' \in [Var -> Seq([trigger : Ops, write : BOOLEAN])]
       /\ num_pending_reads_' \in [Var -> Nat \cup {kWriteTriggered}]
       /\ var_exception' \in [Var -> Ops \cup {None}]
  <2>1. released \in Seq(Ops)
    <3>1. fire => Tail(s)[1].trigger \in Ops
      <4>1. fire => 1 \in 1 .. Len(Tail(s))
        BY <1>a, SMTT(20)
      <4> QED
        BY <1>3, <4>1
    <3>2. [i \in 1 .. n |-> Tail(s)[i].trigger] \in Seq(Ops)
      BY <1>3, <1>4, <1>12, SMTT(20)
    <3>3. CASE fire
      BY <3>1, <3>3, SMTT(20)
    <3>4. CASE ~fire
      BY <3>2, <3>4
    <3> QED
      BY <3>3, <3>4
  <2>2. (IF fire THEN kWriteTriggered ELSE n) \in Nat \cup {kWriteTriggered}
    BY <1>4
  <2> HIDE DEF released, fire
  <2>3. triggers' \in [Ops -> Seq(Ops)]
    BY <1>0, <1>1, <2>1 DEF TypeOK
  <2>4. num_pending_reads_' \in [Var -> Nat \cup {kWriteTriggered}]
    BY <1>0, <1>1, <2>2 DEF TypeOK
  <2>5. queue' \in [Var -> Seq([trigger : Ops, write : BOOLEAN])]
    BY <1>0, <1>1, <1>5 DEF TypeOK
  <2>6. var_exception' \in [Var -> Ops \cup {None}]
    BY <1>0, <1>1 DEF TypeOK
  <2> QED
    BY <2>3, <2>4, <2>5, <2>6
<1>14. Exceptions'
  <2>1. opr_exception' = opr_exception /\ thrown' = thrown
    BY DEF Leaves
  <2>2. /\ \A u \in Var \ {v} : var_exception'[u] = var_exception[u]
        /\ var_exception'[v] = IF Pending(opr_exception[o]) THEN opr_exception[o] ELSE var_exception[v]
    BY <1>0, <1>1 DEF TypeOK
  <2> SUFFICES ASSUME NEW p \in Ops, NEW u \in Var, Mutates(p, u), Left(p, u)', opr_exception[p] # None
               PROVE  opr_exception[p] \in thrown \/ var_exception'[u] # None
    BY <2>1 DEF Exceptions
  <2>3. CASE p = o /\ u = v
    BY <2>2, <2>3 DEF Pending
  <2>4. CASE p # o \/ u # v
    <3>1. opr_exception[p] \in thrown \/ var_exception[u] # None
      BY <1>0, <2>4 DEF Exceptions
    <3>2. var_exception[u] # None => var_exception'[u] # None
      BY <2>2 DEF Pending
    <3> QED
      BY <3>1, <3>2
  <2> QED
    BY <2>3, <2>4
<1>15. KeepsOrder(o, v)
  <2> SUFFICES ASSUME NEW q \in Ops, NEW p \in Ops, Before(p, q), ConflictOn(q, p, v), Live(p, v), p # o,
                      Joined(q, v)
               PROVE  \E j \in 1 .. Len(t) :
                        /\ t[j].trigger = q
                        /\ \A i \in 1 .. Len(t) : t[i].trigger = p => i < j
    BY <1>6, SMTT(20) DEF KeepsOrder
  <2>1. PICK j \in 1 .. Len(s) : s[j].trigger = q /\ \A i \in 1 .. Len(s) : s[i].trigger = p => i < j
    <3>1. \E j \in 1 .. Len(queue[v]) :
            queue[v][j].trigger = q /\ \A i \in 1 .. Len(queue[v]) : queue[v][i].trigger = p => i < j
      <4>1. Ordered
        BY <1>0
      <4> QED
        BY <4>1, SMTT(20) DEF Ordered
    <3> QED
      BY <1>s, <3>1
  <2>2. PICK a \in 2 .. Len(s) : s[a].trigger = p
    BY <1>0, <1>9
  <2>3. a \in 1 .. Len(s) /\ a < j
    <3>1. a \in 1 .. Len(s)
      BY <1>a, SMTT(20)
    <3> QED
      BY <2>1, <2>2, <3>1
  <2>4. (s[j].write <=> Mutates(q, v)) /\ (s[a].write <=> Mutates(p, v))
    BY <1>0, <1>s, <2>1, <2>2, <2>3 DEF VarOK
  <2>5. j >= n + 2
    <3> SUFFICES ASSUME j < n + 2 PROVE FALSE
      BY <1>a, <1>b, SMTT(20)
    <3>1. j \in 2 .. n + 1 /\ a \in 2 .. n + 1
      BY <1>a, <1>b, <2>3, SMTT(20)
    <3> QED
      BY <1>4, <2>4, <3>1 DEF ConflictOn
  <2>6. PICK b : b = (j - n) - 1
    OBVIOUS
  <2>7. b \in 1 .. Len(t) /\ (b + n) + 1 = j
    BY <1>a, <1>b, <1>c, <2>5, <2>6, SMTT(20)
  <2>8. t[b].trigger = q
    BY <1>5, <2>1, <2>7
  <2>9. ASSUME NEW i \in 1 .. Len(t), t[i].trigger = p PROVE i < b
    <3>1. (i + n) + 1 < j
      BY <1>5, <2>1, <2>9
    <3> QED
      BY <1>b, <1>c, <2>7, <3>1, SMTT(20)
  <2> QED
    BY <2>7, <2>8, <2>9
<1>16. /\ \A i \in 1 .. Len(queue'[v]) :
            \A p \in Ops : queue'[v][i].trigger = p => Live(p, v)' /\ (queue'[v][i].write <=> Mutates(p, v))
       /\ \A i, j \in 1 .. Len(queue'[v]) : queue'[v][i].trigger = queue'[v][j].trigger => i = j
       /\ \A p \in Ops : Live(p, v)' /\ Mutates(p, v) => Queued(p, v)'
  <2>1. ASSUME NEW i \in 1 .. Len(t), NEW p \in Ops, t[i].trigger = p
        PROVE  Live(p, v)' /\ (t[i].write <=> Mutates(p, v))
    <3>1. (i + n) + 1 \in 2 .. Len(s) /\ (i + n) + 1 \in 1 .. Len(s) /\ t[i] = s[(i + n) + 1]
      <4>1. (i + n) + 1 \in 1 .. Len(s) /\ t[i] = s[(i + n) + 1]
        BY <1>5
      <4>2. i \in Nat /\ i >= 1
        BY <1>a, <1>b, <1>c, SMTT(20)
      <4>3. (i + n) + 1 \in 2 .. Len(s)
        BY <1>a, <1>b, <4>1, <4>2, SMTT(20)
      <4> QED
        BY <4>1, <4>3
    <3>2. s[(i + n) + 1].write <=> Mutates(p, v)
      BY <1>0, <1>s, <2>1, <3>1 DEF VarOK
    <3> QED
      BY <1>9, <2>1, <3>1, <3>2
  <2>2. ASSUME NEW i \in 1 .. Len(t), NEW j \in 1 .. Len(t), t[i].trigger = t[j].trigger PROVE i = j
    <3>1. (i + n) + 1 = (j + n) + 1
      BY <1>5, <1>7, <2>2
    <3> QED
      BY <1>b, <1>c, <3>1, SMTT(20)
  <2>3. ASSUME NEW p \in Ops, Live(p, v)', Mutates(p, v) PROVE Queued(p, v)'
    <3>1. PICK i \in 2 .. Len(s) : s[i].trigger = p
      BY <1>9, <2>3
    <3>2. i \in 1 .. Len(s) /\ (i \in 2 .. n + 1 \/ i \in n + 2 .. Len(s))
      BY <1>a, <1>b, SMTT(20)
    <3>3. s[i].write
      BY <1>0, <1>s, <2>3, <3>1, <3>2 DEF VarOK
    <3> QED
      BY <1>4, <1>10, <3>1, <3>2, <3>3
  <2> QED
    BY <1>6, <2>1, <2>2, <2>3
<1>17. \A p \in Ops : Released(o, p)' <=> \E i \in 1 .. Len(released) : released[i] = p
  <2> HIDE DEF released
  <2> QED
    BY <1>6 DEF Released
<1>18. CASE fire
  <2>1. /\ n = 0 /\ Len(s) >= 2 /\ 2 \in 1 .. Len(s) /\ Tail(s)[1] = s[2] /\ s[2].write
        /\ s[2].trigger \in Ops
    <3>1. 1 \in 1 .. Len(Tail(s)) /\ n = 0
      BY <1>a, <1>18, SMTT(20)
    <3>2. Tail(s)[1] = s[1 + 1] /\ 1 + 1 \in 1 .. Len(s) /\ 1 + 1 = 2
      BY <1>a, <3>1, SMTT(20)
    <3>3. Len(s) >= 2 /\ n < Len(s) - 1 /\ n + 2 = 2
      BY <1>a, <3>1, <3>2, SMTT(20)
    <3> QED
      BY <1>3, <1>4, <3>1, <3>2, <3>3
  <2>h. PICK h : h = s[2].trigger
    OBVIOUS
  <2>2. released = <<h>> /\ num_pending_reads_'[v] = kWriteTriggered /\ queue'[v] = t
    BY <1>6, <1>18, <2>1, <2>h
  <2>3. Len(t) = Len(s) - 1 /\ Len(t) >= 1 /\ t # <<>> /\ t[1] = s[2]
    <3>1. Len(t) = Len(s) - 1 /\ Len(t) >= 1 /\ 1 \in 1 .. Len(t) /\ (1 + n) + 1 = 2
      BY <1>a, <1>c, <2>1, SMTT(20)
    <3>2. t[1] = s[2]
      BY <1>5, <3>1
    <3> QED
      BY <1>c, <3>1, <3>2, SMTT(20)
  <2>4. \A p \in Ops : Queued(p, v)' <=> Live(p, v)'
    <3>1. n + 2 = 2
      BY <2>1, SMTT(20)
    <3> QED
      BY <1>9, <1>10, <3>1
  <2>5. Readers(v)' = {}
    BY <2>4 DEF Readers
  <2>6. VarOK(v)'
    <3>1. queue'[v] # <<>> => queue'[v][1].write /\ num_pending_reads_'[v] # 0
      BY <2>1, <2>2, <2>3, SMTT(20) DEF kWriteTriggered
    <3>2. IsFiniteSet(Readers(v)')
      BY <2>5 DEF Counting, CountEmpty
    <3>3. queue'[v] # <<>>
      BY <2>2, <2>3
    <3> QED
      BY <1>16, <2>2, <2>5, <3>1, <3>2, <3>3 DEF VarOK
  <2>7. HandsOver(o, v)
    <3>1. \A p \in Ops : Released(o, p)' <=> p = h
      <4> HIDE DEF released
      <4> QED
        BY <1>17, <2>2, SMTT(20)
    <3>2. \A p \in Ops : Writing(p, v)' <=> p = h
      BY <2>2, <2>3, <2>h DEF Writing
    <3>3. \A p \in Ops : Granted(p, v)' <=> p = h /\ Live(p, v)'
      BY <2>4, <3>2 DEF Granted
    <3>4. h \in Ops /\ Live(h, v)' /\ h # o
      <4>1. 2 \in 2 .. Len(s)
        BY <1>a, <2>1, SMTT(20)
      <4> QED
        BY <1>0, <1>9, <2>1, <2>h, <4>1
    <3>5. \A i, j \in 1 .. Len(triggers'[o]) : triggers'[o][i] = triggers'[o][j] => i = j
      <4>1. triggers'[o] = <<h>>
        BY <1>6, <2>2
      <4> QED
        BY <4>1, SMTT(20)
    <3>6. \A p \in Ops : Released(o, p)' => p # o /\ ~Granted(p, v) /\ Granted(p, v)'
      BY <1>11, <3>1, <3>3, <3>4
    <3>7. \A p \in Ops \ {o} : ~Released(o, p)' => (Granted(p, v)' <=> Granted(p, v))
      BY <1>11, <3>1, <3>3
    <3> QED
      BY <3>5, <3>6, <3>7 DEF HandsOver
  <2> QED
    BY <1>6, <1>13, <1>14, <1>15, <2>6, <2>7, CompleteStep
<1>19. CASE ~fire
  <2>1. /\ released = [i \in 1 .. n |-> Tail(s)[i].trigger] /\ num_pending_reads_'[v] = n
        /\ queue'[v] = t /\ triggers'[o] = [i \in 1 .. n |-> Tail(s)[i].trigger]
    BY <1>6, <1>19
  <2>k. n # kWriteTriggered
    BY <1>b, SMTT(20) DEF kWriteTriggered
  <2>2. /\ \A i \in 1 .. n : triggers'[o][i] = s[i + 1].trigger
        /\ Len(triggers'[o]) = n
    BY <1>4, <1>12, <2>1, SMTT(20)
  <2>3. \A i, j \in 1 .. n : triggers'[o][i] = triggers'[o][j] => i = j
    <3> SUFFICES ASSUME NEW i \in 1 .. n, NEW j \in 1 .. n, triggers'[o][i] = triggers'[o][j] PROVE i = j
      OBVIOUS
    <3>1. i + 1 = j + 1
      BY <1>7, <1>12, <2>2, SMTT(20)
    <3> QED
      BY <1>b, <3>1, SMTT(20)
  <2>4. \A p \in Ops : Released(o, p)' <=> \E i \in 2 .. n + 1 : s[i].trigger = p
    <3> SUFFICES ASSUME NEW p \in Ops
                 PROVE  (\E i \in 1 .. n : triggers'[o][i] = p) <=> \E i \in 2 .. n + 1 : s[i].trigger = p
      BY <2>2 DEF Released
    <3>1. ASSUME NEW i \in 1 .. n PROVE i + 1 \in 2 .. n + 1 /\ triggers'[o][i] = s[i + 1].trigger
      BY <1>12, <2>2
    <3>2. ASSUME NEW i \in 2 .. n + 1 PROVE i - 1 \in 1 .. n /\ triggers'[o][i - 1] = s[i].trigger
      <4>1. i - 1 \in 1 .. n /\ (i - 1) + 1 = i
        BY <1>b, SMTT(20)
      <4> QED
        BY <2>2, <4>1
    <3> QED
      BY <3>1, <3>2
  <2>5. \A p \in Ops : Live(p, v)' /\ ~Queued(p, v)' <=> Released(o, p)'
    <3> SUFFICES ASSUME NEW p \in Ops PROVE Live(p, v)' /\ ~Queued(p, v)' <=> Released(o, p)'
      OBVIOUS
    <3>1. \A i \in 2 .. Len(s) : i \in 1 .. Len(s) /\ (i \in 2 .. n + 1 \/ i \in n + 2 .. Len(s))
      BY <1>a, <1>b, SMTT(20)
    <3>2. \A i \in 2 .. n + 1 : i \in 2 .. Len(s) /\ i \notin n + 2 .. Len(s)
      BY <1>a, <1>b, SMTT(20)
    <3>3. \A i \in n + 2 .. Len(s) : i \in 2 .. Len(s)
      BY <1>a, <1>b, SMTT(20)
    <3>4. Released(o, p)' => Live(p, v)'
      BY <1>9, <2>4, <3>2
    <3>5. Live(p, v)' => Queued(p, v)' \/ Released(o, p)'
      BY <1>9, <1>10, <2>4, <3>1
    <3>6. ~(Queued(p, v)' /\ Released(o, p)')
      BY <1>7, <1>10, <2>4, <3>1, <3>2, <3>3, SMTT(20)
    <3> QED
      BY <3>4, <3>5, <3>6
  <2>6. Readers(v)' = {triggers'[o][i] : i \in 1 .. n}
    <3>1. Readers(v)' = {p \in Ops : Released(o, p)'}
      BY <2>5 DEF Readers
    <3>2. \A i \in 1 .. n : triggers'[o][i] \in Ops
      BY <1>3, <1>12, <2>2
    <3> QED
      BY <2>2, <3>1, <3>2 DEF Released
  <2>7. IsFiniteSet(Readers(v)') /\ Cardinality(Readers(v)') = n
    <3>1. PICK f : f = triggers'[o]
      OBVIOUS
    <3>2. \A i, j \in 1 .. n : f[i] = f[j] => i = j
      BY <2>3, <3>1
    <3>3. Readers(v)' = {f[i] : i \in 1 .. n}
      BY <2>6, <3>1
    <3>4. PICK R : R = Readers(v)'
      OBVIOUS
    <3>5. R = {f[i] : i \in 1 .. n} /\ n \in Nat
      BY <1>4, <3>3, <3>4
    <3>6. IsFiniteSet(R) /\ Cardinality(R) = n
      BY <3>2, <3>5, Counted
    <3> QED
      BY <3>4, <3>6
  <2>8. VarOK(v)'
    <3>1. queue'[v] # <<>> => queue'[v][1].write /\ num_pending_reads_'[v] # 0
      <4> SUFFICES ASSUME t # <<>> PROVE t[1].write /\ n # 0
        BY <2>1
      <4>1. Len(t) >= 1 /\ 1 \in 1 .. Len(t) /\ n < Len(s) - 1 /\ (1 + n) + 1 = n + 2
        BY <1>a, <1>b, <1>c, SMTT(20)
      <4>2. t[1] = s[n + 2]
        BY <1>5, <4>1
      <4>3. Tail(s) # <<>>
        <5>1. Len(Tail(s)) # 0
          <6>1. n < Len(s) - 1 /\ n \in Nat /\ Len(s) \in Nat
            BY <1>a, <1>b, <4>1
          <6>2. \A l, m \in Nat : m < l - 1 => l - 1 # 0
            BY SMTT(20)
          <6> QED
            BY <1>a, <6>1, <6>2
        <5>2. PICK r : r = Tail(s)
          OBVIOUS
        <5>3. r = <<>> => Len(r) = 0
          BY SMTT(20)
        <5> QED
          BY <5>1, <5>2, <5>3
      <4> QED
        BY <1>4, <1>19, <4>1, <4>2, <4>3
    <3>2. num_pending_reads_'[v] # kWriteTriggered
      BY <2>1, <2>k
    <3> QED
      BY <1>16, <2>1, <2>7, <3>1, <3>2 DEF VarOK
  <2>9. HandsOver(o, v)
    <3>1. \A p \in Ops : ~Writing(p, v)'
      BY <2>1, <2>k DEF Writing
    <3>2. \A p \in Ops : Granted(p, v)' <=> Released(o, p)'
      BY <2>5, <3>1 DEF Granted
    <3>3. \A p \in Ops : Released(o, p)' => p # o /\ ~Granted(p, v)
      BY <1>0, <1>11, <2>5
    <3>4. \A i, j \in 1 .. Len(triggers'[o]) : triggers'[o][i] = triggers'[o][j] => i = j
      BY <2>2, <2>3
    <3> QED
      BY <1>11, <3>2, <3>3, <3>4 DEF HandsOver
  <2> QED
    BY <1>6, <1>13, <1>14, <1>15, <2>8, <2>9, CompleteStep
<1> QED
  BY <1>18, <1>19

\* The next variable of an operation that has run.
LEMMA CompleteDependencyInv ==
  ASSUME Counting, IInv, NEW o \in Ops, CompleteDependency(o)
  PROVE  IInv'
<1>1. PICK k : k = completed[o] + 1
  OBVIOUS
<1>2. PICK v : v = Vars(o)[k]
  OBVIOUS
<1>3. Leaves(o, v, k)
  BY <1>1, <1>2 DEF CompleteDependency, Leaves
<1>4. v \in Var
  <2>1. completed[o] \in Nat
    BY DEF IInv, TypeOK
  <2>2. k \in 1 .. Len(Vars(o))
    BY <1>1, <1>3, <2>1, UsesFacts, SMTT(20) DEF Leaves
  <2> QED
    BY <1>2, <2>2, UsesFacts
<1>5. CASE Reads(o, k)
  <2>1. CompleteReadDependency(o, v)
    BY <1>1, <1>2, <1>5 DEF CompleteDependency
  <2> QED
    BY <1>3, <1>4, <1>5, <2>1, CompleteReadInv
<1>6. CASE ~Reads(o, k)
  <2>1. CompleteWriteDependency(o, v)
    BY <1>1, <1>2, <1>6 DEF CompleteDependency
  <2> QED
    BY <1>3, <1>4, <1>6, <2>1, CompleteWriteInv
<1> QED
  BY <1>5, <1>6

-----------------------------------------------------------------------------
(* The invariant *)

\* The invariant holds before anything is pushed.
LEMMA InitInv ==
  ASSUME Counting, Init
  PROVE  IInv
<1>0. \A o \in Ops : o[1] \in Thread /\ o[2] \in Nat /\ o[2] > 0
  BY OpsFacts, SMTT(20)
<1>1. \A o \in Ops : ~Begun(o) /\ ~Adding(o)
  BY <1>0, SMTT(20) DEF Init, Begun, Adding
<1>2. \A o \in Ops : \A v : ~Joined(o, v) /\ ~Live(o, v)
  BY <1>1 DEF Joined, Live
<1>3. TypeOK
  BY SMTT(20) DEF Init, TypeOK, kWriteTriggered
<1>4. Threads
  BY OpsFacts, SMTT(20) DEF Init, Threads, ThreadOK
<1>5. Places
  BY <1>0, <1>1 DEF Init, Places, PlaceOK
<1>6. Stages
  <2> SUFFICES ASSUME NEW o \in Ops PROVE StageOK(o)
    BY DEF Stages
  <2>1. /\ wait[o] = 0 /\ completed[o] = 0 /\ triggers[o] = <<>> /\ next[o[1]] = 0
        /\ ready = {} /\ running = {} /\ executed = {} /\ finished = {}
    BY <1>0 DEF Init
  <2>2. Len(Vars(o)) \in Nat
    BY UsesFacts
  <2> QED
    BY <1>0, <1>1, <2>1, <2>2, SMTT(20) DEF StageOK
<1>7. Counts
  BY <1>1 DEF Counts, CountOK
<1>8. Variables
  <2> SUFFICES ASSUME NEW v \in Var PROVE VarOK(v)
    BY DEF Variables
  <2>1. queue[v] = <<>> /\ num_pending_reads_[v] = 0
    BY DEF Init
  <2>2. Readers(v) = {}
    BY <1>2 DEF Readers
  <2>3. IsFiniteSet(Readers(v)) /\ Cardinality(Readers(v)) = 0
    BY <2>2 DEF Counting, CountEmpty
  <2> QED
    <3>1. 0 # kWriteTriggered /\ \A i \in 1 .. 0 : FALSE
      BY SMTT(20) DEF kWriteTriggered
    <3>2. \A i \in 1 .. Len(queue[v]) : FALSE
      BY <2>1, SMTT(20)
    <3> QED
      BY <1>2, <2>1, <2>3, <3>1, <3>2 DEF VarOK
<1>9. Flights
  <2>1. \A o \in Ops : triggers[o] = <<>> /\ completed[o] = 0
    BY DEF Init
  <2>2. \A o, h \in Ops, v \in Var : ~Sends(o, h, v)
    BY <2>1, SMTT(20) DEF Sends
  <2> QED
    BY <2>1, <2>2, SMTT(20) DEF Flights, FlightOK
<1>10. Ordered
  BY <1>2 DEF Ordered
<1>11. Ran
  BY DEF Init, Ran
<1>12. PendingCount
  <2>1. Unfinished = {}
    BY <1>1 DEF Unfinished
  <2> QED
    BY <2>1 DEF Init, PendingCount, Counting, CountEmpty
<1>13. WaitSees
  <2>1. \A o \in Ops : ~Over(o)
    BY <1>0, SMTT(20) DEF Over, Init
  <2> QED
    BY <2>1 DEF WaitSees
<1>14. Exceptions
  BY DEF Init, Exceptions
<1> QED
  BY <1>3, <1>4, <1>5, <1>6, <1>7, <1>8, <1>9, <1>10, <1>11, <1>12, <1>13, <1>14 DEF IInv

\* So does a step that changes nothing.
LEMMA StutterInv ==
  ASSUME IInv, UNCHANGED vars
  PROVE  IInv'
<1>1. /\ process' = process /\ next' = next /\ at' = at /\ appended' = appended /\ wait' = wait
      /\ pending_' = pending_ /\ num_pending_reads_' = num_pending_reads_ /\ queue' = queue
      /\ ready' = ready /\ running' = running /\ executed' = executed /\ completed' = completed
      /\ finished' = finished /\ triggers' = triggers /\ opr_exception' = opr_exception
      /\ var_exception' = var_exception /\ thrown' = thrown /\ returned' = returned
  BY DEF vars, push_vars, run_vars, exc_vars
<1>2. UNCHANGED <<push_vars, wait, num_pending_reads_, queue, completed, triggers>>
  BY DEF vars, run_vars
<1>3. \A p \in Ops : Begun(p)' <=> Begun(p)
  BY <1>1 DEF Begun
<1>4. /\ Threads' /\ Places' /\ Counts' /\ Variables' /\ Flights' /\ Ordered' /\ WaitSees'
      /\ \A p \in Ops, u \in Var : Left(p, u)' <=> Left(p, u)
  BY <1>1, <1>2, <1>3, PoolQuiet
<1>5. TypeOK'
  BY <1>1 DEF IInv, TypeOK
<1>6. Stages'
  BY <1>1, <1>3 DEF IInv, Stages, StageOK
<1>7. Ran'
  BY <1>1, <1>4, RanKept DEF IInv
<1>8. PendingCount'
  BY <1>1, <1>3, PendingKept DEF IInv
<1>9. Exceptions'
  BY <1>1, <1>4, ExceptionsKept DEF IInv
<1> QED
  BY <1>4, <1>5, <1>6, <1>7, <1>8, <1>9 DEF IInv

\* Every step of the engine keeps the invariant.
LEMMA NextInv ==
  ASSUME Counting, IInv, [Next]_vars
  PROVE  IInv'
<1>1. ASSUME NEW t \in process, ThreadStep(t) PROVE IInv'
  BY <1>1, PushInv, AppendDependencyInv, PushEndInv, WaitForVarReadyInv, WaitForVarReturnInv,
     WaitForAllInv DEF ThreadStep
<1>2. ASSUME NEW o \in Ops, PoolStep(o) PROVE IInv'
  BY <1>2, ExecuteOprBlockInv, ExecuteInv, CompleteDependencyInv, TriggerInv, CompleteEndInv DEF PoolStep
<1> QED
  BY <1>1, <1>2, StutterInv DEF Next

-----------------------------------------------------------------------------
(* What follows from the invariant *)

\* An operation given to the pool holds all the variables it has not left.
LEMMA HoldsAll ==
  ASSUME Counting, IInv, NEW o \in Ops, o \in ready \cup running \cup executed, NEW v \in Var, Uses(o, v), ~Left(o, v)
  PROVE  Granted(o, v) /\ VarOK(v)
<1>1. StageOK(o) /\ CountOK(o) /\ wait[o] \in Nat /\ VarOK(v)
  BY DEF IInv, Stages, Counts, Variables, TypeOK
<1>2. Begun(o) /\ wait[o] = 0
  BY <1>1, SMTT(20) DEF Begun, StageOK
<1>3. Missing(o) = {}
  <2>1. IsFiniteSet(Missing(o)) /\ Cardinality(Missing(o)) \in Nat
    BY MissingFinite
  <2>2. 0 = Cardinality(Missing(o)) + (IF Adding(o) THEN 1 ELSE 0)
    BY <1>1, <1>2 DEF CountOK
  <2>3. Cardinality(Missing(o)) = 0
    BY <2>1, <2>2, SMTT(20)
  <2> QED
    BY <2>1, <2>3 DEF Counting, CountEmpty
<1> QED
  BY <1>1, <1>3 DEF Missing

\* Who holds a variable it mutates is the head of its queue, who only reads it
\* is counted.
LEMMA HolderFacts ==
  ASSUME Counting, TypeOK, NEW o \in Ops, NEW v \in Var, Granted(o, v), VarOK(v)
  PROVE  /\ Mutates(o, v) => Writing(o, v) /\ \A p \in Ops : Granted(p, v) => p = o
         /\ ~Mutates(o, v) => num_pending_reads_[v] > 0
<1>1. ASSUME Mutates(o, v) PROVE Writing(o, v) /\ \A p \in Ops : Granted(p, v) => p = o
  <2>1. Writing(o, v)
    BY <1>1 DEF Granted, VarOK
  <2>2. Readers(v) = {}
    BY <2>1 DEF Writing, VarOK
  <2>3. \A p \in Ops : Live(p, v) => Queued(p, v)
    BY <2>2 DEF Readers
  <2> QED
    BY <2>1, <2>3 DEF Granted, Writing
<1>2. ASSUME ~Mutates(o, v) PROVE num_pending_reads_[v] > 0
  <2>1. ~Queued(o, v)
    <3> SUFFICES ASSUME Queued(o, v) PROVE FALSE
      OBVIOUS
    <3>1. queue[v] # <<>> /\ queue[v][1].trigger = o
      BY DEF Granted, Writing
    <3>2. 1 \in 1 .. Len(queue[v])
      <4>1. queue[v] \in Seq([trigger : Ops, write : BOOLEAN])
        BY DEF TypeOK
      <4>2. Len(queue[v]) \in Nat /\ Len(queue[v]) >= 1
        BY <3>1, <4>1, TailFacts
      <4> QED
        BY <4>2, SMTT(20)
    <3>3. queue[v][1].write /\ (queue[v][1].write <=> Mutates(o, v))
      BY <3>1, <3>2 DEF VarOK
    <3> QED
      BY <1>2, <3>3
  <2>2. o \in Readers(v)
    BY <2>1 DEF Granted, Readers
  <2>3. IsFiniteSet(Readers(v)) /\ num_pending_reads_[v] = Cardinality(Readers(v))
    BY <2>2 DEF VarOK
  <2>4. Cardinality(Readers(v)) \in Nat /\ Cardinality(Readers(v)) # 0
    BY <2>2, <2>3 DEF Counting, CountEmpty, CountType
  <2> QED
    BY <2>3, <2>4, SMTT(20)
<1> QED
  BY <1>1, <1>2

\* The invariant gives what the engine promises of operations that conflict:
\* they never run together, they run in the order of their pushes, and the
\* CHECKs of CompleteReadDependency and CompleteWriteDependency hold.
LEMMA InvConflicts ==
  ASSUME Counting, IInv
  PROVE  ConflictsOrdered
<1>1. Exclusive
  <2> SUFFICES ASSUME NEW o \in running \ executed, NEW p \in running \ executed, o # p,
                      NEW v \in Var, ConflictOn(o, p, v)
               PROVE  FALSE
    BY DEF Exclusive, Conflict
  <2>1. TypeOK /\ o \in Ops /\ p \in Ops /\ ~Left(o, v) /\ ~Left(p, v)
    BY LeftFacts DEF IInv, TypeOK
  <2>2. Granted(o, v) /\ Granted(p, v) /\ VarOK(v)
    BY <2>1, HoldsAll DEF ConflictOn
  <2> QED
    BY <2>1, <2>2, HolderFacts DEF ConflictOn
<1>2. ProgramOrder
  BY LeftFacts DEF IInv, ProgramOrder, Conflict, Ran, TypeOK
<1>3. ChecksHold
  <2>1. ASSUME NEW o \in executed, NEW k \in completed[o] + 1 .. Len(Vars(o))
        PROVE  IF Reads(o, k)
                 THEN num_pending_reads_[Vars(o)[k]] > 0
                 ELSE /\ num_pending_reads_[Vars(o)[k]] = kWriteTriggered
                      /\ queue[Vars(o)[k]] # <<>> /\ queue[Vars(o)[k]][1].trigger = o
    <3>v. PICK v : v = Vars(o)[k]
      OBVIOUS
    <3>1. TypeOK /\ o \in Ops /\ completed[o] \in Nat
      BY DEF IInv, TypeOK
    <3>2. k \in 1 .. Len(Vars(o)) /\ k > completed[o]
      BY <3>1, UsesFacts, SMTT(20)
    <3>3. Uses(o, v) /\ Pos(o, v) = k /\ v \in Var /\ (Reads(o, k) <=> ~Mutates(o, v))
      <4>1. Uses(o, v) /\ Pos(o, v) = k
        BY <3>1, <3>2, <3>v, PosFacts
      <4> QED
        BY <3>1, <4>1, PosFacts
    <3>4. ~Left(o, v)
      BY <3>1, <3>2, <3>3, SMTT(20) DEF Left
    <3>5. Granted(o, v) /\ VarOK(v)
      BY <3>1, <3>3, <3>4, HoldsAll
    <3>6. /\ Mutates(o, v) => Writing(o, v)
          /\ ~Mutates(o, v) => num_pending_reads_[v] > 0
      BY <3>1, <3>3, <3>5, HolderFacts
    <3> QED
      BY <3>v, <3>3, <3>6 DEF Writing
  <2>2. \A v \in Var : queue[v] # <<>> => num_pending_reads_[v] # 0
    BY DEF IInv, Variables, VarOK
  <2> QED
    BY <2>1, <2>2 DEF ChecksHold
<1> QED
  BY <1>1, <1>2, <1>3 DEF ConflictsOrdered

\* A WaitForVar returns normally only when its variable holds no exception
\* that is not yet thrown.
LEMMA ReturnsNormally ==
  ASSUME IInv, NEW w \in Ops, CallOf(w).call = "wait", Return(w),
         NEW v \in Var, v = CallOf(w).const_vars[1],
         NEW o \in Ops, returned[o] = None, returned'[o] = "normally",
         NEW p \in Ops, Mutates(p, v), opr_exception[p] # None, o = w => Left(p, v)
  PROVE  o = w /\ {opr_exception[p], var_exception[v]} \cap thrown # {}
<1>1. returned' = [returned EXCEPT ![w] = IF Pending(var_exception[v]) THEN "throws" ELSE "normally"]
  BY DEF Return
<1>2. returned \in [Ops -> {None, "normally", "throws"}] /\ None # "normally"
  BY ProgramAssumption DEF IInv, TypeOK
<1>3. o = w /\ ~Pending(var_exception[v])
  BY <1>1, <1>2
<1>4. opr_exception[p] \in thrown \/ var_exception[v] # None
  BY <1>3 DEF IInv, Exceptions
<1> QED
  BY <1>3, <1>4 DEF Pending

\* The step that FailureReported asks for.
Reported ==
  \A o, p \in Ops :
    LET v == CallOf(o).const_vars[1] IN
    /\ returned[o] = None /\ returned'[o] = "normally"
    /\ Before(p, o) /\ Mutates(p, v) /\ opr_exception[p] # None
    => {opr_exception[p], var_exception[v]} \cap thrown # {}

\* Every step is such a step: only WaitForVar sets returned, when all that was
\* pushed before it and writes its variable has left the variable.
LEMMA StepReports ==
  ASSUME IInv, [Next]_vars
  PROVE  Reported
<1>1. ASSUME IInv, Next PROVE Reported
  <2> SUFFICES ASSUME NEW o \in Ops, NEW p \in Ops, returned[o] = None, returned'[o] = "normally",
                      Before(p, o), Mutates(p, CallOf(o).const_vars[1]), opr_exception[p] # None
               PROVE  {opr_exception[p], var_exception[CallOf(o).const_vars[1]]} \cap thrown # {}
    BY DEF Reported
  <2>0. TypeOK /\ returned' # returned
    BY <1>1, ProgramAssumption DEF IInv
  <2>1. \E t \in process : WaitForVarReady(t) \/ WaitForVarReturn(t)
    <3>1. ASSUME NEW t \in process, ThreadStep(t) PROVE WaitForVarReady(t) \/ WaitForVarReturn(t)
      BY <2>0, <3>1 DEF ThreadStep, Push, AppendDependency, PushEnd, WaitForAll, exc_vars
    <3>2. ASSUME NEW q \in Ops, PoolStep(q) PROVE FALSE
      BY <2>0, <3>2 DEF PoolStep, ExecuteOprBlock, Execute, CompleteDependency, Trigger, CompleteEnd, exc_vars
    <3> QED
      BY <1>1, <3>1, <3>2 DEF Next
  <2>2. PICK t \in process : WaitForVarReady(t) \/ WaitForVarReturn(t)
    BY <2>1
  <2>3. t \in Thread /\ next[t] \in Nat
    BY <2>0, ProgramAssumption DEF TypeOK
  <2>4. CASE WaitForVarReady(t)
    <3>1. PICK w : w = <<t, next[t] + 1>>
      OBVIOUS
    <3>2. /\ w \in Ops /\ w[1] = t /\ w[2] = next[t] + 1 /\ CallOf(w).call = "wait"
          /\ at[t] = "idle" /\ Return(w) /\ queue[CallOf(w).const_vars[1]] = <<>>
      <4>1. w \in Ops /\ CallOf(w).call = "wait" /\ at[t] = "idle" /\ Return(w) /\ queue[CallOf(w).const_vars[1]] = <<>>
        BY <2>4, <3>1 DEF WaitForVarReady
      <4>2. w[1] = t /\ w[2] = next[t] + 1
        BY <2>3, <3>1, OpsFacts
      <4> QED
        BY <4>1, <4>2
    <3>3. PICK v : v = CallOf(w).const_vars[1]
      OBVIOUS
    <3>4. v \in Var
      BY <3>2, <3>3, WaitFacts
    <3>5. o = w
      BY <1>1, <2>0, <3>2, ProgramAssumption DEF Return, TypeOK
    <3>6. Left(p, v)
      BY <1>1, <3>2, <3>3, <3>4, <3>5, IdleVariable
    <3> QED
      BY <1>1, <3>2, <3>3, <3>4, <3>5, <3>6, ReturnsNormally
  <2>5. CASE WaitForVarReturn(t)
    <3>1. PICK w : w = Current(t)
      OBVIOUS
    <3>2. w \in Ops /\ w \in executed /\ Return(w) /\ w[1] = t /\ w[2] = next[t] /\ at[t] = "wait"
      <4>1. w \in executed /\ Return(w) /\ at[t] = "wait"
        BY <2>5, <3>1 DEF WaitForVarReturn
      <4>2. w \in Ops
        BY <2>0, <4>1 DEF TypeOK
      <4>3. w[1] = t /\ w[2] = next[t]
        BY <2>3, <3>1, OpsFacts DEF Current
      <4> QED
        BY <4>1, <4>2, <4>3
    <3>3. CallOf(w).call = "wait"
      BY <1>1, <3>2 DEF IInv, Places, PlaceOK
    <3>4. PICK v : v = CallOf(w).const_vars[1]
      OBVIOUS
    <3>5. v \in Var /\ Uses(w, v)
      BY <3>2, <3>3, <3>4, WaitFacts
    <3>6. o = w
      BY <1>1, <2>0, <3>2, ProgramAssumption DEF Return, TypeOK
    <3>7. Left(p, v)
      <4>1. Uses(p, v) /\ Mutates(p, v)
        BY <3>4, <3>6, PosFacts
      <4>2. ConflictOn(w, p, v) /\ Before(p, w)
        BY <3>5, <3>6, <4>1 DEF ConflictOn
      <4> QED
        BY <1>1, <3>2, <3>5, <4>2 DEF IInv, Ran
    <3> QED
      BY <1>1, <3>2, <3>3, <3>4, <3>5, <3>6, <3>7, ReturnsNormally
  <2> QED
    BY <2>2, <2>4, <2>5
<1>2. ASSUME IInv, UNCHANGED vars PROVE Reported
  BY <1>2, ProgramAssumption DEF Reported, vars, exc_vars, IInv, TypeOK
<1> QED
  BY <1>1, <1>2

-----------------------------------------------------------------------------
(* The theorems *)

INSTANCE FiniteSetTheorems

\* What the lemmas assume of finite sets and numbers is true.
LEMMA CountingHolds == Counting
<1>1. CountType
  BY FS_CardinalityType DEF CountType
<1>2. CountEmpty
  BY FS_EmptySet DEF CountEmpty
<1>3. CountSubset
  BY FS_Subset DEF CountSubset
<1>4. CountAdd
  BY FS_AddElement DEF CountAdd
<1>5. CountRemove
  BY FS_RemoveElement DEF CountRemove
<1>6. CountInterval
  <2> SUFFICES ASSUME NEW n \in Nat PROVE IsFiniteSet(1 .. n) /\ Cardinality(1 .. n) = n
    BY DEF CountInterval
  <2>1. 1 \in Int /\ n \in Int
    BY SMTT(20)
  <2>2. IsFiniteSet(1 .. n) /\ Cardinality(1 .. n) = IF 1 > n THEN 0 ELSE n - 1 + 1
    BY <2>1, FS_Interval
  <2> QED
    BY <2>2, SMTT(20)
<1>7. CountBijection
  BY FS_Bijection DEF CountBijection
<1>8. LeastNumber
  <2> SUFFICES ASSUME NEW T, T \subseteq Nat, T # {} PROVE \E n \in T : \A m \in T : n <= m
    BY DEF LeastNumber
  <2>1. PICK n \in T : \A m \in T : ~(<<m, n>> \in OpToRel(<, Nat))
    BY WFMin, NatLessThanWellFounded
  <2>2. \A m \in T : ~(m < n)
    <3> SUFFICES ASSUME NEW m \in T, m < n PROVE FALSE
      OBVIOUS
    <3>1. <<m, n>> \in Nat \X Nat /\ <<m, n>>[1] < <<m, n>>[2]
      OBVIOUS
    <3>2. <<m, n>> \in OpToRel(<, Nat)
      BY <3>1 DEF OpToRel
    <3> QED
      BY <2>1, <3>2
  <2> QED
    BY <2>2, SMTT(20)
<1> QED
  BY <1>1, <1>2, <1>3, <1>4, <1>5, <1>6, <1>7, <1>8 DEF Counting

\* The inductive invariant: every operation's wait counts the variables it
\* still waits for, every variable's queue and number of readers are those of
\* the operations that have joined it and not left, and an operation that ran
\* found every earlier one that it conflicts with gone.
THEOREM EngineInvariant == Spec => []IInv
<1>1. Init => IInv
  BY InitInv, CountingHolds
<1>2. IInv /\ [Next]_vars => IInv'
  BY NextInv, CountingHolds
<1> QED
  BY <1>1, <1>2, PTL DEF Spec

\* For any programs of any number of threads over any variables, no two
\* operations that conflict run at the same time, an operation runs after every
\* earlier one of its thread that it conflicts with, and no CHECK of
\* threaded_engine.cc fails.
THEOREM EngineConflictsOrdered == Spec => []ConflictsOrdered
<1>1. IInv => ConflictsOrdered
  BY InvConflicts, CountingHolds
<1> QED
  BY <1>1, EngineInvariant, PTL

\* A WaitForVar that has returned has seen every earlier write of its thread to
\* the variable, a WaitForAll every earlier operation of its thread.
THEOREM EngineWaitSees == Spec => []WaitSees
<1>1. IInv => WaitSees
  BY DEF IInv
<1> QED
  BY <1>1, EngineInvariant, PTL

\* WaitForVar does not return normally when an earlier operation of its thread
\* that writes the variable failed, unless that exception, or the one the
\* variable holds, has been thrown already.
THEOREM EngineFailureReported == Spec => FailureReported
<1>1. IInv /\ [Next]_vars => Reported
  BY StepReports
<1> QED
  BY <1>1, EngineInvariant, PTL DEF Spec, FailureReported, Reported
=============================================================================
