---------------------------- MODULE BarrierProofs ----------------------------
(***************************************************************************)
(* Proof that the barrier holds, for every set of nodes, every division    *)
(* into groups and every sequence of barriers the nodes call.              *)
(*                                                                         *)
(* The inductive invariant says that a group is always in some generation  *)
(* x: every member has entered x or x + 1 barriers over it and left at     *)
(* most x, and barrier_count_ is the number of members whose request for   *)
(* generation x + 1 has reached the scheduler.                             *)
(***************************************************************************)
EXTENDS Barrier, FiniteSetTheorems, TLAPS

InCall(n, grp) == pc[n] # "running" /\ Called(n) = grp

\* The response has been handled and the node is about to return.
Released(n, grp) == pc[n] = "waiting" /\ Called(n) = grp /\ barrier_done_[n] = "true"

Counted(grp, x) ==
  {n \in Members[grp] : Entered(n, grp) = x + 1 /\ Request(n, grp) \notin net}

MemberInv(n, grp, x) ==
  /\ Entered(n, grp) \in {x, x + 1}
  /\ Left(n, grp) <= x
  /\ Request(n, grp) \in net => InCall(n, grp) /\ Entered(n, grp) = x + 1
  /\ Response(n, grp) \in net => InCall(n, grp) /\ Entered(n, grp) = x
  /\ Released(n, grp) => Entered(n, grp) = x /\ Response(n, grp) \notin net

Generation(grp, x) ==
  /\ barrier_count_[grp] = Cardinality(Counted(grp, x))
  /\ \A n \in Members[grp] : MemberInv(n, grp, x)

RealGroup(grp) == grp \in Group /\ Cardinality(Members[grp]) > 1

IInv ==
  /\ TypeOK
  /\ \A n \in Node : pc[n] # "running" => done[n] < Len(Script[n])
  /\ \A m \in net : RealGroup(m.group) /\ m.node \in Members[m.group]
  /\ \A grp \in Group : RealGroup(grp) => \E x \in Nat : Generation(grp, x)

-----------------------------------------------------------------------------
\* Barriers counts up by one exactly at the barriers over the group.
LEMMA BarriersStep ==
  ASSUME NEW n \in Node, NEW grp \in Group, NEW i \in Nat
  PROVE  /\ Barriers(n, grp, i) \in Nat
         /\ Barriers(n, grp, i + 1) =
              Barriers(n, grp, i) + (IF Script[n][i + 1] = grp THEN 1 ELSE 0)
<1> DEFINE S == {j \in 1 .. i : Script[n][j] = grp}
           T == {j \in 1 .. (i + 1) : Script[n][j] = grp}
<1>1. IsFiniteSet(S) /\ Cardinality(S) \in Nat
  <2>1. IsFiniteSet(1 .. i)
    BY FS_Interval
  <2>2. IsFiniteSet(S)
    BY <2>1, FS_Subset, S \in SUBSET (1 .. i)
  <2> QED
    BY <2>2, FS_CardinalityType
<1>2. CASE Script[n][i + 1] = grp
  <2>1. T = S \cup {i + 1} /\ i + 1 \notin S
    BY <1>2
  <2> QED
    BY <1>1, <1>2, <2>1, FS_AddElement DEF Barriers
<1>3. CASE Script[n][i + 1] # grp
  <2>1. T = S
    BY <1>3
  <2> QED
    BY <1>1, <1>3, <2>1 DEF Barriers
<1> QED
  BY <1>2, <1>3

\* Members of a group are finitely many.
LEMMA MembersFinite ==
  ASSUME NEW grp \in Group
  PROVE  /\ IsFiniteSet(Members[grp]) /\ Cardinality(Members[grp]) \in Nat
         /\ Members[grp] \subseteq Node
BY BarrierAssumption, FS_Subset, FS_CardinalityType

\* A node in a barrier call has entered one barrier more than it has left, over
\* the group of the call and no other.
LEMMA EnteredLeft ==
  ASSUME IInv, NEW n \in Node, NEW grp \in Group
  PROVE  /\ Left(n, grp) \in Nat
         /\ Entered(n, grp) = Left(n, grp) + (IF InCall(n, grp) THEN 1 ELSE 0)
<1>1. done[n] \in Nat
  BY DEF IInv, TypeOK
<1> QED
  BY <1>1, BarriersStep DEF Entered, Left, InCall, Called

\* The next barrier of a node is over one of its own groups, and only its
\* count goes up with it.
LEMMA CalledMember ==
  ASSUME IInv, NEW n \in Node, done[n] < Len(Script[n])
  PROVE  /\ Called(n) \in Group /\ n \in Members[Called(n)]
         /\ \A grp \in Group : Barriers(n, grp, done[n] + 1) =
              Barriers(n, grp, done[n]) + (IF Called(n) = grp THEN 1 ELSE 0)
<1>1. done[n] \in Nat
  BY DEF IInv, TypeOK
<1>2. Script[n] \in Seq(Group) /\ done[n] + 1 \in 1 .. Len(Script[n])
  BY <1>1, BarrierAssumption
<1>3. Called(n) \in Group
  BY <1>2 DEF Called
<1>4. n \in Members[Called(n)]
  BY <1>2, BarrierAssumption DEF Called
<1> QED
  BY <1>1, <1>3, <1>4, BarriersStep DEF Called

-----------------------------------------------------------------------------
\* The invariant holds initially: every group is in generation 0.
LEMMA InitIInv == Init => IInv
<1> SUFFICES ASSUME Init PROVE IInv
  OBVIOUS
<1> USE BarrierAssumption
<1>1. TypeOK
  BY DEF Init, TypeOK
<1>2. \A n \in Node, grp \in Group : Entered(n, grp) = 0 /\ Left(n, grp) = 0
  <2> SUFFICES ASSUME NEW n \in Node, NEW grp \in Group
               PROVE  Entered(n, grp) = 0 /\ Left(n, grp) = 0
    OBVIOUS
  <2>1. {j \in 1 .. 0 : Script[n][j] = grp} = {}
    OBVIOUS
  <2> QED
    BY <2>1, FS_EmptySet DEF Init, Entered, Left, Barriers
<1>3. ASSUME NEW grp \in Group PROVE Generation(grp, 0)
  <2>1. Counted(grp, 0) = {}
    BY <1>2, MembersFinite DEF Counted
  <2>2. barrier_count_[grp] = Cardinality(Counted(grp, 0))
    BY <2>1, FS_EmptySet DEF Init
  <2>3. \A n \in Members[grp] : MemberInv(n, grp, 0)
    BY <1>2, MembersFinite DEF MemberInv, Init, Released
  <2> QED
    BY <2>2, <2>3 DEF Generation
<1> QED
  BY <1>1, <1>3 DEF IInv, Init

-----------------------------------------------------------------------------
\* A step of the calling thread that sends nothing and stays in its call leaves
\* every generation as it is.
LEMMA WaitIInv ==
  ASSUME IInv, NEW n \in Node, Wait(n)
  PROVE  IInv'
<1>1. TypeOK'
  BY DEF IInv, TypeOK, Wait
<1>2. \A k \in Node : pc'[k] # "running" <=> pc[k] # "running"
  BY DEF IInv, TypeOK, Wait
<1>3. \A k \in Node, grp \in Group :
        /\ Entered(k, grp)' = Entered(k, grp) /\ Left(k, grp)' = Left(k, grp)
        /\ InCall(k, grp)' <=> InCall(k, grp)
        /\ Released(k, grp)' => Released(k, grp)
  BY <1>2 DEF IInv, TypeOK, Wait, Entered, Left, InCall, Called, Released
<1>4. ASSUME NEW grp \in Group, NEW x \in Nat, Generation(grp, x)
      PROVE  Generation(grp, x)'
  <2>1. Counted(grp, x)' = Counted(grp, x)
    BY <1>3, MembersFinite DEF Counted, Wait, Request
  <2>2. \A k \in Members[grp] : MemberInv(k, grp, x)'
    BY <1>3, <1>4, MembersFinite DEF Generation, MemberInv, Wait, Request, Response
  <2> QED
    BY <1>4, <2>1, <2>2 DEF Generation, Wait
<1> QED
  BY <1>1, <1>2, <1>4 DEF IInv, RealGroup, Wait

\* Skip moves past a group that is no real group; nothing else sees it.
LEMMA SkipIInv ==
  ASSUME IInv, NEW n \in Node, Skip(n)
  PROVE  IInv'
<1> USE BarrierAssumption
<1>1. TypeOK'
  BY DEF IInv, TypeOK, Skip, HasNext
<1>2. Called(n) \in Group /\ ~RealGroup(Called(n))
  <2>1. Called(n) \in Group
    BY CalledMember DEF Skip, HasNext
  <2> QED
    BY <2>1, MembersFinite DEF Skip, RealGroup
<1>3. ASSUME NEW k \in Node, NEW grp \in Group, RealGroup(grp)
      PROVE  /\ Entered(k, grp)' = Entered(k, grp) /\ Left(k, grp)' = Left(k, grp)
             /\ InCall(k, grp)' <=> InCall(k, grp)
             /\ Released(k, grp)' => Released(k, grp)
  <2>1. CASE k = n
    <3>1. Barriers(n, grp, done[n] + 1) = Barriers(n, grp, done[n])
      <4>1. Called(n) # grp
        BY <1>2, <1>3
      <4>2. Barriers(n, grp, done[n]) \in Nat
        BY BarriersStep DEF IInv, TypeOK
      <4> QED
        BY <4>1, <4>2, CalledMember DEF Skip, HasNext
    <3> QED
      BY <2>1, <3>1 DEF IInv, TypeOK, Skip, HasNext, Entered, Left, InCall, Released
  <2>2. CASE k # n
    BY <2>2 DEF IInv, TypeOK, Skip, Entered, Left, InCall, Called, Released
  <2> QED
    BY <2>1, <2>2
<1>4. ASSUME NEW grp \in Group, RealGroup(grp), NEW x \in Nat, Generation(grp, x)
      PROVE  Generation(grp, x)'
  <2>1. Counted(grp, x)' = Counted(grp, x)
    BY <1>3, <1>4, MembersFinite DEF Counted, Skip, Request
  <2>2. \A k \in Members[grp] : MemberInv(k, grp, x)'
    BY <1>3, <1>4, MembersFinite DEF Generation, MemberInv, Skip, Request, Response
  <2> QED
    BY <1>4, <2>1, <2>2 DEF Generation, Skip
<1>5. \A k \in Node : pc'[k] # "running" => done'[k] < Len(Script[k])
  BY DEF IInv, TypeOK, Skip, HasNext
<1> QED
  BY <1>1, <1>4, <1>5 DEF IInv, RealGroup, Skip

\* Enter: the node has left what it entered, so it is at generation x, and its
\* request is the one for x + 1.
LEMMA EnterIInv ==
  ASSUME IInv, NEW n \in Node, Enter(n)
  PROVE  IInv'
<1> USE BarrierAssumption
<1>1. PICK c \in Group : c = Called(n) /\ n \in Members[c] /\ RealGroup(c)
  BY CalledMember, MembersFinite DEF Enter, HasNext, RealGroup
<1>2. TypeOK'
  BY <1>1 DEF IInv, TypeOK, Enter, Request
<1>3. ASSUME NEW k \in Node, NEW grp \in Group
      PROVE  /\ Left(k, grp)' = Left(k, grp)
             /\ ~(k = n /\ grp = c) =>
                  /\ Entered(k, grp)' = Entered(k, grp)
                  /\ InCall(k, grp)' <=> InCall(k, grp)
                  /\ Request(k, grp)' \in net' <=> Request(k, grp) \in net
             /\ Response(k, grp)' \in net' <=> Response(k, grp) \in net
             /\ Released(k, grp)' => Released(k, grp)
  <2>1. Left(k, grp)' = Left(k, grp) /\ (Released(k, grp)' => Released(k, grp))
    BY DEF IInv, TypeOK, Enter, Left, Called, Released
  <2>2. Response(k, grp)' \in net' <=> Response(k, grp) \in net
    BY DEF Enter, Response, Request
  <2>3. ASSUME ~(k = n /\ grp = c)
        PROVE  Request(k, grp)' \in net' <=> Request(k, grp) \in net
    BY <1>1, <2>3 DEF Enter, Request
  <2>4. CASE k # n
    BY <2>1, <2>2, <2>3, <2>4 DEF IInv, TypeOK, Enter, Entered, InCall, Called
  <2>5. CASE k = n /\ grp # c
    <3>1. Barriers(n, grp, done[n] + 1) = Barriers(n, grp, done[n])
      <4>1. Barriers(n, grp, done[n]) \in Nat
        BY BarriersStep DEF IInv, TypeOK
      <4> QED
        BY <1>1, <2>5, <4>1, CalledMember DEF Enter, HasNext
    <3> QED
      BY <1>1, <2>1, <2>2, <2>3, <2>5, <3>1
      DEF IInv, TypeOK, Enter, HasNext, Entered, InCall, Called
  <2>6. CASE k = n /\ grp = c
    BY <2>1, <2>2, <2>6
  <2> QED
    BY <2>4, <2>5, <2>6
<1>4. Entered(n, c)' = Entered(n, c) + 1 /\ InCall(n, c)'
  <2>1. Barriers(n, c, done[n] + 1) = Barriers(n, c, done[n]) + 1
    BY <1>1, CalledMember DEF Enter, HasNext
  <2> QED
    BY <1>1, <2>1 DEF IInv, TypeOK, Enter, HasNext, Entered, InCall, Called
<1>5. Request(n, c)' \in net'
  BY <1>1 DEF Enter, Request
<1>6. ASSUME NEW grp \in Group, NEW x \in Nat, RealGroup(grp), Generation(grp, x)
      PROVE  Generation(grp, x)'
  <2>1. CASE grp # c
    <3>1. Counted(grp, x)' = Counted(grp, x)
      BY <1>3, <2>1, MembersFinite DEF Counted
    <3>2. \A k \in Members[grp] : MemberInv(k, grp, x)'
      BY <1>3, <1>6, <2>1, MembersFinite DEF Generation, MemberInv
    <3> QED
      BY <1>6, <3>1, <3>2 DEF Generation, Enter
  <2>2. CASE grp = c
    <3>1. Entered(n, c) = x
      BY <1>1, <1>6, <2>2, EnteredLeft DEF Generation, MemberInv, InCall, Enter, HasNext
    <3>2. Counted(grp, x)' = Counted(grp, x)
      BY <1>3, <1>5, <2>2, <3>1, MembersFinite DEF Counted
    <3>3. ~Released(n, c) /\ Response(n, c) \notin net
      BY <1>1, <1>6, <2>2 DEF Generation, MemberInv, InCall, Released, Enter, HasNext
    <3>4. MemberInv(n, grp, x)'
      BY <1>1, <1>3, <1>4, <1>6, <2>2, <3>1, <3>3 DEF Generation, MemberInv
    <3>5. \A k \in Members[grp] \ {n} : MemberInv(k, grp, x)'
      BY <1>3, <1>6, <2>2, MembersFinite DEF Generation, MemberInv
    <3> QED
      BY <1>6, <2>2, <3>2, <3>4, <3>5 DEF Generation, Enter
  <2> QED
    BY <2>1, <2>2
<1>7. \A k \in Node : pc'[k] # "running" => done'[k] < Len(Script[k])
  BY DEF IInv, TypeOK, Enter, HasNext
<1>8. \A m \in net' : RealGroup(m.group) /\ m.node \in Members[m.group]
  BY <1>1 DEF IInv, Enter, Request
<1> QED
  BY <1>2, <1>6, <1>7, <1>8 DEF IInv, RealGroup

\* Leave: the node was released in generation x, so it leaves its x-th barrier
\* over the group.
LEMMA LeaveIInv ==
  ASSUME IInv, NEW n \in Node, Leave(n)
  PROVE  IInv'
<1>1. done[n] < Len(Script[n])
  BY DEF IInv, TypeOK, Leave
<1>2. PICK c \in Group : c = Called(n) /\ n \in Members[c]
  BY <1>1, CalledMember
<1>3. TypeOK'
  BY <1>1, BarrierAssumption DEF IInv, TypeOK, Leave
<1>4. InCall(n, c) /\ Released(n, c)
  BY <1>2 DEF InCall, Released, Leave
<1>5. ASSUME NEW k \in Node, NEW grp \in Group
      PROVE  /\ Entered(k, grp)' = Entered(k, grp)
             /\ ~(k = n /\ grp = c) =>
                  /\ Left(k, grp)' = Left(k, grp)
                  /\ InCall(k, grp)' <=> InCall(k, grp)
                  /\ Released(k, grp)' => Released(k, grp)
             /\ Request(k, grp)' \in net' <=> Request(k, grp) \in net
             /\ Response(k, grp)' \in net' <=> Response(k, grp) \in net
  <2>1. /\ Request(k, grp)' \in net' <=> Request(k, grp) \in net
        /\ Response(k, grp)' \in net' <=> Response(k, grp) \in net
    BY DEF Leave, Request, Response
  <2>2. CASE k # n
    BY <2>1, <2>2 DEF IInv, TypeOK, Leave, Entered, Left, InCall, Called, Released
  <2>3. CASE k = n
    <3>1. Entered(k, grp)' = Entered(k, grp)
      BY <2>3 DEF IInv, TypeOK, Leave, Entered
    <3>2. Left(n, grp) \in Nat
      BY EnteredLeft
    <3>3. grp # c => Left(k, grp)' = Left(k, grp)
      BY <1>1, <1>2, <2>3, <3>2, CalledMember DEF IInv, TypeOK, Leave, Left
    <3>4. ~InCall(k, grp)' /\ ~Released(k, grp)' /\ (grp # c => ~InCall(k, grp))
      BY <1>2, <2>3 DEF IInv, TypeOK, Leave, InCall, Released
    <3> QED
      BY <2>1, <2>3, <3>1, <3>3, <3>4
  <2> QED
    BY <2>2, <2>3
<1>6. Left(n, c)' = Entered(n, c) /\ ~InCall(n, c)' /\ ~Released(n, c)'
  BY DEF IInv, TypeOK, Leave, Entered, Left, InCall, Released
<1>7. ASSUME NEW grp \in Group, NEW x \in Nat, Generation(grp, x)
      PROVE  Generation(grp, x)'
  <2>1. Counted(grp, x)' = Counted(grp, x)
    BY <1>5, MembersFinite DEF Counted
  <2>2. \A k \in Members[grp] : MemberInv(k, grp, x)'
    <3> SUFFICES ASSUME NEW k \in Members[grp] PROVE MemberInv(k, grp, x)'
      OBVIOUS
    <3>1. k \in Node /\ MemberInv(k, grp, x)
      BY <1>7, MembersFinite DEF Generation
    <3>2. CASE k = n /\ grp = c
      BY <1>4, <1>5, <1>6, <3>1, <3>2 DEF MemberInv
    <3>3. CASE ~(k = n /\ grp = c)
      BY <1>5, <3>1, <3>3 DEF MemberInv
    <3> QED
      BY <3>2, <3>3
  <2> QED
    BY <1>7, <2>1, <2>2 DEF Generation, Leave
<1>8. \A k \in Node : pc'[k] # "running" => done'[k] < Len(Script[k])
  BY DEF IInv, TypeOK, Leave
<1> QED
  BY <1>3, <1>7, <1>8 DEF IInv, RealGroup, Leave

\* A step of a receive thread moves no node.
LEMMA ReceiveMovesNobody ==
  ASSUME UNCHANGED <<pc, done>>, NEW n, NEW grp
  PROVE  /\ Entered(n, grp)' = Entered(n, grp) /\ Left(n, grp)' = Left(n, grp)
         /\ InCall(n, grp)' <=> InCall(n, grp)
BY DEF Entered, Left, InCall, Called

\* Manage: a response in flight is for the generation its receiver waits in.
LEMMA ManageIInv ==
  ASSUME IInv, NEW m \in net, Manage(m)
  PROVE  IInv'
<1>1. m \in [type : {"request", "response"}, node : Node, group : Group] /\ m.type = "response"
  BY DEF IInv, TypeOK, Manage
<1>2. PICK n \in Node, c \in Group : m = Response(n, c)
  BY <1>1 DEF Response
<1>3. n \in Members[c] /\ RealGroup(c)
  BY <1>2 DEF IInv, Response
<1>4. net' = net \ {Response(n, c)} /\ UNCHANGED <<pc, done>>
  BY <1>2 DEF Manage
<1>5. TypeOK'
  BY <1>1 DEF IInv, TypeOK, Manage
<1>6. \A k, grp : Request(k, grp)' \in net' <=> Request(k, grp) \in net
  BY <1>4 DEF Request, Response
<1>7. \A k, grp : Response(k, grp)' \in net' <=>
                    Response(k, grp) \in net /\ ~(k = n /\ grp = c)
  BY <1>4 DEF Response
<1>8. ASSUME NEW grp \in Group, RealGroup(grp), NEW x \in Nat, Generation(grp, x)
      PROVE  Generation(grp, x)'
  <2>1. Counted(grp, x)' = Counted(grp, x)
    BY <1>4, <1>6, ReceiveMovesNobody DEF Counted
  <2>2. \A k \in Members[grp] : MemberInv(k, grp, x)'
    <3> SUFFICES ASSUME NEW k \in Members[grp] PROVE MemberInv(k, grp, x)'
      OBVIOUS
    <3>1. k \in Node /\ MemberInv(k, grp, x)
      BY <1>8, MembersFinite DEF Generation
    <3>2. CASE k = n /\ grp = c
      <4>1. Entered(k, grp) = x
        BY <1>2, <3>1, <3>2 DEF MemberInv
      <4> QED
        BY <1>4, <1>6, <1>7, <3>1, <3>2, <4>1, ReceiveMovesNobody DEF MemberInv
    <3>3. CASE k = n /\ grp # c
      <4>1. ~Released(k, grp)'
        <5>1. \E y \in Nat : Generation(c, y)
          BY <1>3 DEF IInv
        <5>2. InCall(n, c)
          BY <1>2, <1>3, <5>1 DEF Generation, MemberInv
        <5> QED
          BY <1>4, <3>3, <5>2 DEF InCall, Released, Called
      <4> QED
        BY <1>4, <1>6, <1>7, <3>1, <3>3, <4>1, ReceiveMovesNobody DEF MemberInv
    <3>4. CASE k # n
      <4>1. Released(k, grp)' => Released(k, grp)
        BY <1>2, <1>4, <3>1, <3>4 DEF IInv, TypeOK, Manage, Released, Called, Response
      <4> QED
        BY <1>4, <1>6, <1>7, <3>1, <3>4, <4>1, ReceiveMovesNobody DEF MemberInv
    <3> QED
      BY <3>2, <3>3, <3>4
  <2> QED
    BY <1>8, <2>1, <2>2 DEF Generation, Manage
<1> QED
  BY <1>4, <1>5, <1>8 DEF IInv, RealGroup, Manage

\* CountRequest: the request adds its sender to the counted members of the
\* generation.  When that makes all of them, everybody is in the barrier, and
\* the group moves on to generation x + 1.
LEMMA CountRequestIInv ==
  ASSUME IInv, NEW m \in net, CountRequest(m)
  PROVE  IInv'
<1>1. m \in [type : {"request", "response"}, node : Node, group : Group] /\ m.type = "request"
  BY DEF IInv, TypeOK, CountRequest
<1>2. PICK n \in Node, c \in Group : m = Request(n, c)
  BY <1>1 DEF Request
<1>3. n \in Members[c] /\ RealGroup(c) /\ m.group = c
  BY <1>2 DEF IInv, Request
<1>4. UNCHANGED <<pc, done, barrier_done_>>
  BY DEF CountRequest
<1>5. \A k, grp : Released(k, grp)' <=> Released(k, grp)
  BY <1>4 DEF Released, Called
<1>6. barrier_count_[c] \in Nat
  BY DEF IInv, TypeOK
<1>7. TypeOK'
  <2>1. barrier_count_' \in [Group -> Nat]
    <3>1. barrier_count_' \in {[barrier_count_ EXCEPT ![c] = 0],
                               [barrier_count_ EXCEPT ![c] = barrier_count_[c] + 1]}
      BY <1>3 DEF CountRequest
    <3>2. barrier_count_ \in [Group -> Nat]
      BY DEF IInv, TypeOK
    <3>3. barrier_count_[c] + 1 \in Nat
      BY <1>6
    <3> QED
      BY <3>1, <3>2, <3>3
  <2>2. \A k \in Members[c] :
          Response(k, c) \in [type : {"request", "response"}, node : Node, group : Group]
    BY MembersFinite DEF Response
  <2>3. net' = net \ {m} \/ net' = (net \ {m}) \cup {Response(k, c) : k \in Members[c]}
    BY <1>3 DEF CountRequest
  <2>4. net' \subseteq [type : {"request", "response"}, node : Node, group : Group]
    BY <2>2, <2>3 DEF IInv, TypeOK
  <2> QED
    BY <1>4, <2>1, <2>4 DEF IInv, TypeOK
<1>8. \A k, grp : Request(k, grp)' \in net' <=>
                    Request(k, grp) \in net /\ ~(k = n /\ grp = c)
  BY <1>2 DEF CountRequest, Request, Response
<1>9. \A k, grp : grp # c => (Response(k, grp)' \in net' <=> Response(k, grp) \in net)
  <2>1. \A k, grp : grp # c => Response(k, grp) # m
    BY <1>2 DEF Request, Response
  <2>2. \A k, grp, j : grp # c => Response(k, grp) # Response(j, c)
    BY DEF Response
  <2>3. net' = net \ {m} \/ net' = (net \ {m}) \cup {Response(j, c) : j \in Members[c]}
    BY <1>3 DEF CountRequest
  <2> QED
    BY <2>1, <2>2, <2>3 DEF Response
<1>10. ASSUME NEW grp \in Group, grp # c, NEW x \in Nat, Generation(grp, x)
       PROVE  Generation(grp, x)'
  <2>1. Counted(grp, x)' = Counted(grp, x)
    BY <1>4, <1>8, <1>10, ReceiveMovesNobody DEF Counted
  <2>2. \A k \in Members[grp] : MemberInv(k, grp, x)'
    BY <1>4, <1>5, <1>8, <1>9, <1>10, ReceiveMovesNobody DEF Generation, MemberInv
  <2>3. barrier_count_'[grp] = barrier_count_[grp]
    BY <1>3, <1>10 DEF IInv, TypeOK, CountRequest
  <2> QED
    BY <1>10, <2>1, <2>2, <2>3 DEF Generation
<1>11. \E x \in Nat : Generation(c, x)'
  <2>1. PICK x \in Nat : Generation(c, x)
    BY <1>3 DEF IInv
  <2>2. \A k \in Members[c] : k \in Node /\ MemberInv(k, c, x)
    BY <2>1, MembersFinite DEF Generation
  <2>3. Entered(n, c) = x + 1 /\ n \notin Counted(c, x)
    BY <1>2, <1>3, <2>2 DEF MemberInv, Counted
  <2> DEFINE S == Counted(c, x) \cup {n}
  <2>4. S \in SUBSET Members[c] /\ IsFiniteSet(Counted(c, x))
    BY <1>3, MembersFinite, FS_Subset, Counted(c, x) \in SUBSET Members[c] DEF Counted
  <2>5. Cardinality(S) = barrier_count_[c] + 1
    BY <2>1, <2>3, <2>4, FS_AddElement DEF Generation
  <2>6. CASE ~GroupComplete(c, barrier_count_[c] + 1)
    <3>1. /\ barrier_count_'[c] = barrier_count_[c] + 1
          /\ \A k : Response(k, c)' \in net' <=> Response(k, c) \in net
      BY <1>2, <1>3, <2>6 DEF IInv, TypeOK, CountRequest, Request, Response
    <3>2. Counted(c, x)' = S
      BY <1>3, <1>4, <1>8, <2>3, ReceiveMovesNobody DEF Counted
    <3>3. \A k \in Members[c] : MemberInv(k, c, x)'
      BY <1>4, <1>5, <1>8, <2>2, <3>1, ReceiveMovesNobody DEF MemberInv
    <3> QED
      BY <2>5, <3>1, <3>2, <3>3 DEF Generation
  <2>7. CASE GroupComplete(c, barrier_count_[c] + 1)
    <3>1. S = Members[c]
      BY <2>4, <2>5, <2>7, MembersFinite, FS_Subset DEF GroupComplete
    <3>2. \A k \in Members[c] : Entered(k, c) = x + 1 /\ Request(k, c)' \notin net'
      BY <1>8, <2>3, <3>1 DEF Counted
    <3>3. barrier_count_'[c] = 0
      BY <1>3, <2>7 DEF IInv, TypeOK, CountRequest
    <3>4. \A k \in Members[c] : InCall(k, c) /\ ~Released(k, c)
      <4> TAKE k \in Members[c]
      <4>1. k \in Node
        BY MembersFinite
      <4>2. Left(k, c) \in Nat /\ Left(k, c) <= x /\ Entered(k, c) = x + 1
        BY <2>2, <3>2, <4>1, EnteredLeft DEF MemberInv
      <4>3. InCall(k, c)
        BY <4>1, <4>2, EnteredLeft
      <4>4. ~Released(k, c)
        BY <2>2, <4>2 DEF MemberInv
      <4> QED
        BY <4>3, <4>4
    <3>5. \A k \in Members[c] : MemberInv(k, c, x + 1)'
      <4> TAKE k \in Members[c]
      <4>1. /\ Entered(k, c)' = x + 1 /\ InCall(k, c)' /\ ~Released(k, c)'
            /\ Request(k, c)' \notin net'
        BY <1>4, <1>5, <3>2, <3>4, ReceiveMovesNobody
      <4>2. Left(k, c)' <= x + 1
        <5>1. Left(k, c)' = Left(k, c)
          BY <1>4, ReceiveMovesNobody
        <5>2. Left(k, c) \in Nat
          BY MembersFinite, EnteredLeft
        <5>3. Left(k, c) <= x
          BY <2>2 DEF MemberInv
        <5> QED
          BY <5>1, <5>2, <5>3
      <4> QED
        BY <4>1, <4>2 DEF MemberInv
    <3>6. Counted(c, x + 1)' = {}
      BY <1>4, <3>2, ReceiveMovesNobody DEF Counted
    <3> QED
      BY <3>3, <3>5, <3>6, FS_EmptySet, x + 1 \in Nat DEF Generation
  <2> QED
    BY <2>6, <2>7
<1>12. \A k \in net' : RealGroup(k.group) /\ k.node \in Members[k.group]
  BY <1>3 DEF IInv, CountRequest, Response
<1> QED
  <2>1. \A grp \in Group : RealGroup(grp)' => \E x \in Nat : Generation(grp, x)'
    BY <1>10, <1>11 DEF IInv, RealGroup
  <2> QED
    BY <1>4, <1>7, <1>12, <2>1 DEF IInv, RealGroup

-----------------------------------------------------------------------------
\* Every step of the system preserves the invariant.
LEMMA NextIInv == IInv /\ [Next]_vars => IInv'
<1> SUFFICES ASSUME IInv, [Next]_vars PROVE IInv'
  OBVIOUS
<1>1. ASSUME NEW n \in Node, NodeStep(n) PROVE IInv'
  BY <1>1, SkipIInv, EnterIInv, WaitIInv, LeaveIInv DEF NodeStep
<1>2. ASSUME NEW m \in net, Receive(m) PROVE IInv'
  BY <1>2, CountRequestIInv, ManageIInv DEF Receive
<1>3. CASE UNCHANGED vars
  <2> USE <1>3 DEF vars
  <2>1. TypeOK' <=> TypeOK
    BY DEF TypeOK
  <2>2. \A n, grp : /\ Entered(n, grp)' = Entered(n, grp) /\ Left(n, grp)' = Left(n, grp)
                    /\ InCall(n, grp)' = InCall(n, grp) /\ Released(n, grp)' = Released(n, grp)
    BY DEF Entered, Left, InCall, Released, Called
  <2>3. \A n, grp : Request(n, grp)' = Request(n, grp) /\ Response(n, grp)' = Response(n, grp)
    BY DEF Request, Response
  <2>4. \A grp, x : Generation(grp, x)' <=> Generation(grp, x)
    <3>1. \A n, grp, x : MemberInv(n, grp, x)' <=> MemberInv(n, grp, x)
      <4> TAKE n, grp, x
      <4>1. /\ Request(n, grp)' \in net' <=> Request(n, grp) \in net
            /\ Response(n, grp)' \in net' <=> Response(n, grp) \in net
        BY <2>3
      <4> QED
        BY <2>2, <4>1 DEF MemberInv
    <3>2. \A grp, x : Counted(grp, x)' = Counted(grp, x)
      BY <2>2, <2>3 DEF Counted
    <3> QED
      BY <3>1, <3>2, Zenon DEF Generation
  <2> QED
    BY <2>1, <2>4 DEF IInv, RealGroup
<1> QED
  BY <1>1, <1>2, <1>3 DEF Next

\* In any generation, what a member has left is at most what any member has
\* entered; a group of at most one node is trivial.
LEMMA IInvHolds == IInv => BarrierHolds
<1> SUFFICES ASSUME IInv, NEW grp \in Group, NEW n \in Members[grp], NEW m \in Members[grp]
             PROVE  Left(n, grp) <= Entered(m, grp)
  BY DEF BarrierHolds
<1>1. n \in Node /\ m \in Node /\ IsFiniteSet(Members[grp])
  BY MembersFinite
<1>2. CASE RealGroup(grp)
  <2>1. PICK x \in Nat : Generation(grp, x)
    BY <1>2 DEF IInv
  <2> QED
    BY <1>1, <2>1, EnteredLeft DEF Generation, MemberInv
<1>3. CASE ~RealGroup(grp)
  <2>1. Cardinality(Members[grp]) \in {0, 1}
    BY <1>3, MembersFinite DEF RealGroup
  <2>2. n = m
    BY <1>1, <2>1, FS_EmptySet, FS_Singleton
  <2> QED
    BY <1>1, <2>2, EnteredLeft
<1> QED
  BY <1>2, <1>3

\* The state of the barrier keeps its types (Postoffice::Barrier, Manage and
\* Van::ProcessBarrierCommand).
THEOREM BarrierTypeOK == Spec => []TypeOK
<1>1. IInv => TypeOK
  BY DEF IInv
<1> QED
  BY <1>1, InitIInv, NextIInv, PTL DEF Spec

\* Nobody returns from a barrier before every member of its group has called it,
\* for all groups, nodes and scripts; that all return is another matter (see
\* BarrierReturns).
THEOREM BarrierSafety == Spec => []BarrierHolds
BY InitIInv, NextIInv, IInvHolds, PTL DEF Spec
=============================================================================
