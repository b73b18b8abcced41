--------------------------- MODULE ResenderProofs ---------------------------
(***************************************************************************)
(* Proofs about retransmission, for every set of processes and messages,   *)
(* any number of losses and any timing of the monitors.                    *)
(*                                                                         *)
(* That a message is handed on at most once needs no assumption: the ones  *)
(* a process took before it had its resender are set apart.  That none is  *)
(* lost needs that the senders have their resenders before they send, that *)
(* the messages travel on the local plane, and that no two of them between *)
(* the same processes share a signature: Reliable.  TLC finds a            *)
(* counterexample when one of the three is dropped.                        *)
(***************************************************************************)
EXTENDS Resender, TLAPS

Reliable ==
  /\ \A m \in Msg : From[m] \notin Late
  /\ \A m \in Msg : Plane[m] = "local" /\ LocalId[m] = Sender[m]
  /\ \A m, x \in Msg : From[m] = From[x] /\ SentKey(m) = SentKey(x) => m = x
  /\ \A m, x \in Msg : To[m] = To[x] /\ ReceivedKey(m) = ReceivedKey(x) => m = x

\* A message that was handed on is remembered, unless it came too early.
OnceInv ==
  /\ \A m \in Msg \ bare : /\ delivered[m] \in {0, 1}
                           /\ delivered[m] = 1 => ReceivedKey(m) \in acked_[To[m]]
  /\ \A m \in bare : delivered[m] > 0

\* What is remembered or acknowledged was handed on, and what was not is held.
LossInv ==
  /\ \A m \in Msg : From[m] \in resender_
  /\ \A m \in Msg : acks[m] > 0 => delivered[m] > 0
  /\ \A m \in Msg : ReceivedKey(m) \in acked_[To[m]] => delivered[m] > 0
  /\ \A m \in sent : delivered[m] = 0 => m \in adding \cup send_buff_[From[m]]

SentInv == \A m \in Msg : data[m] > 0 => m \in sent
-----------------------------------------------------------------------------
\* Type correctness of the resender's state.
LEMMA TypeInit == Init => TypeOK
BY ResenderAssumption DEF Init, TypeOK, Owned

\* A message that AddOutgoing enters goes into the buffer of its own sender.
LEMMA TypeEnter ==
  ASSUME TypeOK, NEW m \in sent, Enter(m), sent' = sent
  PROVE  /\ send_buff_' \in [Node -> SUBSET Msg]
         /\ num_retry' \in [Msg -> Nat]
         /\ Owned(send_buff_)'
<1> m \in Msg /\ From[m] \in Node
  BY ResenderAssumption DEF TypeOK
<1>1. CASE UNCHANGED <<send_buff_, num_retry>>
  BY <1>1 DEF TypeOK, Owned
<1>2. CASE /\ send_buff_' = [send_buff_ EXCEPT ![From[m]] = @ \cup {m}]
           /\ num_retry' = [num_retry EXCEPT ![m] = 0]
  <2>1. send_buff_' \in [Node -> SUBSET Msg]
    BY <1>2 DEF TypeOK
  <2>2. num_retry' \in [Msg -> Nat]
    BY <1>2 DEF TypeOK
  <2>3. Owned(send_buff_)'
    <3> SUFFICES ASSUME NEW n \in Node, NEW x \in send_buff_'[n] PROVE x \in sent /\ From[x] = n
      BY DEF Owned
    <3>1. x \in send_buff_[n] \/ (n = From[m] /\ x = m)
      BY <1>2 DEF TypeOK
    <3> QED
      BY <3>1 DEF TypeOK, Owned
  <2> QED
    BY <2>1, <2>2, <2>3
<1> QED
  BY <1>1, <1>2 DEF Enter

\* Every step keeps the types.
LEMMA TypeNext == TypeOK /\ [Next]_vars => TypeOK'
<1> SUFFICES ASSUME TypeOK, [Next]_vars PROVE TypeOK'
  OBVIOUS
<1> USE ResenderAssumption
<1>1. CASE UNCHANGED vars
  BY <1>1 DEF TypeOK, Owned, vars, sender_vars
<1>2. ASSUME NEW n \in Node, StartResender(n) PROVE TypeOK'
  BY <1>2 DEF TypeOK, Owned, StartResender, sender_vars
<1>3. ASSUME NEW n \in Node, NEW due \in SUBSET send_buff_[n] \ {{}}, Monitor(n, due) PROVE TypeOK'
  <2>1. due \subseteq send_buff_[n] /\ due \subseteq Msg
    BY <1>3 DEF TypeOK
  <2>2. num_retry' \in [Msg -> Nat]
    BY <1>3 DEF TypeOK, Monitor
  <2>3. \/ resend' = [resend EXCEPT ![n] = due] /\ failed' = failed
        \/ resend' = resend /\ failed' = failed \cup {n}
    BY <1>3 DEF Monitor
  <2>4. resend' \in [Node -> SUBSET Msg] /\ failed' \subseteq Node
    BY <2>1, <2>3 DEF TypeOK
  <2>5. Owned(resend)'
    <3> SUFFICES ASSUME NEW k \in Node, NEW m \in resend'[k] PROVE m \in sent' /\ From[m] = k
      BY DEF Owned
    <3>1. m \in resend[k] \/ m \in send_buff_[k]
      BY <2>1, <2>3 DEF TypeOK
    <3> QED
      BY <1>3, <3>1 DEF TypeOK, Owned, Monitor
  <2> QED
    BY <1>3, <2>2, <2>4, <2>5 DEF TypeOK, Monitor, Owned
<1>4. ASSUME NEW m \in Msg, Send(m) PROVE TypeOK'
  BY <1>4 DEF TypeOK, Owned, Send
<1>5. ASSUME NEW m \in Msg, AddOutgoing(m) PROVE TypeOK'
  <2>1. m \in sent /\ sent' = sent
    BY <1>5 DEF TypeOK, Owned, AddOutgoing
  <2>2. /\ send_buff_' \in [Node -> SUBSET Msg]
        /\ num_retry' \in [Msg -> Nat]
        /\ Owned(send_buff_)'
    BY <1>5, <2>1, TypeEnter DEF AddOutgoing
  <2>3. /\ adding' \subseteq sent /\ readding' \in [Node -> SUBSET Msg]
        /\ \A n \in Node : readding'[n] \subseteq readding[n]
    <3>1. CASE adding' = adding \ {m} /\ readding' = readding
      BY <3>1 DEF TypeOK
    <3>2. CASE adding' = adding /\ readding' = [readding EXCEPT ![From[m]] = @ \ {m}]
      BY <3>2 DEF TypeOK
    <3> QED
      BY <1>5, <3>1, <3>2 DEF AddOutgoing
  <2>4. Owned(readding)'
    BY <2>1, <2>3 DEF TypeOK, Owned
  <2>5. Owned(resend)'
    BY <1>5 DEF TypeOK, Owned, AddOutgoing
  <2> QED
    BY <1>5, <2>2, <2>3, <2>4, <2>5 DEF TypeOK, AddOutgoing
<1>6. ASSUME NEW m \in Msg, Resend(m) PROVE TypeOK'
  <2>1. m \in sent /\ From[m] \in Node
    BY <1>6 DEF TypeOK, Owned, Resend
  <2>2. CASE ~HasLocalSocket(m)
    BY <1>6, <2>1, <2>2 DEF TypeOK, Owned, Resend
  <2>3. CASE HasLocalSocket(m)
    <3>1. /\ data' = [data EXCEPT ![m] = @ + 1]
          /\ resend' = [resend EXCEPT ![From[m]] = @ \ {m}]
          /\ readding' = [readding EXCEPT ![From[m]] = {m}]
          /\ UNCHANGED <<failed, sent, adding, send_buff_, num_retry, acked_, resender_, acks, delivered, bare>>
      BY <1>6, <2>3 DEF Resend
    <3>2. data' \in [Msg -> Nat]
      BY <3>1 DEF TypeOK
    <3>3. resend' \in [Node -> SUBSET Msg] /\ Owned(resend)'
      BY <2>1, <3>1 DEF TypeOK, Owned
    <3>4. readding' \in [Node -> SUBSET Msg] /\ Owned(readding)'
      BY <2>1, <3>1 DEF TypeOK, Owned
    <3>5. Owned(send_buff_)'
      BY <3>1 DEF TypeOK, Owned
    <3> QED
      BY <3>1, <3>2, <3>3, <3>4, <3>5 DEF TypeOK
  <2> QED
    BY <2>2, <2>3
<1>7. ASSUME NEW m \in Msg, ReceiveBare(m) PROVE TypeOK'
  BY <1>7 DEF TypeOK, Owned, ReceiveBare, sender_vars
<1>8. ASSUME NEW m \in Msg, AddIncomming(m) PROVE TypeOK'
  <2>1. data' \in [Msg -> Nat] /\ acks' \in [Msg -> Nat] /\ failed' \subseteq Node
    BY <1>8 DEF TypeOK, AddIncomming
  <2>2. delivered' \in [Msg -> Nat]
    BY <1>8 DEF TypeOK, AddIncomming
  <2>3. acked_' \in [Node -> SUBSET {ReceivedKey(x) : x \in Msg}]
    <3> DEFINE Keys == {ReceivedKey(x) : x \in Msg}
    <3>1. ReceivedKey(m) \in Keys
      OBVIOUS
    <3>2. acked_ \in [Node -> SUBSET Keys] /\ acked_' = [acked_ EXCEPT ![To[m]] = @ \cup {ReceivedKey(m)}]
      BY <1>8 DEF TypeOK, AddIncomming
    <3> HIDE DEF Keys
    <3>3. acked_' \in [Node -> SUBSET Keys]
      BY <3>1, <3>2
    <3> QED
      BY <3>3 DEF Keys
  <2>4. Owned(send_buff_)' /\ Owned(resend)' /\ Owned(readding)'
    BY <1>8 DEF TypeOK, Owned, AddIncomming, sender_vars
  <2> QED
    BY <1>8, <2>1, <2>2, <2>3, <2>4 DEF TypeOK, AddIncomming, sender_vars
<1>9. ASSUME NEW m \in Msg, ReceiveAck(m) PROVE TypeOK'
  <2>1. /\ acks' \in [Msg -> Nat] /\ send_buff_' \in [Node -> SUBSET Msg]
        /\ \A n \in Node : send_buff_'[n] \subseteq send_buff_[n]
    BY <1>9 DEF TypeOK, ReceiveAck
  <2>2. Owned(send_buff_)' /\ Owned(resend)' /\ Owned(readding)'
    BY <1>9, <2>1 DEF TypeOK, Owned, ReceiveAck
  <2> QED
    BY <1>9, <2>1, <2>2 DEF TypeOK, ReceiveAck
<1>10. ASSUME NEW m \in Msg, Lose(m) PROVE TypeOK'
  <2>1. CASE data[m] > 0 /\ data' = [data EXCEPT ![m] = @ - 1] /\ acks' = acks
    <3>1. data' \in [Msg -> Nat]
      BY <2>1 DEF TypeOK
    <3> QED
      BY <1>10, <2>1, <3>1 DEF TypeOK, Owned, Lose, sender_vars
  <2>2. CASE acks[m] > 0 /\ acks' = [acks EXCEPT ![m] = @ - 1] /\ data' = data
    <3>1. acks' \in [Msg -> Nat]
      BY <2>2 DEF TypeOK
    <3> QED
      BY <1>10, <2>2, <3>1 DEF TypeOK, Owned, Lose, sender_vars
  <2> QED
    BY <1>10, <2>1, <2>2 DEF Lose
<1> QED
  BY <1>1, <1>2, <1>3, <1>4, <1>5, <1>6, <1>7, <1>8, <1>9, <1>10 DEF Next

\* The resender's state has its types, whatever the constants.
THEOREM TypeCorrect == Spec => []TypeOK
BY TypeInit, TypeNext, PTL DEF Spec

-----------------------------------------------------------------------------
\* Only AddIncomming and ReceiveBare hand a message on, and the latter sets it
\* apart.
LEMMA OnceNext == TypeOK /\ OnceInv /\ [Next]_vars => OnceInv'
<1> SUFFICES ASSUME TypeOK, OnceInv, [Next]_vars PROVE OnceInv'
  OBVIOUS
<1> USE ResenderAssumption
<1>1. ASSUME UNCHANGED <<bare, delivered, acked_>> PROVE OnceInv'
  BY <1>1 DEF OnceInv
<1>2. ASSUME NEW m \in Msg, ReceiveBare(m) PROVE OnceInv'
  <2>1. /\ delivered' = [delivered EXCEPT ![m] = @ + 1] /\ bare' = bare \cup {m}
        /\ acked_' = acked_
    BY <1>2 DEF ReceiveBare
  <2>2. delivered'[m] > 0
    BY <2>1 DEF TypeOK
  <2>3. \A x \in Msg : x # m => delivered'[x] = delivered[x]
    BY <2>1 DEF TypeOK
  <2> QED
    BY <2>1, <2>2, <2>3 DEF OnceInv, TypeOK
<1>3. ASSUME NEW m \in Msg, AddIncomming(m) PROVE OnceInv'
  <2>1. bare' = bare /\ acked_' = [acked_ EXCEPT ![To[m]] = @ \cup {ReceivedKey(m)}]
    BY <1>3 DEF AddIncomming
  <2>2. \A x \in Msg : acked_[To[x]] \subseteq acked_'[To[x]]
    BY <2>1 DEF TypeOK
  <2>3. ReceivedKey(m) \in acked_'[To[m]]
    BY <2>1 DEF TypeOK
  <2>4. \/ delivered' = delivered
        \/ delivered' = [delivered EXCEPT ![m] = @ + 1] /\ ReceivedKey(m) \notin acked_[To[m]]
    <3>1. CASE ~HasLocalSocket(m) \/ ReceivedKey(m) \in acked_[To[m]]
      BY <1>3, <3>1 DEF AddIncomming, TypeOK
    <3>2. CASE HasLocalSocket(m) /\ ReceivedKey(m) \notin acked_[To[m]]
      BY <1>3, <3>2 DEF AddIncomming, TypeOK
    <3> QED
      BY <3>1, <3>2
  <2>5. ASSUME NEW x \in Msg \ bare
        PROVE  delivered'[x] \in {0, 1} /\ (delivered'[x] = 1 => ReceivedKey(x) \in acked_'[To[x]])
    <3>1. CASE delivered'[x] = delivered[x]
      BY <2>2, <3>1 DEF OnceInv
    <3>2. CASE x = m /\ delivered'[x] = delivered[x] + 1 /\ ReceivedKey(m) \notin acked_[To[m]]
      BY <2>3, <3>2 DEF OnceInv
    <3> QED
      BY <2>4, <3>1, <3>2 DEF TypeOK
  <2>6. \A x \in bare : delivered'[x] > 0
    BY <2>4 DEF OnceInv, TypeOK
  <2> QED
    BY <2>1, <2>5, <2>6 DEF OnceInv
<1>4. ASSUME NEW n \in Node, StartResender(n) PROVE OnceInv'
  BY <1>1, <1>4 DEF StartResender
<1>5. ASSUME NEW n \in Node, NEW due \in SUBSET send_buff_[n] \ {{}}, Monitor(n, due) PROVE OnceInv'
  BY <1>1, <1>5 DEF Monitor
<1>6. ASSUME NEW m \in Msg, Send(m) \/ AddOutgoing(m) \/ Resend(m) \/ ReceiveAck(m) \/ Lose(m) PROVE OnceInv'
  BY <1>1, <1>6 DEF Send, AddOutgoing, Resend, ReceiveAck, Lose
<1>7. CASE UNCHANGED vars
  BY <1>1, <1>7 DEF vars
<1> QED
  BY <1>2, <1>3, <1>4, <1>5, <1>6, <1>7 DEF Next

\* No message that its receiver's resender has seen is handed to the handlers
\* twice: for every signature, also an ambiguous one, on both planes and for
\* every number of retransmissions.
THEOREM ResentAtMostOnce == Spec => []AtMostOnce
<1>1. Init => OnceInv
  BY DEF Init, OnceInv
<1>2. OnceInv => AtMostOnce
  BY DEF OnceInv, AtMostOnce
<1> QED
  BY <1>1, <1>2, TypeInit, TypeNext, OnceNext, PTL DEF Spec

-----------------------------------------------------------------------------
\* The step of AddIncomming where signatures are unique and the ACK can be
\* sent: the message is remembered, acknowledged and, the first time, handed on.
LEMMA AddIncommingStep ==
  ASSUME Reliable, TypeOK, LossInv, NEW m \in Msg, AddIncomming(m)
  PROVE  /\ acks' = [acks EXCEPT ![m] = @ + 1]
         /\ delivered'[m] > 0 /\ \A x \in Msg : x # m => delivered'[x] = delivered[x]
         /\ acked_' = [acked_ EXCEPT ![To[m]] = @ \cup {ReceivedKey(m)}]
         /\ UNCHANGED <<sender_vars, resender_, failed>>
<1> USE ResenderAssumption
<1>1. HasLocalSocket(m)
  BY DEF Reliable, HasLocalSocket
<1>2. /\ acks' = [acks EXCEPT ![m] = @ + 1]
      /\ acked_' = [acked_ EXCEPT ![To[m]] = @ \cup {ReceivedKey(m)}]
      /\ UNCHANGED <<sender_vars, resender_, failed>>
  BY <1>1 DEF AddIncomming
<1>3. CASE ReceivedKey(m) \in acked_[To[m]]
  <2>1. delivered[m] > 0
    BY <1>3 DEF LossInv
  <2>2. delivered' = [delivered EXCEPT ![m] = @]
    BY <1>1, <1>3 DEF AddIncomming
  <2> QED
    BY <1>2, <2>1, <2>2 DEF TypeOK
<1>4. CASE ReceivedKey(m) \notin acked_[To[m]]
  <2>1. delivered' = [delivered EXCEPT ![m] = @ + 1]
    BY <1>1, <1>4 DEF AddIncomming
  <2> QED
    BY <1>2, <2>1 DEF TypeOK
<1> QED
  BY <1>3, <1>4

\* An entry leaves send_buff_ only when its message has been handed on.
LEMMA LossNext == Reliable /\ TypeOK /\ LossInv /\ [Next]_vars => LossInv'
<1> SUFFICES ASSUME Reliable, TypeOK, LossInv, [Next]_vars PROVE LossInv'
  OBVIOUS
<1> USE ResenderAssumption
<1>1. ASSUME UNCHANGED <<resender_, sent, adding, send_buff_, acks, acked_, delivered>> PROVE LossInv'
  BY <1>1 DEF LossInv
<1>2. ASSUME NEW m \in Msg, Send(m) PROVE LossInv'
  BY <1>2 DEF LossInv, Send
<1>3. ASSUME NEW m \in Msg, AddOutgoing(m) PROVE LossInv'
  <2>1. UNCHANGED <<resender_, sent, acks, acked_, delivered>>
    BY <1>3 DEF AddOutgoing
  <2>2. \A x \in Msg : x \in adding /\ x # m => x \in adding'
    BY <1>3 DEF AddOutgoing
  <2>3. \A x \in Msg : x \in send_buff_[From[x]] => x \in send_buff_'[From[x]]
    <3>1. CASE send_buff_' = send_buff_
      BY <3>1
    <3>2. CASE send_buff_' = [send_buff_ EXCEPT ![From[m]] = @ \cup {m}]
      BY <3>2 DEF TypeOK
    <3> QED
      BY <1>3, <3>1, <3>2 DEF AddOutgoing, Enter
  <2>4. m \in send_buff_'[From[m]]
    <3>1. CASE \A x \in send_buff_[From[m]] : SentKey(x) # SentKey(m)
      <4>1. send_buff_' = [send_buff_ EXCEPT ![From[m]] = @ \cup {m}]
        BY <1>3, <3>1 DEF AddOutgoing, Enter, LossInv
      <4> QED
        BY <4>1 DEF TypeOK
    <3>2. ASSUME NEW x \in send_buff_[From[m]], SentKey(x) = SentKey(m) PROVE m \in send_buff_'[From[m]]
      <4>1. x \in Msg /\ From[x] = From[m]
        BY DEF TypeOK, Owned
      <4>2. x = m
        BY <3>2, <4>1 DEF Reliable
      <4> QED
        BY <2>3, <4>2
    <3> QED
      BY <3>1, <3>2
  <2>5. ASSUME NEW x \in sent', delivered'[x] = 0 PROVE x \in adding' \cup send_buff_'[From[x]]
    <3>1. x \in Msg /\ x \in adding \cup send_buff_[From[x]]
      BY <2>1, <2>5 DEF LossInv, TypeOK
    <3> QED
      BY <2>2, <2>3, <2>4, <3>1
  <2> QED
    BY <2>1, <2>5 DEF LossInv
<1>4. ASSUME NEW m \in Msg, AddIncomming(m) PROVE LossInv'
  <2>1. /\ acks' = [acks EXCEPT ![m] = @ + 1]
        /\ delivered'[m] > 0 /\ \A x \in Msg : x # m => delivered'[x] = delivered[x]
        /\ acked_' = [acked_ EXCEPT ![To[m]] = @ \cup {ReceivedKey(m)}]
        /\ UNCHANGED <<sender_vars, resender_, failed>>
    BY <1>4, AddIncommingStep
  <2>2. ASSUME NEW x \in Msg, acks'[x] > 0 PROVE delivered'[x] > 0
    BY <2>1, <2>2 DEF TypeOK, LossInv
  <2>3. ASSUME NEW x \in Msg, ReceivedKey(x) \in acked_'[To[x]] PROVE delivered'[x] > 0
    <3>1. CASE ReceivedKey(x) \in acked_[To[x]]
      BY <2>1, <3>1 DEF TypeOK, LossInv
    <3>2. CASE To[x] = To[m] /\ ReceivedKey(x) = ReceivedKey(m)
      <4>1. x = m
        BY <3>2 DEF Reliable
      <4> QED
        BY <2>1, <4>1 DEF TypeOK
    <3> QED
      BY <2>1, <2>3, <3>1, <3>2 DEF TypeOK
  <2>4. ASSUME NEW x \in sent', delivered'[x] = 0 PROVE x \in adding' \cup send_buff_'[From[x]]
    <3>1. x \in sent /\ x \in Msg /\ delivered[x] = 0
      BY <2>1, <2>4 DEF TypeOK, sender_vars
    <3> QED
      BY <2>1, <3>1 DEF LossInv, sender_vars
  <2> QED
    BY <2>1, <2>2, <2>3, <2>4 DEF LossInv
<1>5. ASSUME NEW m \in Msg, ReceiveAck(m) PROVE LossInv'
  <2>1. /\ delivered[m] > 0
        /\ acks' = [acks EXCEPT ![m] = @ - 1]
        /\ UNCHANGED <<resender_, sent, adding, acked_, delivered>>
    BY <1>5 DEF ReceiveAck, LossInv
  <2>2. send_buff_' = [send_buff_ EXCEPT ![From[m]] = {x \in @ : SentKey(x) # ReceivedKey(m)}]
    BY <1>5 DEF ReceiveAck, LossInv
  <2>3. SentKey(m) = ReceivedKey(m)
    BY DEF Reliable, SentKey, ReceivedKey
  <2>4. ASSUME NEW x \in Msg, x \in send_buff_[From[x]], x # m PROVE x \in send_buff_'[From[x]]
    <3>1. CASE From[x] # From[m]
      BY <2>2, <2>4, <3>1 DEF TypeOK
    <3>2. CASE From[x] = From[m]
      <4>1. SentKey(x) # ReceivedKey(m)
        BY <2>3, <2>4, <3>2 DEF Reliable
      <4> QED
        BY <2>2, <2>4, <3>2, <4>1 DEF TypeOK
    <3> QED
      BY <3>1, <3>2
  <2>5. ASSUME NEW x \in Msg, acks'[x] > 0 PROVE delivered'[x] > 0
    BY <2>1, <2>5 DEF TypeOK, LossInv
  <2>6. ASSUME NEW x \in sent', delivered'[x] = 0 PROVE x \in adding' \cup send_buff_'[From[x]]
    <3>1. x \in Msg /\ x # m /\ x \in adding \cup send_buff_[From[x]]
      BY <2>1, <2>6 DEF TypeOK, LossInv
    <3> QED
      BY <2>1, <2>4, <3>1
  <2> QED
    BY <2>1, <2>5, <2>6 DEF LossInv
<1>6. ASSUME NEW m \in Msg, Lose(m) PROVE LossInv'
  <2>1. UNCHANGED <<resender_, sent, adding, send_buff_, acked_, delivered>>
    BY <1>6 DEF Lose, sender_vars
  <2>2. ASSUME NEW x \in Msg, acks'[x] > 0 PROVE acks[x] > 0
    BY <1>6, <2>2 DEF Lose, TypeOK
  <2> QED
    BY <2>1, <2>2 DEF LossInv
<1>7. ASSUME NEW m \in Msg, Resend(m) PROVE LossInv'
  BY <1>1, <1>7 DEF Resend
<1>8. ASSUME NEW m \in Msg, ReceiveBare(m) PROVE LossInv'
  <2>1. /\ delivered' = [delivered EXCEPT ![m] = @ + 1]
        /\ UNCHANGED <<resender_, sent, adding, send_buff_, acks, acked_>>
    BY <1>8 DEF ReceiveBare, sender_vars
  <2>2. \A x \in Msg : /\ delivered[x] > 0 => delivered'[x] > 0
                       /\ delivered'[x] = 0 => delivered[x] = 0
    BY <2>1 DEF TypeOK
  <2> QED
    BY <2>1, <2>2 DEF LossInv, TypeOK
<1>9. ASSUME NEW n \in Node, StartResender(n) PROVE LossInv'
  <2>1. /\ resender_' = resender_ \cup {n}
        /\ UNCHANGED <<sent, adding, send_buff_, acks, acked_, delivered>>
    BY <1>9 DEF StartResender, sender_vars
  <2> QED
    BY <2>1 DEF LossInv
<1>10. ASSUME NEW n \in Node, NEW due \in SUBSET send_buff_[n] \ {{}}, Monitor(n, due) PROVE LossInv'
  BY <1>1, <1>10 DEF Monitor
<1>11. CASE UNCHANGED vars
  BY <1>1, <1>11 DEF vars, sender_vars
<1> QED
  BY <1>2, <1>3, <1>4, <1>5, <1>6, <1>7, <1>8, <1>9, <1>10, <1>11 DEF Next

\* Initially nothing was sent, acknowledged or handed on.
LEMMA LossInit == Reliable /\ Init => LossInv
BY ResenderAssumption DEF Reliable, Init, LossInv

\* A message not handed on yet is never taken out of send_buff_, and no
\* message is taken for a duplicate by mistake, however copies and ACKs are
\* lost, repeated or overtake the threads that send.
THEOREM NothingLost ==
  ASSUME Reliable
  PROVE  Spec => [](NoSilentLoss /\ DuplicateWasAdded)
<1>1. Init => LossInv
  BY LossInit
<1>2. TypeOK /\ LossInv => NoSilentLoss
  BY DEF TypeOK, LossInv, NoSilentLoss
<1>3. TypeOK /\ LossInv => DuplicateWasAdded
  BY DEF TypeOK, LossInv, DuplicateWasAdded
<1>4. TypeOK /\ LossInv /\ [Next]_vars => LossInv'
  BY LossNext
<1> QED
  BY <1>1, <1>2, <1>3, <1>4, TypeInit, TypeNext, PTL DEF Spec

-----------------------------------------------------------------------------
\* A copy under way is of a message that was sent.
LEMMA SentNext == TypeOK /\ SentInv /\ [Next]_vars => SentInv'
<1> SUFFICES ASSUME TypeOK, SentInv, [Next]_vars, NEW x \in Msg, data'[x] > 0 PROVE x \in sent'
  BY DEF SentInv
<1> USE ResenderAssumption
<1>1. ASSUME UNCHANGED <<sent, data>> PROVE x \in sent'
  BY <1>1 DEF SentInv
<1>2. ASSUME NEW m \in Msg, Send(m) PROVE x \in sent'
  BY <1>2 DEF Send, SentInv, TypeOK
<1>3. ASSUME NEW m \in Msg, Resend(m) PROVE x \in sent'
  <2>1. m \in sent /\ sent' = sent
    BY <1>3 DEF Resend, TypeOK, Owned
  <2>2. data' = data \/ data' = [data EXCEPT ![m] = @ + 1]
    BY <1>3 DEF Resend
  <2> QED
    BY <2>1, <2>2 DEF SentInv, TypeOK
<1>4. ASSUME NEW m \in Msg, ReceiveBare(m) \/ AddIncomming(m) \/ Lose(m) PROVE x \in sent'
  <2>1. sent' = sent
    BY <1>4 DEF ReceiveBare, AddIncomming, Lose, sender_vars
  <2>2. data' = data \/ data' = [data EXCEPT ![m] = @ - 1]
    BY <1>4 DEF ReceiveBare, AddIncomming, Lose
  <2> QED
    BY <2>1, <2>2 DEF SentInv, TypeOK
<1>5. ASSUME NEW m \in Msg, AddOutgoing(m) \/ ReceiveAck(m) PROVE x \in sent'
  BY <1>1, <1>5 DEF AddOutgoing, ReceiveAck
<1>6. ASSUME NEW n \in Node, StartResender(n) PROVE x \in sent'
  BY <1>1, <1>6 DEF StartResender, sender_vars
<1>7. ASSUME NEW n \in Node, NEW due \in SUBSET send_buff_[n] \ {{}}, Monitor(n, due) PROVE x \in sent'
  BY <1>1, <1>7 DEF Monitor
<1>8. CASE UNCHANGED vars
  BY <1>1, <1>8 DEF vars, sender_vars
<1> QED
  BY <1>2, <1>3, <1>4, <1>5, <1>6, <1>7, <1>8 DEF Next

\* Handing a message on, for the first time or before the resender exists, is
\* the channel's Deliver or does not count.
LEMMA HandedOn ==
  ASSUME TypeOK, OnceInv, NEW m \in sent, UNCHANGED <<sent, failed>>,
         delivered' = [delivered EXCEPT ![m] = @ + 1],
         \/ bare' = bare /\ (m \notin bare => delivered[m] = 0)
         \/ bare' = bare \cup {m}
  PROVE  [Promise!Next]_(Promise!vars)
<1>1. m \in Msg /\ delivered[m] \in Nat /\ delivered'[m] = delivered[m] + 1
  BY DEF TypeOK
<1>2. \A x \in Msg : x # m => delivered'[x] = delivered[x] /\ (x \in bare' <=> x \in bare)
  BY DEF TypeOK
<1>3. \A x \in Msg : x # m => Handed'[x] = Handed[x]
  BY <1>2 DEF Handed
<1>4. CASE m \in bare \/ delivered[m] > 0
  <2>1. Handed'[m] = Handed[m]
    BY <1>1, <1>4 DEF Handed, OnceInv
  <2>2. Handed' = Handed
    BY <1>3, <2>1 DEF Handed
  <2> QED
    BY <2>2 DEF Promise!vars
<1>5. CASE m \notin bare /\ delivered[m] = 0
  <2>1. Handed[m] = 0 /\ Handed'[m] = 1
    BY <1>1, <1>5 DEF Handed
  <2>2. Handed' = [Handed EXCEPT ![m] = 1]
    BY <1>3, <2>1 DEF Handed
  <2>3. Promise!Deliver(m)
    BY <2>1, <2>2 DEF Promise!Deliver
  <2> QED
    BY <1>1, <2>3 DEF Promise!Next
<1> QED
  BY <1>1, <1>4, <1>5

\* Every step of the protocol is a step of the channel or leaves it alone: in
\* particular handing a message on is the channel's only Deliver of it.
LEMMA ChannelStep ==
  TypeOK /\ OnceInv /\ SentInv /\ [Next]_vars => [Promise!Next]_(Promise!vars)
<1> SUFFICES ASSUME TypeOK, OnceInv, SentInv, [Next]_vars PROVE [Promise!Next]_(Promise!vars)
  OBVIOUS
<1> USE ResenderAssumption DEF Promise!vars
<1>1. ASSUME UNCHANGED <<sent, delivered, failed, bare>> PROVE [Promise!Next]_(Promise!vars)
  BY <1>1 DEF Handed
<1>2. ASSUME NEW n \in Node, failed' = failed \cup {n}, UNCHANGED <<sent, delivered, bare>>
      PROVE  [Promise!Next]_(Promise!vars)
  <2>1. Handed' = Handed
    BY <1>2 DEF Handed
  <2> QED
    BY <1>2, <2>1 DEF Promise!Next, Promise!Fail
<1>3. ASSUME NEW m \in Msg, Send(m) PROVE [Promise!Next]_(Promise!vars)
  <2>1. Handed' = Handed
    BY <1>3 DEF Send, Handed
  <2>2. Promise!Send(m)
    BY <1>3, <2>1 DEF Send, Promise!Send
  <2> QED
    BY <2>2 DEF Promise!Next
<1>4. ASSUME NEW m \in Msg, AddIncomming(m) PROVE [Promise!Next]_(Promise!vars)
  <2>1. sent' = sent /\ bare' = bare /\ m \in sent /\ To[m] \in Node
    BY <1>4 DEF AddIncomming, sender_vars, SentInv
  <2>2. CASE ~HasLocalSocket(m)
    <3>1. failed' = failed \cup {To[m]} /\ delivered' = delivered
      BY <1>4, <2>2 DEF AddIncomming
    <3> QED
      BY <1>2, <2>1, <3>1
  <2>3. CASE HasLocalSocket(m) /\ ReceivedKey(m) \in acked_[To[m]]
    <3>1. failed' = failed /\ delivered' = delivered
      BY <1>4, <2>3 DEF AddIncomming, TypeOK
    <3> QED
      BY <1>1, <2>1, <3>1
  <2>4. CASE HasLocalSocket(m) /\ ReceivedKey(m) \notin acked_[To[m]]
    <3>1. UNCHANGED <<sent, failed>> /\ bare' = bare /\ delivered' = [delivered EXCEPT ![m] = @ + 1]
      BY <1>4, <2>1, <2>4 DEF AddIncomming, TypeOK
    <3>2. m \notin bare => delivered[m] = 0
      BY <2>4 DEF OnceInv
    <3> QED
      BY <2>1, <3>1, <3>2, HandedOn
  <2> QED
    BY <2>2, <2>3, <2>4
<1>5. ASSUME NEW m \in Msg, Resend(m) PROVE [Promise!Next]_(Promise!vars)
  <2>1. failed' = failed \/ failed' = failed \cup {From[m]}
    BY <1>5 DEF Resend
  <2>2. UNCHANGED <<sent, delivered, bare>> /\ From[m] \in Node
    BY <1>5 DEF Resend
  <2> QED
    BY <1>1, <1>2, <2>1, <2>2
<1>6. ASSUME NEW n \in Node, NEW due \in SUBSET send_buff_[n] \ {{}}, Monitor(n, due)
      PROVE  [Promise!Next]_(Promise!vars)
  <2>1. failed' = failed \/ failed' = failed \cup {n}
    BY <1>6 DEF Monitor
  <2>2. UNCHANGED <<sent, delivered, bare>>
    BY <1>6 DEF Monitor
  <2> QED
    BY <1>1, <1>2, <2>1, <2>2
<1>7. ASSUME NEW m \in Msg, AddOutgoing(m) \/ ReceiveAck(m) \/ Lose(m) PROVE [Promise!Next]_(Promise!vars)
  BY <1>1, <1>7 DEF AddOutgoing, ReceiveAck, Lose, sender_vars
<1>8. ASSUME NEW m \in Msg, ReceiveBare(m) PROVE [Promise!Next]_(Promise!vars)
  <2>1. /\ m \in sent /\ UNCHANGED <<sent, failed>> /\ bare' = bare \cup {m}
        /\ delivered' = [delivered EXCEPT ![m] = @ + 1]
    BY <1>8 DEF ReceiveBare, sender_vars, SentInv
  <2> QED
    BY <2>1, HandedOn
<1>9. ASSUME NEW n \in Node, StartResender(n) PROVE [Promise!Next]_(Promise!vars)
  BY <1>1, <1>9 DEF StartResender, sender_vars
<1>10. CASE UNCHANGED vars
  BY <1>1, <1>10 DEF vars, sender_vars
<1> QED
  BY <1>3, <1>4, <1>5, <1>6, <1>7, <1>8, <1>9, <1>10 DEF Next

\* Retransmission implements the safety part of the channel: what it hands on
\* was sent, and is handed on once but for what came before the resender.
THEOREM ResenderIsChannel == Spec => Promise!SafeSpec
<1>1. Init => OnceInv
  BY DEF Init, OnceInv
<1>2. Init => SentInv
  BY DEF Init, SentInv
<1>3. Init => Promise!Init
  BY DEF Init, Promise!Init, Handed
<1> QED
  BY <1>1, <1>2, <1>3, TypeInit, TypeNext, OnceNext, SentNext, ChannelStep, PTL DEF Spec, Promise!SafeSpec
-----------------------------------------------------------------------------
\* The retry counts of a process that has aborted no longer change.
LEMMA ExhaustedNext ==
  Reliable /\ TypeOK /\ AbortsOnlyExhausted /\ [Next]_vars => AbortsOnlyExhausted'
<1> SUFFICES ASSUME Reliable, TypeOK, AbortsOnlyExhausted, [Next]_vars,
                    NEW k \in failed'
             PROVE  \E m \in Msg : From[m] = k /\ num_retry'[m] >= MaxNumRetry
  BY DEF AbortsOnlyExhausted
<1> DEFINE Goal == \E m \in Msg : From[m] = k /\ num_retry'[m] >= MaxNumRetry
<1> USE ResenderAssumption
<1>1. ASSUME UNCHANGED <<num_retry, failed>> PROVE Goal
  BY <1>1 DEF AbortsOnlyExhausted
<1>2. ASSUME NEW m \in Msg, AddOutgoing(m) PROVE Goal
  <2>1. failed' = failed /\ From[m] \notin failed
    BY <1>2 DEF AddOutgoing, Alive
  <2>2. PICK x \in Msg : From[x] = k /\ num_retry[x] >= MaxNumRetry
    BY <2>1 DEF AbortsOnlyExhausted
  <2>3. num_retry' = num_retry \/ num_retry' = [num_retry EXCEPT ![m] = 0]
    BY <1>2 DEF AddOutgoing, Enter
  <2>4. num_retry'[x] = num_retry[x]
    BY <2>1, <2>2, <2>3 DEF TypeOK
  <2> QED
    BY <2>2, <2>4
<1>3. ASSUME NEW n \in Node, NEW due \in SUBSET send_buff_[n] \ {{}}, Monitor(n, due) PROVE Goal
  <2>1. \A m \in Msg : num_retry'[m] = IF m \in due THEN num_retry[m] + 1 ELSE num_retry[m]
    BY <1>3 DEF Monitor
  <2>2. due \subseteq Msg /\ \A m \in due : From[m] = n
    BY DEF TypeOK, Owned
  <2>3. CASE k \in failed
    <3>1. PICK x \in Msg : From[x] = k /\ num_retry[x] >= MaxNumRetry
      BY <2>3 DEF AbortsOnlyExhausted
    <3>2. num_retry[x] \in Nat /\ num_retry'[x] \in {num_retry[x], num_retry[x] + 1}
      BY <2>1 DEF TypeOK
    <3>3. num_retry'[x] >= MaxNumRetry
      BY <3>1, <3>2
    <3> QED
      BY <3>1, <3>3
  <2>4. CASE k \notin failed
    <3>1. k = n /\ ~(\A m \in due : num_retry'[m] < MaxNumRetry)
      BY <1>3, <2>4 DEF Monitor
    <3>2. PICK x \in due : ~(num_retry'[x] < MaxNumRetry)
      BY <3>1
    <3>3. x \in Msg /\ From[x] = n
      BY <2>2
    <3>4. num_retry \in [Msg -> Nat] /\ num_retry'[x] = num_retry[x] + 1
      BY <2>1, <3>3 DEF TypeOK
    <3>5. num_retry'[x] \in Nat /\ num_retry'[x] >= MaxNumRetry
      BY <3>2, <3>3, <3>4
    <3> QED
      BY <3>1, <3>3, <3>5
  <2> QED
    BY <2>3, <2>4
<1>4. ASSUME NEW m \in Msg, AddIncomming(m) PROVE Goal
  BY <1>1, <1>4 DEF AddIncomming, sender_vars, Reliable, HasLocalSocket
<1>5. ASSUME NEW m \in Msg, Resend(m) PROVE Goal
  BY <1>1, <1>5 DEF Resend, Reliable, HasLocalSocket
<1>6. ASSUME NEW m \in Msg, Send(m) \/ ReceiveAck(m) PROVE Goal
  BY <1>1, <1>6 DEF Send, ReceiveAck
<1>7. ASSUME NEW m \in Msg, ReceiveBare(m) \/ Lose(m) PROVE Goal
  BY <1>1, <1>7 DEF ReceiveBare, Lose, sender_vars
<1>8. ASSUME NEW n \in Node, StartResender(n) PROVE Goal
  BY <1>1, <1>8 DEF StartResender, sender_vars
<1>9. CASE UNCHANGED vars
  BY <1>1, <1>9 DEF vars, sender_vars
<1> QED
  BY <1>2, <1>3, <1>4, <1>5, <1>6, <1>7, <1>8, <1>9 DEF Next

\* On the local plane only the monitor's CHECK_LT ever aborts a process.
THEOREM OnlyRetriesAbort ==
  ASSUME Reliable
  PROVE  Spec => []AbortsOnlyExhausted
<1>1. Init => AbortsOnlyExhausted
  BY DEF Init, AbortsOnlyExhausted
<1> QED
  BY <1>1, TypeInit, TypeNext, ExhaustedNext, PTL DEF Spec
=============================================================================
