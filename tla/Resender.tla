------------------------------ MODULE Resender ------------------------------
(***************************************************************************)
(* Retransmission (PS_RESEND): Van::Send and Van::Receiving with the       *)
(* Resender of every process, on a network that may lose messages.         *)
(*                                                                         *)
(* A message is kept in send_buff_ until its ACK arrives; a monitor thread *)
(* sends it again; the receiver acknowledges every copy and hands on only  *)
(* the first.  A message is recognized by a signature, GetKey.  Each       *)
(* process creates its resender when it finds itself ready, so for a while *)
(* a message may reach a process that has none.                            *)
(***************************************************************************)
EXTENDS Naturals, FiniteSets

CONSTANTS
  Node,         \* processes
  Msg,          \* messages to be sent
  From, To,     \* [Msg -> Node]
  Plane,        \* [Msg -> {"local", "global"}], the plane a message is sent on
  Sender,       \* [Msg -> Nat], the sender's id on that plane
  LocalId,      \* [Msg -> Nat], the sender's id on the local plane
  Recver,       \* [Msg -> Nat], the receiver's id on the message's plane
  Timestamp,    \* [Msg -> Nat], timestamp and request bit
  IdWidth,      \* ids are cut to this number of values in a signature
  Late,         \* processes that create their resender after messages may come
  MaxNumRetry,  \* max_num_retry_
  MaxLoss,      \* bound: copies that the network loses
  MaxCopies     \* bound: copies of a message and its ACK at the same time

ASSUME ResenderAssumption ==
  /\ IdWidth \in Nat \ {0} /\ MaxNumRetry \in Nat
  /\ MaxLoss \in Nat /\ MaxCopies \in Nat \ {0}
  /\ Late \subseteq Node
  /\ From \in [Msg -> Node] /\ To \in [Msg -> Node]
  /\ Plane \in [Msg -> {"local", "global"}]
  /\ Sender \in [Msg -> Nat] /\ LocalId \in [Msg -> Nat] /\ Recver \in [Msg -> Nat]
  /\ Timestamp \in [Msg -> Nat]

VARIABLES
  sent,         \* messages given to Van::Send
  adding,       \* messages a sending thread has put on the wire, before AddOutgoing
  send_buff_,   \* [Node -> SUBSET Msg]
  num_retry,    \* [Msg -> Nat], of the messages in send_buff_
  resend,       \* [Node -> SUBSET Msg], what the monitor thread still has to send
  readding,     \* [Node -> SUBSET Msg], the one it has put on the wire, before AddOutgoing
  acked_,       \* [Node -> set of signatures]
  resender_,    \* processes that have a resender
  data, acks,   \* [Msg -> Nat], copies of a message and of its ACK under way
  lost,         \* copies lost so far
  delivered,    \* [Msg -> Nat], how often a message reached the handlers
  failed,       \* processes that a CHECK has aborted
  bare          \* messages handed on by a process that had no resender

sender_vars == <<sent, adding, send_buff_, num_retry, resend, readding>>
vars == <<sender_vars, acked_, resender_, data, acks, lost, delivered, failed, bare>>

Alive(n) == n \notin failed

\* GetKey, as computed by the sender, whose message has no sender id yet and
\* which takes that of the local plane, and by the receiver.  app_id is the
\* same for all data messages.
Signature(sender, m) == <<sender % IdWidth, Recver[m] % IdWidth, Timestamp[m]>>
SentKey(m) == Signature(LocalId[m], m)

ReceivedKey(m) == Signature(Sender[m], m)

\* Mutant: the two planes are swapped.
HasGlobalSocket(m) == Plane[m] = "global"

\* SendMsg looks the receiver up among the sockets of one plane.  ACKs and
\* retransmissions are always sent on the local one, where the ids of the
\* global plane are unknown.
HasLocalSocket(m) == Plane[m] = "local"
-----------------------------------------------------------------------------
Init ==
  /\ sent = {} /\ adding = {}
  /\ send_buff_ = [n \in Node |-> {}]
  /\ num_retry = [m \in Msg |-> 0]
  /\ resend = [n \in Node |-> {}] /\ readding = [n \in Node |-> {}]
  /\ acked_ = [n \in Node |-> {}]
  /\ resender_ = Node \ Late
  /\ data = [m \in Msg |-> 0] /\ acks = [m \in Msg |-> 0]
  /\ lost = 0
  /\ delivered = [m \in Msg |-> 0]
  /\ failed = {} /\ bare = {}

\* Van::Start creates the resender once the process is ready.
StartResender(n) ==
  /\ Alive(n) /\ n \notin resender_
  /\ resender_' = resender_ \cup {n}
  /\ UNCHANGED <<sender_vars, acked_, data, acks, lost, delivered, failed, bare>>

\* Van::Send: SendMsg first ...
Send(m) ==
  /\ Alive(From[m]) /\ m \notin sent
  /\ sent' = sent \cup {m}
  /\ data' = [data EXCEPT ![m] = @ + 1]
  /\ adding' = adding \cup {m}
  /\ UNCHANGED <<send_buff_, num_retry, resend, readding, acked_, resender_, acks, lost, delivered, failed, bare>>

\* Mutant: nothing is kept for retransmission.
EnterNothing(m) == UNCHANGED <<send_buff_, num_retry>>

\* ... then AddOutgoing, unless there is no resender or an entry with the
\* same signature.
Enter(m) ==
  IF From[m] \in resender_ /\ (\A x \in send_buff_[From[m]] : SentKey(x) # SentKey(m))
    THEN /\ send_buff_' = [send_buff_ EXCEPT ![From[m]] = @ \cup {m}]
         /\ num_retry' = [num_retry EXCEPT ![m] = 0]
    ELSE UNCHANGED <<send_buff_, num_retry>>

AddOutgoing(m) ==
  /\ Alive(From[m])
  /\ \/ m \in adding /\ adding' = adding \ {m} /\ UNCHANGED readding
     \/ /\ m \in readding[From[m]]
        /\ readding' = [readding EXCEPT ![From[m]] = @ \ {m}]
        /\ UNCHANGED adding
  /\ Enter(m)
  /\ UNCHANGED <<sent, resend, acked_, resender_, data, acks, lost, delivered, failed, bare>>

\* PS_DROP_MSG: the receiver of the local plane drops what it has received.
Lose(m) ==
  /\ lost < MaxLoss /\ Plane[m] = "local"
  /\ \/ data[m] > 0 /\ data' = [data EXCEPT ![m] = @ - 1] /\ UNCHANGED acks
     \/ acks[m] > 0 /\ acks' = [acks EXCEPT ![m] = @ - 1] /\ UNCHANGED data
  /\ lost' = lost + 1
  /\ UNCHANGED <<sender_vars, acked_, resender_, delivered, failed, bare>>

\* Van::Receiving hands a message on if AddIncomming does not call it a
\* duplicate; without a resender it hands on everything.
ReceiveBare(m) ==
  /\ Alive(To[m]) /\ data[m] > 0 /\ To[m] \notin resender_
  /\ data' = [data EXCEPT ![m] = @ - 1]
  /\ delivered' = [delivered EXCEPT ![m] = @ + 1]
  /\ bare' = bare \cup {m}
  /\ UNCHANGED <<sender_vars, acked_, resender_, acks, lost, failed>>

\* Mutant: the signature is not inserted in acked_.
AddIncommingForget(m) ==
  /\ Alive(To[m]) /\ data[m] > 0 /\ To[m] \in resender_
  /\ data' = [data EXCEPT ![m] = @ - 1]
  /\ acks' = [acks EXCEPT ![m] = @ + 1]
  /\ delivered' = [delivered EXCEPT ![m] = @ + 1]
  /\ UNCHANGED <<sender_vars, acked_, resender_, lost, failed, bare>>

\* AddIncomming of a message: acked_, then the ACK, then the verdict.  Send
\* aborts the process when there is no socket for the ACK.
AddIncomming(m) ==
  LET n == To[m] IN
  /\ Alive(n) /\ data[m] > 0 /\ n \in resender_
  /\ data' = [data EXCEPT ![m] = @ - 1]
  /\ acked_' = [acked_ EXCEPT ![n] = @ \cup {ReceivedKey(m)}]
  /\ IF HasLocalSocket(m)
       THEN /\ acks' = [acks EXCEPT ![m] = @ + 1]
            /\ delivered' = [delivered EXCEPT ![m] = IF ReceivedKey(m) \in acked_[n] THEN @ ELSE @ + 1]
            /\ UNCHANGED failed
       ELSE /\ failed' = failed \cup {n}
            /\ UNCHANGED <<acks, delivered>>
  /\ UNCHANGED <<sender_vars, resender_, lost, bare>>

\* Mutant: an ACK clears the buffer.
ReceiveAckClear(m) ==
  /\ Alive(From[m]) /\ acks[m] > 0
  /\ acks' = [acks EXCEPT ![m] = @ - 1]
  /\ send_buff_' = [send_buff_ EXCEPT ![From[m]] = {}]
  /\ UNCHANGED <<sent, adding, num_retry, resend, readding, acked_, resender_, data, lost, delivered, failed, bare>>

\* AddIncomming of an ACK erases the entry with the signature it carries.
ReceiveAck(m) ==
  LET n == From[m] IN
  /\ Alive(n) /\ acks[m] > 0
  /\ acks' = [acks EXCEPT ![m] = @ - 1]
  /\ send_buff_' = IF n \in resender_
                     THEN [send_buff_ EXCEPT ![n] = {x \in @ : SentKey(x) # ReceivedKey(m)}]
                     ELSE send_buff_
  /\ UNCHANGED <<sent, adding, num_retry, resend, readding, acked_, resender_, data, lost, delivered, failed, bare>>

\* Monitoring, under the lock: copies the entries whose time is up, due.
\* Which ones those are is left open.
Monitor(n, due) ==
  /\ Alive(n) /\ n \in resender_ /\ resend[n] = {} /\ readding[n] = {}
  /\ num_retry' = [m \in Msg |-> IF m \in due THEN num_retry[m] + 1 ELSE num_retry[m]]
  /\ IF \A m \in due : num_retry'[m] < MaxNumRetry
       THEN resend' = [resend EXCEPT ![n] = due] /\ UNCHANGED failed
       ELSE failed' = failed \cup {n} /\ UNCHANGED resend
  /\ UNCHANGED <<sent, adding, send_buff_, readding, acked_, resender_, data, acks, lost, delivered, bare>>

\* ... and, without the lock, sends them one by one.
Resend(m) ==
  LET n == From[m] IN
  /\ Alive(n) /\ m \in resend[n] /\ readding[n] = {}
  /\ data[m] + acks[m] < MaxCopies
  /\ IF HasLocalSocket(m)
       THEN /\ data' = [data EXCEPT ![m] = @ + 1]
            /\ resend' = [resend EXCEPT ![n] = @ \ {m}]
            /\ readding' = [readding EXCEPT ![n] = {m}]
            /\ UNCHANGED failed
       ELSE failed' = failed \cup {n} /\ UNCHANGED <<data, resend, readding>>
  /\ UNCHANGED <<sent, adding, send_buff_, num_retry, acked_, resender_, acks, lost, delivered, bare>>

Next ==
  \/ \E n \in Node : \/ StartResender(n)
                     \/ \E due \in SUBSET send_buff_[n] \ {{}} : Monitor(n, due)
  \/ \E m \in Msg : \/ Send(m) \/ AddOutgoing(m) \/ Resend(m)
                    \/ ReceiveBare(m) \/ AddIncomming(m) \/ ReceiveAck(m)
                    \/ Lose(m)

Spec == Init /\ [][Next]_vars

\* The threads run, the network delivers what it does not lose, and the time
\* of an entry is up infinitely often while the monitor wakes up.
Fairness ==
  /\ \A n \in Node : WF_vars(StartResender(n))
  /\ \A m \in Msg :
       /\ WF_vars(AddOutgoing(m)) /\ WF_vars(Resend(m))
       /\ WF_vars(ReceiveBare(m)) /\ WF_vars(AddIncomming(m)) /\ WF_vars(ReceiveAck(m))
       /\ SF_vars(\E due \in SUBSET send_buff_[From[m]] : m \in due /\ Monitor(From[m], due))

FairSpec == Spec /\ Fairness
-----------------------------------------------------------------------------
\* What a process keeps are messages it has sent.
Owned(buffer) == \A n \in Node : \A m \in buffer[n] : m \in sent /\ From[m] = n

TypeOK ==
  /\ sent \subseteq Msg /\ adding \subseteq sent
  /\ Owned(send_buff_) /\ Owned(resend) /\ Owned(readding)
  /\ send_buff_ \in [Node -> SUBSET Msg]
  /\ num_retry \in [Msg -> Nat]
  /\ resend \in [Node -> SUBSET Msg] /\ readding \in [Node -> SUBSET Msg]
  /\ acked_ \in [Node -> SUBSET {ReceivedKey(m) : m \in Msg}]
  /\ resender_ \subseteq Node /\ failed \subseteq Node
  /\ data \in [Msg -> Nat] /\ acks \in [Msg -> Nat] /\ delivered \in [Msg -> Nat]
  /\ bare \subseteq Msg

\* A message reaches the handlers at most once, however often it was resent
\* (what Receiving means by skipping a "duplicated message"), unless a copy came
\* before the receiver had its resender.
AtMostOnce == \A m \in Msg \ bare : delivered[m] <= 1

\* The same of every message: it does not hold where Late is not empty.
AlwaysAtMostOnce == \A m \in Msg : delivered[m] <= 1

\* A message that was sent and has not reached the handlers is one the sender
\* still holds for retransmission, or will hold as soon as the thread that
\* sent it gets to AddOutgoing: no lost copy, no early, late or repeated ACK
\* takes it out of send_buff_ before.
NoSilentLoss ==
  \A m \in sent :
    Alive(From[m]) /\ Alive(To[m]) /\ delivered[m] = 0 => m \in adding \cup send_buff_[From[m]]

\* AddIncomming takes a message for a duplicate only if "msg has been added
\* before": a signature in acked_ is that of a message handed on.
DuplicateWasAdded ==
  \A m \in sent :
    Alive(To[m]) /\ ReceivedKey(m) \in acked_[To[m]] => delivered[m] > 0

\* A process is aborted only by the monitor's CHECK_LT, after max_num_retry_
\* attempts for one message: "van will resend a message".
AbortsOnlyExhausted ==
  \A n \in failed : \E m \in Msg : From[m] = n /\ num_retry[m] >= MaxNumRetry

\* What PS_RESEND promises, see Channel; the repetitions of a message that came
\* before the receiver had its resender are left out.
Handed == [m \in Msg |-> IF m \in bare /\ delivered[m] > 1 THEN 1 ELSE delivered[m]]
Promise == INSTANCE Channel WITH delivered <- Handed
ImplementsChannel == Promise!Spec
=============================================================================
