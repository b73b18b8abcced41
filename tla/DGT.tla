--------------------------------- MODULE DGT ---------------------------------
(***************************************************************************)
(* Differential gradient transmission (ENABLE_DGT = 2) between the         *)
(* parties' servers and the global servers.  A party's push is cut into    *)
(* chunks; the chunks that contribute most and the last one go through     *)
(* important_queue_, the others through unimportant_queue_, each emptied   *)
(* by a thread of its own.  A global server collects the chunks of a key   *)
(* in msg_map and takes the push as complete when its last chunk arrives:  *)
(* a chunk that comes later is added to the same chunk of the next push.   *)
(*                                                                         *)
(* The chunks of a round are identified by the round, so that a sum of     *)
(* chunks is a set of rounds.  Both queues are heaps whose comparison is   *)
(* not a strict order (threadsafe_queue.h:53): messages of equal priority  *)
(* leave in any order.  The two threads share one TCP connection to a      *)
(* global server, which keeps the order of the sends.                      *)
(***************************************************************************)
EXTENDS Integers, Sequences, FiniteSets, SequencesExt

CONSTANTS
  Parties, Keys,
  Holders,    \* the ranks of the global servers that hold a part of a key
  Gradients,  \* sets of chunks in which a gradient may differ from zero
  NumChunks,  \* ceil(size / DGT_BLOCK_SIZE), the same for every key
  DMLC_K,     \* in percent
  MaxRound    \* pushes of a key by a party (bound)

Seq_end == NumChunks - 1
Chunks == 0 .. Seq_end
Servers == UNION {Holders[k] : k \in Keys}
Rounds == 1 .. MaxRound
Message == [key : Keys, round : Rounds, seq : Chunks, channel : {0, 1}, recver : Servers,
            keys : SUBSET Servers]

VARIABLES
  round,             \* pushes a party has started, per key
  gradient,          \* the chunks of each of them that are not zero
  contribution,      \* chunks whose moving average is not zero
  assigning,         \* msg_vector: chunks that wait for AssignMsg
  important_queue_,
  popped,            \* the message Important_scheduler is about to send
  unimportant_queue_,
  seenEmpty,         \* Unimportant_scheduler has found important_queue_ empty
  net,               \* the connection of a party's server to a global server
  msg_map,           \* rounds added up in a chunk at a global server
  inbox,             \* accepted requests that wait for the handler
  accepted,          \* tensors handed to the handler, per party and key
  request,           \* update_buf_.request: parties merged in the round of a key
  awaits             \* global servers that have not answered a party's push

queues == <<assigning, important_queue_, popped, unimportant_queue_, seenEmpty>>
server == <<msg_map, inbox, accepted, request>>
vars == <<round, gradient, contribution, queues, net, server, awaits>>

Init ==
  /\ round = [p \in Parties |-> [k \in Keys |-> 0]]
  /\ gradient = [p \in Parties |-> [k \in Keys |-> [r \in Rounds |-> {}]]]
  /\ contribution = [p \in Parties |-> [k \in Keys |-> {}]]
  /\ assigning = [p \in Parties |-> {}]
  /\ important_queue_ = [p \in Parties |-> {}] /\ popped = [p \in Parties |-> {}]
  /\ unimportant_queue_ = [p \in Parties |-> {}]
  /\ seenEmpty = [p \in Parties |-> FALSE]
  /\ net = [p \in Parties |-> [g \in Servers |-> <<>>]]
  /\ msg_map = [g \in Servers |-> [p \in Parties |-> [k \in Keys |-> [c \in Chunks |-> {}]]]]
  /\ inbox = [g \in Servers |-> {}]
  /\ accepted = [g \in Servers |-> [p \in Parties |-> [k \in Keys |-> <<>>]]]
  /\ request = [g \in Servers |-> [k \in Keys |-> {}]]
  /\ awaits = [p \in Parties |-> [k \in Keys |-> {}]]

-----------------------------------------------------------------------------
(* The party's server. *)

\* The chunks put into msg_vector: no chunk that has always been zero, except
\* the last.
Contributing(average) == average \cup {Seq_end}

\* GetChannel: how many of n chunks, sorted by contribution, use channel 0.
MinIndex(n) == (2 * DMLC_K * n + 100) \div 200

\* The sets of chunks that may come first in the sorted vector: the values
\* that are sorted are left open.
Leading(chunks) ==
  LET rest == chunks \ {Seq_end}
  IN {first \in SUBSET rest :
        Cardinality(first) = IF MinIndex(Cardinality(chunks)) < Cardinality(rest)
                               THEN MinIndex(Cardinality(chunks)) ELSE Cardinality(rest)}

\* The channel of a chunk: 0 for the last chunk whatever its rank.
Channel(c, first) == IF c \in first \cup {Seq_end} THEN 0 ELSE 1

\* KVServer::Send: the whole tensor is cut for every global server that holds
\* a part of the key, and every chunk carries the keys of all parts (named here
\* by their holders).
Push(p, k) ==
  /\ round[p][k] < MaxRound /\ awaits[p][k] = {} /\ assigning[p] = {}
  /\ \E nonzero \in Gradients :
       LET r == round[p][k] + 1
           average == contribution[p][k] \cup nonzero
           chunks == Contributing(average)
       IN \E first \in Leading(chunks) :
            /\ gradient' = [gradient EXCEPT ![p][k][r] = nonzero]
            /\ contribution' = [contribution EXCEPT ![p][k] = average]
            /\ assigning' = [assigning EXCEPT ![p] =
                 {[key |-> k, round |-> r, seq |-> c, recver |-> g, keys |-> Holders[k],
                   channel |-> Channel(c, first)]
                    : c \in chunks, g \in Holders[k]}]
            /\ round' = [round EXCEPT ![p][k] = r]
            /\ awaits' = [awaits EXCEPT ![p][k] = Holders[k]]
  /\ UNCHANGED <<important_queue_, popped, unimportant_queue_, seenEmpty, net, server>>

\* The order of the loops of Send: global servers by rank, and for each one
\* the important chunks, the others, the last.
Place(m) ==
  3 * m.recver + (IF m.seq = Seq_end THEN 2 ELSE m.channel)

AssignMsg(p) ==
  \E m \in assigning[p] :
    /\ \A other \in assigning[p] : Place(m) <= Place(other)
    /\ assigning' = [assigning EXCEPT ![p] = @ \ {m}]
    /\ IF m.channel = 0
         THEN /\ important_queue_' = [important_queue_ EXCEPT ![p] = @ \cup {m}]
              /\ UNCHANGED unimportant_queue_
         ELSE /\ unimportant_queue_' = [unimportant_queue_ EXCEPT ![p] = @ \cup {m}]
              /\ UNCHANGED important_queue_
    /\ UNCHANGED <<round, gradient, contribution, popped, seenEmpty, net, server, awaits>>

Important_pop(p) ==
  /\ popped[p] = {}
  /\ \E m \in important_queue_[p] :
       /\ popped' = [popped EXCEPT ![p] = {m}]
       /\ important_queue_' = [important_queue_ EXCEPT ![p] = @ \ {m}]
  /\ UNCHANGED <<round, gradient, contribution, assigning, unimportant_queue_,
                 seenEmpty, net, server, awaits>>

Important_send(p) ==
  /\ \E m \in popped[p] : net' = [net EXCEPT ![p][m.recver] = Append(@, m)]
  /\ popped' = [popped EXCEPT ![p] = {}]
  /\ UNCHANGED <<round, gradient, contribution, assigning, important_queue_,
                 unimportant_queue_, seenEmpty, server, awaits>>

Unimportant_check(p) ==
  /\ ~seenEmpty[p] /\ important_queue_[p] = {}
  /\ seenEmpty' = [seenEmpty EXCEPT ![p] = TRUE]
  /\ UNCHANGED <<round, gradient, contribution, assigning, important_queue_, popped,
                 unimportant_queue_, net, server, awaits>>

\* WaitAndPop may have to wait, and does not look at important_queue_ again.
Unimportant_send(p) ==
  /\ seenEmpty[p]
  /\ \E m \in unimportant_queue_[p] :
       /\ unimportant_queue_' = [unimportant_queue_ EXCEPT ![p] = @ \ {m}]
       /\ net' = [net EXCEPT ![p][m.recver] = Append(@, m)]
  /\ seenEmpty' = [seenEmpty EXCEPT ![p] = FALSE]
  /\ UNCHANGED <<round, gradient, contribution, assigning, important_queue_, popped,
                 server, awaits>>

-----------------------------------------------------------------------------
(* The global server. *)

\* Mutant: a chunk that finds another in its place is dropped.
KeepFirst(sum, p, m) ==
  IF sum = {} /\ m.seq \in gradient[p][m.key][m.round] THEN {m.round} ELSE sum

\* The sum a message leaves in its place of msg_map; a chunk of a zero
\* gradient adds nothing.
MergeMsg(sum, p, m) ==
  IF m.seq \in gradient[p][m.key][m.round] THEN sum \cup {m.round} ELSE sum

\* msg_map of a key after its push has been handed on.
Cleared(chunks) == [c \in Chunks |-> {}]

\* ProcessDataMsg.
Receive(p, g) ==
  /\ net[p][g] # <<>>
  /\ LET m == Head(net[p][g])
         chunks == [msg_map[g][p][m.key] EXCEPT ![m.seq] = MergeMsg(@, p, m)]
     IN IF m.seq = Seq_end
          THEN /\ accepted' = [accepted EXCEPT ![g][p][m.key] = Append(@, chunks)]
               /\ inbox' = [inbox EXCEPT ![g] = @ \cup {[party |-> p, key |-> m.key, keys |-> m.keys]}]
               /\ msg_map' = [msg_map EXCEPT ![g][p][m.key] = Cleared(chunks)]
          ELSE /\ msg_map' = [msg_map EXCEPT ![g][p][m.key] = chunks]
               /\ UNCHANGED <<accepted, inbox>>
  /\ net' = [net EXCEPT ![p][g] = Tail(@)]
  /\ UNCHANGED <<round, gradient, contribution, queues, request, awaits>>

\* All parties are in the round.
RoundComplete(merged) == Cardinality(merged) = Cardinality(Parties)

\* The handler merges a push, and answers every party when all have pushed.
Handle(g) ==
  \E i \in inbox[g] :
    LET k == i.key
        merged == request[g][k] \cup {i.party}
    IN /\ inbox' = [inbox EXCEPT ![g] = @ \ {i}]
       /\ IF RoundComplete(merged)
            THEN /\ request' = [request EXCEPT ![g][k] = {}]
                 /\ awaits' = [p \in Parties |-> [awaits[p] EXCEPT ![k] = @ \ {g}]]
            ELSE /\ request' = [request EXCEPT ![g][k] = merged]
                 /\ UNCHANGED awaits
       /\ UNCHANGED <<round, gradient, contribution, queues, net, msg_map, accepted>>

Next ==
  \/ \E p \in Parties :
       \/ \E k \in Keys : Push(p, k)
       \/ AssignMsg(p) \/ Important_pop(p) \/ Important_send(p)
       \/ Unimportant_check(p) \/ Unimportant_send(p)
       \/ \E g \in Servers : Receive(p, g)
  \/ \E g \in Servers : Handle(g)

Spec == Init /\ [][Next]_vars /\ WF_vars(Next)

-----------------------------------------------------------------------------
(* Properties. *)

TypeOK ==
  /\ round \in [Parties -> [Keys -> 0 .. MaxRound]]
  /\ gradient \in [Parties -> [Keys -> [Rounds -> SUBSET Chunks]]]
  /\ contribution \in [Parties -> [Keys -> SUBSET Chunks]]
  /\ \A p \in Parties :
       /\ assigning[p] \cup important_queue_[p] \cup popped[p] \cup unimportant_queue_[p]
            \subseteq Message
       /\ \A m \in unimportant_queue_[p] : m.channel = 1 /\ m.seq # Seq_end
       /\ \A g \in Servers : net[p][g] \in Seq(Message)
  /\ seenEmpty \in [Parties -> BOOLEAN]
  /\ msg_map \in [Servers -> [Parties -> [Keys -> [Chunks -> SUBSET Rounds]]]]
  /\ inbox \in [Servers -> SUBSET [party : Parties, key : Keys, keys : SUBSET Servers]]
  /\ request \in [Servers -> [Keys -> SUBSET Parties]]
  /\ awaits \in [Parties -> [Keys -> SUBSET Servers]]

\* The messages of a party that have not reached the global server.
Underway(p) ==
  assigning[p] \cup important_queue_[p] \cup popped[p] \cup unimportant_queue_[p]
    \cup UNION {ToSet(net[p][g]) : g \in Servers}

\* How often a chunk of a push is underway to g, in its msg_map or in a tensor
\* g's handler was given.
Copies(p, k, r, c, g) ==
  Cardinality({m \in Underway(p) : m.key = k /\ m.round = r /\ m.seq = c /\ m.recver = g})
  + (IF r \in msg_map[g][p][k][c] THEN 1 ELSE 0)
  + Cardinality({i \in DOMAIN accepted[g][p][k] : r \in accepted[g][p][k][i][c]})

\* However the chunks of successive pushes overtake each other, no chunk of a
\* gradient is dropped and none is added twice: it is on its way, waits in
\* msg_map, or is in exactly one tensor that the handler was given
\* (ProcessDataMsg, MergeMsg and the chunks that Send leaves out).
EveryChunkOnce ==
  \A p \in Parties, k \in Keys, r \in Rounds :
    \A c \in gradient[p][k][r], g \in Holders[k] : Copies(p, k, r, c, g) = 1

\* Every push is completed by its last chunk and answered, so that each party
\* gets through its rounds, and no chunk stays in a queue: what is not applied
\* in the end waits in msg_map.
AllAnswered ==
  \A p \in Parties :
    Underway(p) = {} /\ \A k \in Keys : round[p][k] = MaxRound /\ awaits[p][k] = {}
EveryPushAnswered == <>[]AllAnswered

\* "critical gradients receive precedence in transmission"
\* (docs/source/accelerator.rst:251): no unimportant chunk is sent while an
\* important one waits in important_queue_.
CriticalFirst ==
  [][\A p \in Parties :
       unimportant_queue_[p] # {} /\ unimportant_queue_'[p] \subseteq unimportant_queue_[p]
         /\ unimportant_queue_'[p] # unimportant_queue_[p]
       => important_queue_[p] = {}]_vars

\* Only "other non-important gradients are transmitted with lower priority and
\* reliability" (docs/source/accelerator.rst:252): the tensor of a push holds
\* every chunk of that push that was sent as important.  It is stated for the
\* messages that are still underway when their push has been accepted.
CriticalInItsPush ==
  \A p \in Parties : \A m \in Underway(p) :
    m.channel = 0 => Len(accepted[m.recver][p][m.key]) < m.round

\* "CHECK_EQ(req_data.keys.size(), (size_t)1)" (kvstore_dist_server.h:1216):
\* a push that a handler is given has one key, the part of the tensor that the
\* server holds.  Send puts the keys of all parts into every message.
OneKeyPerPush ==
  \A g \in Servers : \A i \in inbox[g] : Cardinality(i.keys) = 1
=============================================================================
