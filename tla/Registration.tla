---------------------------- MODULE Registration ----------------------------
(***************************************************************************)
(* How the nodes of one party register with its scheduler, and how the     *)
(* scheduler replaces a node that died by one that registers later         *)
(* (3rdparty/ps-lite/src/van.cc).                                          *)
(*                                                                         *)
(* A node is one place of the launch script: a process may die there and   *)
(* be started again, each time with a new address <<node, k>>, k counting  *)
(* its starts (ZMQVan::Bind takes a free port).  An id is <<role, rank>>.  *)
(* The scheduler does not know which node an address belongs to: it sees   *)
(* only its role.  Time is left out: alive holds the ids whose last        *)
(* heartbeat is not older than PS_HEARTBEAT_TIMEOUT.                       *)
(***************************************************************************)
EXTENDS Naturals, FiniteSets, Sequences, Functions

CONSTANTS Servers, Workers,
          Timeout,     \* PS_HEARTBEAT_TIMEOUT is set (its default, 0, finds nobody dead)
          OnTime,      \* heartbeats of a running node never come late
          Patient,     \* a node is started again only after its timeout
          MaxCrashes   \* bound: crashes in a behaviour

VARIABLES starts,     \* starts[n]: how often node n was started
          state,      \* state[n]: "down", "waiting" for ready_, or "ready"
          myId,       \* my_node_.id of the running process of n; {} is kEmpty
          senders,    \* senders[n]: the address n's van sends to, per id
          addNode,    \* ADD_NODE messages on their way to the scheduler
          back,       \* back[n]: the scheduler's answers on their way to n
          nodes,      \* scheduler: addresses registered before it is ready
          byId,       \* scheduler: id -> address, once it is ready
          recovery,   \* scheduler: recovery_nodes, in the order of push_back
          alive,      \* scheduler: ids heard of within the timeout
          aborted     \* scheduler: a CHECK failed

vars == <<starts, state, myId, senders, addNode, back, nodes, byId, recovery, alive, aborted>>

Nodes == Servers \cup Workers
Role(n) == IF n \in Servers THEN "server" ELSE "worker"
Address(n) == <<n, starts[n]>>
RoleIds(r, members) == {r} \X (0 .. Cardinality(members) - 1)
Ids == RoleIds("server", Servers) \cup RoleIds("worker", Workers)
Registered == DOMAIN byId # {}
Crashes == FoldFunction(+, 0, starts) - Cardinality({n \in Nodes : state[n] # "down"})

Init == /\ starts = [n \in Nodes |-> 0]
        /\ state = [n \in Nodes |-> "down"]
        /\ myId = [n \in Nodes |-> {}]
        /\ senders = [n \in Nodes |-> <<>>]
        /\ addNode = {}
        /\ back = [n \in Nodes |-> <<>>]
        /\ nodes = {}
        /\ byId = <<>>
        /\ recovery = <<>>
        /\ alive = {}
        /\ aborted = FALSE

-----------------------------------------------------------------------------
(* The nodes.                                                              *)

\* Van::Start: bind, connect to the scheduler, send ADD_NODE once, and wait.
Start(n) == /\ state[n] = "down"
            /\ starts[n] <= MaxCrashes
            /\ starts[n] > 0 /\ Patient =>
                  \A i \in DOMAIN byId : byId[i] = Address(n) => i \notin alive
            /\ starts' = [starts EXCEPT ![n] = @ + 1]
            /\ state' = [state EXCEPT ![n] = "waiting"]
            /\ addNode' = addNode \cup {<<n, starts[n] + 1>>}
            /\ UNCHANGED <<myId, senders, back, nodes, byId, recovery, alive, aborted>>

\* The process of a ready node dies; what was on its way to it is lost.
Crash(n) == /\ state[n] = "ready"
            /\ Crashes < MaxCrashes
            /\ state' = [state EXCEPT ![n] = "down"]
            /\ myId' = [myId EXCEPT ![n] = {}]
            /\ senders' = [senders EXCEPT ![n] = <<>>]
            /\ back' = [back EXCEPT ![n] = <<>>]
            /\ UNCHANGED <<starts, addNode, nodes, byId, recovery, alive, aborted>>

\* Van::Heartbeat, and ProcessHeartbeat at the scheduler.
Heartbeat(n) == /\ state[n] = "ready"
                /\ ~ aborted
                /\ ~ myId[n] \subseteq alive
                /\ alive' = alive \cup myId[n]
                /\ UNCHANGED <<starts, state, myId, senders, addNode, back, nodes, byId,
                               recovery, aborted>>

\* The timeout of id i passes without a heartbeat.
Expire(i) == /\ Timeout
             /\ i \in alive
             /\ OnTime => \A n \in Nodes : byId[i] = Address(n) => state[n] = "down"
             /\ alive' = alive \ {i}
             /\ UNCHANGED <<starts, state, myId, senders, addNode, back, nodes, byId,
                            recovery, aborted>>

\* ProcessAddNodeCommand at a node: take the id the scheduler gave to this
\* address, connect to the addresses of the message, and become ready.
ReceiveNodes(n) ==
  /\ back[n] # <<>>
  /\ LET list == Head(back[n])
         mine == {i \in DOMAIN list : list[i] = Address(n)}
     IN  /\ myId' = [myId EXCEPT ![n] = IF @ = {} THEN mine ELSE @]
         /\ senders' = [senders EXCEPT ![n] =
                          [i \in DOMAIN list \cup DOMAIN @ |->
                             IF i \in DOMAIN list THEN list[i] ELSE @[i]]]
  /\ back' = [back EXCEPT ![n] = Tail(@)]
  /\ state' = [state EXCEPT ![n] = "ready"]
  /\ UNCHANGED <<starts, addNode, nodes, byId, recovery, alive, aborted>>

-----------------------------------------------------------------------------
(* The scheduler.                                                          *)

\* The process at address a is still there to receive.
Running(a) == starts[a[1]] = a[2] /\ state[a[1]] # "down"

\* Send list[i] to each id i of ids, at the addresses of table.
Answer(table, ids, list) ==
  back' = [n \in Nodes |->
             LET mine == {i \in ids : table[i] = Address(n) /\ Running(table[i])}
             IN  IF mine = {} THEN back[n]
                 ELSE Append(back[n], list[CHOOSE i \in mine : TRUE])]

\* The sort by host and port, then ranks counted up per role: which address
\* gets which rank of its role depends on nothing the model knows.
Assignments(addresses) ==
  {f \in Bijection(Ids, addresses) : \A i \in Ids : i[1] = Role(f[i][1])}

\* nodes grows until everybody has registered.
Collect(a) == /\ Cardinality(nodes) + 1 < Cardinality(Nodes)
              /\ nodes' = nodes \cup {a}
              /\ UNCHANGED <<back, byId, recovery, alive, aborted>>

\* The last node registers: assign the ids and send the list to everybody.
AssignIds(a) == /\ Cardinality(nodes) + 1 = Cardinality(Nodes)
                /\ \E f \in Assignments(nodes \cup {a}) :
                     /\ byId' = f
                     /\ Answer(f, Ids, [i \in Ids |-> f])
                /\ nodes' = nodes \cup {a}
                /\ alive' = Ids
                /\ UNCHANGED <<recovery, aborted>>

\* GetDeadNodes(heartbeat_timeout_).
Dead == IF Timeout THEN Ids \ alive ELSE {}

\* Mutant of Replaced: any id of the role, dead or not.
ReplacedAny(a) == {i \in Ids : i[1] = Role(a[1])}

\* The dead ids that a node of a's role may take over, lowest rank first.
Replaced(a) == LET dead == {i \in Dead : i[1] = Role(a[1])}
               IN  {i \in dead : \A j \in dead : i[2] <= j[2]}

\* Mutant of SendRecovery: only the restarted node is answered.
SendRecoveryAlone(table, queue) ==
  /\ recovery' = queue
  /\ byId' = table
  /\ alive' = alive \cup {queue[1]}
  /\ Answer(table, {queue[1]}, [i \in Ids |-> table])
  /\ UNCHANGED aborted

\* recovery_nodes is not empty: it must hold one node, whose heartbeat is taken
\* as received; that node is sent the whole list, the others that node.
SendRecovery(table, queue) ==
  /\ recovery' = queue
  /\ byId' = table
  /\ IF Len(queue) # 1
     THEN aborted' = TRUE /\ UNCHANGED <<back, alive>>
     ELSE LET r == queue[1]
          IN  /\ alive' = alive \cup {r}
              /\ Answer(table, (Ids \ Dead) \cup {r},
                        [i \in Ids |-> IF i = r THEN table ELSE [j \in {r} |-> table[r]]])
              /\ UNCHANGED aborted

\* "some node dies and restarts": the newcomer replaces a dead node of its
\* role, if there is one; recovery_nodes keeps what earlier calls pushed.
Recover(a) ==
  /\ Registered
  /\ \/ \E i \in Replaced(a) : SendRecovery([byId EXCEPT ![i] = a], Append(recovery, i))
     \/ Replaced(a) = {} /\ recovery # <<>> /\ SendRecovery(byId, recovery)
     \/ Replaced(a) = {} /\ recovery = <<>> /\ UNCHANGED <<back, byId, recovery, alive, aborted>>
  /\ UNCHANGED nodes

\* ProcessAddNodeCommand at the scheduler.
AddNode(a) == /\ a \in addNode
              /\ ~ aborted
              /\ addNode' = addNode \ {a}
              /\ Collect(a) \/ AssignIds(a) \/ Recover(a)
              /\ UNCHANGED <<starts, state, myId, senders>>

Next == \/ \E n \in Nodes : Start(n) \/ Crash(n) \/ Heartbeat(n) \/ ReceiveNodes(n)
        \/ \E i \in DOMAIN byId : Expire(i)
        \/ \E a \in addNode : AddNode(a)

Spec == Init /\ [][Next]_vars

\* The threads run, the messages arrive, and a node that is down is started
\* (again); heartbeats and timeouts come as they may, except that the timeout of
\* a node that stays down passes.
Fairness == /\ \A n \in Nodes : WF_vars(Start(n)) /\ WF_vars(ReceiveNodes(n))
            /\ WF_vars(\E a \in addNode : AddNode(a))
            /\ \A i \in Ids : WF_vars(i \in DOMAIN byId /\ Expire(i))

FairSpec == Spec /\ Fairness

-----------------------------------------------------------------------------
(* Properties.                                                             *)

TypeOK == /\ starts \in [Nodes -> 0 .. MaxCrashes + 1]
          /\ state \in [Nodes -> {"down", "waiting", "ready"}]
          /\ \A n \in Nodes : myId[n] \subseteq RoleIds(Role(n),
                                IF n \in Servers THEN Servers ELSE Workers)
          /\ \A a \in nodes \cup addNode : a[1] \in Nodes /\ a[2] <= starts[a[1]]
          /\ DOMAIN byId \in {{}, Ids}
          /\ alive \subseteq DOMAIN byId
          /\ Range(recovery) \subseteq Ids
          /\ aborted \in BOOLEAN

\* No two running processes hold one id: van.cc addresses by id alone, so a
\* second holder would draw off the messages of the first.
UniqueIds == \A m, n \in Nodes : m # n => myId[m] \cap myId[n] = {}

\* Whenever nothing is on its way, every ready node sends to the present address
\* of every ready node: the lists of AssignIds and SendRecovery, taken in the order
\* ReceiveNodes gets them, leave no node connected to a dead predecessor.
Settled == addNode = {} /\ \A n \in Nodes : back[n] = <<>>
SameAddresses ==
  Settled => \A m, n \in Nodes : state[m] = "ready" /\ state[n] = "ready" =>
               \A i \in myId[n] : i \in DOMAIN senders[m] /\ senders[m][i] = Address(n)

\* A node that restarts gets the id it had ("assign previous node id",
\* van.cc:183): an id never moves to a process of another node.
KeepsIds == \A i \in DOMAIN byId : byId'[i][1] = byId[i][1]
IdStaysWithNode == [][KeepsIds]_vars

\* recovery_nodes holds one node when the scheduler sends it
\* (CHECK_EQ(recovery_nodes->control.node.size(), 1), van.cc:94).
OneRecoveryNode == ~ aborted

\* Every process that waits in Van::Start for ready_ becomes ready (only ready
\* ones crash): at the start, and again when a node dies and restarts (van.cc:176).
NobodyWaits == \A n \in Nodes : state[n] # "waiting"
WaitingBecomesReady == []<>NobodyWaits

=============================================================================
