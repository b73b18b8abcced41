------------------------------- MODULE Channel -------------------------------
(***************************************************************************)
(* What PS_RESEND promises to the code above the van: every message that   *)
(* was sent is handed to the receiver's handlers, once, in any order,      *)
(* unless one of the two processes has aborted.                            *)
(***************************************************************************)
EXTENDS Naturals

CONSTANTS Msg,       \* the messages to be sent
          Node,      \* the processes
          From, To   \* sender and receiver of a message

VARIABLES sent,      \* the messages given to the van
          delivered, \* how often a message was handed to the handlers
          failed     \* the processes that have aborted

vars == <<sent, delivered, failed>>

Init ==
  /\ sent = {}
  /\ delivered = [m \in Msg |-> 0]
  /\ failed = {}

Send(m) ==
  /\ m \notin sent
  /\ sent' = sent \cup {m}
  /\ UNCHANGED <<delivered, failed>>

Deliver(m) ==
  /\ m \in sent
  /\ delivered[m] = 0
  /\ delivered' = [delivered EXCEPT ![m] = 1]
  /\ UNCHANGED <<sent, failed>>

Fail(n) ==
  /\ failed' = failed \cup {n}
  /\ UNCHANGED <<sent, delivered>>

Next ==
  \/ \E m \in Msg : Send(m) \/ Deliver(m)
  \/ \E n \in Node : Fail(n)

SafeSpec == Init /\ [][Next]_vars

Lost(m) == From[m] \in failed \/ To[m] \in failed

Spec == SafeSpec /\ \A m \in Msg : WF_vars(~Lost(m) /\ Deliver(m))
=============================================================================
