----------------------------- MODULE MCResender -----------------------------
(***************************************************************************)
(* A worker, of local id 101, sends two requests to its server, of id 100, *)
(* which may be ready only after the first of them has come.               *)
(***************************************************************************)
EXTENDS Resender, TLC

CONSTANTS w, s, a, b

Worker == [m \in Msg |-> w]
Server == [m \in Msg |-> s]
AllLocal == [m \in Msg |-> "local"]
WorkerId == [m \in Msg |-> 101]
ServerId == [m \in Msg |-> 100]
Times == a :> 1 @@ b :> 3
=============================================================================
