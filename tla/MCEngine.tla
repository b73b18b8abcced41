------------------------------ MODULE MCEngine ------------------------------
(***************************************************************************)
(* Programs for the engine: four processes, of which one runs.             *)
(***************************************************************************)
EXTENDS Engine, TLC

CONSTANTS s1, s2, a1, f1, f2, d1, d2, x, y

Do(reads, writes) == [call |-> "push", const_vars |-> reads, mutable_vars |-> writes]
Await(v) == [call |-> "wait", const_vars |-> <<v>>, mutable_vars |-> <<>>]
AwaitAll == [call |-> "waitall", const_vars |-> <<>>, mutable_vars |-> <<>>]

MCThread == {s1, s2, a1, f1, f2, d1, d2}
MCProcess == {{s1, s2}, {a1}, {f1, f2}, {d1, d2}}
MCVar == {x, y}

MCProgram ==
  \* The receive threads of a server: one replaces x, adds it to y and waits;
  \* the other copies x out and adds to x.
  s1 :> <<Do(<<>>, <<x>>), Do(<<x>>, <<y>>), Await(y)>>
  @@ s2 :> <<Await(x), Do(<<x>>, <<>>), Do(<<>>, <<x>>)>>
  \* One thread with reads and writes in all orders; the first one fails.
  @@ a1 :> <<Do(<<>>, <<x, y>>), Do(<<x>>, <<>>), Do(<<y>>, <<x>>), Await(x),
             Do(<<x>>, <<y>>), Await(y), AwaitAll>>
  \* A failure that reaches two variables and two waiting threads.
  @@ f1 :> <<Do(<<>>, <<x>>), Do(<<x>>, <<y>>), Await(y), Await(x)>>
  @@ f2 :> <<Await(x), Await(y)>>
  \* Two failures, of which the second may take the place of the first.
  @@ d1 :> <<Do(<<>>, <<x>>), Do(<<y>>, <<x>>), Await(x)>>
  @@ d2 :> <<Do(<<>>, <<y>>), Await(y)>>

MCFailing == {<<a1, 1>>, <<f1, 1>>, <<d1, 1>>, <<d2, 1>>}
=============================================================================
