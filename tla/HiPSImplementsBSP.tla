-------------------------- MODULE HiPSImplementsBSP --------------------------
(***************************************************************************)
(* HiPS implements BSP.  The versions are read off the contents of the     *)
(* arrays: the version of a key is the number of complete iterations in    *)
(* the shard that has the fewest, and what a worker sees is what its last  *)
(* pull left in its parameter.                                             *)
(***************************************************************************)
EXTENDS HiPS

\* The iterations of which every shard of array x has all gradients.
Complete(k, x) ==
  {r \in 1 .. MaxRound : \A g \in ShardsOf[k], w \in Worker : x[g][<<w, r>>] > 0}

Version(k) == Cardinality(Complete(k, [g \in ShardsOf[k] |-> store_[g][k]]))

\* The n with x = Weight(n) on every shard; an array that is no version of the
\* key at all counts as Nothing.
Iterations(k, x) ==
  LET n == Cardinality(Complete(k, x)) IN IF x = Fill(k, Weight(n)) THEN n ELSE -1

Abstract == INSTANCE BSP WITH
  version <- [k \in Key |-> Version(k)],
  contrib <- [k \in Key |-> LET next == Version(k) + 1 IN {w \in Worker : round[w][k] = next}],
  view <- [w \in Worker |-> [k \in Key |-> Iterations(k, pulled[w][k])]]

\* Hierarchical aggregation over two levels, sharding and two threads per server
\* are invisible to the script: every step of HiPS is a step of BSP or changes
\* nothing that BSP can see.
ImplementsBSP == Abstract!Spec
=============================================================================
