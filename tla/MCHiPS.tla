------------------------------- MODULE MCHiPS -------------------------------
(***************************************************************************)
(* Instances of HiPS for TLC.  PartyOf, Rank0 and ShardsOf are given as    *)
(* functions over the model values of each configuration.                  *)
(***************************************************************************)
EXTENDS HiPSImplementsBSP, TLC

CONSTANTS w1, w2, w3, p1, p2, g1, g2

\* Two workers in the first party and one in the second; one tensor large
\* enough to be spread over both global servers.
PartyOf21 == w1 :> p1 @@ w2 :> p1 @@ w3 :> p2
Rank21 == p1 :> w1 @@ p2 :> w3
OneBigKey == 0 :> {g1, g2}

\* One party; key 0 small, on the second server; key 1 large.
PartyOf2 == w1 :> p1 @@ w2 :> p1
Rank2 == p1 :> w1
SmallAndBig == 0 :> {g2} @@ 1 :> {g1, g2}

\* Two parties of one worker.
PartyOf11 == w1 :> p1 @@ w2 :> p2
Rank11 == p1 :> w1 @@ p2 :> w2
=============================================================================
