------------------------------ MODULE MCSearch ------------------------------
(***************************************************************************)
(* Search for TLC: a tick is about five minutes.                           *)
(***************************************************************************)
EXTENDS Search, TLC

CONSTANTS s1, s2, c1, c2

MCSliceTTL == [k \in Slices |-> 1]
MCSymmetry == Permutations(Sessions)
=============================================================================
