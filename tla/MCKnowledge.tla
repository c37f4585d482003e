----------------------------- MODULE MCKnowledge -----------------------------
(***************************************************************************)
(* Knowledge for TLC: a document that expires on the first day and one     *)
(* that expires on the next.                                               *)
(***************************************************************************)
EXTENDS Knowledge, TLC

CONSTANTS s1, s2, p1, p2, old, new

MCUntilOf == [v \in Versions |-> IF v = old THEN 0 ELSE 1]
MCSymmetry == Permutations(Sessions)
=============================================================================
