----------------------------- MODULE MCDGCPSync -----------------------------
(***************************************************************************)
(* DGCPSync for TLC: two tenants, so that a run may fail between them, and *)
(* two processes, so that their schedulers meet.                           *)
(***************************************************************************)
EXTENDS DGCPSync, TLC

CONSTANTS t1, t2, c1, c2, w1, w2, u1

(* Codes, tenants and processes differ only in their names where neither   *)
(* Expired nor Unreliable tells them apart.                                *)
MCSymmetry ==
  Permutations(Workers) \cup Permutations(Codes \ Expired)
    \cup Permutations(Tenants \ Unreliable)
=============================================================================
