------------------------------- MODULE MCTasks -------------------------------
(***************************************************************************)
(* Tasks for TLC: two users who make one request at a time each.           *)
(***************************************************************************)
EXTENDS Tasks

CONSTANTS s1, s2, u1, u2, i1, d1

MCUserOf == [s \in Sessions |-> IF s = s1 THEN u1 ELSE u2]
=============================================================================
