------------------------------- MODULE MCMail -------------------------------
(***************************************************************************)
(* Mail for TLC: two requests at a time, each of a server process of its   *)
(* own, of a user who may connect the mailbox that is monitored as well.   *)
(***************************************************************************)
EXTENDS Mail

CONSTANTS s1, s2, u1, a1, m1, m2

MCUserOf == [s \in Sessions |-> u1]
MCWorkerOf == [s \in Sessions |-> IF s = s1 THEN 1 ELSE 2]
MCAddressOf == [u \in Users |-> a1]
=============================================================================
