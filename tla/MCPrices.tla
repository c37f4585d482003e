------------------------------ MODULE MCPrices ------------------------------
(***************************************************************************)
(* Prices for TLC: two users synchronize a folder that holds two files at  *)
(* first.                                                                  *)
(***************************************************************************)
EXTENDS Prices

CONSTANTS a, b, broken, s1, s2

MCInit == Init /\ disk = [p \in Paths |-> a]
MCSpec == MCInit /\ [][Next]_vars /\ Fairness
=============================================================================
