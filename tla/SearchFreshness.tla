--------------------------- MODULE SearchFreshness ---------------------------
(***************************************************************************)
(* What the search promises about the age of its answers: an answer has    *)
(* results of some sources, and when it is shown none of them is older     *)
(* than the bound of its source.                                           *)
(***************************************************************************)
EXTENDS Integers

CONSTANTS Sources,
          Bound       \* age below which the results of a source stay

VARIABLES now,
          shown       \* the results of the answer that was just given

Result == [source : Sources, at : Nat]

Init == now = 0 /\ shown = {}

Tick == now' = now + 1 /\ shown' = {}

(* An answer is given, or nothing is. *)
Show ==
  /\ shown' \in SUBSET Result
  /\ \A p \in shown' : p.at <= now /\ now < p.at + Bound[p.source]
  /\ UNCHANGED now

Next == Tick \/ Show

Spec == Init /\ [][Next]_<<now, shown>>
=============================================================================
