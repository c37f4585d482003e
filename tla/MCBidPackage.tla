---------------------------- MODULE MCBidPackage ----------------------------
(***************************************************************************)
(* BidPackage for TLC: a certificate with an expiry date and the economic  *)
(* offer, or an SNCC form, are enough to reach every status of an item.    *)
(***************************************************************************)
EXTENDS BidPackage, TLC

CONSTANTS tss, sncc, econ, d1, d2, s1, s2

MCKind == [r \in Reqs |-> CASE r = tss -> "vigencia"
                            [] r = sncc -> "sncc"
                            [] r = econ -> "economica"]


(* Every analysis extracts all the requirements. *)
MCAll == {Reqs}

(* Requests differ only in their names. *)
MCSymmetry == Permutations(Sessions)
=============================================================================
