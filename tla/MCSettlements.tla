--------------------------- MODULE MCSettlements ---------------------------
(***************************************************************************)
(* Settlements for TLC: interchangeable sessions, agreements and lectures. *)
(***************************************************************************)
EXTENDS Settlements, TLC

Symmetry == Permutations(Sessions) \cup Permutations(Agreements) \cup Permutations(Absences)

=============================================================================
