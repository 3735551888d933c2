------------------------------ MODULE MCTill ------------------------------
(***************************************************************************)
(* Till on a small instance: two receipts, two voucher numbers, and two    *)
(* users who both take payments.  The cashier of the day has been made a   *)
(* manager since, and may sign closings; the other decides voids and signs *)
(* closings.                                                               *)
(***************************************************************************)
EXTENDS Till, TLC

CONSTANTS r1, r2

MCAmount == [r \in {r1, r2} |-> 1]

Interchangeable == Permutations(Sessions) \cup Permutations(Refs) \cup Permutations(Receipts)
=============================================================================
