------------------------------ MODULE MCPeriods ------------------------------
(***************************************************************************)
(* Periods on small instances.                                             *)
(***************************************************************************)
EXTENDS Periods

Interchangeable == Permutations(Staff) \cup Permutations(Workers)
=============================================================================
