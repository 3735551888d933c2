----------------------------- MODULE MCOfferings -----------------------------
(***************************************************************************)
(* Offerings on small instances.                                           *)
(***************************************************************************)
EXTENDS Offerings

Interchangeable == Permutations(Partners) \cup Permutations(Sessions)
=============================================================================
