----------------------------- MODULE MCCatalogue -----------------------------
(***************************************************************************)
(* Catalogue on small instances.                                           *)
(***************************************************************************)
EXTENDS Catalogue

Interchangeable == Permutations(Semesters) \cup Permutations(Workers)
=============================================================================
