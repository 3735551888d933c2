----------------------------- MODULE MCTransfer -----------------------------
(***************************************************************************)
(* Transfer on small instances: a course and a dearer one of the same      *)
(* field.                                                                  *)
(***************************************************************************)
EXTENDS Transfer

CONSTANTS short, dear

MCPrice == (short :> 1) @@ (dear :> 2)

MCCategory == (short :> "languages") @@ (dear :> "languages")

Interchangeable == Permutations(Desks)
=============================================================================
