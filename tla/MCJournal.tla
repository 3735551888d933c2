------------------------------ MODULE MCJournal ------------------------------
(***************************************************************************)
(* Journal on small instances.  No symmetry: EveryRequestEnds is a         *)
(* liveness property.                                                      *)
(***************************************************************************)
EXTENDS Journal

CONSTANTS k1, k2, c1, c2

TwoYears == k1 :> c1 @@ k2 :> c2
=============================================================================
