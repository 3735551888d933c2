------------------------------ MODULE Listing -------------------------------
(***************************************************************************)
(* Rows that one commit writes, one for each index of a set of numbers.    *)
(***************************************************************************)
EXTENDS Integers, FiniteSets

Ascending(S) == [k \in 1 .. Cardinality(S) |-> CHOOSE i \in S : Cardinality({j \in S : j <= i}) = k]

(***************************************************************************)
(* The values of f in the order of their indexes.                          *)
(***************************************************************************)
Listed(f) == LET at == Ascending(DOMAIN f) IN [k \in DOMAIN at |-> f[at[k]]]
=============================================================================
