----------------------------- MODULE MCAccount -----------------------------
(***************************************************************************)
(* Account on small instances: a course with a registration fee, tuition   *)
(* and a deposit, in units of money that let a payment end inside a line,  *)
(* at its edge, and beyond the last one.                                   *)
(***************************************************************************)
EXTENDS Account

Line(type, gross, shareable) == [type |-> type, gross |-> gross, shareable |-> shareable]

MCQuote == <<Line("TUITION", 2, TRUE), Line("DEPOSIT", 2, FALSE)>>

MCQuoteRegistered == <<Line("REGISTRATION", 1, FALSE), Line("TUITION", 2, TRUE)>>

MCFees == {Line("EXTRA_FEE", 1, FALSE)}

Interchangeable == Permutations(Sessions) \cup Permutations(Years)
=============================================================================
