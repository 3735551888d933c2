------------------------- MODULE MCOpeningBalance -------------------------
(***************************************************************************)
(* OpeningBalance on a small instance: one balance, two requests in flight,*)
(* two finance officers and a third user who holds both roles (promoted    *)
(* between two steps, or a second account).                                *)
(***************************************************************************)
EXTENDS OpeningBalance, TLC

CONSTANTS u1, u2, u3

MCOfficers == {u1, u2, u3}
MCManagers == {u3}

Interchangeable == Permutations({u1, u2}) \cup Permutations(Callers)
=============================================================================
