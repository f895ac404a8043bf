----------------------------- MODULE MCDispatch -----------------------------
(* A user with two connections, and one with one. *)
EXTENDS Dispatch

CONSTANTS t, u, x, y

TwoAndOne == {<<t, x>>, <<t, y>>, <<u, x>>}

=============================================================================
