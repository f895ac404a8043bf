------------------------------ MODULE MCLedger ------------------------------
(* The ledger's instance for TLC, and the feed it implements. *)
EXTENDS Ledger, TLC

Symmetry == Permutations(Ids) \cup Permutations(Clients)

=============================================================================
