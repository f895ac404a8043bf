---------------------------- MODULE MCSyncEngine ----------------------------
(* The sync of one connection, as an instance for TLC. *)
EXTENDS SyncEngine, TLC

Symmetry == Permutations(Workers)

=============================================================================
