---------------------------- MODULE MCSnapshots ----------------------------
(* The account's reader beside a client, over the writers of one tenant. *)
EXTENDS Snapshots

CONSTANTS a, b, c

(* At the end of an hour, and in that hour of the next day of two hours.   *)
TwoDays == (a :> 3) @@ (b :> 6) @@ (c :> 0)
=============================================================================
