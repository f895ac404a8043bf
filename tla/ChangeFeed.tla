----------------------------- MODULE ChangeFeed -----------------------------
(***************************************************************************)
(* What a ledger's cursor feed promises its clients, with no cursors,      *)
(* sequence numbers or pages: every client is owed exactly the ids that    *)
(* changed since it was last told about them.                              *)
(***************************************************************************)
EXTENDS FiniteSets

CONSTANTS Ids, Payloads, Gone, Clients

VARIABLES
    view,   \* the live payload of each id, or Gone
    held,   \* per client, what it holds for each id
    owed    \* per client, the ids it has still to be told about

feedVars == <<view, held, owed>>

Init ==
    /\ view = [i \in Ids |-> Gone]
    /\ held = [c \in Clients |-> [i \in Ids |-> Gone]]
    /\ owed = [c \in Clients |-> {}]

(* Some ids change, and every client is owed each of them. *)
Change ==
    /\ view' \in [Ids -> Payloads \cup {Gone}]
    /\ owed' = [c \in Clients |-> owed[c] \cup {i \in Ids : view'[i] # view[i]}]
    /\ UNCHANGED held

(* A client is told the present view of some of what it is owed. *)
Deliver(c) ==
    \E told \in SUBSET owed[c] :
        /\ held' = [held EXCEPT ![c] =
                        [i \in Ids |-> IF i \in told THEN view[i] ELSE @[i]]]
        /\ owed' = [owed EXCEPT ![c] = @ \ told]
        /\ UNCHANGED view

(* A client loses its place and is owed things again. *)
Rewind(c) ==
    \E again \in SUBSET Ids :
        /\ owed' = [owed EXCEPT ![c] = @ \cup again]
        /\ UNCHANGED <<view, held>>

Next == Change \/ \E c \in Clients : Deliver(c) \/ Rewind(c)

Spec == Init /\ [][Next]_feedVars

=============================================================================
