------------------------------ MODULE Dispatch ------------------------------
(***************************************************************************)
(* The embedded library as a host runs it (auradefi.embed: the facade, its *)
(* user handles, the state store and the shared budget).  Host threads     *)
(* connect addresses; a timer ticks over every connection the store knows, *)
(* and a user's handle over that user's; each tick visits connections      *)
(* until its budget is spent, and one that raises becomes a failure row.   *)
(*                                                                         *)
(* What happens inside one connection is SyncEngine; here a visit is the   *)
(* number of page requests it makes, whether it raises, and whether it     *)
(* persisted a page first.  Time is counted in ticks of the timer.         *)
(***************************************************************************)
EXTENDS Integers, Sequences, FiniteSets, SequencesExt

CONSTANTS
    Connections,    \* what may be connected: <<tenant, address on a chain>>
    Hosts,          \* threads that connect addresses
    Budget,         \* page requests one tick may spend
    Interval,       \* ticks in sync_min_interval_s
    MaxMishaps      \* bound: raising visits that a tick may not expect

(* A tenant is derived from a user's opaque id, and a connection's id from *)
(* its tenant, its chain and its address, however that is spelled: so each *)
(* is here the value it is derived from.                                   *)
Tenants == {c[1] : c \in Connections}

Addresses == {c[2] : c \in Connections}

ASSUME Pairings == \A c \in Connections : c = <<c[1], c[2]>>
ASSUME Sizes == Budget \in Nat \ {0} /\ Interval \in Nat \ {0}
ASSUME MishapBound == MaxMishaps \in Nat

VARIABLES
    tenants,    \* those with a connection, first seen first
    records,    \* a tenant's addresses, in order of creation
    connecting, \* the connect_address of a host thread, or Resting
    broken,     \* connections whose every request raises
    age,        \* ticks since a connection persisted a page, up to Interval
    tick,       \* the running tick, or Resting
    requests,   \* page requests the source has had in this tick
    quiet,      \* the last report's no_op, if the last tick made one
    mishaps     \* visits of a sound connection that raised, and ticks that died

vars == <<tenants, records, connecting, broken, age, tick, requests, quiet, mishaps>>

Resting == [running |-> FALSE]

(* What ConnectionSyncReport accepts: a no-op did nothing and cannot fail. *)
Coherent(row) == row.no_op => row.pages = 0 /\ ~row.failed

(* A ConnectionSyncReport: what its row says of the visit. *)
Reports ==
    {row \in [connection : Connections, no_op : BOOLEAN, failed : BOOLEAN, pages : 0..Budget] :
        Coherent(row)}

(* The store knows a tenant once, and a tenant an address once, whatever   *)
(* connects overlap; a tenant is known when it has a connection.           *)
TypeOK ==
    /\ tenants \in Seq(Tenants) /\ IsInjective(tenants)
    /\ records \in [Tenants -> Seq(Addresses)]
    /\ \A t \in Tenants :
           IsInjective(records[t]) /\ (records[t] # << >> <=> t \in ToSet(tenants))
    /\ connecting \in [Hosts -> {Resting} \cup
           [running : {TRUE}, connection : Connections, probed : BOOLEAN]]
    /\ broken \subseteq Connections
    /\ age \in [Connections -> 0..Interval]
    /\ tick = Resting \/
        /\ tick.running
        /\ tick.pairs \in Seq(Connections)
        /\ tick.visited \in 0..Len(tick.pairs)
        /\ tick.remaining \in 0..Budget
        /\ tick.rows \in Seq(Reports)
    /\ requests \in Nat
    /\ quiet \in BOOLEAN
    /\ mishaps \in 0..MaxMishaps

(* Fewer broken connections than a tick has units of budget: the rest of  *)
(* the budget reaches their siblings.                                      *)
Init ==
    /\ tenants = << >>
    /\ records = [t \in Tenants |-> << >>]
    /\ connecting = [h \in Hosts |-> Resting]
    /\ broken \in {S \in SUBSET Connections : Cardinality(S) < Budget}
    /\ age = [c \in Connections |-> Interval]
    /\ tick = Resting
    /\ requests = 0
    /\ quiet = FALSE
    /\ mishaps = 0

-----------------------------------------------------------------------------
(* connect_address. *)

Known(c) == c[2] \in ToSet(records[c[1]])

(* A connection that is there is a conflict, and costs no request. *)
Connect(h, c) ==
    /\ connecting[h] = Resting
    /\ ~Known(c)
    /\ connecting' = [connecting EXCEPT
           ![h] = [running |-> TRUE, connection |-> c, probed |-> FALSE]]
    /\ UNCHANGED <<tenants, records, broken, age, tick, requests, quiet, mishaps>>

(* The probe is one request; when it raises nothing is stored.  A row that *)
(* will not decode does not trouble it.                                    *)
Probe(h) ==
    /\ connecting[h] # Resting /\ ~connecting[h].probed
    /\ \E raises \in BOOLEAN :
           connecting' = [connecting EXCEPT
               ![h] = IF raises THEN Resting ELSE [@ EXCEPT !.probed = TRUE]]
    /\ UNCHANGED <<tenants, records, broken, age, tick, requests, quiet, mishaps>>

(* The store does not look again (faults as in Ledger). *)
RegisterUncheckedFault(list, a) == Append(list, a)

(* A record that came meanwhile is kept, and the caller has a conflict. *)
Register(list, a) == IF a \in ToSet(list) THEN list ELSE Append(list, a)

AddConnection(h) ==
    /\ connecting[h] # Resting /\ connecting[h].probed
    /\ LET c == connecting[h].connection IN
        /\ records' = [records EXCEPT ![c[1]] = Register(@, c[2])]
        /\ tenants' = IF c[1] \in ToSet(tenants) THEN tenants ELSE Append(tenants, c[1])
    /\ connecting' = [connecting EXCEPT ![h] = Resting]
    /\ UNCHANGED <<broken, age, tick, requests, quiet, mishaps>>

storeVars == <<tenants, records, connecting>>

-----------------------------------------------------------------------------
Smaller(a, b) == IF a < b THEN a ELSE b

(* A user's pairs, in order of creation. *)
PairsOf(t) == [k \in DOMAIN records[t] |-> <<t, records[t][k]>>]

(* Everybody's, tenant by tenant: not in order of creation across tenants. *)
Pairs == FlattenSeq([k \in DOMAIN tenants |-> PairsOf(tenants[k])])

StartTick(pairs) ==
    /\ tick = Resting
    /\ tick' = [running |-> TRUE, pairs |-> pairs, visited |-> 0,
                remaining |-> Budget, rows |-> << >>]
    /\ requests' = 0
    /\ UNCHANGED <<storeVars, broken, quiet, mishaps>>

(* The host's timer. *)
Begin ==
    /\ StartTick(Pairs)
    /\ age' = [c \in Connections |-> Smaller(age[c] + 1, Interval)]

(* A user's own sync. *)
BeginUser(t) ==
    /\ StartTick(PairsOf(t))
    /\ UNCHANGED age

Visiting(c) ==
    /\ tick # Resting
    /\ tick.remaining > 0
    /\ tick.visited < Len(tick.pairs)
    /\ c = tick.pairs[tick.visited + 1]

Throttled(c) == age[c] < Interval

(* A visit adds its row and is charged `cost` of the budget. *)
Charge(rows, cost) ==
    tick' = [tick EXCEPT !.visited = @ + 1, !.remaining = @ - cost, !.rows = @ \o rows]

(* Inside the interval: no request, no write, a no-op row. *)
Throttle(c) ==
    /\ Visiting(c)
    /\ Throttled(c)
    /\ Charge(<<[connection |-> c, no_op |-> TRUE, failed |-> FALSE, pages |-> 0]>>, 0)
    /\ UNCHANGED <<storeVars, broken, age, requests, quiet, mishaps>>

(* A sync that does not raise makes at least one request. *)
Synced(c) ==
    /\ Visiting(c)
    /\ ~Throttled(c)
    /\ c \notin broken
    /\ \E pages \in 1..tick.remaining :
        /\ Charge(<<[connection |-> c, no_op |-> FALSE, failed |-> FALSE,
                     pages |-> pages]>>, pages)
        /\ requests' = requests + pages
    /\ age' = [age EXCEPT ![c] = 0]
    /\ UNCHANGED <<storeVars, broken, quiet, mishaps>>

(* A failed connection has no row. *)
FailureRowsFault(c) == << >>

FailureRows(c) == <<[connection |-> c, no_op |-> FALSE, failed |-> TRUE, pages |-> 0]>>

(* A failed connection is charged everything that is left. *)
FailureCostAllFault(remaining) == remaining

FailureCost(remaining) == 1

(* The last of some requests raises; the pages before it are persisted. *)
Breaks(c) ==
    /\ Visiting(c)
    /\ ~Throttled(c)
    /\ \E made \in 1..tick.remaining :
        /\ c \in broken => made = 1
        /\ requests' = requests + made
        /\ age' = IF made > 1 THEN [age EXCEPT ![c] = 0] ELSE age
    /\ UNCHANGED <<storeVars, broken>>

Mishap ==
    /\ mishaps < MaxMishaps
    /\ mishaps' = mishaps + 1

(* An AuradefiError is contained: a failure row, and on to the next one. *)
Raises(c) ==
    /\ Breaks(c)
    /\ IF c \in broken THEN UNCHANGED mishaps ELSE Mishap
    /\ Charge(FailureRows(c), FailureCost(tick.remaining))
    /\ UNCHANGED quiet

(* Any other exception propagates: the tick is over, and nobody has a report. *)
Propagates(c) ==
    /\ Breaks(c)
    /\ Mishap
    /\ tick' = Resting
    /\ quiet' = FALSE

(* Out of budget or of connections: the report is assembled. *)
End ==
    /\ tick # Resting
    /\ tick.remaining = 0 \/ tick.visited = Len(tick.pairs)
    /\ quiet' = \A k \in DOMAIN tick.rows : tick.rows[k].no_op
    /\ tick' = Resting
    /\ UNCHANGED <<storeVars, broken, age, requests, mishaps>>

Visit(c) == Throttle(c) \/ Synced(c) \/ Raises(c) \/ Propagates(c)

Ticks == Begin \/ (\E t \in Tenants : BeginUser(t)) \/ End \/ \E c \in Connections : Visit(c)

Connects ==
    \E h \in Hosts : Probe(h) \/ AddConnection(h) \/ \E c \in Connections : Connect(h, c)

Next == Ticks \/ Connects

Spec == Init /\ [][Next]_vars

(* The host's timer keeps ticking, whoever syncs between two ticks, and a  *)
(* tick gets on.                                                           *)
FairSpec ==
    /\ Spec
    /\ SF_vars(Begin)
    /\ WF_vars(End \/ \E c \in Connections : Visit(c))

-----------------------------------------------------------------------------
(* A quiet tick left nothing undone: every connection the store had for it *)
(* when it began was visited, and was inside its interval.  A failure, or  *)
(* a connection past the end of the budget, is never reported as quiet     *)
(* (SyncReport.no_op).                                                     *)
QuietMeansAllThrottled ==
    [][(tick # Resting /\ tick' = Resting /\ quiet') =>
        /\ tick.visited = Len(tick.pairs)
        /\ \A k \in DOMAIN tick.pairs : Throttled(tick.pairs[k])]_vars

(* Every connection that can be synced is synced again and again, whatever *)
(* its siblings do and whoever else is synced: the throttle hands the      *)
(* budget on, and nobody who connects late is left out.                    *)
SiblingsSynced ==
    \A c \in Connections : []<>(~Known(c) \/ c \in broken \/ age[c] = 0)

(* `sync(budget=n)` makes at most n history page requests. *)
TickWithinBudget == requests <= Budget

=============================================================================
