----------------------------- MODULE Snapshots -----------------------------
(***************************************************************************)
(* Auradefi._account_transactions: the transactions of one account,        *)
(* collected from the tenant's feed page by page while the tenant's        *)
(* writers go on (Ledger), and counted by scalar_metrics.  A page is a     *)
(* call of sync; between two calls the ledger may change.                  *)
(***************************************************************************)
EXTENDS Ledger, SequencesExt

CONSTANTS
    Account,    \* the ids whose account_id is the one asked for
    PageLimit,  \* sync's default limit
    InitiatedAt,    \* when each transaction was initiated
    HourLength,     \* an hour, in the unit of InitiatedAt
    HoursPerDay

ASSUME AccountHolds == Account \subseteq Ids
ASSUME PageLimitPositive == PageLimit \in Nat \ {0}
ASSUME Hourly == /\ InitiatedAt \in [Ids -> Nat]
                 /\ HourLength \in Nat \ {0} /\ HoursPerDay \in Nat \ {0}

VARIABLES
    snapshot,   \* the collection in progress: [stage, since, found]
    touched     \* history: the account's ids written since it began

snapshotVars == <<snapshot, touched>>
allVars == <<vars, snapshotVars>>

SnapshotInit ==
    /\ snapshot = [stage |-> "idle", since |-> 0, found |-> <<>>]
    /\ touched = {}

BeginSnapshot ==
    /\ snapshot.stage = "idle"
    /\ snapshot' = [snapshot EXCEPT !.stage = "paging"]
    /\ UNCHANGED <<vars, touched>>

(* Removed rows are collected with the rest. *)
KeptFault(id) == id \in Account

(* An ADDED event of the account. *)
Kept(id) == id \in Account /\ ~rows[id].removed

(* A page's rows in the order of the feed. *)
Ordered(page) ==
    CHOOSE list \in SetToSeqs(page) :
        \A j, k \in DOMAIN list : j < k => rows[list[j]].seq < rows[list[k]].seq

SnapshotPage ==
    LET page == Page(rows, snapshot.since, PageLimit)
        kept == Ordered({i \in page : Kept(i)})
    IN
    /\ snapshot.stage = "paging"
    /\ \E next \in {snapshot.since} \cup {rows[i].seq : i \in DOMAIN rows} :
        /\ IsNextCursor(rows, snapshot.since, PageLimit, next)
        /\ snapshot' =
            [stage |-> IF HasMore(rows, snapshot.since, PageLimit) THEN "paging" ELSE "done",
             since |-> next,
             found |-> snapshot.found
                       \o [k \in DOMAIN kept |->
                              [id |-> kept[k], payload |-> rows[kept[k]].payload]]]
    /\ UNCHANGED <<vars, touched>>

(* The hour of the day, in UTC, whatever the day.                          *)
Hour(at) == (at \div HourLength) % HoursPerDay

(* scalar_metrics, less the value of the holdings, which Valuation models. *)
ScalarMetrics(transactions) ==
    [transaction_count |-> Len(transactions),
     tx_count_hour |-> [h \in 0 .. HoursPerDay - 1 |->
         Cardinality({k \in DOMAIN transactions : Hour(InitiatedAt[transactions[k].id]) = h})]]

Rewritten == {i \in Account \cap DOMAIN rows' : i \notin DOMAIN rows \/ rows'[i] # rows[i]}

FeedStep ==
    /\ FeedNext
    /\ touched' = IF snapshot.stage # "idle" THEN touched \cup Rewritten ELSE touched
    /\ UNCHANGED snapshot

SnapshotNext == FeedStep \/ BeginSnapshot \/ SnapshotPage

SnapshotSpec ==
    /\ Init /\ SnapshotInit
    /\ [][SnapshotNext]_allVars
    /\ \A c \in Clients : WF_vars(\E limit \in 1 .. MaxLimit : Pull(c, limit))

-----------------------------------------------------------------------------
Places(i) == {k \in DOMAIN snapshot.found : snapshot.found[k].id = i}

(* The hours of a day part the account's live transactions, each counted   *)
(* in the hour it was initiated in, provided none was written meanwhile.   *)
MetricsExact ==
    LET live == {i \in Account : View(rows, i) # Gone}
        metrics == ScalarMetrics(snapshot.found)
        During(h) == {i \in live : \E day \in 0 .. InitiatedAt[i] :
                         LET start == (day * HoursPerDay + h) * HourLength
                         IN InitiatedAt[i] \in start .. start + HourLength - 1}
    IN touched = {} =>
           /\ metrics.transaction_count = Cardinality(live)
           /\ \A h \in DOMAIN metrics.tx_count_hour :
                  metrics.tx_count_hour[h] = Cardinality(During(h))

(* What is collected is exact for every transaction of the account that    *)
(* has not been written since: once, with its payload, if it is live and   *)
(* not at all otherwise, wherever the others move in the feed.  (One that  *)
(* was written may be there twice, or be there although it is gone.)  So   *)
(* are the metrics made of it: see MetricsExact.                           *)
SnapshotExact ==
    snapshot.stage = "done" =>
        /\ \A k \in DOMAIN snapshot.found : snapshot.found[k].id \in Account
        /\ \A i \in Account \ touched :
               IF View(rows, i) = Gone THEN Places(i) = {}
               ELSE \E k \in Places(i) :
                       /\ Places(i) = {k}
                       /\ snapshot.found[k].payload = View(rows, i)
        /\ MetricsExact

=============================================================================
