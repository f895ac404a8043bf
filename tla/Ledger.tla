------------------------------- MODULE Ledger -------------------------------
(***************************************************************************)
(* One tenant's ledger behind LedgerPort (auradefi.ledger): upsert,        *)
(* mark_removed and apply_reorg on the writing side, cursor paging (sync)  *)
(* on the reading side, and the clients that mirror the ledger by paging.  *)
(*                                                                         *)
(* Every call of the port selects one tenant's store first, so the module  *)
(* describes one tenant.  A call is one step: the SQL backend runs it in   *)
(* one transaction and documents a single writer; of the in-memory one the *)
(* host is assumed not to write while another of its calls runs.           *)
(* A call that raises (duplicate ids in a batch, an unknown id) changes    *)
(* nothing and is therefore no step: its condition is a guard.             *)
(*                                                                         *)
(* A cursor is the sequence number its 20-digit token encodes.             *)
(***************************************************************************)
EXTENDS Integers, Sequences, FiniteSets

CONSTANTS
    Ids,        \* transaction ids (a hash of chain, tx hash and account)
    Blocks,     \* block numbers
    Pending,    \* the block_number None of a transaction not yet mined
    Data,       \* the rest of the payload that payload_equal compares
    Gone,       \* what a client holds for an id that is not live
    Clients,    \* readers, each with a persisted cursor
    MaxBatch,   \* bound: transactions in one call
    MaxLimit,   \* bound: page limit of a sync call
    MaxSeq      \* bound: the writers stop once this sequence number is used

Payloads == [block : Blocks \cup {Pending}, data : Data]
Txns == [id : Ids, payload : Payloads]
Row == [payload : Payloads, removed : BOOLEAN, seq : Nat \ {0}]

ASSUME IdsFinite == IsFiniteSet(Ids)
ASSUME BlocksAreNumbers == Blocks \subseteq Nat /\ Pending \notin Blocks
ASSUME GoneIsNoPayload == Gone \notin Payloads
ASSUME Bounds == MaxBatch \in Nat /\ MaxLimit \in Nat /\ MaxSeq \in Nat

(* Batches in call order: sequences of at most MaxBatch members of S. *)
Batches(S) == UNION {[1..n -> S] : n \in 1..MaxBatch}

VARIABLES
    rows,       \* the store: a dict from id to row
    seq,        \* the tenant's last sequence number
    plan,       \* the ReorgPlan the host holds between planning and applying
    cursor,     \* per client, where its paging stands
    persisted,  \* per client, the cursor that survives its crash
    mirror      \* per client, the payload it holds for each id, or Gone

ledgerVars == <<rows, seq>>
clientVars == <<cursor, persisted, mirror>>
vars == <<ledgerVars, plan, clientVars>>

NoPlan == [kind |-> "none"]

Plans ==
    [kind : {"plan"}, canonical : Batches(Txns), from : Blocks,
     remove : Seq(Ids), add : SUBSET Nat,
     fresh : BOOLEAN]

TypeOK ==
    /\ DOMAIN rows \subseteq Ids
    /\ rows \in [DOMAIN rows -> Row]
    /\ seq \in Nat
    /\ plan \in Plans \cup {NoPlan}
    /\ cursor \in [Clients -> Nat]
    /\ persisted \in [Clients -> Nat]
    /\ mirror \in [Clients -> [Ids -> Payloads \cup {Gone}]]

Init ==
    /\ rows = [i \in {} |-> Gone]
    /\ seq = 0
    /\ plan = NoPlan
    /\ cursor = [c \in Clients |-> 0]
    /\ persisted = [c \in Clients |-> 0]
    /\ mirror = [c \in Clients |-> [i \in Ids |-> Gone]]

-----------------------------------------------------------------------------
(* Pure parts: classification, stamping, planning. *)

UniqueIds(batch) ==
    \A j, k \in DOMAIN batch : batch[j].id = batch[k].id => j = k

(* Faults: the operators named ...Fault are plausible bugs, each used only  *)
(* in place of the definition below it to show that a property sees it.    *)

(* Every redelivered transaction is written again. *)
WritesAlwaysFault(store, txn) == TRUE

(* The removed flag is not part of the decision to write. *)
WritesByPayloadFault(store, txn) ==
    txn.id \notin DOMAIN store \/ store[txn.id].payload # txn.payload

(* classify's "new" and "changed", and the resurrection of a removed row. *)
Writes(store, txn) ==
    \/ txn.id \notin DOMAIN store
    \/ store[txn.id].payload # txn.payload
    \/ store[txn.id].removed

(* One sequence number per call, not per row. *)
RankPerCallFault(P, k) == 1

(* How many of the positions in P are at or before k: the number of times *)
(* _next_seq has run once position k is written.                          *)
Rank(P, k) == Cardinality({j \in P : j <= k})

(* The row a write stores, under the number s. *)
NumberedRow(line, s) ==
    [payload |-> line.payload, removed |-> line.removed, seq |-> s]

(* A row takes the counter's value before the increment. *)
StampedBeforeBumpFault(store, n, list, P) ==
    [i \in DOMAIN store \cup {list[k].id : k \in P} |->
        IF \E k \in P : list[k].id = i
        THEN LET k == CHOOSE k \in P : list[k].id = i
             IN  NumberedRow(list[k], n + Rank(P, k) - 1)
        ELSE store[i]]

(* A row already stored is rewritten in place, under its old number. *)
StampedInPlaceFault(store, n, list, P) ==
    [i \in DOMAIN store \cup {list[k].id : k \in P} |->
        IF \E k \in P : list[k].id = i
        THEN LET k == CHOOSE k \in P : list[k].id = i
             IN  NumberedRow(list[k], IF i \in DOMAIN store THEN store[i].seq
                                       ELSE n + Rank(P, k))
        ELSE store[i]]

(* The store after the positions P of a list of rows are written in order, *)
(* each under the next sequence number.                                    *)
Stamped(store, n, list, P) ==
    [i \in DOMAIN store \cup {list[k].id : k \in P} |->
        IF \E k \in P : list[k].id = i
        THEN LET k == CHOOSE k \in P : list[k].id = i
             IN  NumberedRow(list[k], n + Rank(P, k))
        ELSE store[i]]

(* upsert of the positions `among` of a batch. *)
UpsertPositions(store, batch, among) ==
    {k \in among : Writes(store, batch[k])}

Live(batch) ==
    [k \in DOMAIN batch |->
        [id |-> batch[k].id, payload |-> batch[k].payload, removed |-> FALSE]]

(* mark_removed: a live row, at its first mention in the call. *)
RemovePositions(store, ids) ==
    {k \in DOMAIN ids : /\ ~store[ids[k]].removed
                        /\ \A j \in DOMAIN ids : ids[j] = ids[k] => k <= j}

Dead(store, ids) ==
    [k \in DOMAIN ids |->
        [id |-> ids[k], payload |-> store[ids[k]].payload, removed |-> TRUE]]

AllStored(store, ids) == \A k \in DOMAIN ids : ids[k] \in DOMAIN store

(* plan_reorg's remove_ids: mined at or above `from` and not canonical. *)
Orphans(store, canonical, from) ==
    {i \in DOMAIN store :
        /\ store[i].payload.block # Pending
        /\ store[i].payload.block >= from
        /\ \A k \in DOMAIN canonical : canonical[k].id # i}

(* What a client must hold for an id. *)
View(store, i) ==
    IF i \in DOMAIN store /\ ~store[i].removed THEN store[i].payload ELSE Gone

-----------------------------------------------------------------------------
(* The writers. *)

(* A write makes a plan the host already holds stale. *)
PlanAges ==
    plan' = IF plan # NoPlan /\ rows' # rows
            THEN [plan EXCEPT !.fresh = FALSE] ELSE plan

Upsert(batch) ==
    LET P == UpsertPositions(rows, batch, DOMAIN batch) IN
    /\ seq < MaxSeq
    /\ UniqueIds(batch)
    /\ rows' = Stamped(rows, seq, Live(batch), P)
    /\ seq' = seq + Cardinality(P)
    /\ PlanAges
    /\ UNCHANGED clientVars

MarkRemoved(ids) ==
    LET P == RemovePositions(rows, ids) IN
    /\ seq < MaxSeq
    /\ AllStored(rows, ids)
    /\ rows' = Stamped(rows, seq, Dead(rows, ids), P)
    /\ seq' = seq + Cardinality(P)
    /\ PlanAges
    /\ UNCHANGED clientVars

(* plan_reorg is pure: the host diffs the view it has just read against    *)
(* the canonical chain, in whatever order it holds the view, and keeps the *)
(* plan.                                                                   *)
PlanReorg(canonical, from) ==
    LET orphans == Orphans(rows, canonical, from) IN
    /\ seq < MaxSeq
    /\ plan = NoPlan
    /\ UniqueIds(canonical)
    /\ \E order \in [1..Cardinality(orphans) -> orphans] :
        /\ \A j, k \in DOMAIN order : order[j] = order[k] => j = k
        /\ plan' = [kind |-> "plan", canonical |-> canonical, from |-> from,
                    remove |-> order,
                    add |-> UpsertPositions(rows, canonical, DOMAIN canonical),
                    fresh |-> TRUE]
    /\ UNCHANGED <<ledgerVars, clientVars>>

(* apply_reorg: mark_removed, then upsert of what mark_removed left.  A    *)
(* plan may be stale by now.                                               *)
ApplyReorg ==
    LET P == RemovePositions(rows, plan.remove)
        cut == Stamped(rows, seq, Dead(rows, plan.remove), P)
        Q == UpsertPositions(cut, plan.canonical, plan.add)
    IN
    /\ plan # NoPlan
    /\ UniqueIds(plan.canonical)
    /\ AllStored(rows, plan.remove)
    /\ rows' = Stamped(cut, seq + Cardinality(P), Live(plan.canonical), Q)
    /\ seq' = seq + Cardinality(P) + Cardinality(Q)
    /\ plan' = NoPlan
    /\ UNCHANGED clientVars

-----------------------------------------------------------------------------
(* The readers. *)

Fresh(store, since) == {i \in DOMAIN store : store[i].seq > since}

(* A removed row is left out of the feed. *)
PageLiveFault(store, since, limit) ==
    {i \in Fresh(store, since) : /\ ~store[i].removed
        /\ Cardinality({j \in Fresh(store, since) : store[j].seq < store[i].seq}) < limit}

(* The first `limit` rows after the cursor, in sequence order. *)
Page(store, since, limit) ==
    {i \in Fresh(store, since) :
        Cardinality({j \in Fresh(store, since) : store[j].seq < store[i].seq}) < limit}

(* The rows beyond the page are not looked for. *)
HasMoreInPageFault(store, since, limit) == Cardinality(Page(store, since, limit)) > limit

HasMore(store, since, limit) == Cardinality(Fresh(store, since)) > limit

(* The cursor moves to the newest row of the store, not of the page. *)
IsNextCursorHeadFault(store, since, limit, n) ==
    IF DOMAIN store = {} THEN n = since
    ELSE /\ \E i \in DOMAIN store : store[i].seq = n
         /\ \A i \in DOMAIN store : store[i].seq <= n

(* A page moves the cursor to its last row, and an empty page nowhere. *)
IsNextCursor(store, since, limit, n) ==
    LET page == Page(store, since, limit) IN
    IF page = {} THEN n = since
    ELSE /\ \E i \in page : store[i].seq = n
         /\ \A i \in page : store[i].seq <= n

(* A client applies one page, and persists the cursor only on a page that  *)
(* says nothing is left.                                                   *)
Pull(c, limit) ==
    LET page == Page(rows, cursor[c], limit) IN
    \E next \in {cursor[c]} \cup {rows[i].seq : i \in DOMAIN rows} :
        /\ IsNextCursor(rows, cursor[c], limit, next)
        /\ cursor' = [cursor EXCEPT ![c] = next]
        /\ persisted' = IF HasMore(rows, cursor[c], limit) THEN persisted
                        ELSE [persisted EXCEPT ![c] = next]
        /\ mirror' = [mirror EXCEPT ![c] =
                        [i \in Ids |-> IF i \in page THEN View(rows, i) ELSE @[i]]]
        /\ UNCHANGED <<ledgerVars, plan>>

(* A client that dies between two pages pages again from what it persisted. *)
CrashClient(c) ==
    /\ cursor' = [cursor EXCEPT ![c] = persisted[c]]
    /\ UNCHANGED <<ledgerVars, plan, persisted, mirror>>

-----------------------------------------------------------------------------
Write ==
    \/ \E batch \in Batches(Txns) : Upsert(batch)
    \/ \E ids \in Batches(Ids) : MarkRemoved(ids)
    \/ \E canonical \in Batches(Txns), from \in Blocks : PlanReorg(canonical, from)
    \/ ApplyReorg

Read == \E c \in Clients, limit \in 1..MaxLimit : Pull(c, limit)

Next == Write \/ Read \/ \E c \in Clients : CrashClient(c)

Spec == Init /\ [][Next]_vars

(* The feed alone, for liveness: no reorg and no crashing client, and every *)
(* client keeps pulling pages.                                              *)
FeedNext ==
    \/ \E batch \in Batches(Txns) : Upsert(batch)
    \/ \E ids \in Batches(Ids) : MarkRemoved(ids)
    \/ Read

FeedSpec ==
    /\ Init
    /\ [][FeedNext]_vars
    /\ \A c \in Clients : WF_vars(\E limit \in 1..MaxLimit : Pull(c, limit))

(* The abstract feed: a client is owed the rows above its cursor. *)
Feed == INSTANCE ChangeFeed WITH
    view <- [i \in Ids |-> View(rows, i)],
    held <- mirror,
    owed <- [c \in Clients |-> Fresh(rows, cursor[c])]

(* The ledger and its clients implement the feed. *)
ImplementsFeed == Feed!Spec

-----------------------------------------------------------------------------
(* Paging ends: once the writers stop, a client that keeps pulling, with   *)
(* whatever page limits, comes to hold the ledger and stays there.         *)
Converges ==
    <>[](\A c \in Clients, i \in Ids : mirror[c][i] = View(rows, i))

(* Sequence numbers are the order of the feed: no two rows share one, and  *)
(* none is above the counter, after any mix of upserts, removals,          *)
(* resurrections and reorgs (_next_seq, read and written once per row).    *)
SeqInv ==
    /\ \A i \in DOMAIN rows : rows[i].seq <= seq
    /\ \A i, j \in DOMAIN rows : rows[i].seq = rows[j].seq => i = j

(* A client misses nothing behind its cursor: what it holds for any row at *)
(* or below its cursor, and for any id not stored, is the ledger's present *)
(* view of it.  A row that changes while the client is between two pages   *)
(* must come back above the cursor for this to hold (sync's ordering).     *)
MirrorFaithful ==
    \A c \in Clients : \A i \in Ids \ Fresh(rows, cursor[c]) :
        mirror[c][i] = View(rows, i)

(* has_more tells the truth: whenever a client persists a new cursor it    *)
(* holds exactly the ledger.                                               *)
PersistsOnlyWhenExact ==
    [][\A c \in Clients : persisted'[c] # persisted[c] =>
        \A i \in Ids : mirror'[c][i] = View(rows', i)]_vars

(* An event is emitted exactly for the ids whose view changes: redelivery  *)
(* and repeated removal are silent, resurrection and removal are not       *)
(* (upsert's idempotence, mark_removed's no-op, plan_reorg's re-add).      *)
EventsMatchChanges ==
    [][\A i \in Ids :
        (i \in DOMAIN rows' /\ (i \notin DOMAIN rows \/ rows'[i].seq # rows[i].seq))
            <=> View(rows', i) # View(rows, i)]_rows

(* What a plan leaves an id at: its canonical payload, nothing if it was   *)
(* mined from the fork on and is not canonical, and otherwise what it was. *)
AfterReorg(i) ==
    IF \E k \in DOMAIN plan.canonical : plan.canonical[k].id = i
    THEN plan.canonical[CHOOSE k \in DOMAIN plan.canonical :
                            plan.canonical[k].id = i].payload
    ELSE IF i \in DOMAIN rows /\ rows[i].payload.block \in Blocks
                              /\ rows[i].payload.block >= plan.from
         THEN Gone ELSE View(rows, i)

(* Applying a plan made from the present view leaves exactly the canonical *)
(* chain at and above the fork: every canonical transaction is live with   *)
(* its payload, every other mined one from the fork on is gone, and what   *)
(* is pending or below the fork is untouched (plan_reorg, apply_reorg).    *)
FreshReorgIsExact ==
    [][(plan # NoPlan /\ plan.fresh /\ plan' = NoPlan) =>
        \A i \in Ids : View(rows', i) = AfterReorg(i)]_vars

=============================================================================
