----------------------------- MODULE SyncEngine -----------------------------
(***************************************************************************)
(* The two-phase budgeted sync of one connection (auradefi.embed.sync),    *)
(* run by any number of overlapping callers against one stored SyncState   *)
(* and one ledger.  A caller reads the state once, then works from its own *)
(* scratch copy and writes the copy back after every page.                 *)
(*                                                                         *)
(* The chain is the account's transactions in ascending block order; a     *)
(* transaction is named by its position.  The explorer serves whole final  *)
(* blocks and pages every window in a fixed order, the contract PageFetcher *)
(* states.  Time is one bit: whether the stored last_sync_at_ms is at      *)
(* least min_interval_ms old.                                              *)
(***************************************************************************)
EXTENDS Integers, Sequences, FiniteSets

CONSTANTS
    Workers,        \* overlapping callers of sync_connection
    PageSize,       \* the offset of every request
    Budget,         \* page requests one call may spend
    None,           \* Python's None
    MaxPerBlock,    \* bound: the account's transactions in one block
    MaxTxns,        \* bound: the account's transactions in all
    MaxMishaps      \* bound: calls that die or raise

ASSUME NoneIsNoBlock == None \notin Nat
ASSUME PositiveSizes == PageSize \in Nat \ {0} /\ Budget \in Nat \ {0}
ASSUME HistoryBounds == MaxPerBlock \in Nat /\ MaxTxns \in Nat /\ MaxMishaps \in Nat

VARIABLES
    chain,      \* block number of each transaction, in ascending order
    ingested,   \* the positions the ledger holds
    stored,     \* the connection's SyncState, without its timestamp
    due,        \* the stored timestamp is old enough for a call to run
    run,        \* per worker, the scratch of its call
    mishaps     \* how many calls have died or raised

vars == <<chain, ingested, stored, due, run, mishaps>>

SyncState ==
    [live_cursor : Nat, backfill_cursor : Nat \cup {None},
     backfill_complete : BOOLEAN, backfill_end : Nat \cup {None},
     backfill_page : Nat]

Idle == [phase |-> "idle"]

(* `rows` is the page fetched and not yet persisted, `saved` says whether  *)
(* the ledger has it, and `page` is the live phase's page number.          *)
Runs ==
    [phase : {"anchor", "live", "backfill"}, step : {"fetch", "ingest", "persist"},
     cursors : SyncState, remaining : Nat, page : Nat, highest : Nat \cup {None},
     rows : SUBSET Nat]

TypeOK ==
    /\ chain \in Seq(Nat \ {0})
    /\ ingested \subseteq DOMAIN chain
    /\ stored \in SyncState
    /\ due \in BOOLEAN
    /\ run \in [Workers -> Runs \cup {Idle}]
    /\ mishaps \in Nat

NeverSynced ==
    [live_cursor |-> 0, backfill_cursor |-> None, backfill_complete |-> FALSE,
     backfill_end |-> None, backfill_page |-> 0]

Init ==
    /\ chain = << >>
    /\ ingested = {}
    /\ stored = NeverSynced
    /\ due = TRUE
    /\ run = [w \in Workers |-> Idle]
    /\ mishaps = 0

-----------------------------------------------------------------------------
(* The explorer. *)

BlocksOf(rows) == {chain[p] : p \in rows}

Highest(S) == CHOOSE b \in S : \A c \in S : c <= b
Lowest(S) == CHOOSE b \in S : \A c \in S : b <= c

(* How many transactions are in blocks up to b. *)
UpTo(b) == Cardinality({p \in DOMAIN chain : chain[p] <= b})

Height == IF chain = << >> THEN 0 ELSE chain[Len(chain)]

(* A block with transactions of the account is mined. *)
Mine ==
    /\ \E n \in 1..MaxPerBlock :
        /\ Len(chain) + n <= MaxTxns
        /\ chain' = chain \o [k \in 1..n |-> Height + 1]
    /\ UNCHANGED <<ingested, stored, due, run, mishaps>>

(* Page k of the ascending window [from, head]. *)
AscPage(from, k) ==
    LET before == UpTo(from - 1) IN
    {p \in DOMAIN chain : p > before + (k - 1) * PageSize /\ p <= before + k * PageSize}

(* Page k of the descending window [0, end]. *)
DescPage(end, k) ==
    {p \in DOMAIN chain : /\ p <= UpTo(end) - (k - 1) * PageSize
                          /\ p > UpTo(end) - k * PageSize}

(* The newest page.  Which transactions of its oldest block it holds is the *)
(* explorer's choice: another window may order that block otherwise.       *)
IsHeadPage(rows) ==
    /\ Cardinality(rows) = IF Len(chain) < PageSize THEN Len(chain) ELSE PageSize
    /\ \A p \in rows, q \in DOMAIN chain : chain[q] > chain[p] => q \in rows

Short(rows) == Cardinality(rows) < PageSize

-----------------------------------------------------------------------------
(* One call of sync_connection. *)

(* The stored backfill page is not resumed from (faults as in Ledger).     *)
ResumedFromFirstFault(state) == [state EXCEPT !.backfill_page = 0]

Resumed(state) == state

(* Past the throttle: never synced anchors, otherwise the live window. *)
Start(w) ==
    /\ run[w] = Idle
    /\ due
    /\ run' = [run EXCEPT ![w] =
        [phase |-> IF stored.backfill_cursor = None THEN "anchor" ELSE "live",
         step |-> "fetch", cursors |-> Resumed(stored), remaining |-> Budget,
         page |-> 1, highest |-> None, rows |-> {}]]
    /\ UNCHANGED <<chain, ingested, stored, due, mishaps>>

Serves(r, rows) ==
    CASE r.phase = "anchor" -> IsHeadPage(rows)
      [] r.phase = "live" -> rows = AscPage(r.cursors.live_cursor + 1, r.page)
      [] r.phase = "backfill" ->
            rows = DescPage(r.cursors.backfill_end, r.cursors.backfill_page + 1)

Fetch(w) ==
    /\ run[w] # Idle
    /\ run[w].step = "fetch"
    /\ \E rows \in SUBSET DOMAIN chain :
        /\ Serves(run[w], rows)
        /\ run' = [run EXCEPT ![w].rows = rows, ![w].step = "ingest",
                              ![w].remaining = @ - 1]
    /\ UNCHANGED <<chain, ingested, stored, due, mishaps>>

(* Decode and upsert: ids already in the ledger are silent. *)
Ingest(w) ==
    /\ run[w] # Idle
    /\ run[w].step = "ingest"
    /\ ingested' = ingested \cup run[w].rows
    /\ run' = [run EXCEPT ![w].step = "persist"]
    /\ UNCHANGED <<chain, stored, due, mishaps>>

(* The backfill window stops below the oldest anchored block. *)
AnchoredExclusiveFault(cursors, rows) ==
    LET low == IF rows = {} THEN 0 ELSE Lowest(BlocksOf(rows)) IN
    [live_cursor |-> IF rows = {} THEN 0 ELSE Highest(BlocksOf(rows)),
     backfill_cursor |-> low, backfill_complete |-> Short(rows),
     backfill_end |-> IF Short(rows) THEN cursors.backfill_end ELSE low - 1,
     backfill_page |-> cursors.backfill_page]

Anchored(cursors, rows) ==
    LET low == IF rows = {} THEN 0 ELSE Lowest(BlocksOf(rows)) IN
    [live_cursor |-> IF rows = {} THEN 0 ELSE Highest(BlocksOf(rows)),
     backfill_cursor |-> low, backfill_complete |-> Short(rows),
     backfill_end |-> IF Short(rows) THEN cursors.backfill_end ELSE low,
     backfill_page |-> IF Short(rows) THEN cursors.backfill_page ELSE 0]

(* The highest block of the live phase so far. *)
Seen(r) ==
    IF r.rows = {} THEN r.highest
    ELSE Highest(BlocksOf(r.rows) \cup ({r.highest} \ {None}))

(* The cursor follows every page, drained or not. *)
LivedEveryPageFault(r) ==
    IF Seen(r) # None THEN [r.cursors EXCEPT !.live_cursor = Seen(r)] ELSE r.cursors

(* A drained window without a row is not told from one with rows. *)
LivedUncheckedFault(r) ==
    IF Short(r.rows) THEN [r.cursors EXCEPT !.live_cursor = Seen(r)] ELSE r.cursors

(* The live cursor moves only when the window drained. *)
Lived(r) ==
    IF Short(r.rows) /\ Seen(r) # None
    THEN [r.cursors EXCEPT !.live_cursor = Seen(r)]
    ELSE r.cursors

Backfilled(r) ==
    [r.cursors EXCEPT
        !.backfill_page = @ + 1,
        !.backfill_cursor = IF r.rows = {} THEN @ ELSE Lowest(BlocksOf(r.rows)),
        !.backfill_complete = Short(r.rows)]

Advanced(r) ==
    CASE r.phase = "anchor" -> Anchored(r.cursors, r.rows)
      [] r.phase = "live" -> Lived(r)
      [] r.phase = "backfill" -> Backfilled(r)

(* What the call does after a page: another live page while the window has *)
(* more, else the backfill; a live window the budget cut ends the call.    *)
Continued(r) ==
    LET next == [r EXCEPT !.cursors = Advanced(r), !.rows = {}, !.step = "fetch"] IN
    IF r.remaining = 0 THEN Idle
    ELSE IF r.phase = "live" /\ ~Short(r.rows)
         THEN [next EXCEPT !.page = @ + 1, !.highest = Seen(r)]
    ELSE IF next.cursors.backfill_complete THEN Idle
    ELSE [next EXCEPT !.phase = "backfill"]

(* put_state, with the timestamp of the call. *)
Persist(w) ==
    /\ run[w] # Idle
    /\ run[w].step = "persist"
    /\ stored' = Advanced(run[w])
    /\ due' = FALSE
    /\ run' = [run EXCEPT ![w] = Continued(run[w])]
    /\ UNCHANGED <<chain, ingested, mishaps>>

(* The process dies, the source or the decoder raises: the scratch is gone. *)
Abandon(w) ==
    /\ run[w] # Idle
    /\ mishaps < MaxMishaps
    /\ mishaps' = mishaps + 1
    /\ run' = [run EXCEPT ![w] = Idle]
    /\ UNCHANGED <<chain, ingested, stored, due>>

IntervalElapses ==
    /\ ~due
    /\ due' = TRUE
    /\ UNCHANGED <<chain, ingested, stored, run, mishaps>>

-----------------------------------------------------------------------------
Step(w) == Start(w) \/ Fetch(w) \/ Ingest(w) \/ Persist(w)

Next == Mine \/ IntervalElapses \/ \E w \in Workers : Step(w) \/ Abandon(w)

Spec == Init /\ [][Next]_vars

(* The host keeps ticking, and a call that runs gets on. *)
FairSpec == Spec /\ WF_vars(IntervalElapses) /\ \A w \in Workers : WF_vars(Step(w))

-----------------------------------------------------------------------------
(* What cursors claim: every transaction up to the live cursor is in the   *)
(* ledger or still ahead of the backfill.                                  *)
Covers(cursors) ==
    cursors.backfill_cursor # None =>
        \A p \in DOMAIN chain :
            \/ chain[p] > cursors.live_cursor
            \/ p \in ingested
            \/ /\ ~cursors.backfill_complete
               /\ p <= UpTo(cursors.backfill_end) - cursors.backfill_page * PageSize

(* No transaction is stranded: not by a budget that cuts a window, a block *)
(* cut by the anchor page, blocks mined between two pages, a call that     *)
(* dies anywhere, or overlapping calls overwriting each other's state.     *)
NothingStranded ==
    /\ Covers(stored)
    /\ \A w \in Workers : run[w] # Idle => Covers(run[w].cursors)

(* A lone caller's cursors never go back: what one tick persisted no later *)
(* tick walks again, whatever dies in between.                             *)
CursorsOnlyAdvance ==
    [][/\ stored'.live_cursor >= stored.live_cursor
       /\ stored'.backfill_page >= stored.backfill_page
       /\ stored.backfill_complete => stored'.backfill_complete
       /\ stored.backfill_end # None => stored'.backfill_end = stored.backfill_end]_stored

(* The whole history is in the ledger, and stays there. *)
Drains == <>[](stored.backfill_complete /\ ingested = DOMAIN chain)

=============================================================================
