# TLA+ models and proofs of auradefi

auradefi is a multi-tenant aggregator of on-chain accounts: a Python library
(`src/src/auradefi`) with an optional HTTP shell. It starts no threads and no timers. A host
calls `sync()` and `Deliverer.tick()` on its own schedule, and FastAPI runs the shell's plain
`def` routes in a thread pool. Stores are dictionaries without locks, except that the ledger
also has a SQL backend. What is hard in this system is therefore not message passing but state
that several calls read, work from and write back: cursors, budgets, plans and schedules,
with crashes between any two writes.

This directory holds TLA+ modules of that logic, TLC configurations that check them on small
instances, and TLAPS proofs for every value of the constants.

    tlc -workers 2 -config MCLedger.cfg MCLedger.tla      # one run
    tlapm LedgerProofs.tla                                # the proofs

## Inventory

| Part | State | Operations | What makes it correct |
|---|---|---|---|
| `ledger` (port, upsert, reorg, cursors, two backends) | per tenant: rows with payload, `removed`, `last_modified_seq`; a counter | `upsert`, `mark_removed`, `plan_reorg`, `apply_reorg`, `sync` (paging), `get` | a paging client never misses a change; events exactly for changes; a reorg leaves the canonical chain |
| `embed/sync.py` | per connection: `SyncState` (live cursor, backfill end and page, complete) | `sync_connection`: anchor, live, backfill; throttle | no transaction is ever behind the cursors and not in the ledger; history drains |
| `embed/dispatch.py`, `embed/facade.py` | the budget of a tick, its report | `run_sync`, `Auradefi.sync` | one bad connection does not starve others; a report does not lie; the budget is a cap |
| `embed/state.py`, `handle.py` | connections, states, tenants | `add_connection`, `put_state`, `user`, `connect` | one id, one connection; first-seen order |
| `webhooks` (deliver, replay) | endpoints, events, deliveries | `register_endpoint`, `emit`, `create_replay`, `due`, `record_attempt`, `tick` | every delivery ends; an ended one stays ended; attempts only when owed |
| `webhooks` (sign, urls) | none | HMAC, URL syntax | pure |
| `tenancy/keys.py`, `tokens.py` | API keys with expiry and revocation | `issue`, `rotate`, `revoke`, `authenticate` | a rotation never widens a key's life; a revocation is final |
| `tenancy/quota.py` | per project: three window counters | `hit`, `snapshot` | never more than the limit in a window; a refusal consumes nothing |
| `tenancy/store.py`, `audit.py` | projects, users, connections, audit rows | get-or-create, create, delete | one project never sees another's; ids are deterministic |
| `api` | none of its own | routes over tenancy, quota, ledger and webhooks | one event per change; quota before work |
| `accounting` | open lots of an asset, a pool, booked disposals | `process`: `open_lot`, `consume`, the selectors, `acb`; `report` | quantity and cost are conserved exactly; an unknown basis stays unknown |
| `prices` | oracle chain, price store | `usd_prices`, `usd_prices_at`, `absences_at`, `put`, `get` | first answer wins; an absence is stated with its reason; a mark is read back for its bucket only |
| `sources` | none (requests) | page fetches, chunked log scan, gap-20 scan, signatures, balances, batches, multicalls | a read of several requests misses nothing and counts nothing twice, though the chain grows |
| `sources/evm/codec`, `bitcoin/encoding`, `xpub` | none | encode, decode, derive | what is written is read back; a malformed or dirty word is refused |
| `decode` | none | `decode_account`, `to_ledger_transaction`, `derive_events` | the movements are what the transaction did to the account |
| `positions` | none (requests) | `run_discovery`, `resolve_all`, `drill`, the adapters | an adapter's failure is its own; net worth adds up however it is grouped |
| `portfolio`, `project` | none | `holdings`, `scalar_metrics` | each figure was true at some moment of the read; the total is that of what is priced |
| `assets`, `chains` | registries by id, by name, by address | `register`, `get_by_...`, `group_assets`, `merge` | one name, one asset; a refused registration leaves nothing |
| `money`, `ledger/backends/models.py` | none | exact sums, products and spellings | no digit is lost |
| `config`, `clock`, `errors`, `testing` | static | settings, clocks, recordings | |

How they interact: `Auradefi.sync` calls `run_sync`, which calls `SyncEngine.sync_connection`
for each connection; the engine reads and writes `SyncState` through `SyncStatePort`, fetches
pages through `PageFetcher`, and hands each page to a decoder and to `LedgerPort.upsert`.
Clients (the HTTP shell's sync route, `_account_transactions`) page `LedgerPort.sync`. The HTTP
shell authenticates through tenancy, consumes quota, changes the tenancy store and calls
`WebhookStore.emit`; the host's `Deliverer.tick` drains the deliveries.

The hard behaviours are listed line by line under `hazards` in `PROJECT.json`, each with the
properties that watch it, or with the reason why none does yet.

## Modules

| Module | Models | Uses |
|---|---|---|
| `ChangeFeed` | what `LedgerPort` promises its clients, without cursors or pages | |
| `Ledger` | one tenant's ledger and its paging clients | instantiates `ChangeFeed` |
| `LedgerProofs` | theorems about `Ledger` and `Snapshots` | extends `Snapshots`, `Lemmas` |
| `SyncEngine` | `sync_connection` of one connection, any number of overlapping callers | |
| `SyncEngineProofs` | theorems about `SyncEngine` | extends `SyncEngine`, `Lemmas` |
| `Dispatch` | `connect_address` and `run_sync` over all connections or one user's, tick after tick | abstracts `SyncEngine` to a visit |
| `DispatchProofs` | theorems about `Dispatch` | extends `Dispatch`, `Lemmas` |
| `Snapshots` | an account's transactions collected page by page, and counted | extends `Ledger` |
| `Webhooks` | `WebhookStore` and `Deliverer.tick` | |
| `WebhooksProofs` | theorems about `Webhooks` under one drain | extends `Webhooks` |
| `Accounting` | `process` over lots, the four methods and pools, and `report` | |
| `AccountingProofs` | theorems about `Accounting` | extends `Accounting`, `Lemmas` |
| `ApiKeys` | the lives of API keys | |
| `Shell` | the HTTP shell's requests in two threads over tokens, quota, tenancy store, audit and sink | extends `ApiKeys` |
| `ShellProofs` | theorems about `ApiKeys` and `Shell` | extends `Shell` |
| `Lemmas` | facts about numbers, joins and finite sums that several proofs need | |
| `Decode` | the decoder, the bridge to the ledger and `derive_events` | |
| `Walks` | the reads of `sources` that take several requests, over a chain that grows | extends `Decode` |
| `ReadsProofs` | theorems about `Walks` and `Positions` | extends `Walks`, `Positions`, `Lemmas` |
| `Valuation` | the oracle walk, the holdings report, the drill | |
| `Prices` | oracles asked about the past, DefiLlama's chunks, the price store | extends `Valuation` |
| `Positions` | a refresh of protocol positions, call by call | extends `Valuation` |
| `Amounts` | exact amounts and their texts | |
| `Codecs` | words, batches, addresses and derived keys | extends `Amounts` |
| `Assets` | names, registries, groups and evidence | |
| `Reads` | the composition: one read, price, refresh, registration or conversion a behaviour | extends the last seven |
| `MC...` | the instances TLC checks | |

An operator named `...Fault` is a plausible bug: the definition below it with a dropped guard,
an off-by-one or a missing reset. No specification uses them. Each is put in the place of the
definition it resembles to see that a property fails, which is how we know that the property
says something about the code.

### Ledger

One tenant: every method of the port begins by selecting the tenant's store. A call is one
step: the SQL backend runs it in one transaction and documents a single writer, and of the in-memory
backend the host is assumed not to write while another of its calls runs. Calls that raise change nothing (each check precedes the first write) and are
guards.

* `rows` and `seq` are `_stores[tenant]` and `_seqs[tenant]` (in SQL: the rows and
  `TenantSeqRow`). `Stamped` is the loop that gives each written row the next number, shared by
  `Upsert` and `MarkRemoved`; `Rank` is how often `_next_seq` has run by then.
* A payload is its block number, which `plan_reorg` reads, and one value for the rest of what
  `payload_equal` compares.
* `plan` is a `ReorgPlan` in the hands of the host. `PlanReorg` is pure and `ApplyReorg` comes
  any number of writes later, so plans go stale; the ghost field `fresh` says whether one is.
  The order of `remove_ids` is the order in which the host holds its view, hence any.
* `cursor`, `persisted` and `mirror` are a client: it applies each page and persists the cursor
  only on a page without `has_more`, as `port.py` asks. `CrashClient` resumes from there.
* A cursor token is `f"{seq:020d}"`; encoding and decoding are inverse on its range, so the model
  keeps the number. Malformed tokens raise and change nothing.

`ChangeFeed` has only the live view, what each client holds, and the set of ids it is owed.
`ImplementsFeed` maps `owed` to the rows above the cursor.

### SyncEngine

`stored` is the `SyncState`; `run[w]` is the `_Run` of a call that worker `w` is in. The steps of
a page are separate, `Fetch`, `Ingest` (decode and upsert), `Persist` (`put_state`), so that a
crash, a mined block or another caller can come between any two of them. `Anchored`, `Lived`
and `Backfilled` are what the three phases do to the cursors, and `Continued` is the control
flow around them. The chain is a sequence of block numbers in which a transaction is its
position; `AscPage`, `DescPage` and `IsHeadPage` are what the transport must do by the contract of
`PageFetcher` (pages of one window partition it), no more: the anchor page may hold any part
of its oldest block. Time is the bit that tells whether a call is throttled. Chains are final:
a reorg below the live cursor is the ledger's business (`plan_reorg`), not the engine's.

### Dispatch

A visit is the number of page requests it makes, whether it raises, and whether it persisted a
page before that, which is what the throttle sees. `Raises` is an `AuradefiError`, which becomes a
failure row; `Propagates` is any other exception (a `CassetteError` too), which ends the tick with
no report. `broken` connections raise on their first
request for ever; others may raise a bounded number of times. Time is counted in ticks.

Host threads connect addresses meanwhile: `Connect` looks for the connection, `Probe` makes the one
request, `AddConnection` stores it, and two threads with one address may meet between these steps.
`Auradefi.sync` and `UserHandle.sync` (`Begin`, `BeginUser`) fix the connections they will visit when
they begin, in the order the store saw the tenants and then their connections. (The docstring of
`Auradefi.sync` says "in creation order", which is another order as soon as a user connects again after
someone else has.) A report is assembled by `End`; the validation of `ConnectionSyncReport` is `Coherent`.

### Snapshots

`_account_transactions` is the one reader in the program that concatenates pages instead of applying
them, so a row that a writer moves between two pages is found twice and one that is removed stays
found. What the code can promise, and `SnapshotExact` states, is about the rows nobody wrote
meanwhile: each exactly once. `ScalarMetrics` is what `scalar_metrics` counts, by hour of the day.

### Webhooks

Ids hash their material, so the model uses the material: a delivery is (endpoint, event,
ordinal), an event is (payload, millisecond). `StartTick` is `due`, whose rows the tick keeps;
`Post` and `RecordAttempt` are the two halves of `_attempt`, between which emits, replays, time
and a crash may come. `posts` is the receiver's log. `replay_dead_letter` is `create_replay` of
each dead-lettered row, and so is a sequence of `Replay` steps.

### Accounting

The variables are the fields of `PnLState`; `process` of one event is one step, because nothing else
runs in between, but it has four outcomes: `Acquire`, `Dispose`, and the two exceptions that come after
something was written, `RefuseCurrency` and `RefuseScale`. A host may catch those and go on with the
same state. An event older than the watermark raises before anything is written and is no step.
`Plan` stands for the four selectors: `Precedes` is a method's order and a lot gives what those
before it leave unmet, which is what `_walk` computes. `OpenLots` is the list a selector is given, in the
order of acquisition. `Portion`, `Joined` and `Shrunk` are the exact
arithmetic, over reduced fractions. `truth` is a ghost: a plain balance per asset, and the totals paid
and got, against which lots, pools and reports are compared. `Report` reads the state and
changes nothing: its slices, its tax lot rows and its totals are what `ReportsAddUp` compares with one
another. A tax lot's price and value are at the scale of its own lot while the slice is at `scales`,
which is the finding below; so values are compared where the two agree. Under `acb` the bases of the
lots that stay open and `unrealized_basis` differ by design.

### ApiKeys and Shell

A key is a record like `ApiKey` with the ghost `root`, the record first issued of its line. Plaintexts
and hashes are the id of the key. Administration is single-threaded in the model, which is an assumption
about the host: the code says nothing of it, and one that rotates and revokes one key from two threads
can lose a revocation.

A request (`run[w]`) is held by a worker thread from its authentication to its answer, and a step is
what one call reads or writes of one store, since no store has a lock: `HitReads` and `HitWrites` are the
two halves of `QuotaCounter.hit`, `Apply` and `Emit` the change of a connection and its event. A batch pays
item by item (`TurnedAway` ends it at the first refusal: the items left are then answered 429 without
reading anything shared). Most refused bodies change nothing and are no step; the user id a mint names
is looked at after the charge (`RefuseUserId`), so that hit is spent. The three windows roll over at different
instants, and each count carries the window it was made in. The ghosts say where the code promises
nothing: `clashed` are projects two of whose hits have overlapped, `contested` are connections two
of whose requests have, `lost` those whose change was told to nobody: the sink refused the event, or the
host's deleter raised after it had deleted (`DeleterRaises`). A lost event is a fact of this code
(the change is not undone), and the properties are said of the rest.

### Walks, Decode

`chain` is external: a sequence of transactions in blocks, each with what it moved, from which the
servers' answers are computed at the moment of the request. `job` is the read: `BeginHistory`,
`BeginLogs` and so on fix what the code reads once (a range, a page number), and one request is one
step, `RequestFails` ends the read with an exception, and `Mine` comes in between. `Receive` puts coins into
addresses ahead of and behind a gap scan, and empties some. A JSON-RPC batch is answered in any order,
with answers missing, repeated, or for calls nobody made: `ValidBody` is what `_by_id` accepts.

`WalkSpec` is the walks by themselves: `WalkNext`, and `Handed`, in which the balances go to whoever prices
them and the read is over. `Reads` interleaves the rest. Each of its steps is for the walk's variables one of those, with a
bound in front, or leaves them alone: `MineNext`, `ReceiveNext`, `BeginNext` and `RequestNext` have an action of
`WalkNext` as a conjunct, and `PriceHoldings` is a `Handed` that says what the report is.

`DecodeAccount` is checked against the chain itself: `Effect` is what a transaction did to an asset's
balance, computed from the transaction and not from the explorer's rows. The fee of a transaction that
only moved tokens is attributed by its first row, and the explorer never says who paid it; the
property sets it aside there.

### Valuation, Prices, Positions

An oracle is what it would answer; a chain of them is walked first to last, each asked only for what is
still missing. An oracle that raises ends the walk, whatever the ones behind it know. Asked about an
instant, a chain may hold chains, and `absences_at` composes their reasons. `Trade` moves the market
between two requests of one question to DefiLlama, so its prices may be of different moments, but each
is of one within the question.

`Positions` has the adapters as they call: Aave's three calls, the receipt token's two, the pair's three,
the NFT's four, through a reader that is pinned to a block or reads the latest, while `NextBlock`
comes in between. Two things the code does are visible in it. An unpinned pair that is
drained between the call for its supply and an earlier one divides by zero, which becomes the adapter's
failure. An NFT with liquidity that is worth nothing on either side makes an empty `Position`, which
raises, and takes every position of that adapter with it; `uniswap_v3.py:24` says that an NFT is skipped
only if liquidity and what is owed are zero. `PinnedReadsAgree` excepts exactly that case; of the other
NFTs it says which are found and that each is reported at what it would pay at the block's price.
The price at a tick is a line instead of a power of 1.0001: what is modelled is the clamping and the
two roundings down.

What the contracts and the host may answer is assumed by name, for the proofs: amounts are naturals, a balance is part of
its pair's supply, NFTs owned exist, a tick has a square-root price and a range is not upside down (`WorldsTyped`); the host's adapter returns positions under its own id, which
`resolve_all` does not check as `run_discovery` checks a slice (`HostSigns`); an oracle answers with amounts (`OraclesQuote`). A chain
that no adapter serves is refreshed without a call and is left out (`FleetsServe`).

### Amounts, Codecs, Assets

Bytes have three bits, words two bytes, the alphabet five letters and numerals are ternary, and the
curve is one of order 31 over the field of 43 elements: every length, every carry and every
sign then occurs in a few thousand inputs, and all of them are enumerated. What raises gives `{}`.
`FormsAgree` says that reading inverts writing, that nothing but a canonical form is read, that children
derived from an xpub are on the curve at the right point, that sums and products lose no digit
and that they raise where they would have to. `Assets` registers in any order, with refusals, and looks up
every spelling.

### Reads

One behaviour is one read. Reads keep no state beside one another in the code, so interleaving two would
square the states and say nothing more: a component moves only while the others rest.

## Runs

| Run | Checks | What it shows |
|---|---|---|
| `ledger` | `TypeOK`, `SeqInv`, `MirrorFaithful`, `EventsMatchChanges`, `FreshReorgIsExact`, `ImplementsFeed` | two ids, two blocks and pending, batches and pages of up to two, three sequence numbers before the writers stop |
| `ledger_feed` | `SnapshotExact`, `PersistsOnlyWhenExact`, `Converges` | three ids, two of one account, and a reader with pages of one, so that pages both leave and do not leave a rest |
| `sync_overlap` | `TypeOK`, `NothingStranded` | two callers, five transactions in blocks of up to three, pages of two, budget two |
| `sync_lone` | `CursorsOnlyAdvance`, `Drains` | one caller, budget four |
| `sync_one_page` | `Drains` (violated) | one caller, budget one |
| `dispatch` | `TypeOK`, `QuietMeansAllThrottled`, `SiblingsSynced` | three addresses of two users connected by two threads, up to one broken, budget two, interval of three ticks |
| `dispatch_failing` | `TickWithinBudget` (violated) | three connections, budget three |
| `webhooks` | `TypeOK`, `LifecycleInv`, `OverStaysOver`, `PostsAreOwed`, `EveryDeliveryEnds` | two endpoints, two events of which one is subscribed to, a schedule of three slots, one replay, one dying tick |
| `accounting` | `TypeOK`, `BooksAgree`, `ReportsAddUp`, `MethodMakesNoMoney`, `KnownCostsWerePaid`, `OldestGoFirst`, `HifoCostsMost` | every method; one asset, two currencies, two scales, two instants, four booked events of one or two units |
| `accounting_scales` | `ScalesAreTheLedgers` (violated) | one asset, two scales |
| `shell` | `TypeOK`, `NeverWidened`, `DeadStaysDead`, `QuotaKept`, `EventsTellTheStory`, `BatchPaysPerItem` | two threads, three requests of any kind, three keys of which one is served, batches of three, three windows, a clock to two |
| `reads` | `ReadsWhole`, `HoldingsTrue`, `MovesExact`, `PinnedReadsAgree`, `NetWorthAddsUp`, `FormsAgree` | three transactions of seven shapes, pages and chunks and a gap of two, four oracle chains and the nested ones, three blocks of five worlds, three fleets of adapters, every word, text and registration of the sizes above |

What the deeper properties mean, beside the comments in the modules. `BooksAgree`: lots, pool and a plain
balance agree on what is held, to the unit, and the ids of lots differ for ever. `ReportsAddUp`: a report's
totals are those of its slices and these of its rows. `QuotaKept`: no count passes its limit even when hits
overlap, and counts are exact when none did; what overlapping costs the operator is a hit that is
not counted. `BatchPaysPerItem`: once an item of a batch is refused no later one is served, even if a window
rolls over before it is reached. `EventsTellTheStory`: the events of a connection alternate and end with what is true of it.
`HoldingsTrue`: each balance was the balance at some moment of the read, and the total is that of the priced
ones at the first price known. `MovesExact`: what a transaction is decoded to is what it did, page by page as
well as whole, and the taxable events distilled from a ledger in any order are those of the chain.

Why the bounds are enough. *Ledger*: a change needs one row to be behind a cursor and one above;
a page boundary needs a row more than the limit; a stale plan needs one write between planning
and applying; three sequence numbers allow add, remove and resurrect. A write begun at the bound
may still use several numbers. *Snapshots*: with pages of one every row of the account can move while the
collection is at any other; one initiated at the end of an hour and one in the same hour of the next day
tell the hour of the day from the hour. *SyncEngine*: blocks of three with pages of two are cut by every
kind of page, blocks 1 to 5 leave room for an anchor, a live window that the budget cuts, and a
backfill of two pages. *Dispatch*: three connections under budget two leave one out of reach until the
throttle hands the budget on, which needs an interval of at least as many ticks as there are connections
(with a shorter one the tail of the list may starve) and fewer broken ones than units of budget.
*Webhooks*: three slots have a first, a middle and a last attempt;
`MaxTime` lets a row dead-lettered at 2 be replayed and end at 4; a replay of a
replay needs a third row and is left to the proofs, which take any number of rows and ordinals.
*Accounting*: two buys and two sales draw twice on one lot, span two lots, empty a pool and overdraw it; one amount over one or two
units gives two unit costs; assets share nothing but the currency, which a pool of the same
asset already has wrong. *Shell*: three requests let one come between the two steps of another and a
third find what they left; the clock passes the end of every window but the longest, and a rotation's
overlap. A batch of three has an item after the refused one, which a window that rolls over in between must
not let through; the longest window fills and never rolls, which the proofs cover.
*Reads*: a page, a chunk or a gap of two has a full one, a partial one and an empty one within three transactions; three blocks let a pair be seen in three states in its three calls. Writers and
emitters stop at the bounds, so those runs end in states without successors and say `CHECK_DEADLOCK FALSE`;
the dispatch runs have no such bound and check for deadlock.

Fairness. The code schedules nothing itself, so all of it is the host's: `Converges` assumes that
clients keep pulling (with whatever limits) and that the writers stop; `Drains` that the interval
elapses and the host keeps calling, that a call gets on, and that only a bounded number of calls
die; `SiblingsSynced` that the host's timer keeps ticking and a tick gets on; `EveryDeliveryEnds` that time
passes and the host ticks. All are weak fairness on steps that stay enabled until taken, but for the
timer of `Dispatch`: a user's own sync may be under way whenever it fires, and it comes back (`SF`).

### Where the code does other than its documents say

* **A budget of one never drains** (`sync_one_page`). The live phase runs first on every tick and
  costs at least one page, even if there is nothing new; with `budget=1` the backfill never has a
  page. `docs/limits.md:80` advises "Start small and raise it: a decade-old wallet drains over many
  ticks". The same happens at any budget while the live window is longer than the budget,
  because the live phase restarts at its first page.
* **A failing connection can overspend** (`dispatch_failing`). It is charged one unit, whatever it
  requested before it raised; `docs/limits.md:15` calls the budget a cap. The docstring of
  `run_sync` knows of the charge but not of its consequence. Likewise its "one bad row cannot
  starve its siblings" holds only while fewer connections are broken than the budget has units,
  since a broken one is never throttled: this is the initial condition of `Dispatch`.
* **A refused event changes the scale** (`accounting_scales`). `process` notes an event's decimals before
  it checks them. 200 units of scale 2 at a mark of 7 are worth 14, and 140 after an event of scale 1
  has been refused. `MethodMakesNoMoney` is therefore said of assets whose scale is right. A refused event
  can also fix the stream's currency; nothing is booked in the wrong one, but the right one is then refused.

## Proofs

### LedgerProofs

`LedgerProofs` proves, for any finite set of ids, any payloads, any clients, batches and page limits:

| Theorem | States |
|---|---|
| `InvariantHolds` | `Spec => []IInv` |
| `TypeCorrect`, `SequenceIsOrder`, `MirrorsAreFaithful` | the three invariants of the run `ledger` |
| `EventsAreChanges`, `PersistedIsExact`, `FreshReorgsAreExact` | the action properties |
| `LedgerImplementsFeed` | the refinement of `ChangeFeed` |

Assumptions of `LedgerProofs`: ids are finite, block numbers are naturals and `Pending` is not one, `Gone` is no
payload, the bounds are naturals. Each is named in `Ledger` and evaluated by TLC on the runs.

The argument. Everything a writer can do is an `EventStep`: it writes some set of ids, gives each a
number above the old counter, leaves the other rows alone and changes the view of exactly
the ids it writes. `StampedOK` shows the numbering part from `RankFacts` (positions of a set are ranked
1, 2, ... in their order); `UpsertStep` and `RemoveStep` show that what is written is what
changes; `ComposeSteps` joins the two halves of a reorg, which needs that a plan never removes what
it adds. `WriteMoves` puts them together for `Write`. From there the properties follow without looking at
the store again: what changes goes above every cursor, so mirrors stay faithful below it, and
the feed owes each client what changed. For the readers, `PageFacts` shows that a page and its next cursor
split the fresh rows: the page is what the cursor passes.

`MirrorFaithful` is not inductive alone. A crash puts the cursor back to `persisted`, so
`CursorInv` keeps `persisted <= cursor <= seq`, without which a new row could be given a number that
a cursor has already passed; `SeqInv` makes numbers distinct, so that a page is cut between rows; and
`PlanInv` keeps the plan disjoint and, while it is fresh, equal to what would be planned
now, which both the reorg theorem and `WriteMoves` use. `IInv` is the conjunction.

And of a reader that collects an account (`Snapshots`), for any account, page limit, times and hours of the day, over any ledger and whatever its
writers and clients do between two pages:

| Theorem | States |
|---|---|
| `SnapshotsKept` | `SnapshotSpec => [](IInv /\ SnapshotInv)` |
| `SnapshotsAreExact` | `SnapshotExact` of the run `ledger_feed` |

`SnapshotExact` speaks of the end; `SnapshotInv` says what is true at every cursor (`Collected`): a
transaction not written since the collection began is found once if it is live and at or below the cursor, and nowhere
if it is gone or still above. A page adds exactly the rows it takes from above the cursor to at or below it (`PageFacts` again,
and `PageItems`: the rows of a page have distinct numbers, hence an order, in which each is once);
a writer changes only what is then in `touched`. At the end nothing of the account is above the cursor
that was not written (`Fresh`). The metrics follow by counting: places and live transactions are in
bijection (`CountedOnce`), and the hour of a time by division and remainder is the hour some day has it in
(`HourOfDay`). Assumed: the limit, the hour and the day are positive, and times are naturals.

### SyncEngineProofs

`SyncEngineProofs` proves, for any number of callers, any page size, budget and blocks:

| Theorem | States |
|---|---|
| `Agree` | `Spec => []IInv` |
| `TypeCorrect`, `Unstranded` | the two invariants of the run `sync_overlap` |
| `LoneNeverGoesBack` | `CursorsOnlyAdvance` of the run `sync_lone`, if `Workers = {w}` |

`NothingStranded` is not inductive alone: it says what cursors cover, and a page moves them by what it holds.
`IInv` adds that the chain is sorted by block and no cursor is above it, that what the live phase has
paged past is in the ledger (`LiveOK`), and that the page in hand still holds what its window had when
it was served, whatever was mined since (`PageOK`): new blocks are newer than a drained page, beyond a
full one, and outside a backfill window. The argument has three parts. `RunGrows` carries all of it to a
longer chain and a fuller ledger, which is all that `Mine` and other callers' `Ingest` do. `FetchedOK` shows that
what the explorer serves is such a page; the one arithmetic fact there is `WindowPage`, a page is short exactly when
its window ends inside it. `AdvancedOK` shows that the cursors a page yields are covered again, one
lemma a phase, and `ContinuedOK` that the call goes on rightly. Because every run's cursors are
true by themselves, it does not matter whose copy is written last.

That cursors never go back is another matter: with two callers they do. `LoneInv` says what a single caller
has that two do not: its scratch copy is at what is stored, so it anchors only a connection that was never
synced and backfills only one that is not complete; and what the live phase has in hand lies at or above the
cursor it began at (`LiveRowsAreAbove`, `SeenIsAbove`). `AdvancedOnward` then moves each cursor on. Assumed: sizes are positive, bounds are naturals,
`None` is no block number.

### WebhooksProofs

`WebhooksProofs` proves, for one drain and any endpoints, payloads, subscriptions, schedule, clock and number of
ticks that die:

| Theorem | States |
|---|---|
| `Agree` | `Spec => []IInv` |
| `TypeCorrect`, `LivesAreLived` | the invariants of the run `webhooks` |
| `TheOverStayOver`, `EveryPostIsOwed` | its action properties |

Rows alone do not tell that an answer comes in time: `TickOK` keeps that what a tick remembers is still
pending and due as it remembers it, each row once, and that the row of a POST in flight is none of
the rows to come. With it `RecordAttempt` touches only a pending row with a slot left, which is all that
`OverStaysOver` needs, and a POST is of a row whose slot has come. `ReplayIsNew` shows that a replay's ordinal belongs
to no stored row, so a replay never writes over one. That there is one drain is an assumption of each theorem
(`Tickers = {w}`): with two the code promises none of this.

### ShellProofs

`ShellProofs` proves of keys by themselves, for any keys, projects, scopes, overlaps and sequence of calls:

| Theorem | States |
|---|---|
| `KeyInvHolds` | `KeySpec => []KeyInv` |
| `KeysTyped` | records of keys stay such records |
| `RotationNeverWidens`, `DeadKeysStayDead` | `NeverWidened` and `DeadStaysDead` of the run `shell` |

`KeyInv` is the types and, of every issued key, that it keeps within the terms of the key its line began
with; a rotation copies the terms of a key that keeps within them and shortens the old one, so both do.
`DeadStaysDead` needs no history: revocation is never taken back, time only passes, and the only
step that moves an expiry is refused for a key that no longer authenticates.

And of the shell that runs over them, for any number of workers, projects, users, chains, keys and tokens, any limits and
window lengths, any size of batch, any sink or deleter that raises and any clock:

| Theorem | States |
|---|---|
| `Agree` | `Spec => []IInv` |
| `TypeCorrect`, `QuotaIsKept`, `StoriesAreTrue`, `BatchesPayPerItem` | the invariants of the run `shell` |
| `ShellImplementsApiKeys` | `Spec => KeySpec`: no request touches a key |
| `KeysNeverWiden`, `KeysStayDead` | hence the two properties of keys, with requests running |
| `MintsAreWithinKeys` | a token has no scope that no key of its project has; an audit log names its own keys |
| `DeadTokensStayDead` | a token that no longer verifies never does again |

`QuotaKept` needs `QuotaInv`: between the two halves of a hit the thread holds counts that were below the
limits when it read them (`Current`) and that no later window is older than, because windows only roll
forward (`QuotientGrows`); so however halves interleave, what is written is a count below the limit plus one. For
the exact half, `Unspoilt` says that in a project with one hit at a time what the thread read is what is
stored still, or of a window that has passed. `EventsTellTheStory` needs that a connection nobody
contests has one request at a time (`AloneOn`) and that this request's finding still holds (`ToldTruly`): a
create that has looked and not found will find it so when it applies. `BatchPaysPerItem` counts answers: those
served are as many as the hits that were admitted, and refusals come after them (`BatchFits`). Assumed: limits
are integers (a limit of zero or less admits nothing), windows are positive, `BatchSize` is positive, and
what `ApiKeys` assumes.

### DispatchProofs

`DispatchProofs` proves, for any connections, host threads, budget and interval:

| Theorem | States |
|---|---|
| `Dispatches` | `Spec => []IInv` |
| `TypeCorrect` | `TypeOK` of the run `dispatch`: among other things that overlapping connects store an address once |
| `QuietIsThrottled` | `QuietMeansAllThrottled` of the run `dispatch` |
| `EverybodyIsInvited` | a timer's tick has every stored connection in its list |
| `RequestsAreBounded` | at most n + (n - 1) + ... + 1 requests for a budget of n, and n while nothing fails |

The last is the other side of the finding `dispatch_failing`: how far beyond its budget a tick can go. A
connection that raises after `made` requests is charged one, and `made` is at most what was left; so `WorstCase` keeps
`2 * requests + r * (r + 1)` below `n * (n + 1)` for the `r` units that remain, and a tick whose every
connection raises at its last unit reaches the bound. `PaidInFull` is the exact account while no row has
failed. `QuietSoFar` holds because time does not pass within a tick as far as an interval that has not ended is
concerned, and needs `OncePerTick`: with one connection twice in the list, its second visit would be throttled by its
first. `OncePerTick` and `EverybodyInvited` need facts about the list a tick is given, which is a join of
lists, one a tenant (`FlattenInjective`, `FlattenCovers`). The invariant has two halves, of the store and of the tick, that
are kept by different actions.

### AccountingProofs

`AccountingProofs` proves, for any assets, transactions, currencies, amounts, scales, quantities and length of
stream, refused events included, and for each of the four methods:

| Theorem | States |
|---|---|
| `Replays` | `Spec => []IInv` |
| `TypeCorrect`, `BooksAlwaysAgree`, `KnownCostsArePaid`, `OldestAlwaysFirst` | four invariants of the run `accounting` |
| `ReplaysExactly` | `Spec => [](IInv /\ Exactly)`: where the amounts are |
| `ReportsAlwaysAddUp`, `NoMethodMakesMoney` | its other two invariants, `ReportsAddUp` and `MethodMakesNoMoney` |
| `DearestAlwaysFirst` | its action property `HifoCostsMost` |

`BooksAgree` is a sum: the units of the lots are the balance. The model's sums and orders are folds over sets whose
order is nobody's choice, so the proof needs what a plan gives in all, whichever order a method sorts by.
`Waterfall` is that fact: over any linear order of the lots (`IsOrder`; `Orders` shows that each method has
one, `hifo` by the transitivity of its unit costs), what each gives of what those before it leave unmet adds up to what
is needed, or to all there is. `DrainedWeighs` and `WeighAppend` follow any weight of lots through a sale and a
purchase; `AllUnits` gives `Counted` and `PricedUnits` gives `Covered`. `OpenLots` is a recursion over the lots,
and `OpenLotsAre` says by `Picks` that it lists the lots with units left, in order, each once.

Why the invariant is more than the properties. Ids stay distinct because the ordinals to come are above
those given (`Ordinals`). FIFO leaves a lot alone while an older one has units only if the lots before a
touched one are empty (`OldestUsed`), and a lot acquired now is the youngest (`LotKept`, the watermark). `PoolsKept`
says that a pool has the stream's currency or none, so that no acquisition is refused between the lot and
the pool (`PoolForKept`): without it the two would count differently. For `KnownCostsWerePaid` not the totals but what may still be
sold at a known cost must be within what was bought at one; what remains of a pool is known only while every unit
in it was, and so `Covered` has a case for it.

The amounts are exact fractions, and for them the proof builds the arithmetic that Python's `Fraction` gives the code.
`Lowest` and `ReducedSame` show that `Reduced`, which looks for a divisor, gives the fraction with the least
denominator of its value: this divides every other (`LeastDivides`), so equal values are equal pairs (`Rat`), and
an equation between amounts is one between cross products of integers. Hence `PlusLaws`, `ShareAdds` (shares of one
amount add up) and `ShareAgain` (a share of a share). A total is a fold over a set in an order of nobody's choice; as with the
sums of `Lemmas` it is what every order gives (`TotalsAgree`), so it takes members out, adds pointwise, and is
the total of the totals of its parts (`TotalParts`), from which a report's totals by asset follow.

`Exactly` is the invariant. Each lot's remaining cost is the share of its cost that its remaining units are of its
original ones, however often it was drawn on (`LotsExact`); what was got is what the disposals booked
(`GotAll`); and while every booked basis is known, what was paid is what those bases and
the lots still cost (`PaidForLots`), or under `acb` the pools (`PaidForPools`, which also says that an emptied pool costs nothing:
the last share of a pool is all of it). Both are said while bases are known, since an unknown one takes an amount out of the
books for ever. `NoMethodMakesMoney` follows because neither side mentions the method, and a known unrealised
figure has the cost of all that is held in it (`GainIs`).

`HifoCostsMost` compares a sale with all others of the same size. Along the method's order there is a last lot that gives
anything; those dearer give all they have, those cheaper give nothing (`DearestTrades`). So in
each lot the units the plan gives beyond another choice, times that lot's unit cost, are at least as many times the last
lot's (`TradesUp`); the differences of units add up to none, and what the plan gains over the other choice adds up to no less
than none (`TotalGains`, `DearestCostMost`). Assumed: assets are finite, amounts, marks, scales and times are naturals.

### ReadsProofs

`ReadsProofs` proves three properties of the run `reads`. The first is `EveryReadIsWhole`: `WalkSpec => []ReadsWhole`, for any page size, chunk and
gap, any tokens and any shapes of transaction, on a chain and in a wallet of any length.

`WalkInv` is one invariant a kind of read, about what the read has got so far, beside `ChainInv` (blocks never go down along
the chain). Each has four lemmas: it starts, it waits while the chain or the wallet moves on, it goes on by a
request, it fails.

* *Histories.* The rows fetched are a prefix of what is served, of a length that is a whole number of pages while the read
  goes on (`HistoryInv`). New blocks put rows behind all others: what is served is joined transaction
  by transaction, so a longer chain serves the old list and then rows of new transactions only (`RowsGrow`). A page is the window behind the
  prefix, and short exactly when it reaches the end (`WindowExtends`).
* *Signatures* come newest first, so new ones come in front of what has been fetched. The read counts down from whatever
  was newest at its first page (`CountsDown`, from some `top` that is not below where the chain stood at the beginning),
  and asks for what is before the last one found.
* *Logs.* Every log found is in a block that has been scanned, in order, and every one of a scanned block that was there at the
  beginning is found (`Scanned`). A chunk adds the blocks above the last, so order is kept although blocks are mined
  inside chunks that are still to come; `LastChunk` is the division that says that the chunks cover the range.
* *The gap scan* is where the invariant is least obvious. `Standing` says that the addresses already seen include all that were in use at the
  beginning, that none in the last run was, that the address before the run is in use, and that the address
  next in turn is reached from the start of its branch. When the run reaches the gap, an address further on would need one
  in use within that run, and at the beginning there was none (`NothingBeyond`). An address that comes into use behind
  the scan is missed; the property asks for what was in use when the scan began.
* *Batches* end in the step in which they begin. An accepted body has each id, and what is taken for a call is an
  answer that carries its id, so `AnswersById`.

Assumed: page size, chunk and gap are positive (`PagesNotEmpty`), shapes are transactions (`ShapesTyped`), bounds are naturals.

The second is `NetWorthAlwaysAddsUp`: `PositionsSpec => []NetWorthAddsUp`, for contracts of any contents, any adapters in any
fleets, any oracles and any host, with blocks between the calls and any call failing. Two arguments meet in `PriceAndDrill`.

* *The arithmetic.* A total is the last of its running sums (`TotalRuns`), so totals add pointwise and join
  (`TotalPlus`, `TotalJoins`). What is owned less what is owed is, underlying by underlying, its signed value, which is the
  synthetic holding's (`ValuedTyped`); so net worth is the total of both (`DrillAddsUp`). The groups take an induction along
  the positions: one more position changes the total of its own group, by what its underlyings are worth, and of no other
  (`GroupsAddUp`, `SumChanges`).
* *The state.* It applies only if every position is well formed, every underlying priced with an amount, and no cursor points
  past what is there: a division by nothing or a reserve of a pair that was never read would make a quantity of anything.
  `Sound` says so. Its strongest parts are `Found` (what was found is of adapters whose turn is over and that did
  not fail in resolve), `PairsThere` (a pair discovered at one block is still there at the block it is read at, because pairs are only
  added) and `CursorFits` (what the adapter at work has been told fits what it asks next). `NowKeeps`, `TurnOver`, `FailureKeeps`,
  `DiscoveredKeeps` and `ResolvedKeeps` carry it through what the actions share, and one lemma an action does the rest.

The third is `PinnedReadsAlwaysAgree`: `PositionsSpec => []PinnedReadsAgree`. While a refresh is pinned, or no second block has
come, all its calls are answered of one world, the first block's (`PinnedReads`, `StepsPin`). `AgreedInv`, kept beside
`PositionsInv`, says what a refresh knows of that world:

* `SlicesAgree`: an adapter whose turn in discover is over lists what it offers there (`Served`), and after
  `restrict_discovery` what the account touched of it. So in resolve `Has` is "offered and touched" (`HasTouched`).
* `CursorAgrees`: what the adapter at work has been told is so. Aave's positions are those of the sides asked about; a pair's
  balance and supply are the pair's, and the positions found are, in order, of the pairs passed that have a balance
  (`HeldSoFar`, which grows by `HeldGrows`); NFT by NFT, those of the first ones owned that are not empty (`Kept`, by `KeptNext`).
* `FindsAgree`: what an adapter that is done found is exact (`Exact`); `Of` picks it out of what all found, since each
  position names its adapter (`OfJoins`, `OfAll`, `OfNone`).
* `Explained`: every failure has its reason. A pair's supply is not nothing when there is a balance in it, and no place
  beyond the last NFT is asked about, so of the shipped adapters' own failures only the empty position is left.

Assumed: a balance is part of its supply, and NFTs owned exist (`WorldsTyped`); units are positive (`UnitsPositive`).

### Lemmas

`Lemmas` holds what more than one of these needs. Induction over naturals and over finite sets is stated
of sets (`LeastNatural`, `FiniteInduction`): a set of naturals, or of subsets, in the place of a predicate. From it
follow that `SumFunctionOnSet` does not depend on the order in which a fold chooses (`SumsAgree`: each order gives
a running sum, and there is one), that it takes members out and adds pointwise, and that `FlattenSeq` joins and splits (`FlattenAppend`, `FlattenSplits`).

### What has no proof

* Liveness (`Converges`, `Drains`, `SiblingsSynced`, `EveryDeliveryEnds`): TLAPS does not reason about fairness.
* `HoldingsTrue`, `MovesExact` and `FormsAgree` of the run `reads`. They are stated in
  `Reads`, which reaches the recursive operators of `Prices` (a chain of oracles may hold chains), and with a recursive operator
  in reach no arithmetic can be proved; what is decoded, encoded and summed there is computed by recursion over data, of
  which TLC enumerates an instance. `ReadsWhole` is stated in `Walks`, `PinnedReadsAgree` and `NetWorthAddsUp` in `Positions`, which reach none.

## Not modelled, and why

* keccak, RIPEMD-160, SHA-256, HMAC and the bech32 checksum: hashes without structure, which the tests pin
  to published vectors. Where a module needs one it is external (`Checksum`, `Hash160`, `Hmac`).
* The wire form of answers, headers, error mapping and URL syntax; the syntax of an explorer's or a node's
  rows; the checks of argument types in front of many functions; settings, clocks and recordings. They keep
  no state and order nothing.
* `prices/oracles/manual.py` is a stub whose methods raise `NotImplementedError`.
* `pnl_at` and the rounding of exact fractions to money in `accounting`: reports are compared before it.
* Organisations and projects are created once and are fixed in `Shell`.
* Reorganisations under the sync engine: it never fetches again at or below its live cursor, and the host
  plans a reorg against the ledger, which `Ledger` models by itself. The two are not yet composed.
* Two overlapping `Deliverer` ticks: `Webhooks` takes any set of `Tickers`, but no run has two; the code
  promises nothing there. Likewise two SQL writers of one tenant, a `MemoryLedger` read while it is
  written, and keys administered from two threads: the SQL backend documents its single writer, of the
  others the code says nothing, and the host must take them one at a time.
* A stored state that has a backfill cursor and no end, which `sync.py:314` resumes from the cursor.
* A ledger transaction without a confirmation time, which `accounting/lots.py:323` dates by its initiation.
* An oracle that answers what it was not asked: `inquirer.py:134` and 174 take any key of the answer, so such an
  oracle could replace an earlier one's price. `Asked` assumes its documented contract.
* A receipt token without a rate function, whose rate is one and costs no call; one receipt token and
  one Aave market stand for the loops over several.
* Cursors of sequence numbers of 10^20 and more, whose token is longer than 20 digits.

`PROJECT.json` lists each part with its state, and under `hazards` what each property is for.

## Plan

In order of importance:

1. The chain under `SyncEngine` reorganised, composed with `plan_reorg` and `apply_reorg`.
2. Two overlapping `Deliverer` ticks, and what is left of the promises of `Webhooks` then.
