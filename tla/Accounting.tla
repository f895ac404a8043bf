----------------------------- MODULE Accounting -----------------------------
(***************************************************************************)
(* Replaying a stream of taxable events into lots, pools and realised      *)
(* outcomes (auradefi.accounting.pnl.process over lots, fifo, lifo, hifo   *)
(* and acb), and the report that reads them (auradefi.accounting.report).  *)
(*                                                                         *)
(* An event that raises leaves the state as far as it got, and a host may  *)
(* go on with it: the state is advanced in place.  Amounts are exact       *)
(* rationals, as the code's Fractions are; the rounding of a Fraction into *)
(* Money, and the flags that say so, are left out.                         *)
(***************************************************************************)
EXTENDS Integers, Sequences, FiniteSetsExt

CONSTANTS
    Assets,
    Currencies,
    Default,        \* DEFAULT_CURRENCY
    NoCurrency,     \* the currency of what was never priced
    Scales,         \* decimals an event may carry
    NoScale,        \* the decimals of a ledger that saw no acquisition
    Amounts,        \* what a host pays or gets, in total
    Marks,          \* unit prices of a report
    Times,          \* at_ms of events
    Txs,            \* source_tx_id of events
    MaxQuantity,    \* bound: raw units of one event
    MaxEvents       \* bound: events that are booked

Methods == {"fifo", "lifo", "hifo", "acb"}

ASSUME AssetsFinite == IsFiniteSet(Assets)
ASSUME CurrencyConstants == Default \in Currencies /\ NoCurrency \notin Currencies
ASSUME ScaleConstants == Scales \subseteq Nat /\ NoScale \notin Scales
ASSUME AmountConstants == Amounts \subseteq Nat /\ Marks \subseteq Nat /\ Times \subseteq Nat
ASSUME Bounds == MaxQuantity \in Nat /\ MaxEvents \in Nat

VARIABLES
    method,     \* the method the state replays
    currency,   \* the stream's, or NoCurrency
    last,       \* last_at_ms, the watermark
    ledgers,    \* per asset: its lots, their scale, the ordinals given out
    pools,      \* per asset: its AcbPool
    scales,     \* per asset: the decimals a report gives it
    disposals,  \* the DisposalRecords, in order
    truth       \* what was booked, counted without lots and pools

vars == <<method, currency, last, ledgers, pools, scales, disposals, truth>>

-----------------------------------------------------------------------------
(* Exact rationals, reduced, as <<numerator, denominator>>.                *)
Unknown == << >>
Q(n) == <<n, 1>>

Reduced(n, d) ==
    LET common == {k \in 1..d : d % k = 0 /\ n % k = 0}
    IN  <<n \div Max(common), d \div Max(common)>>

Plus(x, y) == Reduced(x[1] * y[2] + y[1] * x[2], x[2] * y[2])
Minus(x, y) == Reduced(x[1] * y[2] - y[1] * x[2], x[2] * y[2])
Share(x, take, whole) == Reduced(x[1] * take, x[2] * whole)
Exceeds(x, y) == x[1] * y[2] > y[1] * x[2]

(* The sum of a function's values. *)
Total(f) == FoldFunction(Plus, Q(0), f)

PowerOfTen[n \in Nat] == IF n = 0 THEN 1 ELSE 10 * PowerOfTen[n - 1]

-----------------------------------------------------------------------------
Unpriced == [amount |-> Unknown, currency |-> NoCurrency]
Moneys == {Unpriced} \cup [amount : {Q(n) : n \in Amounts}, currency : Currencies]

(* An acquisition carries its cost, a disposal its proceeds. *)
Events == [asset : Assets, at : Times, quantity : 1..MaxQuantity, decimals : Scales,
           money : Moneys, tx : Txs]

EmptyLedger == [lots |-> << >>, decimals |-> NoScale, seq |-> [t \in Txs |-> 0]]

(* The pool's decimals are its ledger's: both learn them from the same events. *)
NoPool == [currency |-> NoCurrency, cost |-> Q(0), quantity |-> 0]

Init ==
    /\ method \in Methods
    /\ currency = NoCurrency
    /\ last = 0
    /\ ledgers = [a \in Assets |-> EmptyLedger]
    /\ pools = [a \in Assets |-> NoPool]
    /\ scales = [a \in Assets |-> 0]
    /\ disposals = << >>
    /\ truth = [booked |-> 0, paid |-> Q(0), got |-> Q(0),
                units |-> [a \in Assets |-> 0],      \* acquired and not yet sold
                priced |-> [a \in Assets |-> 0],     \* acquired at a known cost
                costed |-> [a \in Assets |-> 0]]     \* sold at a known cost

-----------------------------------------------------------------------------
(* What an event must be for the replay to accept it (an operator named    *)
(* ...Fault is a plausible bug in the one it stands before, as in Ledger). *)
MonotonicFault(e) == TRUE

Monotonic(e) == e.at >= last

InCurrency(e) == e.money = Unpriced \/ currency \in {NoCurrency, e.money.currency}

InScale(e) == ledgers[e.asset].decimals \in {NoScale, e.decimals}

(* The first priced money fixes the stream's currency ... *)
Denominated(e) == IF currency = NoCurrency THEN e.money.currency ELSE currency

(* ... and the pools opened before it was fixed adopt it. *)
RetaggedFault(e) == pools

Retagged(e) ==
    IF currency = NoCurrency /\ e.money # Unpriced
    THEN [a \in Assets |-> IF pools[a].currency = NoCurrency THEN pools[a]
                           ELSE [pools[a] EXCEPT !.currency = e.money.currency]]
    ELSE pools

(* The asset's pool, opened in the stream's currency on demand. *)
PoolFor(e) ==
    LET pool == Retagged(e)[e.asset]
        stream == Denominated(e)
    IN  IF pool.currency # NoCurrency THEN pool
        ELSE [pool EXCEPT !.currency = IF stream = NoCurrency THEN Default ELSE stream]

-----------------------------------------------------------------------------
(* Lots. *)
OpenLots(ledger) ==
    LET lots == ledger.lots
        open[n \in 0 .. Len(lots)] ==
            IF n = 0 THEN << >>
            ELSE IF lots[n].remaining > 0 THEN Append(open[n - 1], lots[n])
            ELSE open[n - 1]
    IN  open[Len(lots)]

Units(lots, S) == SumFunctionOnSet([i \in DOMAIN lots |-> lots[i].remaining], S)

OrdinalFault(ledger, tx) == Len(OpenLots(ledger))

Ordinal(ledger, tx) == ledger.seq[tx]

Opened(ledger, e) ==
    [lots |-> Append(ledger.lots,
                     [id |-> <<e.tx, Ordinal(ledger, e.tx)>>, opened_at |-> e.at,
                      original |-> e.quantity, remaining |-> e.quantity,
                      cost_total |-> e.money.amount, cost_remaining |-> e.money.amount]),
     decimals |-> e.decimals,
     seq |-> [ledger.seq EXCEPT ![e.tx] = @ + 1]]

UnitCostFault(lot) == lot.cost_total

UnitCost(lot) == Share(lot.cost_total, 1, lot.original)

(* Whether lot i is consumed before lot j: oldest first, ...               *)
OldestFirst(lots, i, j) ==
    \/ lots[i].opened_at < lots[j].opened_at
    \/ lots[i].opened_at = lots[j].opened_at /\ i < j

(* ... or dearest first, unpriced last, and then oldest first.             *)
DearestFirst(lots, i, j) ==
    LET priced(k) == lots[k].cost_total # Unknown
        dearer(k, m) == priced(k) /\ (priced(m) => Exceeds(UnitCost(lots[k]), UnitCost(lots[m])))
    IN  dearer(i, j) \/ (~dearer(j, i) /\ OldestFirst(lots, i, j))

Precedes(lots, i, j) ==
    CASE method = "lifo" -> OldestFirst(lots, j, i)
      [] method = "hifo" -> DearestFirst(lots, i, j)
      [] OTHER -> OldestFirst(lots, i, j)

(* The plan of `_walk`: a lot gives what those before it leave unmet.      *)
PlanFault(lots, needed) ==
    [i \in DOMAIN lots |->
        LET before == {j \in DOMAIN lots \ {i} : Precedes(lots, j, i)}
        IN  Max({needed - Units(lots, before), 0})]

Plan(lots, needed) ==
    [i \in DOMAIN lots |->
        LET before == {j \in DOMAIN lots \ {i} : Precedes(lots, j, i)}
            unmet == needed - Units(lots, before)
        IN  Min({lots[i].remaining, Max({unmet, 0})})]

(* The exact part of a lot's cost that goes with some of its units. *)
PortionFault(lot, take) ==
    IF lot.cost_total = Unknown THEN Unknown ELSE Share(lot.cost_total, take, lot.remaining)

Portion(lot, take) ==
    IF lot.cost_total = Unknown THEN Unknown ELSE Share(lot.cost_total, take, lot.original)

Drawn(lot, take) ==
    [lot EXCEPT !.remaining = @ - take,
                !.cost_remaining = IF @ = Unknown THEN @ ELSE Minus(@, Portion(lot, take))]

(* The basis of a plan: unknown as soon as one lot it takes from is. *)
BasisOfLotsFault(lots, plan) ==
    LET priced == {i \in DOMAIN lots : plan[i] > 0 /\ lots[i].cost_total # Unknown}
    IN  Total([i \in priced |-> Portion(lots[i], plan[i])])

BasisOfLots(lots, plan) ==
    LET taken == {i \in DOMAIN lots : plan[i] > 0}
    IN  IF \E i \in taken : lots[i].cost_total = Unknown THEN Unknown
        ELSE Total([i \in taken |-> Portion(lots[i], plan[i])])

-----------------------------------------------------------------------------
(* The pool of average costs. *)
PoolAccepts(pool, e) == e.money = Unpriced \/ pool.currency = e.money.currency

Joined(pool, e) ==
    [pool EXCEPT !.quantity = @ + e.quantity,
                 !.cost = IF @ = Unknown \/ e.money = Unpriced THEN Unknown
                          ELSE Plus(@, e.money.amount)]

(* What a disposal of `take` units costs, and the pool it leaves. *)
Averaged(pool, take) ==
    IF pool.cost = Unknown THEN Unknown
    ELSE IF take = 0 THEN Q(0) ELSE Share(pool.cost, take, pool.quantity)

ShrunkFault(pool, take) == [pool EXCEPT !.quantity = @ - take]

Shrunk(pool, take) ==
    [pool EXCEPT !.quantity = @ - take,
                 !.cost = IF @ = Unknown THEN @ ELSE Minus(@, Averaged(pool, take))]

-----------------------------------------------------------------------------
(* What every event that gets that far does first. *)
Accepted(e) ==
    /\ truth.booked < MaxEvents
    /\ Monotonic(e)
    /\ InCurrency(e)
    /\ InScale(e)
    /\ scales' = [scales EXCEPT ![e.asset] = e.decimals]
    /\ currency' = Denominated(e)
    /\ UNCHANGED method

(* An acquisition opens a lot, and then joins the pool of the average cost. *)
Acquire(e) ==
    LET pool == PoolFor(e)
        refused == method = "acb" /\ ~PoolAccepts(pool, e)
    IN  /\ Accepted(e)
        /\ ledgers' = [ledgers EXCEPT ![e.asset] = Opened(@, e)]
        /\ pools' = IF method # "acb" THEN pools
                    ELSE [Retagged(e) EXCEPT ![e.asset] =
                              IF refused THEN pool ELSE Joined(pool, e)]
        /\ last' = IF refused THEN last ELSE e.at
        /\ truth' = [truth EXCEPT
                        !.booked = @ + 1,
                        !.paid = IF e.money = Unpriced THEN @ ELSE Plus(@, e.money.amount),
                        !.units[e.asset] = @ + e.quantity,
                        !.priced[e.asset] = IF e.money = Unpriced THEN @ ELSE @ + e.quantity]
        /\ UNCHANGED disposals

(* A disposal consumes lots by the method's plan and books its outcome. It *)
(* may outrun what is held: the rest is booked at no cost and flagged.     *)
Dispose(e) ==
    LET lots == OpenLots(ledgers[e.asset])
        plan == Plan(lots, e.quantity)
        covered == SumFunction(plan)
        pool == PoolFor(e)
        held == Min({e.quantity, pool.quantity})
        basis == IF method = "acb" THEN Averaged(pool, held) ELSE BasisOfLots(lots, plan)
    IN  /\ Accepted(e)
        /\ ledgers' = [ledgers EXCEPT ![e.asset].lots =
                           [i \in DOMAIN lots |-> Drawn(lots[i], plan[i])]]
        /\ pools' = IF method # "acb" THEN pools
                    ELSE [Retagged(e) EXCEPT ![e.asset] = Shrunk(pool, held)]
        /\ disposals' = Append(disposals,
               [asset |-> e.asset, quantity |-> e.quantity, proceeds |-> e.money.amount,
                cost_basis |-> basis, missing_basis |-> covered < e.quantity])
        /\ last' = e.at
        /\ LET sold == Min({e.quantity, truth.units[e.asset]})
           IN  truth' = [truth EXCEPT
                            !.booked = @ + 1,
                            !.got = IF e.money = Unpriced THEN @ ELSE Plus(@, e.money.amount),
                            !.units[e.asset] = @ - sold,
                            !.costed[e.asset] = IF basis = Unknown THEN @ ELSE @ + sold]

(* CurrencyMismatchError: the scale is already noted. An event older than  *)
(* the watermark raises before anything is, and is no step.                *)
RefuseCurrency(e) ==
    /\ Monotonic(e)
    /\ ~InCurrency(e)
    /\ scales' = [scales EXCEPT ![e.asset] = e.decimals]
    /\ UNCHANGED <<method, currency, last, ledgers, pools, disposals, truth>>

(* DecimalsMismatchError: the scale and the currency are already noted. *)
RefuseScale(e) ==
    /\ Monotonic(e)
    /\ InCurrency(e)
    /\ ~InScale(e)
    /\ scales' = [scales EXCEPT ![e.asset] = e.decimals]
    /\ currency' = Denominated(e)
    /\ pools' = Retagged(e)
    /\ UNCHANGED <<method, last, ledgers, disposals, truth>>

Next == \E e \in Events : Acquire(e) \/ Dispose(e) \/ RefuseCurrency(e) \/ RefuseScale(e)

Spec == Init /\ [][Next]_vars

-----------------------------------------------------------------------------
(* The report of the present state (report.py). A mark of no asset in      *)
(* `marks` is no mark.                                                     *)
Known(record) == record.proceeds # Unknown /\ record.cost_basis # Unknown

Outcomes(D) == Total([k \in D |-> Minus(disposals[k].proceeds, disposals[k].cost_basis)])

Realized == Outcomes({k \in DOMAIN disposals : Known(disposals[k])})

MissingRealized == {k \in DOMAIN disposals : ~Known(disposals[k])}

Held(a) == LET lots == OpenLots(ledgers[a])
           IN  Units(lots, DOMAIN lots)

OpenBasis(a) ==
    LET lots == OpenLots(ledgers[a])
    IN  IF \E i \in DOMAIN lots : lots[i].cost_remaining = Unknown THEN Unknown
        ELSE Total([i \in DOMAIN lots |-> lots[i].cost_remaining])

RemainingBasis(a) == IF method = "acb" THEN pools[a].cost ELSE OpenBasis(a)

Worth(raw, decimals, mark) == Share(Q(mark), raw, PowerOfTen[decimals])

Gap(a, marks) ==
    IF Held(a) = 0 THEN Q(0)
    ELSE IF a \notin DOMAIN marks \/ RemainingBasis(a) = Unknown THEN Unknown
    ELSE Minus(Worth(Held(a), scales[a], marks[a]), RemainingBasis(a))

Unrealized(marks) ==
    IF \E a \in Assets : Gap(a, marks) = Unknown THEN Unknown
    ELSE Total([a \in Assets |-> Gap(a, marks)])

(* What `unrealized` subtracted: nothing for what is no longer held.       *)
UnrealizedBasis(marks) ==
    IF Unrealized(marks) = Unknown THEN Unknown
    ELSE Total([a \in {b \in Assets : Held(b) > 0} |-> RemainingBasis(a)])

RealizedOf(a) ==
    Outcomes({k \in DOMAIN disposals : disposals[k].asset = a /\ Known(disposals[k])})

AssetPnL(a, marks) ==
    [realized |-> RealizedOf(a), unrealized |-> Gap(a, marks), quantity_held |-> Held(a)]

(* One row per open lot.  Its price and its value are counted at the lot's *)
(* own scale, not at the one the report gives the asset.                   *)
TaxLots(a, marks) ==
    LET lots == OpenLots(ledgers[a])
        scale == ledgers[a].decimals
    IN  [i \in DOMAIN lots |->
            [institution_lot_id |-> lots[i].id,
             original_purchase_datetime |-> lots[i].opened_at,
             quantity |-> lots[i].remaining,
             purchase_price |-> IF lots[i].cost_total = Unknown THEN Unknown
                                ELSE Share(lots[i].cost_total, PowerOfTen[scale], lots[i].original),
             cost_basis |-> lots[i].cost_remaining,
             current_value |-> IF a \notin DOMAIN marks THEN Unknown
                               ELSE Worth(lots[i].remaining, scale, marks[a])]]

OpenLotsBasis(rows) ==
    IF \E i \in DOMAIN rows : rows[i].cost_basis = Unknown THEN Unknown
    ELSE Total([i \in DOMAIN rows |-> rows[i].cost_basis])

Report(marks) ==
    [realized |-> Realized,
     unrealized |-> Unrealized(marks),
     unrealized_basis |-> UnrealizedBasis(marks),
     per_asset |-> [a \in Assets |-> AssetPnL(a, marks)],
     open_lots |-> [a \in Assets |-> TaxLots(a, marks)]]

-----------------------------------------------------------------------------
Amount == Int \X (Nat \ {0})

TypeOK ==
    /\ method \in Methods
    /\ currency \in Currencies \cup {NoCurrency}
    /\ last \in Times \cup {0}
    /\ \A a \in Assets :
        /\ ledgers[a].decimals \in Scales \cup {NoScale}
        /\ ledgers[a].seq \in [Txs -> 0..MaxEvents]
        /\ pools[a].currency \in Currencies \cup {NoCurrency}
        /\ pools[a].quantity \in Nat
        /\ pools[a].cost = Unknown \/ pools[a].cost \in Amount
        /\ \A i \in DOMAIN ledgers[a].lots :
            LET lot == ledgers[a].lots[i]
            IN  /\ lot.remaining \in 0..lot.original
                /\ lot.cost_total = Unknown <=> lot.cost_remaining = Unknown
    /\ scales \in [Assets -> Scales \cup {0}]

(* Lots that a replay still holds have distinct ids, though it forgets the *)
(* spent ones.                                                             *)
LotIdsDiffer ==
    \A a \in Assets : LET lots == ledgers[a].lots IN
        \A i, j \in DOMAIN lots : lots[i].id = lots[j].id => i = j

(* A lot ledger and a pool count the same units as a plain balance does,   *)
(* whatever events were refused in between: neither half of an acquisition *)
(* or a disposal is booked alone (process, consume, acquire, dispose), and *)
(* every lot they count is told by its id (open_lot's ordinals).           *)
BooksAgree ==
    /\ LotIdsDiffer
    /\ \A a \in Assets :
        /\ Held(a) = truth.units[a]
        /\ method = "acb" => pools[a].quantity = truth.units[a]

(* However often a lot is drawn on, its remaining basis is its part of the *)
(* total by the units that remain, to the last fraction; so a spent lot    *)
(* has none (consume's exact proration).                                   *)
LotBasisExact ==
    \A a \in Assets : \A i \in DOMAIN ledgers[a].lots :
        LET lot == ledgers[a].lots[i]
        IN  lot.cost_total # Unknown =>
                lot.cost_remaining = Share(lot.cost_total, lot.remaining, lot.original)

RowsAddUp(marks) ==
    LET said == Report(marks)
        Right(a) == ledgers[a].decimals \in {NoScale, scales[a]}
        Slice(a) == said.per_asset[a]
        Rows(a) == said.open_lots[a]
        Value(a) == Total([i \in DOMAIN Rows(a) |-> Rows(a)[i].current_value])
    IN  /\ said.realized = Total([a \in Assets |-> Slice(a).realized])
        /\ said.unrealized # Unknown =>
               said.unrealized = Total([a \in Assets |-> Slice(a).unrealized])
        /\ \A a \in Assets : \A i \in DOMAIN Rows(a) :
               LET row == Rows(a)[i]
               IN  row.cost_basis # Unknown =>
                       row.cost_basis
                           = Share(row.purchase_price, row.quantity, PowerOfTen[ledgers[a].decimals])
        /\ method # "acb" =>
               /\ said.unrealized # Unknown =>
                      said.unrealized_basis = Total([a \in Assets |-> OpenLotsBasis(Rows(a))])
               /\ \A a \in Assets :
                      (Right(a) /\ Slice(a).unrealized # Unknown) =>
                          Slice(a).unrealized
                              = IF Rows(a) = << >> THEN Q(0)
                                ELSE Minus(Value(a), OpenLotsBasis(Rows(a)))

(* The rows of a report bear out its totals.  Each asset's realised and    *)
(* unrealised figures are parts of the whole ones; a lot's basis is its    *)
(* remaining units at its purchase price; and, but for the average cost,   *)
(* an asset's unrealised gain is what its lots are worth less what they    *)
(* cost, and the basis subtracted is the lots' (report, _tax_lot,          *)
(* open_lots_basis).  Values are compared where the scale is right.        *)
ReportsAddUp ==
    /\ LotBasisExact
    /\ \A S \in SUBSET Assets : \A marks \in [S -> Marks] : RowsAddUp(marks)

(* Realised and unrealised outcomes add up to what was got, plus what the  *)
(* units held are worth, minus what was paid, under every method: methods  *)
(* move gains between the two and make none.  It is said of the streams    *)
(* of which a report knows everything, and of assets whose scale it has    *)
(* right (report, and the basis that process books).                       *)
MethodMakesNoMoney ==
    \A S \in SUBSET Assets : \A marks \in [S -> Marks] :
        LET gain == Unrealized(marks)
            worth == Total([a \in {b \in S : truth.units[b] > 0} |->
                               Worth(truth.units[a], ledgers[a].decimals, marks[a])])
        IN  /\ MissingRealized = {}
            /\ gain # Unknown
            /\ \A a \in Assets : ledgers[a].decimals \in {NoScale, scales[a]}
            => Plus(Realized, gain) = Minus(Plus(truth.got, worth), truth.paid)

(* No more units are sold at a known cost than were acquired at one: an    *)
(* unknown basis is never made a zero or an average (None-propagation, the *)
(* poisoned pool).                                                         *)
KnownCostsWerePaid == \A a \in Assets : truth.costed[a] <= truth.priced[a]

(* Under FIFO a lot is untouched while an older one has units left, over   *)
(* any stream the watermark lets in: lots acquired late never count as old.*)
OldestGoFirst ==
    method = "fifo" =>
        \A a \in Assets : LET lots == ledgers[a].lots IN
            \A i, j \in DOMAIN lots :
                lots[i].opened_at < lots[j].opened_at /\ lots[i].remaining > 0
                    => lots[j].remaining = lots[j].original

(* Under HIFO no other choice of as many units would have realised a       *)
(* higher known basis, at any sale of any history (hifo.select).           *)
HifoCostsMost ==
    [][(method = "hifo" /\ Len(disposals') > Len(disposals)) =>
        LET sale == disposals'[Len(disposals')]
            lots == OpenLots(ledgers[sale.asset])
            sold == Min({sale.quantity, Held(sale.asset)})
            choices == {p \in [DOMAIN lots -> 0..sold] :
                            /\ \A i \in DOMAIN lots : p[i] <= lots[i].remaining
                            /\ SumFunction(p) = sold}
        IN  sale.cost_basis # Unknown =>
                \A p \in choices : BasisOfLots(lots, p) # Unknown =>
                    ~Exceeds(BasisOfLots(lots, p), sale.cost_basis)]_disposals

(* `scales` remembers each asset's decimals (PnLState). *)
ScalesAreTheLedgers ==
    \A a \in Assets : ledgers[a].decimals # NoScale => scales[a] = ledgers[a].decimals

=============================================================================
