------------------------------- MODULE Reads -------------------------------
(***************************************************************************)
(* What a host is told when it reads: the walks of auradefi.sources, the   *)
(* holdings report over balances and prices (HoldingsService), the         *)
(* transactions decoded from an explorer's history, and a refresh of       *)
(* protocol positions.  One read a behaviour, at any point of a chain that *)
(* goes on during it.                                                      *)
(***************************************************************************)
EXTENDS Walks, Positions, Prices, Codecs, Assets

vars == <<chain, used, swept, job, blocks, refresh, market, quote, code,
          catalogue>>

Init == WalkInit /\ PositionsInit /\ PricesInit /\ CodecsInit /\ CatalogueInit

NothingAsked == market = <<>> /\ quote = Unasked /\ code = Unconverted /\ Uncatalogued

Underway == job = None \/ Running

(* Bound: no read looks at both chain and wallet, so only one of them      *)
(* moves; and neither before a refresh, which asks contracts.              *)
MineNext ==
    /\ used = {} /\ refresh = Idle /\ NothingAsked /\ Underway
    /\ job.kind \notin {"scan", "batch"}
    /\ Mine
    /\ UNCHANGED <<positionVars, priceVars, catalogueVars, codecVars>>

ReceiveNext ==
    /\ chain = <<>> /\ refresh = Idle /\ NothingAsked /\ Underway
    /\ job.kind \in {"none", "scan"}
    /\ Receive \/ Sweep
    /\ UNCHANGED <<positionVars, priceVars, catalogueVars, codecVars>>

BeginNext ==
    /\ refresh = Idle /\ NothingAsked
    /\ Begins
    /\ job'.kind \in {"scan", "batch"} => chain = <<>>
    /\ job'.kind # "scan" => used = {}
    /\ UNCHANGED <<positionVars, priceVars, catalogueVars, codecVars>>

RequestNext ==
    /\ GoesOn
    /\ UNCHANGED <<positionVars, priceVars, catalogueVars, codecVars>>

(* HoldingsService.holdings: the balances, priced.                         *)
PriceHoldings ==
    /\ job.kind = "balances" /\ job.stage = "price"
    /\ \E oracles \in OracleChains :
           LET walk == UsdPrices({job.records[k].asset : k \in DOMAIN job.records}, oracles)
           IN job' = IF walk.raised THEN [job EXCEPT !.stage = "raised"]
                     ELSE [kind |-> "holdings", stage |-> "done", began |-> job.began,
                           oracles |-> oracles,
                           report |-> Report(job.records, walk.priced)]
    /\ UNCHANGED <<chain, used, swept, positionVars, priceVars, catalogueVars, codecVars>>

RefreshNext ==
    /\ chain = <<>> /\ used = {} /\ job = None
    /\ NothingAsked
    /\ PositionsNext
    /\ UNCHANGED <<walkVars, priceVars, catalogueVars, codecVars>>

QuoteNext ==
    /\ chain = <<>> /\ used = {} /\ job = None /\ refresh = Idle /\ code = Unconverted
    /\ Uncatalogued
    /\ PricesNext
    /\ UNCHANGED <<walkVars, positionVars, catalogueVars, codecVars>>

ConvertNext ==
    /\ chain = <<>> /\ used = {} /\ job = None /\ refresh = Idle /\ NothingAsked
    /\ Convert
    /\ UNCHANGED <<walkVars, positionVars, priceVars, catalogueVars>>

CatalogueNextAlone ==
    /\ chain = <<>> /\ used = {} /\ job = None /\ refresh = Idle
    /\ market = <<>> /\ quote = Unasked /\ code = Unconverted
    /\ CatalogueNext
    /\ UNCHANGED <<walkVars, positionVars, priceVars, codecVars>>

Next ==
    \/ MineNext \/ ReceiveNext \/ BeginNext \/ RequestNext \/ PriceHoldings \/ RefreshNext
    \/ QuoteNext \/ ConvertNext \/ CatalogueNextAlone

Spec == Init /\ [][Next]_vars

-----------------------------------------------------------------------------
(* Which of the transactions i to j concern the account.                   *)
Touching(i, j) ==
    {k \in i .. j : Me \in {chain[k].from, chain[k].to} \/ chain[k].moves # <<>>}

(* Balances are read asset by asset, so each figure is the balance at some *)
(* moment of the read (and an asset left out was then worth nothing), all  *)
(* at one moment if nothing moved.                                         *)
FiguresExact(records) ==
    LET Held(asset) == {k \in DOMAIN records : records[k].asset = asset}
    IN \A asset \in Assets :
           /\ Cardinality(Held(asset)) <= 1
           /\ \E n \in job.began .. Len(chain) :
                  Balance(asset, n) = MapThenSumSet(LAMBDA k : records[k].quantity,
                                                    Held(asset))

(* A holdings report has exact figures, each valued by the first oracle    *)
(* that knows it; the total is theirs, and the rest is named.              *)
HoldingsExact ==
    Done("holdings") =>
        LET report == job.report
            Knowing(asset) == {k \in DOMAIN job.oracles :
                                  asset \in DOMAIN job.oracles[k].quotes}
            Price(asset) == job.oracles[Min(Knowing(asset))].quotes[asset]
            priced == {k \in DOMAIN report.holdings :
                          Knowing(report.holdings[k].asset) # {}}
        IN /\ FiguresExact(report.holdings)
           /\ report.total_value =
                  MapThenSumSet(LAMBDA k : report.holdings[k].quantity
                                           * Price(report.holdings[k].asset), priced)
           /\ ToSet(report.unpriced) =
                  {report.holdings[k].asset : k \in DOMAIN report.holdings \ priced}

SolanaExact == Done("solana") => FiguresExact(job.records)

(* What a scan says is in an address was in it at some moment of the scan. *)
WalletExact ==
    Done("scan") =>
        \A k \in DOMAIN job.found :
            LET address == job.found[k].address
            IN IF job.found[k].balance = 0 THEN address \in swept
               ELSE job.found[k].balance = 1 /\ address \notin job.gone

(* What a host is told it holds, and what it is worth, is true: see        *)
(* HoldingsExact, SolanaExact and WalletExact, and InstantsTold,           *)
(* QuotesTrue and MarksTrue in Prices.                                     *)
HoldingsTrue ==
    /\ HoldingsExact /\ SolanaExact /\ WalletExact
    /\ InstantsTold /\ QuotesTrue /\ MarksTrue

(* Words, batches, addresses and amounts are read back as they were and    *)
(* nothing else is read; a name means one asset; a group adds up amounts   *)
(* of one scale; and evidence is only added to: see Codecs and Assets.     *)
FormsAgree == ConversionsAgree /\ NamesAgree

(* The movements decoded from a history say, asset by asset, what each     *)
(* transaction did to the account.  Of one that only moved tokens the      *)
(* explorer never says who paid the fee: there the fee is left aside.      *)
ChangesExact ==
    Done("history") =>
        LET txs == DecodeAccount(job.normal, job.tokens)
            PayerUnknown(i) == Me \notin {chain[i].from, chain[i].to}
            Aside(tx, i, asset) ==
                IF asset = Native /\ PayerUnknown(i) /\ tx.borne_by = "self" THEN Gas ELSE 0
        IN /\ \A i \in Touching(1, job.began) : \E k \in DOMAIN txs :
                  /\ \A m \in DOMAIN txs : txs[m].hash = i <=> m = k
                  /\ \A asset \in Assets :
                         Change(txs[k], asset) + Aside(txs[k], i, asset)
                             = Effect(chain[i], asset)
           /\ \A k, m \in DOMAIN txs : k < m => txs[k].hash < txs[m].hash

(* The events distilled from them for the accounts, from a ledger that     *)
(* hands them out newest first as a backfill stored them, are in the order *)
(* of the chain, and acquire more than they dispose of by what the account *)
(* gained, fees aside; what was removed or internal counts not.            *)
EventsExact ==
    Done("history") =>
        LET stored == Reverse([k \in DOMAIN DecodeAccount(job.normal, job.tokens) |->
                                  ToLedger(DecodeAccount(job.normal, job.tokens)[k])])
            later == job.began + 1 .. Len(chain)
            Paid(i, asset) == IF asset = Native /\ chain[i].from = Me THEN Gas ELSE 0
        IN \A removed, internal \in SUBSET Touching(1, job.began) :
               LET events == DeriveEvents(stored, removed, internal \cup later)
                   Sum(asset, acquires) ==
                       MapThenSumSet(LAMBDA k : events[k].quantity,
                                     {k \in DOMAIN events : /\ events[k].asset = asset
                                                            /\ events[k].acquires = acquires})
               IN /\ \A j, k \in DOMAIN events : j < k => events[j].at <= events[k].at
                  /\ \A asset \in Assets :
                         Sum(asset, TRUE) - Sum(asset, FALSE)
                             = MapThenSumSet(LAMBDA i : Effect(chain[i], asset) + Paid(i, asset),
                                             Touching(1, job.began) \ (removed \cup internal))

(* However the engine pages a native history, it stores the transactions   *)
(* of the whole, and each of them once.                                    *)
PagesExact ==
    Done("history") =>
        LET rows == job.normal
        IN \A n \in DOMAIN rows :
               LET paged == DecodePage(SubSeq(rows, 1, n)) \o DecodePage(SubSeq(rows, n + 1, Len(rows)))
               IN /\ ToSet(paged) = ToSet(DecodePage(rows))
                  /\ IsInjective(paged)

(* A decoded history, and the events the accounts are replayed from, say   *)
(* what happened: see ChangesExact, EventsExact and PagesExact.            *)
MovesExact == ChangesExact /\ EventsExact /\ PagesExact

=============================================================================
