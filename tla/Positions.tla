----------------------------- MODULE Positions -----------------------------
(***************************************************************************)
(* A refresh of an address's protocol positions (auradefi.positions):      *)
(* discover over the adapters that serve the chain, the restriction to the *)
(* contracts the address touched, resolve over the same adapters, prices,  *)
(* drill.  The shipped adapters read contracts one call at a time, through *)
(* a reader that is pinned at a block or reads the latest one; blocks come *)
(* in between.  An adapter that raises becomes a failure in the outcome    *)
(* and its siblings go on.                                                 *)
(*                                                                         *)
(* The contracts and the host's own adapter are external.  Token decimals, *)
(* a pair's tokens and an NFT's pool never change and are not asked for.   *)
(***************************************************************************)
EXTENDS Valuation

CONSTANTS
    Worlds,      \* what the contracts may hold at a block
    MaxBlocks,   \* bound: blocks
    Fleets,      \* the adapters that may serve the chain
    TouchedSets, \* the addresses the account may have touched
    HostSlices,  \* what the host's adapter may discover
    HostResults, \* and resolve
    HostNames,   \* what it calls its contracts and groups
    OracleChains, \* the chains of oracles that may price
    Here,        \* the chain refreshed
    RateOne,     \* _RATE_ONE, the unit of an exchange rate
    Q            \* the unit of a square-root price, 2^96 in the code

Order == <<"aave-v3", "host", "receipt", "uniswap-v2", "uniswap-v3">>

PairAddress == <<"pair1", "pair2">>

(* A balance is part of the supply.                                        *)
PairStates == {pair \in [lp : Nat, supply : Nat, r0 : Nat, r1 : Nat] : pair.lp <= pair.supply}

(* A tick has a square-root price.                                         *)
NftStates ==
    {nft \in [lower : Int, upper : Int, liquidity : Nat, owed0 : Nat, owed1 : Nat] :
        0 < Q + nft.lower /\ nft.lower <= nft.upper}

(* The NFTs an account owns are there.                                     *)
WorldStates ==
    {world \in [supplied : Nat, debt : Nat, ltv : Nat, shares : Nat, rate : Nat,
                pairs : Seq(PairStates), owned : Seq(Nat), nfts : Seq(NftStates),
                tick : Int] :
        /\ Len(world.pairs) <= Len(PairAddress)
        /\ \A k \in DOMAIN world.owned : world.owned[k] \in DOMAIN world.nfts}

(* Assets are numbered.                                                    *)
UnderlyingStates == [asset : Nat, quantity : Int, borrowed : BOOLEAN]

Names ==
    {"atoken", "debt", "aave", "receipt", "pair1", "pair2", "manager", "pool"} \cup HostNames

PositionsOf(adapters) ==
    [adapter : adapters, id : Names \X Nat, group : Names, info : Seq(Nat),
     underlyings : Seq(UnderlyingStates)]

ASSUME UnitsPositive == {RateOne, Q} \subseteq Nat \ {0}
ASSUME WorldsTyped == Worlds \subseteq WorldStates

(* What no adapter serves takes no call; each has its own id, under which  *)
(* the host's returns its positions; and an oracle answers with amounts.   *)
ASSUME FleetsServe == Fleets \subseteq (SUBSET ToSet(Order)) \ {{}}
ASSUME HostSigns == \A answer \in HostResults : answer.positions \in Seq(PositionsOf({"host"}))
ASSUME OraclesQuote ==
    \A oracles \in OracleChains :
        /\ oracles \in Seq(ToSet(oracles))
        /\ \A oracle \in ToSet(oracles) :
               \A a \in DOMAIN oracle.quotes : oracle.quotes[a] \in Int

VARIABLES
    blocks,     \* what the contracts held, block by block
    refresh     \* the refresh in progress, or over

positionVars == <<blocks, refresh>>

Listed ==
    [a \in {"aave-v3", "receipt", "uniswap-v3"} |->
        CASE a = "aave-v3" -> {"atoken", "debt"}
          [] a = "receipt" -> {"receipt"}
          [] a = "uniswap-v3" -> {"manager"}]

Descriptor(adapter, address) == [adapter |-> adapter, chain |-> Here, address |-> address]

Idle == [stage |-> "idle"]

(* Where the adapter at work is, and what it has been told.                *)
Start == [ask |-> "start", index |-> 1, count |-> 0, held |-> 0, supply |-> 0,
          nft |-> <<>>, found |-> <<>>]

PositionsInit ==
    /\ blocks = <<>>
    /\ refresh = Idle

Active == refresh.stage \in {"discover", "resolve"}

Turn == Order[Min({k \in DOMAIN Order : Order[k] \in refresh.left})]

Turns(stage, adapter, ask) ==
    refresh.stage = stage /\ Turn = adapter /\ refresh.cur.ask = ask

(* The reader is pinned at construction; 0 reads the latest block.         *)
AtFault == Last(blocks)

At == IF refresh.pin = 0 THEN Last(blocks) ELSE blocks[refresh.pin]

Has(address) == Descriptor(Turn, address) \in refresh.contracts[Turn]

NextBlock ==
    /\ Active
    /\ Len(blocks) < MaxBlocks
    /\ \E world \in Worlds :
           /\ Len(world.pairs) >= Len(Last(blocks).pairs)
           /\ blocks' = Append(blocks, world)
    /\ UNCHANGED refresh

(* A pin is a block that is there; what came before it makes no difference.*)
Begin ==
    /\ refresh = Idle
    /\ \E world \in Worlds : blocks' = <<world>>
    /\ \E fleet \in Fleets, pin \in {0, 1}, touched \in TouchedSets :
           refresh' = [stage |-> "discover", fleet |-> fleet, left |-> fleet, pin |-> pin,
                       touched |-> touched, cur |-> Start,
                       contracts |-> [a \in fleet |-> {}], positions |-> <<>>,
                       failures |-> {}, refused |-> {}, result |-> <<>>]

(* The next adapter's turn; after the last, restrict_discovery and resolve,*)
(* or the end of resolve.                                                  *)
Turned(r) ==
    LET over == [r EXCEPT !.left = @ \ {Turn}, !.cur = Start] IN
    CASE over.left # {} -> over
      [] over.left = {} /\ r.stage = "discover" ->
             [over EXCEPT !.stage = "resolve", !.left = r.fleet,
                 !.contracts = [a \in r.fleet |->
                                   {d \in @[a] : d.address \in r.touched}]]
      [] over.left = {} /\ r.stage = "resolve" -> [over EXCEPT !.stage = "price"]

Now(ask, cur) ==
    /\ refresh' = [refresh EXCEPT !.cur = [cur EXCEPT !.ask = ask]]
    /\ UNCHANGED blocks

(* DiscoveryFailure leaves the adapter an empty slice.                     *)
AdapterFails ==
    /\ refresh' = Turned([refresh EXCEPT !.failures = @ \cup {<<refresh.stage, Turn>>}])
    /\ UNCHANGED blocks

-----------------------------------------------------------------------------
(* run_discovery. *)

Discovered(slice) ==
    /\ refresh' = Turned([refresh EXCEPT !.contracts[Turn] = slice])
    /\ UNCHANGED blocks

(* AaveV3Adapter, ReceiptTokenAdapter and UniswapV3Adapter ask nothing.    *)
DiscoverListed ==
    /\ refresh.stage = "discover" /\ Turn \in DOMAIN Listed
    /\ Discovered({Descriptor(Turn, address) : address \in Listed[Turn]})

(* _require_contract_set and _reject_foreign_descriptors.                  *)
Acceptable(answer) ==
    /\ ~answer.raises
    /\ answer.is_set
    /\ \A d \in answer.slice : d.adapter = Turn /\ d.chain = Here

DiscoverHost ==
    /\ refresh.stage = "discover" /\ Turn = "host"
    /\ \E answer \in HostSlices :
           IF Acceptable(answer) THEN Discovered(answer.slice) ELSE AdapterFails

DiscoverLength ==
    /\ Turns("discover", "uniswap-v2", "start")
    /\ IF At.pairs = <<>> THEN Discovered({})
       ELSE Now("pair", [refresh.cur EXCEPT !.count = Len(At.pairs)])

DiscoverPair ==
    /\ Turns("discover", "uniswap-v2", "pair")
    /\ LET cur == refresh.cur IN
       IF cur.index < cur.count THEN Now("pair", [cur EXCEPT !.index = @ + 1])
       ELSE Discovered({Descriptor(Turn, PairAddress[i]) : i \in 1 .. cur.count})

-----------------------------------------------------------------------------
(* resolve_all. *)

Resolved(found) ==
    /\ refresh' = Turned([refresh EXCEPT !.positions = @ \o found])
    /\ UNCHANGED blocks

Supplied(asset, quantity) == [asset |-> asset, quantity |-> quantity, borrowed |-> FALSE]

Position(id, group, underlyings) ==
    [adapter |-> Turn, id |-> id, group |-> group, info |-> <<>>,
     underlyings |-> underlyings]

(* Positions that are valued already (_require_raw) are refused.           *)
ResolveHost ==
    /\ refresh.stage = "resolve" /\ Turn = "host"
    /\ \E answer \in HostResults :
           IF answer.raises \/ answer.valued THEN AdapterFails
           ELSE Resolved(answer.positions)

(* AaveV3Adapter: the supplied, the borrowed, and if there is any of       *)
(* either the account's figures, on its first position.                    *)
AaveSupplied ==
    /\ Turns("resolve", "aave-v3", "start")
    /\ Now("debt", IF Has("atoken") /\ At.supplied > 0
                   THEN [refresh.cur EXCEPT !.found =
                            <<Position(<<"atoken", 0>>, "aave", <<Supplied(1, At.supplied)>>)>>]
                   ELSE refresh.cur)

AaveDebt ==
    /\ Turns("resolve", "aave-v3", "debt")
    /\ LET owed == [asset |-> 2, quantity |-> At.debt, borrowed |-> TRUE]
           found == refresh.cur.found
                    \o (IF Has("debt") /\ At.debt > 0
                        THEN <<Position(<<"debt", 0>>, "aave", <<owed>>)>> ELSE <<>>)
       IN IF found = <<>> THEN Resolved(<<>>)
          ELSE Now("account", [refresh.cur EXCEPT !.found = found])

AaveAccount ==
    /\ Turns("resolve", "aave-v3", "account")
    /\ Resolved([refresh.cur.found EXCEPT ![1].info = <<At.ltv>>])

ReceiptShare ==
    /\ Turns("resolve", "receipt", "start")
    /\ IF Has("receipt") /\ At.shares > 0
       THEN Now("rate", [refresh.cur EXCEPT !.held = At.shares])
       ELSE Resolved(<<>>)

ReceiptRate ==
    /\ Turns("resolve", "receipt", "rate")
    /\ Resolved(<<Position(<<"receipt", 0>>, "receipt",
                     <<Supplied(1, (refresh.cur.held * At.rate) \div RateOne)>>)>>)

(* UniswapV2Adapter, pair by pair.                                         *)
Pairs ==
    (IF Has(PairAddress[1]) THEN <<1>> ELSE <<>>) \o (IF Has(PairAddress[2]) THEN <<2>> ELSE <<>>)

PairNow == Pairs[refresh.cur.index]

V2Balance ==
    /\ Turns("resolve", "uniswap-v2", "start")
    /\ LET cur == refresh.cur IN
       IF cur.index > Len(Pairs) THEN Resolved(cur.found)
       ELSE LET lp == At.pairs[PairNow].lp IN
            IF lp = 0 THEN Now("start", [cur EXCEPT !.index = @ + 1])
            ELSE Now("supply", [cur EXCEPT !.held = lp])

V2Supply ==
    /\ Turns("resolve", "uniswap-v2", "supply")
    /\ Now("reserves", [refresh.cur EXCEPT !.supply = At.pairs[PairNow].supply])

(* Burn semantics: integer floor.  Nothing supplied is a ZeroDivisionError.*)
V2Reserves ==
    /\ Turns("resolve", "uniswap-v2", "reserves")
    /\ LET cur == refresh.cur
           Share(reserve) == (cur.held * reserve) \div cur.supply
           pair == At.pairs[PairNow]
       IN IF cur.supply = 0 THEN AdapterFails
          ELSE Now("start",
                   [cur EXCEPT !.index = @ + 1,
                       !.found = Append(@, Position(<<PairAddress[PairNow], 0>>,
                           PairAddress[PairNow],
                           <<Supplied(1, Share(pair.r0)), Supplied(2, Share(pair.r1))>>))])

(* UniswapV3Adapter, NFT by NFT, by its place among those the account owns.*)
NftDone(cur) ==
    IF cur.index = cur.count THEN Resolved(cur.found)
    ELSE Now("token", [cur EXCEPT !.index = @ + 1])

V3Count ==
    /\ Turns("resolve", "uniswap-v3", "start")
    /\ IF ~Has("manager") \/ At.owned = <<>> THEN Resolved(<<>>)
       ELSE Now("token", [refresh.cur EXCEPT !.count = Len(At.owned)])

(* A place beyond the last, and an NFT that was burnt, revert.             *)
V3Token ==
    /\ Turns("resolve", "uniswap-v3", "token")
    /\ IF refresh.cur.index > Len(At.owned) THEN AdapterFails
       ELSE Now("nft", [refresh.cur EXCEPT !.held = At.owned[refresh.cur.index]])

Empty(nft) == nft.liquidity = 0 /\ nft.owed0 = 0 /\ nft.owed1 = 0

V3Nft ==
    /\ Turns("resolve", "uniswap-v3", "nft")
    /\ LET cur == refresh.cur IN
       CASE cur.held \notin DOMAIN At.nfts -> AdapterFails
         [] cur.held \in DOMAIN At.nfts /\ Empty(At.nfts[cur.held]) -> NftDone(cur)
         [] OTHER -> Now("slot0", [cur EXCEPT !.nft = <<At.nfts[cur.held]>>])

(* get_sqrt_ratio_at_tick: ticks are few here, its ratios even.            *)
Sqrt(tick) == Q + tick

(* amounts_for_liquidity.                                                  *)
Amounts(nft, tick) ==
    LET a == Sqrt(nft.lower)
        b == Sqrt(nft.upper)
        p == Min({Max({Sqrt(tick), a}), b})
    IN <<(((nft.liquidity * Q) * (b - p)) \div b) \div p,
         (nft.liquidity * (p - a)) \div Q>>

(* What is zero is left out.                                               *)
NonZero(asset, quantity) == IF quantity = 0 THEN <<>> ELSE <<Supplied(asset, quantity)>>

NftUnderlyings(nft, tick) ==
    NonZero(1, Amounts(nft, tick)[1]) \o NonZero(2, Amounts(nft, tick)[2])
    \o NonZero(1, nft.owed0) \o NonZero(2, nft.owed1)

(* Position refuses to be built of nothing.                                *)
V3Slot0 ==
    /\ Turns("resolve", "uniswap-v3", "slot0")
    /\ LET cur == refresh.cur
           underlyings == NftUnderlyings(cur.nft[1], At.tick)
       IN IF underlyings = <<>> THEN AdapterFails
          ELSE NftDone([cur EXCEPT !.nft = <<>>,
                   !.found = Append(@, Position(<<"manager", cur.held>>, "pool", underlyings))])

-----------------------------------------------------------------------------
(* The calls that the adapter at work makes next.                          *)
Requesting ==
    /\ Active
    /\ Turn # "host"
    /\ refresh.stage = "discover" => Turn = "uniswap-v2"
    /\ refresh.cur.ask = "start" /\ refresh.stage = "resolve" =>
           CASE Turn = "aave-v3" -> Has("atoken")
             [] Turn = "uniswap-v2" -> refresh.cur.index <= Len(Pairs)
             [] OTHER -> refresh.contracts[Turn] # {}
    /\ refresh.cur.ask = "debt" => Has("debt")

(* SourceError, from any call.                                             *)
CallFails ==
    /\ Requesting
    /\ refresh' = Turned([refresh EXCEPT !.failures = @ \cup {<<refresh.stage, Turn>>},
                                         !.refused = @ \cup {Turn}])
    /\ UNCHANGED blocks

PriceAndDrill ==
    /\ refresh.stage = "price"
    /\ \E oracles \in OracleChains :
           LET all == Underlyings(refresh.positions)
               walk == UsdPrices({all[k].asset : k \in DOMAIN all}, oracles)
           IN refresh' =
                  IF walk.raised \/ ~Drillable(refresh.positions, walk.priced)
                  THEN [refresh EXCEPT !.stage = "raised"]
                  ELSE [refresh EXCEPT !.stage = "done",
                           !.result = <<walk.priced, Drill(refresh.positions, walk.priced)>>]
    /\ UNCHANGED blocks

PositionsNext ==
    \/ NextBlock \/ Begin \/ CallFails \/ PriceAndDrill
    \/ DiscoverListed \/ DiscoverHost \/ DiscoverLength \/ DiscoverPair
    \/ ResolveHost \/ AaveSupplied \/ AaveDebt \/ AaveAccount
    \/ ReceiptShare \/ ReceiptRate \/ V2Balance \/ V2Supply \/ V2Reserves
    \/ V3Count \/ V3Token \/ V3Nft \/ V3Slot0

PositionsSpec == PositionsInit /\ [][PositionsNext]_positionVars

-----------------------------------------------------------------------------
(* Of what the adapters found, whatever blocks they read it at, net worth  *)
(* is what the synthetic holdings and what the groups sum to, the assets   *)
(* less the debts; an adapter that failed to resolve added nothing, and    *)
(* every adapter's slice holds descriptors of its own, on this chain.      *)
NetWorthAddsUp ==
    /\ refresh # Idle =>
           /\ \A a \in refresh.fleet : \A d \in refresh.contracts[a] :
                  d.adapter = a /\ d.chain = Here
           /\ \A k \in DOMAIN refresh.positions :
                  <<"resolve", refresh.positions[k].adapter>> \notin refresh.failures
    /\ refresh.stage = "done" =>
           LET priced == refresh.result[1]
               drilled == refresh.result[2]
               synthetic == SyntheticHoldings(refresh.positions, priced)
           IN /\ drilled.net_worth = Total([k \in DOMAIN synthetic |-> synthetic[k].value])
              /\ drilled.net_worth = SumFunctionOnSet(drilled.groups, DOMAIN drilled.groups)
              /\ drilled.gross_assets >= 0 /\ drilled.total_debt >= 0

-----------------------------------------------------------------------------
Succeeded(adapter) ==
    /\ refresh.stage \in {"price", "done", "raised"}
    /\ adapter \in refresh.fleet
    /\ \A stage \in {"discover", "resolve"} : <<stage, adapter>> \notin refresh.failures

Of(positions, adapter) ==
    FlattenSeq([k \in DOMAIN positions |->
                   IF positions[k].adapter = adapter THEN <<positions[k]>> ELSE <<>>])

Quantity(p, k) == p.underlyings[k].quantity

(* `share` of `whole`, rounded down.                                       *)
Floor(quantity, share, whole, of) ==
    quantity * of <= share * whole /\ share * whole < (quantity + 1) * of

(* What each adapter should find in a world, of the contracts touched.     *)
AaveExact(found, touched, world) ==
    LET Side(borrowed) ==
            {Quantity(found[k], 1) :
                k \in {k \in DOMAIN found : found[k].underlyings[1].borrowed = borrowed}}
        Figure(address, raw) == IF address \in touched /\ raw > 0 THEN {raw} ELSE {}
    IN /\ Side(FALSE) = Figure("atoken", world.supplied)
       /\ Side(TRUE) = Figure("debt", world.debt)
       /\ found # <<>> => Infos(found) = {<<world.ltv>>}

ReceiptExact(found, touched, world) ==
    IF "receipt" \in touched /\ world.shares > 0
    THEN /\ Len(found) = 1
         /\ Floor(Quantity(found[1], 1), world.shares, world.rate, RateOne)
    ELSE found = <<>>

PairsExact(found, touched, world) ==
    LET Holds(i) ==
            i <= Len(world.pairs) /\ PairAddress[i] \in touched /\ world.pairs[i].lp > 0
        held == (IF Holds(1) THEN <<1>> ELSE <<>>) \o (IF Holds(2) THEN <<2>> ELSE <<>>)
    IN /\ Len(found) = Len(held)
       /\ \A k \in DOMAIN held :
              LET pair == world.pairs[held[k]] IN
              /\ found[k].id = <<PairAddress[held[k]], 0>>
              /\ Floor(Quantity(found[k], 1), pair.lp, pair.r0, pair.supply)
              /\ Floor(Quantity(found[k], 2), pair.lp, pair.r1, pair.supply)

NftsExact(found, touched, world) ==
    LET owned == IF "manager" \in touched THEN world.owned ELSE <<>>
        held == FlattenSeq([k \in DOMAIN owned |->
                               IF Empty(world.nfts[owned[k]]) THEN <<>> ELSE <<owned[k]>>])
    IN /\ Len(found) = Len(held)
       /\ \A k \in DOMAIN held :
              /\ found[k].id = <<"manager", held[k]>>
              /\ found[k].underlyings = NftUnderlyings(world.nfts[held[k]], world.tick)

Dust(world) ==
    \E k \in DOMAIN world.owned :
        LET nft == world.nfts[world.owned[k]]
        IN ~Empty(nft) /\ NftUnderlyings(nft, world.tick) = <<>>

(* Read at one block, because the reader is pinned or because no block     *)
(* came, the shipped adapters find every position the address holds in the *)
(* contracts it touched, once, with the shares the contracts would pay     *)
(* out; and none of them fails but for a call that failed.  The exception  *)
(* is an NFT whose liquidity is worth nothing on either side: Position     *)
(* refuses to be empty, and with it go all the adapter found.              *)
PinnedReadsAgree ==
    (/\ refresh # Idle
     /\ refresh.pin # 0 \/ Len(blocks) = 1) =>
        LET world == blocks[1]
            FoundBy(adapter) == Of(refresh.positions, adapter)
        IN
        /\ Succeeded("aave-v3") => AaveExact(FoundBy("aave-v3"), refresh.touched, world)
        /\ Succeeded("receipt") => ReceiptExact(FoundBy("receipt"), refresh.touched, world)
        /\ Succeeded("uniswap-v2") => PairsExact(FoundBy("uniswap-v2"), refresh.touched, world)
        /\ Succeeded("uniswap-v3") => NftsExact(FoundBy("uniswap-v3"), refresh.touched, world)
        /\ \A failure \in refresh.failures :
               \/ failure[2] \in refresh.refused \cup {"host"}
               \/ failure[2] = "uniswap-v3" /\ Dust(world)

=============================================================================
