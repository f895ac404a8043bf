------------------------------- MODULE Prices -------------------------------
(***************************************************************************)
(* Prices beyond the current instant's walk (auradefi.prices): a chain of  *)
(* oracles asked about the past, in which a link may be a chain itself;    *)
(* the DefiLlama oracle, which asks for its coin keys some at a time while *)
(* the market moves; and the store of dated marks.                         *)
(*                                                                         *)
(* The market is external: the prices at each moment so far.  Its moments  *)
(* are the instants that can be asked about.                               *)
(***************************************************************************)
EXTENDS Valuation, TLC

CONSTANTS
    CoinKeys,       \* coin_key: asset to the key it is listed under, or 0
    Markets,        \* what the market may be: listed keys to prices
    KeysPerRequest, \* CHUNK_SIZE
    Resolution,     \* RESOLUTION_MS
    DatedChains,    \* chains of oracles asked about an instant
    PutLists,       \* marks put in a store, in order
    MaxMoments      \* bound: moments of the market

ASSUME Slices == {KeysPerRequest, Resolution} \subseteq Nat \ {0}

VARIABLES
    market,     \* what is quoted, moment by moment
    quote       \* the question in progress, or answered

priceVars == <<market, quote>>

Unasked == [kind |-> "none", stage |-> "none"]

PricesInit == market = <<>> /\ quote = Unasked

(* Prices move before somebody reads them, and meanwhile. *)
Trade ==
    /\ quote.stage \in {"none", "chunk"} /\ Len(market) < MaxMoments
    /\ \E m \in Markets : market' = Append(market, m)
    /\ UNCHANGED quote

-----------------------------------------------------------------------------
(* Inquirer at an instant.  An oracle is a leaf, with what it quotes for   *)
(* the instant, or a chain; either may not know about instants at all, and *)
(* either may state a reason why it cannot reach this one.                 *)

Dated(oracle) == oracle.dated

Stated(oracle) == oracle.unreachable

RECURSIVE PricesAt(_, _)

(* The oracles in order, each for what has no price yet; one that is       *)
(* passed over is not called.                                              *)
PricesAt(walk, oracles) ==
    FoldLeft(LAMBDA w, oracle :
                 IF ~Dated(oracle) \/ Stated(oracle) \/ w.assets \subseteq DOMAIN w.priced THEN w
                 ELSE IF oracle.chain THEN PricesAt(w, oracle.oracles)
                 ELSE Asked(w, oracle),
             walk, oracles)

RECURSIVE AbsencesAt(_)

(* The inner chains' own absences are lost. *)
AbsencesAtFault(oracles) ==
    FlattenSeq([k \in DOMAIN oracles |->
        IF Stated(oracles[k]) \/ ~Dated(oracles[k]) THEN <<oracles[k].name>> ELSE <<>>])

(* Why each of them that is passed over is, through every inner chain.     *)
AbsencesAt(oracles) ==
    FlattenSeq([k \in DOMAIN oracles |->
        IF Stated(oracles[k]) THEN <<oracles[k].name>>
        ELSE IF ~Dated(oracles[k]) THEN <<oracles[k].name>>
        ELSE IF oracles[k].chain THEN AbsencesAt(oracles[k].oracles)
        ELSE <<>>])

AskInstant(assets, oracles) ==
    LET walk == PricesAt([assets |-> assets, raised |-> FALSE, priced |-> <<>>], oracles)
    IN quote' = IF walk.raised THEN [kind |-> "instant", stage |-> "raised"]
                ELSE [kind |-> "instant", stage |-> "done", asked |-> assets,
                      oracles |-> oracles, priced |-> walk.priced,
                      absences |-> AbsencesAt(oracles)]

-----------------------------------------------------------------------------
(* DefiLlamaOracle. *)

Keyed(assets) == {a \in assets : CoinKeys[a] # 0}

(* Distinct keys in order, KeysPerRequest at a time. *)
ChunkKeys(keys) ==
    LET ordered == SetToSortSeq(keys, <)
        count == (Len(ordered) + KeysPerRequest - 1) \div KeysPerRequest
    IN [k \in 1 .. count |->
           SubSeq(ordered, (k - 1) * KeysPerRequest + 1,
                  Min({k * KeysPerRequest, Len(ordered)}))]

(* Now, or at a past moment; nothing to ask is no request. *)
AskPrices(assets, at) ==
    LET chunks == ChunkKeys({CoinKeys[a] : a \in Keyed(assets)})
    IN quote' = [kind |-> "quotes", stage |-> IF chunks = <<>> THEN "done" ELSE "chunk",
                 asked |-> assets, at |-> at, chunks |-> chunks, made |-> 0,
                 priced |-> <<>>, began |-> Len(market)]

(* The coins of one answer. *)
Coins == IF quote.at = 0 THEN Last(market) ELSE market[quote.at]

(* One request, and each key's price for every asset that shares it. *)
QuoteChunk ==
    /\ quote.stage = "chunk"
    /\ LET keys == ToSet(Head(quote.chunks)) \cap DOMAIN Coins
           found == {a \in Keyed(quote.asked) : CoinKeys[a] \in keys}
       IN quote' = [quote EXCEPT
              !.priced = [a \in DOMAIN @ \cup found |->
                             IF a \in found THEN Coins[CoinKeys[a]] ELSE @[a]],
              !.chunks = Tail(@), !.made = @ + 1,
              !.stage = IF Len(quote.chunks) = 1 THEN "done" ELSE @]
    /\ UNCHANGED market

(* A transport, a status, a body or one quote that is no good. *)
QuoteFails ==
    /\ quote.stage = "chunk"
    /\ quote' = [kind |-> "quotes", stage |-> "raised"]
    /\ UNCHANGED market

-----------------------------------------------------------------------------
(* MemoryPriceStore: marks by asset and bucket. *)

BucketStart(at) == (at \div Resolution) * Resolution

Put(marks, mark) == (<<mark.asset, BucketStart(mark.at)>> :> mark.price) @@ marks

Marks(puts) == FoldLeft(Put, <<>>, puts)

(* A miss is nothing, never a zero. *)
Get(marks, asset, at) ==
    LET key == <<asset, BucketStart(at)>>
    IN IF key \in DOMAIN marks THEN {marks[key]} ELSE {}

AskStore(puts, asset, at) ==
    quote' = [kind |-> "store", stage |-> "done", puts |-> puts, asked |-> asset,
              at |-> at, found |-> Get(Marks(puts), asset, at)]

-----------------------------------------------------------------------------
(* Who asks what: any of the three, once (bound: only quotes need a        *)
(* market).                                                                *)
Ask ==
    /\ quote = Unasked
    /\ \/ market = <<>> /\
              \E assets \in SUBSET DOMAIN CoinKeys, oracles \in DatedChains :
                  AskInstant(assets, oracles)
       \/ market # <<>> /\ \E assets \in SUBSET DOMAIN CoinKeys, at \in 0 .. Len(market) :
              AskPrices(assets, at)
       \/ market = <<>> /\
              \E puts \in PutLists, asset \in DOMAIN CoinKeys, at \in 0 .. 2 * Resolution :
                  AskStore(puts, asset, at)
    /\ UNCHANGED market

PricesNext == Ask \/ Trade \/ QuoteChunk \/ QuoteFails

-----------------------------------------------------------------------------
Answered(kind) == quote.kind = kind /\ quote.stage = "done"

RECURSIVE Leaves(_, _)

(* Every leaf, in order, with its name and those of the chains it is in.   *)
Leaves(oracles, names) ==
    FlattenSeq([k \in DOMAIN oracles |->
        LET here == names \cup {oracles[k].name}
        IN IF oracles[k].chain THEN Leaves(oracles[k].oracles, here)
           ELSE <<[names |-> here, quotes |-> oracles[k].quotes]>>])

(* What absences_at names is what usd_prices_at passed over, at any depth: *)
(* an asset is priced by the first leaf that lists it and is not so named, *)
(* and has no price only when there is none.                               *)
InstantsTold ==
    Answered("instant") =>
        LET leaves == Leaves(quote.oracles, {})
            Able(asset) == {k \in DOMAIN leaves :
                               /\ leaves[k].names \cap ToSet(quote.absences) = {}
                               /\ asset \in DOMAIN leaves[k].quotes}
        IN /\ DOMAIN quote.priced = {a \in quote.asked : Able(a) # {}}
           /\ \A a \in DOMAIN quote.priced :
                  quote.priced[a] = leaves[Min(Able(a))].quotes[a]

(* Each price was quoted at some moment of the read, or at the one asked   *)
(* about; assets that share a key have one price; what was listed all the  *)
(* time is priced; and no key is asked for twice.                          *)
QuotesTrue ==
    Answered("quotes") =>
        LET moments == IF quote.at = 0 THEN quote.began .. Len(market) ELSE {quote.at}
            keys == {CoinKeys[a] : a \in quote.asked} \ {0}
        IN /\ \A a \in DOMAIN quote.priced :
                  /\ a \in quote.asked
                  /\ \E n \in moments : /\ CoinKeys[a] \in DOMAIN market[n]
                                        /\ quote.priced[a] = market[n][CoinKeys[a]]
           /\ \A a, b \in quote.asked : CoinKeys[a] = CoinKeys[b] =>
                  /\ a \in DOMAIN quote.priced <=> b \in DOMAIN quote.priced
                  /\ a \in DOMAIN quote.priced => quote.priced[a] = quote.priced[b]
           /\ \A a \in quote.asked :
                  (\A n \in moments : CoinKeys[a] \in DOMAIN market[n])
                      => a \in DOMAIN quote.priced
           /\ (quote.made - 1) * KeysPerRequest < Cardinality(keys)
           /\ quote.made * KeysPerRequest >= Cardinality(keys)

(* A mark is found in its own hour and asset, the last one put there.      *)
MarksTrue ==
    Answered("store") =>
        LET Same(k) == /\ quote.puts[k].asset = quote.asked
                       /\ quote.puts[k].at \div Resolution = quote.at \div Resolution
            puts == {k \in DOMAIN quote.puts : Same(k)}
        IN quote.found = IF puts = {} THEN {} ELSE {quote.puts[Max(puts)].price}

=============================================================================
