------------------------------ MODULE MCReads ------------------------------
(* One account, one token, and contracts that change from block to block.  *)
EXTENDS Reads

Token == 1

Moved(from, to, value) == [token |-> Token, from |-> from, to |-> to, value |-> value]

Shape(from, to, value, failed, moves) ==
    [block |-> 0, from |-> from, to |-> to, value |-> value, failed |-> failed,
     moves |-> moves]

(* Received, sent, failed, sent to itself, bought, moved in twice and out  *)
(* by someone else's transaction.                                          *)
SevenShapes ==
    {Shape("other", "me", 4, FALSE, <<>>),
     Shape("me", "other", 1, FALSE, <<>>),
     Shape("me", "other", 1, TRUE, <<>>),
     Shape("me", "me", 1, FALSE, <<>>),
     Shape("me", "other", 1, FALSE, <<Moved("other", "me", 2)>>),
     Shape("other", "third", 1, FALSE, <<Moved("other", "me", 1), Moved("other", "me", 2)>>),
     Shape("other", "third", 0, FALSE, <<Moved("me", "other", 1)>>)}

OneAddress == {<<0, 0>>}

Pair(lp, supply, r0, r1) == [lp |-> lp, supply |-> supply, r0 |-> r0, r1 |-> r1]

Nft(lower, upper, liquidity, owed0, owed1) ==
    [lower |-> lower, upper |-> upper, liquidity |-> liquidity,
     owed0 |-> owed0, owed1 |-> owed1]

World(supplied, debt, shares, rate, pairs, owned, nfts, tick) ==
    [supplied |-> supplied, debt |-> debt, ltv |-> debt, shares |-> shares, rate |-> rate,
     pairs |-> pairs, owned |-> owned, nfts |-> nfts, tick |-> tick]

Nfts == <<Nft(0, 4, 6, 0, 1), Nft(-2, 0, 5, 1, 0), Nft(0, 1, 0, 0, 0)>>

(* Held in full; half withdrawn and a pair added; a pool drained, NFTs     *)
(* given away; nothing left and every NFT burnt; and, before any pair, an  *)
(* NFT worth nothing.                                                      *)
FiveWorlds ==
    {World(3, 1, 3, 3, <<Pair(2, 3, 5, 7)>>, <<1, 3, 2>>, Nfts, 2),
     World(3, 2, 2, 4, <<Pair(1, 2, 4, 3), Pair(1, 1, 2, 2)>>, <<3, 2, 1>>, Nfts, -1),
     World(0, 2, 1, 5, <<Pair(0, 0, 0, 0), Pair(1, 4, 3, 9)>>, <<2>>,
           <<Nft(0, 4, 0, 0, 0)>> \o Tail(Nfts), 5),
     World(0, 0, 0, 2, <<Pair(0, 2, 1, 1), Pair(0, 0, 0, 0)>>, <<>>, <<>>, 0),
     World(1, 0, 1, 3, <<>>, <<2, 1>>,
           <<Nft(0, 1, 1, 0, 0)>> \o Tail(Nfts), -1)}

ThreeFleets == {{"aave-v3", "host"}, {"receipt", "uniswap-v2"}, {"host", "uniswap-v3"}}

AllTouched == {"atoken", "debt", "receipt", "manager", "vault", "pair1", "pair2"}

TwoTouched == {AllTouched, {"debt", "pair2", "manager"}}

Vault(adapter, on) == [adapter |-> adapter, chain |-> on, address |-> "vault"]

Slice(raises, is_set, slice) == [raises |-> raises, is_set |-> is_set, slice |-> slice]

FiveSlices ==
    {Slice(TRUE, TRUE, {}), Slice(FALSE, FALSE, {}),
     Slice(FALSE, TRUE, {Vault("host", "here")}),
     Slice(FALSE, TRUE, {Vault("host", "elsewhere")}),
     Slice(FALSE, TRUE, {Vault("aave-v3", "here")})}

Vaulted(info, asset, borrowed) ==
    [adapter |-> "host", id |-> <<"vault", asset>>, group |-> "vault", info |-> info,
     underlyings |-> <<[asset |-> asset, quantity |-> 2, borrowed |-> borrowed]>>]

Result(raises, valued, positions) ==
    [raises |-> raises, valued |-> valued, positions |-> positions]

FiveResults ==
    {Result(TRUE, FALSE, <<>>), Result(FALSE, TRUE, <<Vaulted(<<>>, 1, FALSE)>>),
     Result(FALSE, FALSE, <<Vaulted(<<1>>, 1, FALSE), Vaulted(<<>>, 2, TRUE)>>),
     Result(FALSE, FALSE, <<Vaulted(<<1>>, 1, FALSE), Vaulted(<<2>>, 2, FALSE)>>),
     Result(FALSE, FALSE, <<Vaulted(<<>>, 3, FALSE)>>)}

Oracle(raises, quotes) == [raises |-> raises, quotes |-> quotes]

(* Two that know an asset both and another each, one that knows nothing,   *)
(* and one that fails behind one that knows all but the native asset.      *)
FourChains ==
    {<<Oracle(FALSE, 0 :> 2 @@ 1 :> 3), Oracle(FALSE, 1 :> 5 @@ 2 :> 1)>>,
     <<Oracle(FALSE, 1 :> 2 @@ 2 :> 3), Oracle(TRUE, 1 :> 1)>>,
     <<Oracle(FALSE, <<>>), Oracle(FALSE, 2 :> 4)>>,
     <<>>}

(* Two assets under one key, one unlisted. *)
FiveKeys == <<1, 1, 2, 3, 0>>

(* Everything, dearer, one key gone, nothing. *)
FourMarkets == {<<1, 2, 3>>, <<2, 3, 1>>, 1 :> 4 @@ 3 :> 4, <<>>}

Link(name, dated, unreachable, raises, quotes) ==
    [chain |-> FALSE, name |-> name, dated |-> dated, unreachable |-> unreachable,
     raises |-> raises, quotes |-> quotes]

Inner(name, unreachable, oracles) ==
    [chain |-> TRUE, name |-> name, dated |-> TRUE, unreachable |-> unreachable,
     oracles |-> oracles]

(* Links that answer, know no instants, cannot reach this one or fail.     *)
FiveLinks(name) ==
    {Link(name, TRUE, FALSE, FALSE, 1 :> 2 @@ 2 :> 3),
     Link(name, TRUE, FALSE, FALSE, 1 :> 4 @@ 3 :> 5),
     Link(name, FALSE, FALSE, FALSE, 1 :> 6), Link(name, TRUE, TRUE, FALSE, 2 :> 7),
     Link(name, TRUE, FALSE, TRUE, 1 :> 8)}

(* One link, or a chain of up to two, one of them perhaps a chain again.   *)
Nested ==
    LET Links(name) ==
            FiveLinks(name)
            \cup {Inner(name, unreachable, <<x, y>>) :
                     unreachable \in BOOLEAN, x \in FiveLinks("x"), y \in FiveLinks("y")}
            \cup {Inner(name, FALSE, <<Inner("deep", FALSE, <<x>>), y>>) :
                     x \in FiveLinks("x"), y \in FiveLinks("y")}
    IN {<<a, b>> : a \in Links("a"), b \in FiveLinks("b")}
       \cup {<<b, a>> : a \in Links("a"), b \in FiveLinks("b")} \cup {<<>>}

Mark(asset, at, price) == [asset |-> asset, at |-> at, price |-> price]

UptoTwoPuts ==
    LET marks == {Mark(asset, at, price) : asset \in {1, 2}, at \in 0 .. 3, price \in {1, 2}}
    IN {<<>>} \cup {<<a>> : a \in marks} \cup {<<a, b>> : a, b \in marks}

(* A curve of prime order 31. *)
G == <<2, 12>>

Type(kind, size) == [kind |-> kind, size |-> size]

FourSignatures ==
    "balanceOf" :> [args |-> <<Type("address", 2)>>, returns |-> <<Type("uint", 2)>>]
    @@ "decimals" :> [args |-> <<>>, returns |-> <<Type("uint", 1)>>]
    @@ "slot0" :> [args |-> <<>>, returns |-> <<Type("int", 1), Type("bool", 2)>>]
    @@ "getPool" :> [args |-> <<Type("address", 2), Type("uint", 1)>>,
                     returns |-> <<Type("address", 2)>>]

UptoTwoWords == SeqOf({0, 1, 7}, 4) \cup {<<0, 1, 0, 1, 0>>}

UptoThreeBytes == SeqOf({0, 1, 7}, 3)

Name(on, namespace, reference, upper) ==
    [chain |-> on, namespace |-> namespace, reference |-> reference, upper |-> upper]

ThreeChains == {"eip155:1", "eip155:137", "solana:1"}

OneSeed == "eip155:1" :> [caip2 |-> "eip155:1", symbol |-> "ETH"]

TwoChains ==
    {[caip2 |-> "eip155:1", symbol |-> "POL"], [caip2 |-> "eip155:137", symbol |-> "POL"]}

(* Both cases of a contract and of a mint, a coin, and four that are none. *)
AllSpellings ==
    {Name("eip155:1", "erc20", 1, FALSE), Name("eip155:1", "erc20", 1, TRUE),
     Name("eip155:137", "erc20", 1, FALSE),
     Name("solana:1", "token", 11, FALSE), Name("solana:1", "token", 11, TRUE),
     Name("eip155:1", "slip44", 60, FALSE), Name("eip155:1", "slip44", 60, TRUE),
     Name("eip155:01", "erc20", 1, FALSE), Name("eip155:1", "erc721", 1, FALSE)}

Impl(name, decimals) == [caip19 |-> name, chain_id |-> name.chain, decimals |-> decimals]

(* One or two names, one asset in two scales and one under two symbols.    *)
SomeListings ==
    LET one == {Impl(name, 6) : name \in AllSpellings \ {Name("solana:1", "token", 11, FALSE)}}
        other == Impl(Name("eip155:137", "erc20", 1, FALSE), 18)
        astray == [Impl(Name("eip155:1", "erc20", 1, TRUE), 6) EXCEPT !.chain_id = "eip155:137"]
    IN [symbol : {"usdc"}, implementations : SeqOf(one, 2)]
       \cup [symbol : {"usdc", "usdt"}, implementations : {<<other>>, <<astray>>, <<>>}]

Wanted(symbol, names) == [symbol |-> symbol, asset_ids |-> [k \in DOMAIN names |-> {names[k]}]]

SevenPartitions ==
    LET erc20 == Name("eip155:1", "erc20", 1, FALSE)
        bridged == Name("eip155:137", "erc20", 1, FALSE)
        mint == Name("solana:1", "token", 11, TRUE)
    IN {<<>>, <<Wanted("usd", <<>>)>>, <<Wanted("usd", <<erc20>>)>>,
        <<Wanted("usd", <<erc20, bridged, erc20>>)>>, <<Wanted("usd", <<mint, bridged>>)>>,
        <<Wanted("usd", <<erc20>>), Wanted("eur", <<mint>>)>>,
        <<Wanted("usd", <<erc20>>), Wanted("eur", <<mint, erc20>>)>>}

Signal(name, weight) == [name |-> name, weight |-> weight]

SomeReports ==
    [signals : SeqOf({Signal("airdrop", 1), Signal("lookalike", 2)}, 2),
     liquidity : {{}, {0}, {5}},
     external_ids : {<<>>, "cmc" :> 1, "cmc" :> 2 @@ "coingecko" :> 3}]

=============================================================================
