----------------------------- MODULE Valuation -----------------------------
(***************************************************************************)
(* What priced reports are computed with: the walk over price oracles      *)
(* (auradefi.prices), the holdings report (auradefi.portfolio) and the     *)
(* drill into protocol positions (auradefi.positions).  Pure: no state.    *)
(* Money is exact in the code, so an amount is an integer here.            *)
(*                                                                         *)
(* An oracle is what it would answer to a question about every asset, and  *)
(* whether it raises (or quotes in a currency other than USD, which        *)
(* raises): [raises : BOOLEAN, quotes : a function from assets to prices]. *)
(***************************************************************************)
EXTENDS Integers, Sequences, SequencesExt, FiniteSetsExt

(* A price found later replaces an earlier one.                            *)
AskedFault(walk, oracle) ==
    [walk EXCEPT !.raised = @ \/ oracle.raises,
                 !.priced = [a \in DOMAIN oracle.quotes |-> oracle.quotes[a]] @@ @]

(* An oracle is asked for what has no price yet, and answers for no more.  *)
Asked(walk, oracle) ==
    LET pending == walk.assets \ DOMAIN walk.priced
        answered == pending \cap DOMAIN oracle.quotes
    IN IF pending = {} \/ walk.raised THEN walk
       ELSE IF oracle.raises THEN [walk EXCEPT !.raised = TRUE]
       ELSE [walk EXCEPT !.priced = [a \in DOMAIN @ \cup answered |->
                IF a \in answered THEN oracle.quotes[a] ELSE @[a]]]

(* Inquirer.usd_prices: the first oracle to know an asset prices it; an    *)
(* oracle that raises ends the walk, which then prices nothing.            *)
UsdPrices(assets, oracles) ==
    LET walk[n \in 0 .. Len(oracles)] ==
            IF n = 0 THEN [assets |-> assets, raised |-> FALSE, priced |-> [a \in {} |-> 0]]
            ELSE Asked(walk[n - 1], oracles[n])
    IN walk[Len(oracles)]

-----------------------------------------------------------------------------
(* HoldingsReport.assemble: records are [asset, quantity, ...].            *)

Total(values) ==
    LET sum[n \in 0 .. Len(values)] == IF n = 0 THEN 0 ELSE sum[n - 1] + values[n]
    IN sum[Len(values)]

Report(records, priced) ==
    LET known == SelectSeq(records, LAMBDA r : r.asset \in DOMAIN priced)
        unknown == SelectSeq(records, LAMBDA r : r.asset \notin DOMAIN priced)
    IN [holdings |-> records,
        total_value |-> Total([k \in DOMAIN known |->
                                  known[k].quantity * priced[known[k].asset]]),
        unpriced |-> [k \in DOMAIN unknown |-> unknown[k].asset]]

-----------------------------------------------------------------------------
(* Positions: [adapter, id, group, info, underlyings]; an underlying is    *)
(* [asset, quantity, borrowed], and info is <<a GroupInfo>>, or empty.     *)

(* What is borrowed counts against the holder.                             *)
ValuedFault(underlying, priced) == underlying.quantity * priced[underlying.asset]

Valued(underlying, priced) ==
    (IF underlying.borrowed THEN -1 ELSE 1)
        * (underlying.quantity * priced[underlying.asset])

Underlyings(positions) ==
    FlattenSeq([k \in DOMAIN positions |-> positions[k].underlyings])

Groups(positions) == {positions[k].group : k \in DOMAIN positions}

Members(positions, group) ==
    FlattenSeq([k \in DOMAIN positions |->
                   IF positions[k].group = group THEN <<positions[k]>> ELSE <<>>])

Infos(members) ==
    {members[k].info : k \in DOMAIN members} \ {<<>>}

(* drill raises for an asset nobody prices, and for a group whose members  *)
(* disagree on its GroupInfo.                                              *)
Drillable(positions, priced) ==
    /\ \A k \in DOMAIN Underlyings(positions) :
           Underlyings(positions)[k].asset \in DOMAIN priced
    /\ \A g \in Groups(positions) :
           \A i, j \in Infos(Members(positions, g)) : i = j

Values(positions, priced) ==
    LET all == Underlyings(positions)
    IN [k \in DOMAIN all |-> Valued(all[k], priced)]

GroupTotal(positions, group, priced) == Total(Values(Members(positions, group), priced))

Drill(positions, priced) ==
    LET values == Values(positions, priced)
        gross == Total([k \in DOMAIN values |-> IF values[k] < 0 THEN 0 ELSE values[k]])
        debt == Total([k \in DOMAIN values |-> IF values[k] < 0 THEN -values[k] ELSE 0])
    IN [groups |-> [g \in Groups(positions) |-> GroupTotal(positions, g, priced)],
        gross_assets |-> gross, total_debt |-> debt, net_worth |-> gross - debt]

(* project_to_synthetic_holdings: a borrowed quantity is negative.         *)
SyntheticHoldings(positions, priced) ==
    LET all == Underlyings(positions)
    IN [k \in DOMAIN all |->
           [asset |-> all[k].asset,
            value |-> (IF all[k].borrowed THEN -all[k].quantity ELSE all[k].quantity)
                      * priced[all[k].asset]]]

=============================================================================
