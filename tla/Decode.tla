------------------------------- MODULE Decode -------------------------------
(***************************************************************************)
(* decode_account (auradefi.decode): the explorer's rows about one account *)
(* become one transaction per hash, with the movements (parts) and the fee *)
(* they say.  Pure: no state.  Hashes are numbers, in the order of their   *)
(* spelling.  A registered chain is assumed, and rows that concern the     *)
(* account and agree on their block: others raise before any output.       *)
(***************************************************************************)
EXTENDS Integers, Sequences, SequencesExt, FiniteSetsExt

CONSTANTS
    Me,         \* the account's address
    Native      \* the chain's native asset

NormalRow(hash, block, from, to, value, gas, is_error) ==
    [hash |-> hash, block |-> block, from |-> from, to |-> to, value |-> value,
     gas |-> gas, is_error |-> is_error, asset |-> Native]

TokenRow(hash, block, from, to, value, gas, token) ==
    [hash |-> hash, block |-> block, from |-> from, to |-> to, value |-> value,
     gas |-> gas, is_error |-> FALSE, asset |-> token]

(* What the account sends to itself counts as sent.                        *)
DirectionFault(row) == IF row.from = Me THEN "out" ELSE "in"

Direction(row) ==
    CASE row.from = Me /\ row.to = Me -> "self"
      [] row.from = Me /\ row.to # Me -> "out"
      [] OTHER -> "in"

Part(row) ==
    [direction |-> Direction(row), asset |-> row.asset, value |-> row.value]

Failed(normal) == normal # <<>> /\ normal[1].is_error

(* A failed transaction moved nothing, whatever rows share its hash.       *)
DecodeParts(normal, tokens) ==
    IF Failed(normal) THEN <<>>
    ELSE LET moving == SelectSeq(SubSeq(normal, 1, Min({1, Len(normal)})),
                                 LAMBDA row : row.value > 0)
             rows == moving \o tokens
         IN [k \in DOMAIN rows |-> Part(rows[k])]

Directions(parts) == {parts[k].direction : k \in DOMAIN parts}

Subtype(parts) ==
    CASE {"in", "out"} \subseteq Directions(parts) -> "swap"
      [] parts = <<>> -> "unknown"
      [] OTHER -> "transfer"

(* derive_tx_type.                                                         *)
TxType(parts) ==
    CASE parts = <<>> -> "interaction"
      [] Directions(parts) = {"in"} -> "receive"
      [] Directions(parts) = {"out"} -> "send"
      [] Directions(parts) = {"self"} -> "self"
      [] OTHER -> "trade"

GasRow(normal, tokens) == IF normal # <<>> THEN normal[1] ELSE tokens[1]

DecodeOne(hash, normal, tokens) ==
    LET parts == DecodeParts(normal, tokens)
        gas == GasRow(normal, tokens)
    IN [hash |-> hash,
        block |-> gas.block,
        status |-> IF Failed(normal) THEN "failed" ELSE "confirmed",
        subtype |-> Subtype(parts),
        type |-> TxType(parts),
        parts |-> parts,
        fee |-> gas.gas,
        borne_by |-> IF gas.from = Me THEN "self" ELSE "counterparty"]

RowsOf(rows, hash) == SelectSeq(rows, LAMBDA row : row.hash = hash)

Hashes(rows) == {rows[k].hash : k \in DOMAIN rows}

DecodeAccount(normal, tokens) ==
    LET ByHash == [h \in Hashes(normal) \cup Hashes(tokens) |->
                      DecodeOne(h, RowsOf(normal, h), RowsOf(tokens, h))]
        Before(g, h) == \/ ByHash[g].block < ByHash[h].block
                        \/ ByHash[g].block = ByHash[h].block /\ g < h
        order == SetToSortSeq(DOMAIN ByHash, Before)
    IN [k \in DOMAIN order |-> ByHash[order[k]]]

(* to_ledger_transaction: a movement an entry; a fee never is one.         *)
ToLedger(tx) == [id |-> tx.hash, confirmed_at |-> tx.block, entries |-> tx.parts]

(* The embedded engine's decoder: a page of the native history by itself.  *)
DecodePage(rows) ==
    LET decoded == DecodeAccount(rows, <<>>)
    IN [k \in DOMAIN decoded |-> ToLedger(decoded[k])]

(* derive_events: what the entries of `transactions` acquire and dispose   *)
(* of, in the order they were confirmed in; of one block, as they come.    *)
DeriveEvents(transactions, removed, internal) ==
    LET kept == SelectSeq(transactions, LAMBDA tx : tx.id \notin removed \cup internal)
        Taxable(tx) == SelectSeq(tx.entries, LAMBDA entry : entry.direction # "self")
        EventsOf(tx) ==
            [k \in DOMAIN Taxable(tx) |->
                [at |-> tx.confirmed_at, tx |-> tx.id,
                 acquires |-> Taxable(tx)[k].direction = "in",
                 asset |-> Taxable(tx)[k].asset, quantity |-> Taxable(tx)[k].value]]
        events == FlattenSeq([k \in DOMAIN kept |-> EventsOf(kept[k])])
        order == SetToSortSeq(DOMAIN events, LAMBDA i, j :
                     \/ events[i].at < events[j].at
                     \/ events[i].at = events[j].at /\ i < j)
    IN [k \in DOMAIN order |-> events[order[k]]]

(* What a decoded transaction says an asset's balance changed by.          *)
Change(tx, asset) ==
    LET Of(d) == {k \in DOMAIN tx.parts :
                     tx.parts[k].direction = d /\ tx.parts[k].asset = asset}
        Total(d) == MapThenSumSet(LAMBDA k : tx.parts[k].value, Of(d))
    IN Total("in") - Total("out")
       - (IF asset = Native /\ tx.borne_by = "self" THEN tx.fee ELSE 0)

=============================================================================
