------------------------------- MODULE Assets -------------------------------
(***************************************************************************)
(* What things are called: CAIP-19 names and the ids built over them, the  *)
(* registries of assets and of chains, groups of assets that may be added  *)
(* up, and the evidence about an asset that sources bring in one after     *)
(* another (auradefi.assets, auradefi.chains.registry).                    *)
(*                                                                         *)
(* A spelling of a name is its parts and the case of its reference.  The   *)
(* hash of an id is taken to be injective: an id is what is hashed.  What  *)
(* raises gives {}.                                                        *)
(***************************************************************************)
EXTENDS Integers, SequencesExt, FiniteSetsExt

CONSTANTS
    Canonical,      \* CAIP-2 ids in their canonical spelling
    Seeds,          \* the chains every registry starts with, by CAIP-2
    Chains,         \* descriptors a host may register
    Listings,       \* what a host passes to make_asset
    Spellings,      \* the names it looks up
    Partitions,     \* the explicit groups it asks for
    Reports,        \* what a source says of an asset
    MaxListed,      \* bound: registrations
    MaxReports      \* bound: reports

VARIABLE catalogue

catalogueVars == <<catalogue>>

CatalogueInit ==
    catalogue = [by_id |-> <<>>, by_caip19 |-> <<>>, by_chain_address |-> <<>>,
                 chains |-> Seeds, offered |-> <<>>, reports |-> <<>>,
                 spam |-> [score |-> 0, reasons |-> <<>>, liquidity |-> {}],
                 external |-> <<>>, groups |-> {}]

Uncatalogued ==
    /\ catalogue.offered = <<>> /\ catalogue.reports = <<>> /\ catalogue.groups = {}
    /\ catalogue.chains = Seeds

-----------------------------------------------------------------------------
(* An EVM address in lower case; a Solana mint as it is; a coin type has   *)
(* no letters.                                                             *)
Parse(name) ==
    CASE name.chain \notin Canonical -> {}
      [] name.namespace = "erc20" -> {[name EXCEPT !.upper = FALSE]}
      [] name.namespace = "token" -> {name}
      [] name.namespace = "slip44" /\ ~name.upper -> {name}
      [] OTHER -> {}

AddressNamespaces == {"erc20", "token"}

Address(leg) == <<leg.chain, leg.reference, leg.upper>>

(* The legs of an asset, in canonical spelling.                            *)
Legs(implementations) == UNION {Parse(implementations[k].caip19) : k \in DOMAIN implementations}

MakeAsset(listing) ==
    LET impls == listing.implementations
        Refused(impl) == \/ Parse(impl.caip19) = {} \/ impl.decimals < 0
                         \/ impl.chain_id # impl.caip19.chain
    IN IF \/ impls = <<>> \/ \E k \in DOMAIN impls : Refused(impls[k])
          \/ Cardinality(Legs(impls)) < Len(impls) THEN {}
       ELSE {[id |-> Legs(impls), symbol |-> listing.symbol, implementations |-> impls]}

-----------------------------------------------------------------------------
Bound(index, key, id) == key \in DOMAIN index /\ index[key] # id

Conflicts(asset) ==
    \/ asset.id \in DOMAIN catalogue.by_id /\ catalogue.by_id[asset.id] # asset
    \/ \E leg \in asset.id :
           \/ Bound(catalogue.by_caip19, leg, asset.id)
           \/ /\ leg.namespace \in AddressNamespaces
              /\ Bound(catalogue.by_chain_address, Address(leg), asset.id)

With(index, keys, value) ==
    [k \in DOMAIN index \cup keys |-> IF k \in keys THEN value ELSE index[k]]

(* All of an asset's names are taken, or none.                             *)
Register(asset) ==
    IF Conflicts(asset) THEN catalogue
    ELSE [catalogue EXCEPT
             !.by_id = With(@, {asset.id}, asset),
             !.by_caip19 = With(@, asset.id, asset.id),
             !.by_chain_address =
                 With(@, {Address(leg) : leg \in {l \in asset.id :
                                                     l.namespace \in AddressNamespaces}},
                      asset.id)]

Offer ==
    /\ catalogue.reports = <<>> /\ catalogue.groups = {}
    /\ Len(catalogue.offered) < MaxListed
    /\ \E listing \in Listings : \E asset \in MakeAsset(listing) :
           catalogue' = [Register(asset) EXCEPT !.offered = Append(@, asset)]

(* The first descriptor of a chain stays: the same one again is a no-op,   *)
(* and a different one a conflict.                                         *)
RegisterChain ==
    /\ catalogue.reports = <<>> /\ catalogue.offered = <<>>
    /\ \E chain \in Chains :
           LET known == {chain.caip2} \cap DOMAIN catalogue.chains IN
           catalogue' = [catalogue EXCEPT !.chains = With(@, {chain.caip2} \ known, chain)]

GetByCaip19(name) ==
    {catalogue.by_id[catalogue.by_caip19[leg]] : leg \in Parse(name) \cap DOMAIN catalogue.by_caip19}

(* An address is lowered if it looks like an EVM one, whatever the chain.  *)
GetByChainAddress(chain, reference, upper, evm) ==
    LET key == <<chain, reference, upper /\ ~evm>>
    IN IF key \in DOMAIN catalogue.by_chain_address
       THEN {catalogue.by_id[catalogue.by_chain_address[key]]} ELSE {}

-----------------------------------------------------------------------------
Scales(members) ==
    UNION {{m.implementations[k].decimals : k \in DOMAIN m.implementations} : m \in members}

(* Explicit groups, and a group of its own for every asset left over.      *)
(* Several symbols may be asked for, each asset under one of them only.    *)
GroupAssets(assets, explicit) ==
    LET Members(k) == {a \in assets : a.id \in ToSet(explicit[k].asset_ids)}
        Ids(members) == {m.id : m \in members}
        claimed == UNION {Members(k) : k \in DOMAIN explicit}
        refused ==
            \/ \E a, b \in assets : a # b /\ a.id = b.id
            \/ \E k \in DOMAIN explicit :
                   \/ explicit[k].asset_ids = <<>>
                   \/ ~(ToSet(explicit[k].asset_ids) \subseteq Ids(assets))
                   \/ Cardinality(Scales(Members(k))) > 1
            \/ \E j, k \in DOMAIN explicit : j # k /\ Members(j) \cap Members(k) # {}
    IN IF refused THEN {}
       ELSE {{[kind |-> "group", symbol |-> explicit[k].symbol, asset_ids |-> Ids(Members(k))] :
                 k \in DOMAIN explicit}
             \cup {[kind |-> "single", symbol |-> a.symbol, asset_ids |-> {a.id}] :
                      a \in assets \ claimed}}

Group ==
    /\ catalogue.groups = {} /\ catalogue.reports = <<>>
    /\ catalogue.offered # <<>>
    /\ \E explicit \in Partitions :
           /\ GroupAssets(ToSet(catalogue.offered), explicit) # {}
           /\ catalogue' = [catalogue EXCEPT
                               !.groups = GroupAssets(ToSet(catalogue.offered), explicit)]

-----------------------------------------------------------------------------
(* Evidence: what is measured again replaces, what is not stays.           *)
Assess(signals, liquidity) ==
    [score |-> MapThenSumSet(LAMBDA k : signals[k].weight, DOMAIN signals),
     reasons |-> [k \in DOMAIN signals |-> signals[k].name],
     liquidity |-> liquidity]

Merge(old, new) ==
    [score |-> Max({old.score, new.score}),
     reasons |-> FoldLeft(LAMBDA all, r : IF r \in ToSet(all) THEN all ELSE Append(all, r),
                          old.reasons, new.reasons),
     liquidity |-> IF new.liquidity # {} THEN new.liquidity ELSE old.liquidity]

AdditiveMerge(existing, new) ==
    [k \in DOMAIN existing \cup DOMAIN new |->
        IF k \in DOMAIN existing THEN existing[k] ELSE new[k]]

Hear ==
    /\ catalogue.offered = <<>> /\ catalogue.groups = {}
    /\ Len(catalogue.reports) < MaxReports
    /\ \E report \in Reports :
           catalogue' = [catalogue EXCEPT
               !.spam = Merge(@, Assess(report.signals, report.liquidity)),
               !.external = AdditiveMerge(@, report.external_ids),
               !.reports = Append(@, report)]

CatalogueNext == Offer \/ RegisterChain \/ Group \/ Hear

-----------------------------------------------------------------------------
(* A name means one asset: the first that was offered of those that claim  *)
(* it whole, found by any spelling of any of its names, and by address;    *)
(* one that was refused for a single name has taken none of its others.    *)
NamesMeanOne ==
    LET offered == catalogue.offered
        Listed == {catalogue.by_id[id] : id \in DOMAIN catalogue.by_id}
        (* Listed, had each been offered with nothing refused before it.   *)
        First == FoldLeft(LAMBDA kept, a :
                              IF \E b \in kept : b.id \cap a.id # {} THEN kept ELSE kept \cup {a},
                          {}, offered)
    IN /\ Listed = First
       /\ \A name \in Spellings :
              LET found == GetByCaip19(name)
                  evm == name.namespace = "erc20"
              IN /\ found = {a \in Listed : Parse(name) \cap a.id # {}}
                 /\ (name.namespace \in AddressNamespaces /\ name.chain \in Canonical) =>
                        found = GetByChainAddress(name.chain, name.reference, name.upper, evm)

(* Every asset falls into one group, and amounts of a group have one scale.*)
GroupsPartition ==
    \A groups \in catalogue.groups :
        /\ \A a \in ToSet(catalogue.offered) :
               Cardinality({g \in groups : a.id \in g.asset_ids}) = 1
        /\ \A g \in groups : g.kind = "group" =>
               Cardinality(Scales({a \in ToSet(catalogue.offered) : a.id \in g.asset_ids})) = 1

(* A source that fails to see again what was seen takes nothing back.      *)
NothingTakenBack ==
    \A k \in DOMAIN catalogue.reports :
        LET report == catalogue.reports[k]
            signals == report.signals
        IN /\ \A i \in DOMAIN signals : signals[i].name \in ToSet(catalogue.spam.reasons)
           /\ catalogue.spam.score >= Assess(signals, report.liquidity).score
           /\ report.liquidity # {} =>
                  \E j \in k .. Len(catalogue.reports) :
                      /\ catalogue.spam.liquidity = catalogue.reports[j].liquidity
                      /\ catalogue.reports[j].liquidity # {}
           /\ \A id \in DOMAIN report.external_ids :
                  \E j \in 1 .. k : /\ id \in DOMAIN catalogue.reports[j].external_ids
                                    /\ catalogue.external[id] = catalogue.reports[j].external_ids[id]

SeedsStay == \A caip2 \in DOMAIN Seeds : catalogue.chains[caip2] = Seeds[caip2]

NamesAgree == NamesMeanOne /\ GroupsPartition /\ NothingTakenBack /\ SeedsStay

=============================================================================
