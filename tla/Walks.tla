------------------------------- MODULE Walks -------------------------------
(***************************************************************************)
(* The reads that take several requests (auradefi.sources): an explorer's  *)
(* pages of transactions and of token transfers, eth_getLogs over chunks   *)
(* of a block range, Solana's signatures newest first, the gap scan of a   *)
(* Bitcoin wallet, and an address's balances asset by asset.  One request  *)
(* is one step; between two of them the chain moves on.                    *)
(*                                                                         *)
(* What the chain serves is external: blocks are final, and every request  *)
(* sees the chain as it stands.  Any request may fail, and with it the     *)
(* read, which then returns nothing.                                       *)
(***************************************************************************)
EXTENDS Decode

CONSTANTS
    Parties,    \* the addresses that occur
    Tokens,     \* token contracts
    Shapes,     \* what a transaction touching the account may be
    Gas,        \* the fee of any transaction
    PageSize,   \* page_size; the limit of a page of signatures
    Chunk,      \* chunk_blocks
    Gap,        \* the gap of a Bitcoin scan
    Sweepable,  \* bound: addresses of the wallet that may be emptied
    MaxChain,   \* bound: transactions touching the account
    MaxPerBlock, \* bound: those in one block
    MaxIndex    \* bound: the highest address index that comes into use

(* What a transaction moved, and a transaction: the block it is in, who    *)
(* paid, to whom, how much of the native asset, whether it failed, and the *)
(* tokens moved.                                                           *)
Moves == [token : Tokens, from : Parties, to : Parties, value : Nat]

Transactions ==
    [block : Nat, from : Parties, to : Parties, value : Nat, failed : BOOLEAN,
     moves : Seq(Moves)]

ASSUME PagesNotEmpty == {PageSize, Chunk, Gap} \subseteq Nat \ {0}
ASSUME ShapesTyped == Shapes \subseteq Transactions
ASSUME WalkBounds == {MaxChain, MaxPerBlock, MaxIndex} \subseteq Nat

VARIABLES
    chain,      \* the transactions touching the account, oldest first
    used,       \* addresses of the wallet in use: <<chain, index>>
    swept,      \* those of them emptied since
    job         \* the read in progress, or over

walkVars == <<chain, used, swept, job>>

Branches == {0, 1}  \* BIP44 external and change

Blocks == 1 .. 2 * MaxChain

None == [kind |-> "none"]

WalkInit ==
    /\ chain = <<>>
    /\ used = {} /\ swept = {}
    /\ job = None

Running == job # None /\ job.stage \notin {"done", "raised"}

LastBlock == IF chain = <<>> THEN 0 ELSE Last(chain).block

(* What a transaction changes one of the account's balances by.            *)
Effect(tx, asset) ==
    LET In(to, value) == IF to = Me THEN value ELSE 0
        Out(from, value) == IF from = Me THEN value ELSE 0
        moves == {k \in DOMAIN tx.moves : tx.moves[k].token = asset}
    IN IF asset = Native
       THEN (IF tx.failed THEN 0 ELSE In(tx.to, tx.value) - Out(tx.from, tx.value))
            - Out(tx.from, Gas)
       ELSE MapThenSumSet(LAMBDA k : In(tx.moves[k].to, tx.moves[k].value)
                                     - Out(tx.moves[k].from, tx.moves[k].value), moves)

Assets == {Native} \cup Tokens

(* The balance after the first n transactions.                             *)
Balance(asset, n) == MapThenSumSet(LAMBDA i : Effect(chain[i], asset), 1 .. n)

(* A block brings all its transactions at once.                            *)
Mine ==
    /\ \E block \in LastBlock + 1 .. LastBlock + 2, n \in 1 .. MaxPerBlock :
           \E txs \in [1 .. n -> Shapes] :
               /\ Len(chain) + n <= MaxChain
               /\ chain' = chain \o [k \in 1 .. n |-> [txs[k] EXCEPT !.block = block]]
    /\ \A a \in Assets : Balance(a, Len(chain))' >= 0
    /\ UNCHANGED <<used, swept, job>>

Receive ==
    /\ \E c \in Branches, i \in 0 .. MaxIndex : used' = used \cup {<<c, i>>}
    /\ UNCHANGED <<chain, swept, job>>

Sweep ==
    /\ \E address \in Sweepable \cap used : swept' = swept \cup {address}
    /\ UNCHANGED <<chain, used, job>>

(* What has been paid to an address, and out of it again: one sat each.    *)
Stats(address) ==
    [funded |-> IF address \in used THEN 1 ELSE 0,
     spent |-> IF address \in swept THEN 1 ELSE 0]

ConfirmedSats(stats) == stats.funded - stats.spent

-----------------------------------------------------------------------------
(* What the servers answer. *)

Indices == [i \in 1 .. Len(chain) |-> i]

(* txlist: the transactions with the account as sender or recipient.       *)
NormalRows(i) ==
    IF Me \in {chain[i].from, chain[i].to}
    THEN <<NormalRow(i, chain[i].block, chain[i].from, chain[i].to,
                     chain[i].value, Gas, chain[i].failed)>>
    ELSE <<>>

Txlist == FlattenSeq([i \in 1 .. Len(chain) |-> NormalRows(i)])

(* tokentx: the token transfers of the account, one row each.              *)
TokenRows(i) ==
    [k \in DOMAIN chain[i].moves |->
        TokenRow(i, chain[i].block, chain[i].moves[k].from, chain[i].moves[k].to,
                 chain[i].moves[k].value, Gas, chain[i].moves[k].token)]

Tokentx == FlattenSeq([i \in 1 .. Len(chain) |-> TokenRows(i)])

Window(list, first, n) == SubSeq(list, first, Min({first + n - 1, Len(list)}))

(* Newest first, as PageFetcher's sort = "desc".                           *)
PageFault(list, page) == Window(Reverse(list), (page - 1) * PageSize + 1, PageSize)

(* sort = "asc", page, offset.                                             *)
Page(list, page) == Window(list, (page - 1) * PageSize + 1, PageSize)

LogsOf(i, low, high) == IF chain[i].block \in low .. high THEN <<i>> ELSE <<>>

LogsIn(low, high) == FlattenSeq([i \in 1 .. Len(chain) |-> LogsOf(i, low, high)])

(* Newest first, from before the last one found.                           *)
Before(found) ==
    Reverse(IF found = <<>> THEN Indices ELSE SubSeq(Indices, 1, Last(found) - 1))

-----------------------------------------------------------------------------
(* fetch_txlist and fetch_tokentx, one after the other.                    *)

BeginHistory ==
    job' = [kind |-> "history", stage |-> "txlist", page |-> 1,
            normal |-> <<>>, tokens |-> <<>>, began |-> Len(chain)]

(* A page that is not full is the last.                                    *)
HistoryPage ==
    /\ job.kind = "history" /\ job.stage \in {"txlist", "tokentx"}
    /\ LET first == job.stage = "txlist"
           rows == Page(IF first THEN Txlist ELSE Tokentx, job.page)
           full == Len(rows) = PageSize
       IN job' = [job EXCEPT
              !.normal = IF first THEN @ \o rows ELSE @,
              !.tokens = IF first THEN @ ELSE @ \o rows,
              !.page = IF full THEN @ + 1 ELSE 1,
              !.stage = CASE full -> @
                          [] ~full /\ first -> "tokentx"
                          [] OTHER -> "done"]

(* get_signatures.                                                         *)
BeginSignatures ==
    job' = [kind |-> "signatures", stage |-> "page", found |-> <<>>, began |-> Len(chain)]

SignaturePage ==
    /\ job.kind = "signatures" /\ job.stage = "page"
    /\ LET rows == Window(Before(job.found), 1, PageSize) IN
       job' = [job EXCEPT !.found = @ \o rows,
                          !.stage = IF Len(rows) < PageSize THEN "done" ELSE @]

(* scan_logs, over an inclusive range that may reach beyond the head.      *)
BeginLogs ==
    \E from, to \in Blocks :
        /\ from <= to
        /\ job' = [kind |-> "logs", stage |-> "chunk", from |-> from, to |-> to,
                   chunk |-> 0, found |-> <<>>, began |-> Len(chain)]

ChunkCount == (job.to - job.from + 1 + Chunk - 1) \div Chunk

ChunkLow == job.from + job.chunk * Chunk

ChunkHigh == Min({ChunkLow + Chunk - 1, job.to})

(* An empty chunk does not end the scan.                                   *)
LogChunk ==
    /\ job.kind = "logs" /\ job.stage = "chunk"
    /\ job' = [job EXCEPT !.found = @ \o LogsIn(ChunkLow, ChunkHigh),
                          !.chunk = @ + 1,
                          !.stage = IF job.chunk + 1 = ChunkCount THEN "done" ELSE @]

(* scan: the external branch, then the change branch.                      *)
BeginScan ==
    job' = [kind |-> "scan", stage |-> "address", branch |-> 0, index |-> 0, run |-> 0,
            found |-> <<>>, began |-> used, gone |-> swept]

(* The run of unused addresses after the one asked about.                  *)
NextRunFault(run, hit) == IF hit THEN run ELSE run + 1

NextRun(run, hit) == IF hit THEN 0 ELSE run + 1

(* Addresses are derived in batches of Gap, but each is one request and    *)
(* the branch ends in the middle of a batch when the run reaches Gap.  An  *)
(* address emptied since is found all the same, with nothing in it.        *)
ScanAddress ==
    /\ job.kind = "scan" /\ job.stage = "address"
    /\ LET here == <<job.branch, job.index>>
           run == NextRun(job.run, here \in used)
           ends == run = Gap
       IN job' = [job EXCEPT
              !.found = IF here \in used
                        THEN Append(@, [address |-> here,
                                        balance |-> ConfirmedSats(Stats(here))])
                        ELSE @,
              !.run = IF ends THEN 0 ELSE run,
              !.index = IF ends THEN 0 ELSE @ + 1,
              !.branch = IF ends THEN 1 ELSE @,
              !.stage = IF ends /\ job.branch = 1 THEN "done" ELSE @]

-----------------------------------------------------------------------------
(* EtherscanV2.balances: the native balance, the token contracts in the    *)
(* transfers, and the balance of each, in the order of contracts; what is  *)
(* zero is left out.                                                       *)

BeginBalances ==
    job' = [kind |-> "balances", stage |-> "native", page |-> 1, tokens |-> {},
            records |-> <<>>, began |-> Len(chain)]

Record(asset) ==
    IF Balance(asset, Len(chain)) = 0 THEN <<>>
    ELSE <<[asset |-> asset, quantity |-> Balance(asset, Len(chain)),
            read |-> Len(chain)]>>

NativeBalance ==
    /\ job.kind = "balances" /\ job.stage = "native"
    /\ job' = [job EXCEPT !.records = Record(Native), !.stage = "discover"]

DiscoverTokens ==
    /\ job.kind = "balances" /\ job.stage = "discover"
    /\ LET rows == Page(Tokentx, job.page) IN
       job' = [job EXCEPT
           !.tokens = @ \cup {rows[k].asset : k \in DOMAIN rows},
           !.page = @ + 1,
           !.stage = IF Len(rows) = PageSize THEN @ ELSE "token"]

(* The contract asked about next: `tokens` holds those still to be asked.  *)
TokenBalance ==
    /\ job.kind = "balances" /\ job.stage = "token"
    /\ IF job.tokens = {} THEN job' = [job EXCEPT !.stage = "price"]
       ELSE LET token == Min(job.tokens) IN
            job' = [job EXCEPT !.records = @ \o Record(token), !.tokens = @ \ {token}]

-----------------------------------------------------------------------------
(* SolanaBalances.balances: the native balance, then the owner's token     *)
(* accounts under each of the two programs.  A mint belongs to one         *)
(* program, and what is held of it lies in any number of accounts.         *)

BeginSolana ==
    \E program \in [Tokens -> {1, 2}] :
        job' = [kind |-> "solana", stage |-> "lamports", program |-> program,
                lamports |-> 0, rows |-> <<>>, began |-> Len(chain)]

Lamports ==
    /\ job.kind = "solana" /\ job.stage = "lamports"
    /\ job' = [job EXCEPT !.lamports = Balance(Native, Len(chain)), !.stage = "program1"]

(* Ways to hold an amount: in one account or two, or in none.              *)
Accounts(mint, amount) ==
    {<<[mint |-> mint, raw |-> part], [mint |-> mint, raw |-> amount - part]>> :
        part \in 0 .. amount}
    \cup (IF amount = 0 THEN {<<>>} ELSE {<<[mint |-> mint, raw |-> amount]>>})

(* Each mint once, with the sum of its accounts, in the order of mints.    *)
AggregateByMint(rows) ==
    LET mints == SetToSortSeq({rows[k].mint : k \in DOMAIN rows}, <)
        Of(mint) == {k \in DOMAIN rows : rows[k].mint = mint}
    IN [k \in DOMAIN mints |->
           [asset |-> mints[k],
            quantity |-> MapThenSumSet(LAMBDA j : rows[j].raw, Of(mints[k]))]]

(* The native balance first; what is zero is left out.                     *)
BuildBalances(lamports, mints) ==
    SelectSeq(<<[asset |-> Native, quantity |-> lamports]>> \o mints,
              LAMBDA balance : balance.quantity # 0)

(* The accounts of every mint, in no order that matters.                   *)
AllAccounts(split) == FoldSet(LAMBDA mint, all : split[mint] \o all, <<>>, Tokens)

TokenAccounts ==
    /\ job.kind = "solana" /\ job.stage \in {"program1", "program2"}
    /\ LET program == IF job.stage = "program1" THEN 1 ELSE 2
           Held(mint) == IF job.program[mint] # program THEN {<<>>}
                         ELSE Accounts(mint, Balance(mint, Len(chain)))
       IN \E split \in [Tokens -> UNION {Held(mint) : mint \in Tokens}] :
              /\ \A mint \in Tokens : split[mint] \in Held(mint)
              /\ LET rows == job.rows \o AllAccounts(split)
                 IN job' = IF program = 1
                           THEN [job EXCEPT !.rows = rows, !.stage = "program2"]
                           ELSE [kind |-> "solana", stage |-> "done", began |-> job.began,
                                 records |-> BuildBalances(job.lamports,
                                                           AggregateByMint(rows))]

-----------------------------------------------------------------------------
(* EvmRpc.batch: one request that carries n calls; the server answers them *)
(* in any order, and perhaps not all, or one twice.  An item is the call   *)
(* it answers and whether it is an error, which is declared in its place.  *)

(* Results are taken in the order of the body.                             *)
ByIdFault(body, n) == body

(* Results are taken by id.                                                *)
ById(body, n) == [k \in 1 .. n |-> CHOOSE item \in ToSet(body) : item.id = k]

ValidBody(body, n) ==
    /\ Len(body) = n
    /\ {body[k].id : k \in DOMAIN body} = 1 .. n

(* BatchResult: an error is declared in the place of the call.             *)
BatchResult(item) == IF item.refused THEN "refused" ELSE item.id

(* Nothing asked is no request.                                            *)
BatchRequest ==
    \E n \in 0 .. 3 : \E m \in (IF n = 0 THEN {0} ELSE 0 .. 3) :
        \E ids \in [1 .. m -> 1 .. n + 1], refused \in SUBSET (1 .. n) :
            LET body == [k \in 1 .. m |-> [id |-> ids[k], refused |-> ids[k] \in refused]]
                valid == ValidBody(body, n)
            IN job' = [kind |-> "batch", stage |-> IF valid THEN "done" ELSE "raised",
                       asked |-> n, refused |-> refused,
                       results |-> IF ~valid THEN <<>>
                                   ELSE [k \in 1 .. n |-> BatchResult(ById(body, n)[k])]]

(* Multicall3.aggregate3: one eth_call for n calls, answered in their      *)
(* order.  A call that reverts fails them all unless it is allowed to.     *)
Aggregate3 ==
    \E n \in 0 .. 3 : \E reverts, allowed \in SUBSET (1 .. n), m \in 0 .. n + 1 :
        LET answers == [k \in 1 .. m |-> IF k \in reverts THEN "refused" ELSE k]
        IN job' = IF n = 0 \/ (reverts \subseteq allowed /\ m = n)
                  THEN [kind |-> "batch", stage |-> "done", asked |-> n, refused |-> reverts,
                        results |-> IF n = 0 THEN <<>> ELSE answers]
                  ELSE [kind |-> "batch", stage |-> "raised", asked |-> n,
                        refused |-> reverts, results |-> <<>>]

-----------------------------------------------------------------------------
BeginWalk ==
    \/ BeginHistory \/ BeginSignatures \/ BeginLogs \/ BeginScan \/ BeginBalances
    \/ BeginSolana \/ BatchRequest \/ Aggregate3

WalkRequest ==
    \/ HistoryPage \/ SignaturePage \/ LogChunk \/ ScanAddress
    \/ NativeBalance \/ DiscoverTokens \/ TokenBalance
    \/ Lamports \/ TokenAccounts

(* A transport error, a bad status or a malformed body: SourceError.       *)
RequestFails == job' = [job EXCEPT !.stage = "raised"]

Begins ==
    /\ job = None
    /\ BeginWalk
    /\ UNCHANGED <<chain, used, swept>>

GoesOn ==
    /\ Running /\ job.stage # "price"
    /\ WalkRequest \/ RequestFails
    /\ UNCHANGED <<chain, used, swept>>

WalkNext == Mine \/ Receive \/ Sweep \/ Begins \/ GoesOn

(* The balances go to who prices them, which ends the read: what the       *)
(* report says, and by which oracles, is up to the composing module.       *)
Handed ==
    /\ job.kind = "balances" /\ job.stage = "price"
    /\ \/ RequestFails
       \/ job' = [kind |-> "holdings", stage |-> "done", began |-> job.began,
                  oracles |-> job'.oracles, report |-> job'.report]
    /\ UNCHANGED <<chain, used, swept>>

WalkSpec == WalkInit /\ [][WalkNext \/ Handed]_walkVars

-----------------------------------------------------------------------------
Done(kind) == job.kind = kind /\ job.stage = "done"

(* Of what there is, all that was there when the read began.               *)
Whole(rows, list) ==
    /\ IsPrefix(rows, list)
    /\ \A k \in DOMAIN list : list[k].hash <= job.began => k \in DOMAIN rows

HistoryWhole == Done("history") => Whole(job.normal, Txlist) /\ Whole(job.tokens, Tokentx)

SignaturesWhole ==
    Done("signatures") =>
        /\ Len(job.found) >= job.began
        /\ job.found = Reverse(SubSeq(Indices, 1, Len(job.found)))

LogsWhole ==
    Done("logs") =>
        LET Seen == ToSet(job.found)
            InRange == {i \in DOMAIN chain : chain[i].block \in job.from .. job.to}
        IN /\ InRange \cap 1 .. job.began \subseteq Seen
           /\ Seen \subseteq InRange
           /\ \A j, k \in DOMAIN job.found : j < k => job.found[j] < job.found[k]

(* Reached from the start of its branch without Gap unused addresses.      *)
Reached(address, wallet) ==
    \A i \in 0 .. address[2] - Gap : \E j \in i .. i + Gap - 1 : <<address[1], j>> \in wallet

ScanWhole ==
    Done("scan") =>
        LET Seen == {job.found[k].address : k \in DOMAIN job.found}
            InOrder(x, y) == x[1] < y[1] \/ (x[1] = y[1] /\ x[2] < y[2])
        IN /\ {address \in job.began : Reached(address, job.began)} \subseteq Seen
           /\ \A address \in Seen : address \in used /\ Reached(address, used)
           /\ \A j, k \in DOMAIN job.found : j < k => InOrder(job.found[j].address, job.found[k].address)

AnswersInPlace ==
    Done("batch") =>
        job.results = [k \in 1 .. job.asked |-> IF k \in job.refused THEN "refused" ELSE k]

(* A read of several requests that ends well missed nothing that was there *)
(* when it began, returned nothing twice and nothing out of order, however *)
(* the chain grew between its requests: pages of transactions and of token *)
(* transfers, pages of signatures (new ones come in front), chunks of logs *)
(* (both ends included), the gap scan of a wallet, and batches, whose      *)
(* answers come in any order and some of them refused.                     *)
ReadsWhole ==
    HistoryWhole /\ SignaturesWhole /\ LogsWhole /\ ScanWhole /\ AnswersInPlace

=============================================================================
