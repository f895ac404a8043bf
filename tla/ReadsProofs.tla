----------------------------- MODULE ReadsProofs -----------------------------
(***************************************************************************)
(* Proofs about reads.  A read of several requests is whole (Walks): the   *)
(* invariant says, read by read, what a read in progress has got so far of *)
(* a chain (or a wallet) that only grows; that the chain grew is a lemma   *)
(* for each list a server answers from.  The books of a refresh of         *)
(* positions balance (Positions): lemmas about totals, then an invariant   *)
(* kept action by action.  And what a refresh finds at one block is what   *)
(* is there: a second invariant, of what the adapter at work has been told *)
(* and of what the others found.                                           *)
(***************************************************************************)
EXTENDS Walks, Positions, Lemmas

-----------------------------------------------------------------------------
(* Lists. *)

LEMMA MinOfTwo ==
    ASSUME NEW a \in Int, NEW b \in Int
    PROVE  Min({a, b}) = IF a <= b THEN a ELSE b
<1> DEFINE least == IF a <= b THEN a ELSE b
<1>1. least \in {a, b} /\ \A y \in {a, b} : least <= y
    OBVIOUS
<1>2. \A x \in {a, b} : (\A y \in {a, b} : x <= y) => x = least
    OBVIOUS
<1> HIDE DEF least
<1>3. (CHOOSE x \in {a, b} : \A y \in {a, b} : x <= y) = least
    BY <1>1, <1>2
<1>. QED
    BY <1>3 DEF Min, least

LEMMA Joined ==
    ASSUME NEW S, NEW s \in Seq(S), NEW t \in Seq(S), NEW u, u = s \o t
    PROVE  /\ u \in Seq(S) /\ Len(u) = Len(s) + Len(t)
           /\ Len(s) \in Nat /\ Len(t) \in Nat
           /\ \A k \in 1 .. Len(s) : u[k] = s[k]
           /\ \A k \in Len(s) + 1 .. Len(s) + Len(t) : u[k] = t[k - Len(s)]
OBVIOUS

(* A prefix, element by element. *)
Starts(s, t) == Len(s) <= Len(t) /\ \A i \in 1 .. Len(s) : s[i] = t[i]

LEMMA PrefixStarts ==
    ASSUME NEW S, NEW s \in Seq(S), NEW t \in Seq(S)
    PROVE  IsPrefix(s, t) <=> Starts(s, t)
<1>1. CASE Len(s) <= Len(t)
    <2>1. SubSeq(s, 1, Len(s)) = s
        BY SubSeqFull
    <2>2. /\ SubSeq(t, 1, Len(s)) \in Seq(S) /\ Len(SubSeq(t, 1, Len(s))) = Len(s)
          /\ \A i \in 1 .. Len(s) : SubSeq(t, 1, Len(s))[i] = t[i]
        BY <1>1
    <2> DEFINE u == SubSeq(t, 1, Len(s))
    <2> HIDE DEF u
    <2>3. s = u <=> \A i \in 1 .. Len(s) : s[i] = u[i]
        <3>1. ASSUME \A i \in 1 .. Len(s) : s[i] = u[i] PROVE s = u
            BY <2>2, <3>1, SeqEqual DEF u
        <3>. QED
            BY <3>1
    <2>. QED
        BY <1>1, <2>1, <2>2, <2>3 DEF u, Starts, IsPrefix
<1>2. CASE ~(Len(s) <= Len(t))
    BY <1>2 DEF Starts, IsPrefix
<1>. QED
    BY <1>1, <1>2

(* How many of n are there, after `at` of them.                            *)
Taken(list, at, n) == IF at + n <= Len(list) THEN n ELSE Len(list) - at

(* A window onto a list.                                                   *)
LEMMA WindowRows ==
    ASSUME NEW S, NEW list \in Seq(S), NEW at \in Nat, at <= Len(list), NEW n \in Nat \ {0}
    PROVE  /\ Window(list, at + 1, n) \in Seq(S)
           /\ Len(Window(list, at + 1, n)) = Taken(list, at, n)
           /\ \A i \in 1 .. Taken(list, at, n) : Window(list, at + 1, n)[i] = list[at + i]
<1> DEFINE last == IF at + n <= Len(list) THEN at + n ELSE Len(list)
<1>1. Len(list) \in Nat /\ last \in Nat /\ last <= Len(list) /\ at <= last
    OBVIOUS
<1>2. Window(list, at + 1, n) = SubSeq(list, at + 1, last)
    <2>1. at + 1 + n - 1 = at + n /\ at + n \in Int
        OBVIOUS
    <2>2. Min({at + n, Len(list)}) = last
        BY <1>1, <2>1, MinOfTwo
    <2>. QED
        BY <2>1, <2>2 DEF Window
<1>3. last = at + Taken(list, at, n)
    BY DEF Taken
<1>. HIDE DEF last
<1>4. /\ SubSeq(list, at + 1, last) \in Seq(S)
      /\ Len(SubSeq(list, at + 1, last)) = last - at
      /\ \A i \in 1 .. last - at : SubSeq(list, at + 1, last)[i] = list[at + i]
    BY <1>1
<1>5. Taken(list, at, n) \in Int
    BY <1>1 DEF Taken
<1>6. last - at = Taken(list, at, n)
    BY <1>1, <1>3, <1>5
<1>. QED
    BY <1>2, <1>4, <1>6

(* A prefix and the window behind it are a longer prefix; if there was     *)
(* less than a window, they are all.                                       *)
Extend(got, rows, list, n) ==
    /\ Starts(got \o rows, list)
    /\ Len(rows) \in 0 .. n /\ Len(got \o rows) = Len(got) + Len(rows)
    /\ Len(rows) # n => Len(got \o rows) = Len(list)

LEMMA WindowExtends ==
    ASSUME NEW S, NEW list \in Seq(S), NEW got \in Seq(S), Starts(got, list),
           NEW n \in Nat \ {0}
    PROVE  /\ got \o Window(list, Len(got) + 1, n) \in Seq(S)
           /\ Extend(got, Window(list, Len(got) + 1, n), list, n)
<1> DEFINE at == Len(got)
           rows == Window(list, at + 1, n)
<1>1. at \in Nat /\ at <= Len(list) /\ Len(list) \in Nat
    BY DEF Starts
<1>2. /\ rows \in Seq(S) /\ Len(rows) = Taken(list, at, n)
      /\ \A i \in 1 .. Taken(list, at, n) : rows[i] = list[at + i]
    <2>. HIDE DEF at
    <2>1. Window(list, at + 1, n) \in Seq(S)
        BY <1>1, WindowRows
    <2>2. Len(Window(list, at + 1, n)) = Taken(list, at, n)
        BY <1>1, WindowRows
    <2>3. \A i \in 1 .. Taken(list, at, n) : Window(list, at + 1, n)[i] = list[at + i]
        BY <1>1, WindowRows
    <2>. QED
        BY <2>1, <2>2, <2>3
<1>3. /\ Taken(list, at, n) \in 0 .. n /\ at + Taken(list, at, n) <= Len(list)
      /\ Taken(list, at, n) # n => at + Taken(list, at, n) = Len(list)
    BY <1>1 DEF Taken
<1>. HIDE DEF rows
<1>4. /\ got \o rows \in Seq(S) /\ Len(got \o rows) = at + Len(rows)
      /\ \A i \in 1 .. at : (got \o rows)[i] = got[i]
      /\ \A i \in at + 1 .. at + Len(rows) : (got \o rows)[i] = rows[i - at]
    BY <1>1, <1>2
<1>5. ASSUME NEW i \in 1 .. at + Len(rows) PROVE (got \o rows)[i] = list[i]
    <2>1. CASE i <= at
        <3>1. i \in 1 .. at
            BY <1>1, <2>1
        <3>. QED
            BY <1>4, <3>1 DEF Starts
    <2>2. CASE i > at
        <3>1. i \in at + 1 .. at + Len(rows) /\ i - at \in 1 .. Taken(list, at, n)
              /\ at + (i - at) = i
            BY <1>1, <1>2, <1>3, <2>2
        <3>2. rows[i - at] = list[at + (i - at)]
            BY <1>2, <3>1
        <3>. QED
            BY <1>4, <3>1, <3>2
    <2>. QED
        BY <1>1, <1>2, <1>3, <2>1, <2>2
<1>6. Starts(got \o rows, list)
    BY <1>1, <1>2, <1>3, <1>4, <1>5 DEF Starts
<1>. QED
    BY <1>1, <1>2, <1>3, <1>4, <1>6 DEF rows, Extend

(* A list that grows keeps its prefixes.                                   *)
LEMMA StartsGrown ==
    ASSUME NEW S, NEW list \in Seq(S), NEW more \in Seq(S), NEW got \in Seq(S),
           Starts(got, list)
    PROVE  Starts(got, list \o more)
BY DEF Starts

-----------------------------------------------------------------------------
(* The chain. *)

Sorted == \A i, j \in 1 .. Len(chain) : i < j => chain[i].block <= chain[j].block

ChainInv ==
    /\ chain \in Seq(Transactions) /\ Sorted
    /\ used \subseteq Branches \X Nat /\ swept \subseteq Branches \X Nat

(* Blocks are added on top.                                                *)
Grew(more) ==
    /\ more \in Seq(Transactions) /\ chain' = chain \o more
    /\ \A i \in 1 .. Len(chain) : \A k \in 1 .. Len(more) : chain[i].block < more[k].block
    /\ \A j, k \in 1 .. Len(more) : more[j].block = more[k].block

LEMMA MineGrows ==
    ASSUME ChainInv, Mine
    PROVE  \E more \in Seq(Transactions) : Grew(more)
<1>0. PICK block \in LastBlock + 1 .. LastBlock + 2, n \in 1 .. MaxPerBlock :
           \E txs \in [1 .. n -> Shapes] :
               chain' = chain \o [k \in 1 .. n |-> [txs[k] EXCEPT !.block = block]]
    BY DEF Mine
<1>1. PICK txs \in [1 .. n -> Shapes] :
           chain' = chain \o [k \in 1 .. n |-> [txs[k] EXCEPT !.block = block]]
    BY <1>0
<1> DEFINE tx(k) == [txs[k] EXCEPT !.block = block]
           more == [k \in 1 .. n |-> tx(k)]
<1>2. n \in Nat /\ Shapes \subseteq Transactions /\ chain \in Seq(Transactions)
    BY WalkBounds, ShapesTyped DEF ChainInv
<1>3. LastBlock \in Nat /\ \A i \in 1 .. Len(chain) : chain[i].block <= LastBlock
    <2>1. CASE chain = << >>
        BY <2>1 DEF LastBlock
    <2>2. CASE chain # << >>
        <3>1. Len(chain) \in 1 .. Len(chain) /\ LastBlock = chain[Len(chain)].block
            BY <1>2, <2>2 DEF LastBlock, Last
        <3>2. \A i \in 1 .. Len(chain) : chain[i] \in Transactions
            BY <1>2
        <3>3. \A i \in 1 .. Len(chain) : chain[i].block \in Nat
            BY <3>2 DEF Transactions
        <3>4. ASSUME NEW i \in 1 .. Len(chain) PROVE chain[i].block <= LastBlock
            <4>1. CASE i = Len(chain)
                BY <3>1, <3>3, <4>1
            <4>2. CASE i < Len(chain)
                BY <3>1, <4>2 DEF ChainInv, Sorted
            <4>. QED
                BY <1>2, <4>1, <4>2
        <3>. QED
            BY <3>1, <3>3, <3>4
    <2>. QED
        BY <2>1, <2>2
<1>4. block \in Nat /\ block > LastBlock
    BY <1>1, <1>3
<1>5. ASSUME NEW k \in 1 .. n
      PROVE  tx(k) \in Transactions /\ tx(k).block = block
    <2>1. txs[k] \in Transactions
        BY <1>1, <1>2
    <2>. QED
        BY <1>4, <2>1 DEF Transactions
<1>8. chain' = chain \o more
    BY <1>1
<1>. HIDE DEF tx
<1>6. /\ more \in Seq(Transactions) /\ Len(more) = n
      /\ \A k \in 1 .. n : more[k].block = block
    BY <1>2, <1>5
<1>7. ASSUME NEW i \in 1 .. Len(chain), NEW k \in 1 .. Len(more)
      PROVE  chain[i].block < more[k].block
    <2>1. chain[i] \in Transactions
        BY <1>2
    <2>2. chain[i].block \in Nat
        BY <2>1 DEF Transactions
    <2>. HIDE DEF more
    <2>. QED
        BY <1>3, <1>4, <1>6, <2>2
<1>. HIDE DEF more
<1>. QED
    BY <1>6, <1>7, <1>8 DEF Grew

LEMMA GrownChain ==
    ASSUME ChainInv, NEW more, Grew(more)
    PROVE  /\ chain' \in Seq(Transactions) /\ Len(chain') = Len(chain) + Len(more)
           /\ Len(chain) \in Nat /\ Len(more) \in Nat
           /\ \A i \in 1 .. Len(chain) : chain'[i] = chain[i]
           /\ \A k \in 1 .. Len(more) : chain'[Len(chain) + k] = more[k]
           /\ Sorted'
<1>1. chain \in Seq(Transactions) /\ more \in Seq(Transactions) /\ chain' = chain \o more
    BY DEF ChainInv, Grew
<1>2. /\ chain' \in Seq(Transactions) /\ Len(chain') = Len(chain) + Len(more)
      /\ Len(chain) \in Nat /\ Len(more) \in Nat
      /\ \A i \in 1 .. Len(chain) : chain'[i] = chain[i]
      /\ \A k \in 1 .. Len(more) : chain'[Len(chain) + k] = more[k]
    BY <1>1
<1>3. Sorted'
    <2>1. SUFFICES ASSUME NEW i \in 1 .. Len(chain'), NEW j \in 1 .. Len(chain'), i < j
                   PROVE  chain'[i].block <= chain'[j].block
        BY DEF Sorted
    <2>2. CASE j <= Len(chain)
        <3>1. i \in 1 .. Len(chain) /\ j \in 1 .. Len(chain)
            BY <1>2, <2>1, <2>2
        <3>. QED
            BY <1>2, <2>1, <3>1 DEF ChainInv, Sorted
    <2>3. CASE j > Len(chain)
        <3> DEFINE l == j - Len(chain)
        <3>1. l \in 1 .. Len(more) /\ j = Len(chain) + l
            BY <1>2, <2>1, <2>3
        <3>2. chain'[j] = more[l]
            BY <1>2, <3>1
        <3>3. more[l] \in Transactions
            BY <1>1, <3>1
        <3>4. more[l].block \in Nat
            BY <3>3 DEF Transactions
        <3>5. CASE i <= Len(chain)
            <4>1. i \in 1 .. Len(chain)
                BY <1>2, <2>1, <3>5
            <4>2. chain'[i] = chain[i] /\ chain[i] \in Transactions
                BY <1>1, <1>2, <4>1
            <4>3. chain[i].block \in Nat
                BY <4>2 DEF Transactions
            <4>4. chain[i].block < more[l].block
                BY <3>1, <4>1 DEF Grew
            <4>. QED
                BY <3>2, <3>4, <4>2, <4>3, <4>4
        <3>6. CASE i > Len(chain)
            <4>1. i - Len(chain) \in 1 .. Len(more) /\ i = Len(chain) + (i - Len(chain))
                BY <1>2, <2>1, <3>6
            <4>2. chain'[i] = more[i - Len(chain)]
                BY <1>2, <4>1
            <4>3. more[i - Len(chain)].block = more[l].block
                BY <3>1, <4>1 DEF Grew
            <4>. QED
                BY <3>2, <3>4, <4>2, <4>3
        <3>. QED
            BY <1>2, <2>1, <3>5, <3>6
    <2>. QED
        BY <1>2, <2>1, <2>2, <2>3
<1>. QED
    BY <1>2, <1>3

-----------------------------------------------------------------------------
(* What an explorer serves of it: the rows of a longer chain are those of  *)
(* the shorter one and, behind them, those of the transactions added.      *)

Row ==
    [hash : Nat, block : Nat, from : Parties, to : Parties, value : Nat, gas : {Gas},
     is_error : BOOLEAN, asset : {Native} \cup Tokens]

RowsAfter(n) == {row \in Row : row.hash > n}

NormalOf(c, i) ==
    IF Me \in {c[i].from, c[i].to}
    THEN <<NormalRow(i, c[i].block, c[i].from, c[i].to, c[i].value, Gas, c[i].failed)>>
    ELSE <<>>

TokensOf(c, i) ==
    [k \in DOMAIN c[i].moves |->
        TokenRow(i, c[i].block, c[i].moves[k].from, c[i].moves[k].to,
                 c[i].moves[k].value, Gas, c[i].moves[k].token)]

LEMMA NormalTyped ==
    ASSUME NEW c \in Seq(Transactions), NEW i \in 1 .. Len(c), NEW n \in 0 .. i - 1
    PROVE  NormalOf(c, i) \in Seq(RowsAfter(n)) /\ NormalOf(c, i) \in Seq(Row)
<1>1. c[i] \in Transactions /\ i \in Nat /\ n \in Nat /\ n < i
    OBVIOUS
<1> DEFINE row == NormalRow(i, c[i].block, c[i].from, c[i].to, c[i].value, Gas, c[i].failed)
<1>2. row \in Row /\ row.hash = i
    BY <1>1 DEF Transactions, NormalRow, Row
<1>3. row \in RowsAfter(n) /\ row \in Row
    BY <1>1, <1>2 DEF RowsAfter
<1>4. NormalOf(c, i) = <<row>> \/ NormalOf(c, i) = <<>>
    BY DEF NormalOf
<1>. HIDE DEF row
<1>5. /\ <<row>> \in Seq(RowsAfter(n)) /\ <<>> \in Seq(RowsAfter(n))
      /\ <<row>> \in Seq(Row) /\ <<>> \in Seq(Row)
    BY <1>3
<1>. QED
    BY <1>4, <1>5

LEMMA TokensTyped ==
    ASSUME NEW c \in Seq(Transactions), NEW i \in 1 .. Len(c), NEW n \in 0 .. i - 1
    PROVE  TokensOf(c, i) \in Seq(RowsAfter(n)) /\ TokensOf(c, i) \in Seq(Row)
<1>1. c[i] \in Transactions /\ i \in Nat /\ n \in Nat /\ n < i
    OBVIOUS
<1>2. c[i].moves \in Seq(Moves) /\ c[i].block \in Nat
    BY <1>1 DEF Transactions
<1> DEFINE m == c[i].moves
           row(k) == TokenRow(i, c[i].block, m[k].from, m[k].to, m[k].value, Gas, m[k].token)
<1>3. ASSUME NEW k \in 1 .. Len(m) PROVE row(k) \in Row /\ row(k) \in RowsAfter(n)
    <2>1. m[k] \in Moves
        BY <1>2
    <2>. HIDE DEF m
    <2>2. row(k) \in Row /\ row(k).hash = i
        BY <1>1, <1>2, <2>1 DEF Moves, TokenRow, Row
    <2>. QED
        BY <1>1, <2>2 DEF RowsAfter
<1>4. DOMAIN m = 1 .. Len(m) /\ Len(m) \in Nat
    BY <1>2
<1>5. TokensOf(c, i) = [k \in DOMAIN m |-> row(k)]
    BY DEF TokensOf
<1>. HIDE DEF m, row
<1>6. /\ [k \in 1 .. Len(m) |-> row(k)] \in Seq(Row)
      /\ [k \in 1 .. Len(m) |-> row(k)] \in Seq(RowsAfter(n))
    BY <1>3, <1>4
<1>. QED
    BY <1>4, <1>5, <1>6

(* A list is any prefix of it and the rest. *)
Behind(list, n) == SubSeq(list, n + 1, Len(list))

LEMMA LongerList ==
    ASSUME NEW X, NEW f \in Seq(X), NEW g \in Seq(X), Starts(f, g)
    PROVE  /\ Behind(g, Len(f)) \in Seq(X) /\ g = f \o Behind(g, Len(f))
           /\ Len(Behind(g, Len(f))) = Len(g) - Len(f)
           /\ \A k \in 1 .. Len(g) - Len(f) : Behind(g, Len(f))[k] = g[Len(f) + k]
<1> DEFINE n == Len(f)
           rest == Behind(g, n)
<1>1. n \in Nat /\ Len(g) \in Nat /\ n <= Len(g) /\ \A i \in 1 .. n : g[i] = f[i]
    BY DEF Starts
<1>2. /\ rest \in Seq(X) /\ Len(rest) = Len(g) - n
      /\ \A k \in 1 .. Len(g) - n : rest[k] = g[n + k]
    BY <1>1 DEF Behind
<1>. HIDE DEF rest
<1>4. /\ f \o rest \in Seq(X) /\ Len(f \o rest) = Len(g)
      /\ \A i \in 1 .. n : (f \o rest)[i] = f[i]
      /\ \A i \in n + 1 .. Len(g) : (f \o rest)[i] = rest[i - n]
    BY <1>1, <1>2
<1>5. ASSUME NEW i \in 1 .. Len(g) PROVE (f \o rest)[i] = g[i]
    <2>1. CASE i <= n
        <3>1. i \in 1 .. n
            BY <1>1, <2>1
        <3>. QED
            BY <1>1, <1>4, <3>1
    <2>2. CASE i > n
        <3>1. i - n \in 1 .. Len(g) - n /\ n + (i - n) = i /\ i \in n + 1 .. Len(g)
            BY <1>1, <2>2
        <3>. QED
            BY <1>2, <1>4, <3>1
    <2>3. i <= n \/ i > n
        BY <1>1
    <2>. QED
        BY <2>1, <2>2, <2>3, Zenon
<1>6. f \o rest = g
    BY <1>4, <1>5, SeqEqual
<1>. QED
    BY <1>2, <1>6 DEF rest

(* What is served per transaction, all together.                           *)
LEMMA ServedGrows ==
    ASSUME NEW f \in Seq(Seq(Row)), NEW g \in Seq(Seq(Row)), Starts(f, g),
           \A i \in Len(f) + 1 .. Len(g) : g[i] \in Seq(RowsAfter(Len(f)))
    PROVE  /\ FlattenSeq(f) \in Seq(Row) /\ FlattenSeq(g) \in Seq(Row)
           /\ \E rows \in Seq(RowsAfter(Len(f))) : FlattenSeq(g) = FlattenSeq(f) \o rows
<1> DEFINE n == Len(f)
           rest == Behind(g, n)
<1>1. /\ rest \in Seq(Seq(Row)) /\ g = f \o rest /\ Len(rest) = Len(g) - n
      /\ \A k \in 1 .. Len(g) - n : rest[k] = g[n + k]
    <2> DEFINE X == Seq(Row)
    <2>. HIDE DEF X
    <2>1. f \in Seq(X) /\ g \in Seq(X)
        BY DEF X
    <2>2. /\ rest \in Seq(X) /\ g = f \o rest /\ Len(rest) = Len(g) - n
          /\ \A k \in 1 .. Len(g) - n : rest[k] = g[n + k]
        BY <2>1, LongerList
    <2>. QED
        BY <2>2 DEF X
<1>2. rest \in Seq(Seq(RowsAfter(n)))
    <2> DEFINE Y == Seq(RowsAfter(n))
    <2>1. n \in Nat /\ Len(g) \in Nat /\ n <= Len(g)
        BY DEF Starts
    <2>2. ASSUME NEW k \in 1 .. Len(g) - n PROVE rest[k] \in Y
        <3>1. n + k \in n + 1 .. Len(g)
            BY <2>1
        <3>2. g[n + k] \in Y
            BY <3>1
        <3>. QED
            BY <1>1, <3>2
    <2>. HIDE DEF Y, rest
    <2> DEFINE m == Len(g) - n
               Z == Seq(Row)
    <2>3. m \in Nat /\ rest \in Seq(Z) /\ Len(rest) = m
        BY <1>1, <2>1
    <2>. HIDE DEF m, Z
    <2>4. DOMAIN rest = 1 .. m /\ rest = [k \in 1 .. m |-> rest[k]]
        BY <2>3
    <2>5. rest \in Seq(Y)
        BY <2>2, <2>3, <2>4 DEF m
    <2>. QED
        BY <2>5 DEF Y
<1>. HIDE DEF rest
<1>6. FlattenSeq(g) = FlattenSeq(f) \o FlattenSeq(rest)
    BY <1>1, FlattenSplits
<1>7. FlattenSeq(rest) \in Seq(RowsAfter(n))
    BY <1>2, FlattenTyped
<1>8. FlattenSeq(f) \in Seq(Row) /\ FlattenSeq(g) \in Seq(Row)
    BY FlattenTyped
<1>. QED
    BY <1>6, <1>7, <1>8

LEMMA RowsGrow ==
    ASSUME ChainInv, NEW more, Grew(more)
    PROVE  /\ Txlist \in Seq(Row) /\ Txlist' \in Seq(Row)
           /\ Tokentx \in Seq(Row) /\ Tokentx' \in Seq(Row)
           /\ \E rows \in Seq(RowsAfter(Len(chain))) : Txlist' = Txlist \o rows
           /\ \E rows \in Seq(RowsAfter(Len(chain))) : Tokentx' = Tokentx \o rows
<1> DEFINE n == Len(chain)
           m == Len(more)
<1>1. /\ chain \in Seq(Transactions) /\ chain' \in Seq(Transactions)
      /\ n \in Nat /\ m \in Nat /\ Len(chain') = n + m
      /\ \A i \in 1 .. n : chain'[i] = chain[i]
    BY GrownChain DEF ChainInv
<1>2. /\ \A i \in 1 .. n : /\ NormalOf(chain, i) \in Seq(Row)
                           /\ NormalOf(chain', i) = NormalOf(chain, i)
      /\ \A i \in 1 .. n + m : NormalOf(chain', i) \in Seq(Row)
      /\ \A i \in n + 1 .. n + m : NormalOf(chain', i) \in Seq(RowsAfter(n))
    <2>1. \A i \in 1 .. n : NormalOf(chain, i) \in Seq(Row) /\ 0 \in 0 .. i - 1
        BY <1>1, NormalTyped
    <2>2. /\ \A i \in n + 1 .. n + m : i \in 1 .. Len(chain') /\ n \in 0 .. i - 1
          /\ \A i \in 1 .. n + m : i \in 1 .. Len(chain') /\ 0 \in 0 .. i - 1
        BY <1>1
    <2>3. \A i \in n + 1 .. n + m : NormalOf(chain', i) \in Seq(RowsAfter(n))
        BY <1>1, <2>2, NormalTyped
    <2>4. \A i \in 1 .. n + m : NormalOf(chain', i) \in Seq(Row)
        BY <1>1, <2>2, NormalTyped
    <2>5. \A i \in 1 .. n : NormalOf(chain', i) = NormalOf(chain, i)
        BY <1>1 DEF NormalOf
    <2>. QED
        BY <2>1, <2>3, <2>4, <2>5
<1>3. /\ \A i \in 1 .. n : /\ TokensOf(chain, i) \in Seq(Row)
                           /\ TokensOf(chain', i) = TokensOf(chain, i)
      /\ \A i \in 1 .. n + m : TokensOf(chain', i) \in Seq(Row)
      /\ \A i \in n + 1 .. n + m : TokensOf(chain', i) \in Seq(RowsAfter(n))
    <2>1. \A i \in 1 .. n : TokensOf(chain, i) \in Seq(Row) /\ 0 \in 0 .. i - 1
        BY <1>1, TokensTyped
    <2>2. /\ \A i \in n + 1 .. n + m : i \in 1 .. Len(chain') /\ n \in 0 .. i - 1
          /\ \A i \in 1 .. n + m : i \in 1 .. Len(chain') /\ 0 \in 0 .. i - 1
        BY <1>1
    <2>3. \A i \in n + 1 .. n + m : TokensOf(chain', i) \in Seq(RowsAfter(n))
        BY <1>1, <2>2, TokensTyped
    <2>4. \A i \in 1 .. n + m : TokensOf(chain', i) \in Seq(Row)
        BY <1>1, <2>2, TokensTyped
    <2>5. \A i \in 1 .. n : TokensOf(chain', i) = TokensOf(chain, i)
        BY <1>1 DEF TokensOf
    <2>. QED
        BY <2>1, <2>3, <2>4, <2>5
<1>4. /\ Txlist = FlattenSeq([i \in 1 .. n |-> NormalOf(chain, i)])
      /\ Txlist' = FlattenSeq([i \in 1 .. Len(chain') |-> NormalOf(chain', i)])
      /\ Tokentx = FlattenSeq([i \in 1 .. n |-> TokensOf(chain, i)])
      /\ Tokentx' = FlattenSeq([i \in 1 .. Len(chain') |-> TokensOf(chain', i)])
    BY DEF Txlist, Tokentx, NormalRows, TokenRows, NormalOf, TokensOf
<1>. HIDE DEF n, m
<1>5. /\ Txlist \in Seq(Row) /\ Txlist' \in Seq(Row)
      /\ \E rows \in Seq(RowsAfter(n)) : Txlist' = Txlist \o rows
    <2> DEFINE f == [i \in 1 .. n |-> NormalOf(chain, i)]
               g == [i \in 1 .. n + m |-> NormalOf(chain', i)]
    <2>1. f \in Seq(Seq(Row)) /\ g \in Seq(Seq(Row)) /\ Len(f) = n /\ Len(g) = n + m
        BY <1>1, <1>2
    <2>2. /\ \A i \in 1 .. n : g[i] = f[i]
          /\ \A i \in n + 1 .. n + m : g[i] \in Seq(RowsAfter(n))
        <3>1. /\ \A i \in 1 .. n : f[i] = NormalOf(chain, i) /\ i \in 1 .. n + m
              /\ \A i \in n + 1 .. n + m : i \in 1 .. n + m
              /\ \A i \in 1 .. n + m : g[i] = NormalOf(chain', i)
            BY <1>1
        <3>. QED
            BY <1>2, <3>1
    <2>3. Txlist = FlattenSeq(f) /\ Txlist' = FlattenSeq(g)
        BY <1>1, <1>4
    <2>. HIDE DEF f, g
    <2>4. Starts(f, g) /\ \A i \in Len(f) + 1 .. Len(g) : g[i] \in Seq(RowsAfter(Len(f)))
        BY <1>1, <2>1, <2>2 DEF Starts
    <2>. QED
        BY <2>1, <2>3, <2>4, ServedGrows
<1>6. /\ Tokentx \in Seq(Row) /\ Tokentx' \in Seq(Row)
      /\ \E rows \in Seq(RowsAfter(n)) : Tokentx' = Tokentx \o rows
    <2> DEFINE f == [i \in 1 .. n |-> TokensOf(chain, i)]
               g == [i \in 1 .. n + m |-> TokensOf(chain', i)]
    <2>1. f \in Seq(Seq(Row)) /\ g \in Seq(Seq(Row)) /\ Len(f) = n /\ Len(g) = n + m
        BY <1>1, <1>3
    <2>2. /\ \A i \in 1 .. n : g[i] = f[i]
          /\ \A i \in n + 1 .. n + m : g[i] \in Seq(RowsAfter(n))
        <3>1. /\ \A i \in 1 .. n : f[i] = TokensOf(chain, i) /\ i \in 1 .. n + m
              /\ \A i \in n + 1 .. n + m : i \in 1 .. n + m
              /\ \A i \in 1 .. n + m : g[i] = TokensOf(chain', i)
            BY <1>1
        <3>. QED
            BY <1>3, <3>1
    <2>3. Tokentx = FlattenSeq(f) /\ Tokentx' = FlattenSeq(g)
        BY <1>1, <1>4
    <2>. HIDE DEF f, g
    <2>4. Starts(f, g) /\ \A i \in Len(f) + 1 .. Len(g) : g[i] \in Seq(RowsAfter(Len(f)))
        BY <1>1, <2>1, <2>2 DEF Starts
    <2>. QED
        BY <2>1, <2>3, <2>4, ServedGrows
<1>. QED
    BY <1>5, <1>6 DEF n

LEMMA RowsTyped ==
    ASSUME ChainInv
    PROVE  Txlist \in Seq(Row) /\ Tokentx \in Seq(Row)
<1> DEFINE n == Len(chain)
           f == [i \in 1 .. n |-> NormalOf(chain, i)]
           g == [i \in 1 .. n |-> TokensOf(chain, i)]
<1>1. chain \in Seq(Transactions) /\ n \in Nat
    BY DEF ChainInv
<1>2. \A i \in 1 .. n : 0 \in 0 .. i - 1
    BY <1>1
<1>3. \A i \in 1 .. n : NormalOf(chain, i) \in Seq(Row) /\ TokensOf(chain, i) \in Seq(Row)
    BY <1>1, <1>2, NormalTyped, TokensTyped
<1>4. f \in Seq(Seq(Row)) /\ g \in Seq(Seq(Row))
    BY <1>1, <1>3
<1>5. Txlist = FlattenSeq(f) /\ Tokentx = FlattenSeq(g)
    BY DEF Txlist, Tokentx, NormalRows, TokenRows, NormalOf, TokensOf
<1>. HIDE DEF f, g
<1>. QED
    BY <1>4, <1>5, FlattenTyped

-----------------------------------------------------------------------------
(* Pages of transactions, then of token transfers.                         *)

HistoryJobs ==
    [kind : {"history"}, stage : {"txlist", "tokentx", "done", "raised"}, page : Nat \ {0},
     normal : Seq(Row), tokens : Seq(Row), began : Nat]

(* What was there at the beginning is among the first `count`.             *)
Covers(count, list, began) == \A k \in 1 .. Len(list) : list[k].hash <= began => k <= count

(* Full pages so far; then a page that was not full, which was the last.   *)
HistoryInv ==
    job.kind = "history" =>
        /\ job \in HistoryJobs /\ job.began <= Len(chain)
        /\ Starts(job.normal, Txlist) /\ Starts(job.tokens, Tokentx)
        /\ job.stage = "txlist" => /\ Len(job.normal) = (job.page - 1) * PageSize
                                  /\ job.tokens = <<>>
        /\ job.stage = "tokentx" => Len(job.tokens) = (job.page - 1) * PageSize
        /\ job.stage \in {"tokentx", "done"} => Covers(Len(job.normal), Txlist, job.began)
        /\ job.stage = "done" => Covers(Len(job.tokens), Tokentx, job.began)

LEMMA CoversGrown ==
    ASSUME NEW list \in Seq(Row), NEW n \in Nat, NEW rows \in Seq(RowsAfter(n)),
           NEW began \in 0 .. n, NEW count \in Nat, Covers(count, list, began)
    PROVE  Covers(count, list \o rows, began)
<1> SUFFICES ASSUME NEW k \in 1 .. Len(list \o rows), (list \o rows)[k].hash <= began
             PROVE  k <= count
    BY DEF Covers
<1>1. rows \in Seq(Row)
    <2>1. RowsAfter(n) \subseteq Row
        BY DEF RowsAfter
    <2>. QED
        BY <2>1, SeqMonotonic
<1>2. /\ Len(list \o rows) = Len(list) + Len(rows) /\ Len(list) \in Nat /\ Len(rows) \in Nat
      /\ \A i \in 1 .. Len(list) : (list \o rows)[i] = list[i]
      /\ \A i \in Len(list) + 1 .. Len(list) + Len(rows) :
             (list \o rows)[i] = rows[i - Len(list)]
    BY <1>1
<1>3. CASE k <= Len(list)
    <2>1. k \in 1 .. Len(list)
        BY <1>2, <1>3
    <2>. QED
        BY <1>2, <2>1 DEF Covers
<1>4. CASE k > Len(list)
    <2>1. k \in Len(list) + 1 .. Len(list) + Len(rows) /\ k - Len(list) \in 1 .. Len(rows)
        BY <1>2, <1>4
    <2>2. rows[k - Len(list)] \in RowsAfter(n)
        BY <2>1
    <2>3. (list \o rows)[k].hash \in Nat /\ (list \o rows)[k].hash > n
        BY <1>2, <2>1, <2>2 DEF RowsAfter, Row
    <2>. QED
        BY <2>3
<1>. QED
    BY <1>2, <1>3, <1>4

LEMMA HistoryStarts ==
    ASSUME ChainInv, BeginHistory, UNCHANGED chain
    PROVE  HistoryInv'
<1>1. Txlist' = Txlist /\ Tokentx' = Tokentx
    BY DEF Txlist, Tokentx, NormalRows, TokenRows
<1>2. Txlist \in Seq(Row) /\ Tokentx \in Seq(Row)
    BY RowsTyped
<1>3. Starts(<<>>, Txlist) /\ Starts(<<>>, Tokentx)
    BY <1>2 DEF Starts
<1>4. Len(chain) \in Nat /\ PageSize \in Nat
    BY PagesNotEmpty DEF ChainInv
<1>5. /\ job'.kind = "history" /\ job'.stage = "txlist" /\ job'.page = 1
      /\ job'.normal = <<>> /\ job'.tokens = <<>> /\ job'.began = Len(chain)
      /\ job' \in HistoryJobs
    BY <1>4 DEF BeginHistory, HistoryJobs
<1>6. Len(<<>>) = (1 - 1) * PageSize
    BY <1>4
<1>. QED
    BY <1>1, <1>3, <1>4, <1>5, <1>6 DEF HistoryInv

LEMMA HistoryWaits ==
    ASSUME ChainInv, HistoryInv, NEW more, Grew(more), UNCHANGED job
    PROVE  HistoryInv'
<1> SUFFICES ASSUME job.kind = "history" PROVE HistoryInv'
    BY DEF HistoryInv
<1>1. /\ job \in HistoryJobs /\ job.began <= Len(chain)
      /\ Starts(job.normal, Txlist) /\ Starts(job.tokens, Tokentx)
      /\ job.stage = "txlist" => /\ Len(job.normal) = (job.page - 1) * PageSize
                                /\ job.tokens = <<>>
      /\ job.stage = "tokentx" => Len(job.tokens) = (job.page - 1) * PageSize
      /\ job.stage \in {"tokentx", "done"} => Covers(Len(job.normal), Txlist, job.began)
      /\ job.stage = "done" => Covers(Len(job.tokens), Tokentx, job.began)
    BY DEF HistoryInv
<1>2. /\ job.normal \in Seq(Row) /\ job.tokens \in Seq(Row) /\ job.began \in Nat
    BY <1>1 DEF HistoryJobs
<1>3. Len(chain) \in Nat /\ Len(chain') = Len(chain) + Len(more) /\ Len(more) \in Nat
    BY GrownChain
<1>4. job.began \in 0 .. Len(chain) /\ job.began <= Len(chain')
    BY <1>1, <1>2, <1>3
<1>5. PICK a \in Seq(RowsAfter(Len(chain))) : Txlist' = Txlist \o a
    BY RowsGrow
<1>6. PICK b \in Seq(RowsAfter(Len(chain))) : Tokentx' = Tokentx \o b
    BY RowsGrow
<1>7. Txlist \in Seq(Row) /\ Tokentx \in Seq(Row) /\ a \in Seq(Row) /\ b \in Seq(Row)
    <2>1. RowsAfter(Len(chain)) \subseteq Row
        BY DEF RowsAfter
    <2>. QED
        BY <2>1, RowsTyped, SeqMonotonic
<1>8. Starts(job.normal, Txlist') /\ Starts(job.tokens, Tokentx')
    BY <1>1, <1>2, <1>5, <1>6, <1>7, StartsGrown
<1>9. /\ Covers(Len(job.normal), Txlist, job.began) => Covers(Len(job.normal), Txlist', job.began)
      /\ Covers(Len(job.tokens), Tokentx, job.began) => Covers(Len(job.tokens), Tokentx', job.began)
    <2>1. Len(job.normal) \in Nat /\ Len(job.tokens) \in Nat
        BY <1>2
    <2>. QED
        BY <1>3, <1>4, <1>5, <1>6, <1>7, <2>1, CoversGrown
<1>. QED
    BY <1>1, <1>4, <1>8, <1>9 DEF HistoryInv

LEMMA HistoryFails ==
    ASSUME HistoryInv, RequestFails, UNCHANGED chain
    PROVE  job.kind = "history" => HistoryInv'
<1> SUFFICES ASSUME job.kind = "history" PROVE HistoryInv'
    OBVIOUS
<1>1. Txlist' = Txlist /\ Tokentx' = Tokentx
    BY DEF Txlist, Tokentx, NormalRows, TokenRows
<1>2. /\ job \in HistoryJobs /\ job.began <= Len(chain)
      /\ Starts(job.normal, Txlist) /\ Starts(job.tokens, Tokentx)
    BY DEF HistoryInv
<1>3. /\ job' \in HistoryJobs /\ job'.began = job.began /\ job'.stage = "raised"
      /\ job'.normal = job.normal /\ job'.tokens = job.tokens
    BY <1>2 DEF RequestFails, HistoryJobs
<1>. QED
    BY <1>1, <1>2, <1>3 DEF HistoryInv

LEMMA HistoryGoesOn ==
    ASSUME ChainInv, HistoryInv, HistoryPage, UNCHANGED chain
    PROVE  HistoryInv'
<1>1. Txlist' = Txlist /\ Tokentx' = Tokentx /\ chain' = chain
    BY DEF Txlist, Tokentx, NormalRows, TokenRows
<1>2. /\ job.kind = "history" /\ job.stage \in {"txlist", "tokentx"}
      /\ job \in HistoryJobs /\ job.began <= Len(chain)
      /\ Starts(job.normal, Txlist) /\ Starts(job.tokens, Tokentx)
      /\ job.stage = "txlist" => /\ Len(job.normal) = (job.page - 1) * PageSize
                                /\ job.tokens = <<>>
      /\ job.stage = "tokentx" => Len(job.tokens) = (job.page - 1) * PageSize
      /\ job.stage \in {"tokentx", "done"} => Covers(Len(job.normal), Txlist, job.began)
    BY DEF HistoryInv, HistoryPage
<1>3. /\ job.normal \in Seq(Row) /\ job.tokens \in Seq(Row) /\ job.began \in Nat
      /\ job.page \in Nat \ {0} /\ PageSize \in Nat \ {0}
    BY <1>2, PagesNotEmpty DEF HistoryJobs
<1>4. Txlist \in Seq(Row) /\ Tokentx \in Seq(Row)
    BY RowsTyped
<1>5. /\ job.page + 1 \in Nat \ {0} /\ (job.page + 1) - 1 = job.page
      /\ job.page * PageSize = (job.page - 1) * PageSize + PageSize
    BY <1>3
<1>6. CASE job.stage = "txlist"
    <2> DEFINE rows == Window(Txlist, Len(job.normal) + 1, PageSize)
    <2>1. Page(Txlist, job.page) = rows
        BY <1>2, <1>6 DEF Page
    <2>2. job.normal \o rows \in Seq(Row) /\ Extend(job.normal, rows, Txlist, PageSize)
        BY <1>2, <1>3, <1>4, WindowExtends
    <2>6. /\ Starts(job.normal \o rows, Txlist) /\ Len(rows) \in 0 .. PageSize
          /\ Len(job.normal \o rows) = Len(job.normal) + Len(rows)
          /\ Len(rows) # PageSize => Len(job.normal \o rows) = Len(Txlist)
        BY <2>2 DEF Extend
    <2>. HIDE DEF rows
    <2>3. job' = [job EXCEPT
                      !.normal = @ \o rows, !.tokens = @,
                      !.page = IF Len(rows) = PageSize THEN @ + 1 ELSE 1,
                      !.stage = CASE Len(rows) = PageSize -> @
                                  [] ~(Len(rows) = PageSize) /\ TRUE -> "tokentx"
                                  [] OTHER -> "done"]
        BY <1>6, <2>1 DEF HistoryPage
    <2>4. CASE Len(rows) = PageSize
        <3>1. /\ job'.kind = "history" /\ job'.stage = "txlist" /\ job'.page = job.page + 1
              /\ job'.normal = job.normal \o rows /\ job'.tokens = job.tokens
              /\ job'.began = job.began /\ job' \in HistoryJobs
            BY <1>2, <1>5, <1>6, <2>2, <2>3, <2>4 DEF HistoryJobs
        <3>2. Len(job'.normal) = (job'.page - 1) * PageSize
            BY <1>2, <1>5, <1>6, <2>6, <2>4, <3>1
        <3>. QED
            BY <1>1, <1>2, <1>6, <2>6, <3>1, <3>2 DEF HistoryInv
    <2>5. CASE Len(rows) # PageSize
        <3>1. /\ job'.kind = "history" /\ job'.stage = "tokentx" /\ job'.page = 1
              /\ job'.normal = job.normal \o rows /\ job'.tokens = job.tokens
              /\ job'.began = job.began /\ job' \in HistoryJobs
            <4>0. PICK one \in Nat \ {0} : one = 1
                OBVIOUS
            <4>1. job' = [job EXCEPT !.normal = job.normal \o rows, !.tokens = job.tokens,
                                     !.page = one, !.stage = "tokentx"]
                BY <4>0, <2>3, <2>5
            <4>. QED
                BY <1>2, <2>2, <4>0, <4>1 DEF HistoryJobs
        <3>2. Covers(Len(job'.normal), Txlist, job.began)
            BY <1>4, <2>6, <2>5, <3>1 DEF Covers
        <3>3. Len(job'.tokens) = (1 - 1) * PageSize
            BY <1>2, <1>3, <1>6, <3>1
        <3>. QED
            BY <1>1, <1>2, <2>6, <3>1, <3>2, <3>3 DEF HistoryInv
    <2>. QED
        BY <2>4, <2>5
<1>7. CASE job.stage = "tokentx"
    <2> DEFINE rows == Window(Tokentx, Len(job.tokens) + 1, PageSize)
    <2>1. Page(Tokentx, job.page) = rows
        BY <1>2, <1>7 DEF Page
    <2>2. job.tokens \o rows \in Seq(Row) /\ Extend(job.tokens, rows, Tokentx, PageSize)
        BY <1>2, <1>3, <1>4, WindowExtends
    <2>6. /\ Starts(job.tokens \o rows, Tokentx) /\ Len(rows) \in 0 .. PageSize
          /\ Len(job.tokens \o rows) = Len(job.tokens) + Len(rows)
          /\ Len(rows) # PageSize => Len(job.tokens \o rows) = Len(Tokentx)
        BY <2>2 DEF Extend
    <2>. HIDE DEF rows
    <2>3. job' = [job EXCEPT
                      !.normal = @, !.tokens = @ \o rows,
                      !.page = IF Len(rows) = PageSize THEN @ + 1 ELSE 1,
                      !.stage = CASE Len(rows) = PageSize -> @
                                  [] ~(Len(rows) = PageSize) /\ FALSE -> "tokentx"
                                  [] OTHER -> "done"]
        BY <1>7, <2>1 DEF HistoryPage
    <2>4. CASE Len(rows) = PageSize
        <3>1. /\ job'.kind = "history" /\ job'.stage = "tokentx" /\ job'.page = job.page + 1
              /\ job'.tokens = job.tokens \o rows /\ job'.normal = job.normal
              /\ job'.began = job.began /\ job' \in HistoryJobs
            BY <1>2, <1>5, <1>7, <2>2, <2>3, <2>4 DEF HistoryJobs
        <3>2. Len(job'.tokens) = (job'.page - 1) * PageSize
            BY <1>2, <1>5, <1>7, <2>6, <2>4, <3>1
        <3>. QED
            BY <1>1, <1>2, <1>7, <2>6, <3>1, <3>2 DEF HistoryInv
    <2>5. CASE Len(rows) # PageSize
        <3>1. /\ job'.kind = "history" /\ job'.stage = "done"
              /\ job'.tokens = job.tokens \o rows /\ job'.normal = job.normal
              /\ job'.began = job.began /\ job' \in HistoryJobs
            <4>0. PICK one \in Nat \ {0} : one = 1
                OBVIOUS
            <4>1. job' = [job EXCEPT !.normal = job.normal, !.tokens = job.tokens \o rows,
                                     !.page = one, !.stage = "done"]
                BY <4>0, <2>3, <2>5
            <4>. QED
                BY <1>2, <2>2, <4>0, <4>1 DEF HistoryJobs
        <3>2. Covers(Len(job'.tokens), Tokentx, job.began)
            BY <1>4, <2>6, <2>5, <3>1 DEF Covers
        <3>. QED
            BY <1>1, <1>2, <1>7, <2>6, <3>1, <3>2 DEF HistoryInv
    <2>. QED
        BY <2>4, <2>5
<1>. QED
    BY <1>2, <1>6, <1>7

LEMMA HistoryWholeHolds ==
    ASSUME ChainInv, HistoryInv
    PROVE  HistoryWhole
<1> SUFFICES ASSUME Done("history")
             PROVE  Whole(job.normal, Txlist) /\ Whole(job.tokens, Tokentx)
    BY DEF HistoryWhole
<1>1. /\ job \in HistoryJobs
      /\ Starts(job.normal, Txlist) /\ Starts(job.tokens, Tokentx)
      /\ Covers(Len(job.normal), Txlist, job.began)
      /\ Covers(Len(job.tokens), Tokentx, job.began)
    BY DEF Done, HistoryInv
<1>2. /\ job.normal \in Seq(Row) /\ job.tokens \in Seq(Row)
      /\ Txlist \in Seq(Row) /\ Tokentx \in Seq(Row)
    BY <1>1, RowsTyped DEF HistoryJobs
<1>3. IsPrefix(job.normal, Txlist) /\ IsPrefix(job.tokens, Tokentx)
    BY <1>1, <1>2, PrefixStarts
<1>4. /\ DOMAIN Txlist = 1 .. Len(Txlist) /\ DOMAIN Tokentx = 1 .. Len(Tokentx)
      /\ DOMAIN job.normal = 1 .. Len(job.normal) /\ DOMAIN job.tokens = 1 .. Len(job.tokens)
      /\ Len(Txlist) \in Nat /\ Len(Tokentx) \in Nat
      /\ Len(job.normal) \in Nat /\ Len(job.tokens) \in Nat
    BY <1>2
<1>5. /\ \A k \in DOMAIN Txlist : Txlist[k].hash <= job.began => k \in DOMAIN job.normal
      /\ \A k \in DOMAIN Tokentx : Tokentx[k].hash <= job.began => k \in DOMAIN job.tokens
    BY <1>1, <1>4 DEF Covers
<1>. QED
    BY <1>3, <1>5 DEF Whole

-----------------------------------------------------------------------------
(* Pages of signatures, newest first.                                      *)

SignatureJobs ==
    [kind : {"signatures"}, stage : {"page", "done", "raised"}, found : Seq(Nat), began : Nat]

CountsDown(list, top) == \A k \in 1 .. Len(list) : list[k] = top - k + 1

(* From the newest of when the first page came, one after the other.       *)
SignaturesInv ==
    job.kind = "signatures" =>
        /\ job \in SignatureJobs
        /\ \E top \in job.began .. Len(chain) :
               /\ Len(job.found) <= top /\ CountsDown(job.found, top)
               /\ job.stage = "done" => Len(job.found) = top

LEMMA IndicesCount ==
    ASSUME ChainInv
    PROVE  /\ Indices \in Seq(Nat) /\ Len(Indices) = Len(chain) /\ Len(chain) \in Nat
           /\ \A i \in 1 .. Len(chain) : Indices[i] = i
BY DEF ChainInv, Indices

LEMMA ReversedCount ==
    ASSUME ChainInv, NEW m \in 0 .. Len(chain)
    PROVE  /\ Reverse(SubSeq(Indices, 1, m)) \in Seq(Nat)
           /\ Len(Reverse(SubSeq(Indices, 1, m))) = m
           /\ CountsDown(Reverse(SubSeq(Indices, 1, m)), m)
<1> DEFINE first == SubSeq(Indices, 1, m)
<1>1. m \in Nat /\ m <= Len(Indices) /\ Indices \in Seq(Nat)
    BY IndicesCount
<1>2. first \in Seq(Nat) /\ Len(first) = m /\ \A i \in 1 .. m : first[i] = i
    BY <1>1, IndicesCount
<1>. HIDE DEF first
<1>3. \A i \in 1 .. m : m - i + 1 \in 1 .. m
    BY <1>1
<1>4. Reverse(first) = [i \in 1 .. m |-> m - i + 1]
    BY <1>2, <1>3 DEF Reverse
<1>5. [i \in 1 .. m |-> m - i + 1] \in Seq(Nat)
    BY <1>1, <1>3
<1>. QED
    BY <1>1, <1>4, <1>5 DEF CountsDown, first

(* m signatures are older than the last one found. *)
LEMMA BeforeCounts ==
    ASSUME ChainInv, NEW found, NEW m \in 0 .. Len(chain),
           IF found = <<>> THEN m = Len(chain) ELSE Last(found) = m + 1
    PROVE  Before(found) \in Seq(Nat) /\ Len(Before(found)) = m /\ CountsDown(Before(found), m)
<1>1. Before(found) = Reverse(SubSeq(Indices, 1, m))
    <2>1. CASE found = <<>>
        BY <2>1, IndicesCount, SubSeqFull DEF Before
    <2>2. CASE found # <<>>
        <3>1. Last(found) - 1 = m
            BY <2>2
        <3>. QED
            BY <2>2, <3>1 DEF Before
    <2>. QED
        BY <2>1, <2>2
<1>. QED
    BY <1>1, ReversedCount

LEMMA SignaturesStart ==
    ASSUME ChainInv, BeginSignatures, UNCHANGED chain
    PROVE  SignaturesInv'
<1>1. Len(chain) \in Nat
    BY IndicesCount
<1>2. /\ job' \in SignatureJobs /\ job'.found = <<>> /\ job'.began = Len(chain)
      /\ job'.stage = "page"
    BY <1>1 DEF BeginSignatures, SignatureJobs
<1>3. Len(chain) \in job'.began .. Len(chain') /\ Len(<<>>) <= Len(chain)
    BY <1>1, <1>2
<1>4. CountsDown(<<>>, Len(chain))
    BY DEF CountsDown
<1>. QED
    BY <1>2, <1>3, <1>4 DEF SignaturesInv

LEMMA SignaturesWait ==
    ASSUME ChainInv, SignaturesInv, NEW more, Grew(more), UNCHANGED job
    PROVE  SignaturesInv'
<1>1. Len(chain) \in Nat /\ Len(more) \in Nat /\ Len(chain') = Len(chain) + Len(more)
    BY GrownChain
<1>2. \A began \in Nat : began .. Len(chain) \subseteq began .. Len(chain')
    BY <1>1
<1>3. job.kind = "signatures" => job.began \in Nat
    BY DEF SignaturesInv, SignatureJobs
<1>. QED
    BY <1>2, <1>3 DEF SignaturesInv

LEMMA SignaturesFail ==
    ASSUME SignaturesInv, RequestFails, UNCHANGED chain
    PROVE  job.kind = "signatures" => SignaturesInv'
<1> SUFFICES ASSUME job.kind = "signatures" PROVE SignaturesInv'
    OBVIOUS
<1>1. job \in SignatureJobs
    BY DEF SignaturesInv
<1>2. /\ job' \in SignatureJobs /\ job'.stage = "raised"
      /\ job'.found = job.found /\ job'.began = job.began
    BY <1>1 DEF RequestFails, SignatureJobs
<1>. QED
    BY <1>2 DEF SignaturesInv

LEMMA SignaturesGoOn ==
    ASSUME ChainInv, SignaturesInv, SignaturePage, UNCHANGED chain
    PROVE  SignaturesInv'
<1>1. job.kind = "signatures" /\ job.stage = "page" /\ job \in SignatureJobs
    BY DEF SignaturePage, SignaturesInv
<1>2. /\ job.found \in Seq(Nat) /\ job.began \in Nat /\ Len(chain) \in Nat
      /\ PageSize \in Nat \ {0} /\ Len(job.found) \in Nat
    BY <1>1, IndicesCount, PagesNotEmpty DEF SignatureJobs
<1>3. PICK old \in job.began .. Len(chain) : Len(job.found) <= old /\ CountsDown(job.found, old)
    BY <1>1 DEF SignaturesInv
<1> DEFINE top == IF job.found = <<>> THEN Len(chain) ELSE old
           m == top - Len(job.found)
           list == Before(job.found)
           rows == Window(list, 1, PageSize)
<1>4. /\ top \in job.began .. Len(chain) /\ Len(job.found) <= top /\ CountsDown(job.found, top)
      /\ top \in Nat /\ m \in 0 .. Len(chain)
    <2>1. job.found = <<>> => Len(job.found) = 0 /\ CountsDown(job.found, Len(chain))
        BY DEF CountsDown
    <2>. QED
        BY <1>2, <1>3, <2>1
<1>5. IF job.found = <<>> THEN m = Len(chain) ELSE Last(job.found) = m + 1
    <2>1. CASE job.found = <<>>
        BY <1>2, <2>1
    <2>2. CASE job.found # <<>>
        <3>1. Len(job.found) \in 1 .. Len(job.found)
            BY <1>2, <2>2
        <3>2. Last(job.found) = top - Len(job.found) + 1
            BY <1>4, <3>1 DEF CountsDown, Last
        <3>. QED
            BY <1>2, <1>4, <2>2, <3>2
    <2>. QED
        BY <2>1, <2>2
<1>13. m = top - Len(job.found) /\ m \in Nat
    BY <1>4
<1>. HIDE DEF top, m
<1>6. list \in Seq(Nat) /\ Len(list) = m /\ CountsDown(list, m)
    BY <1>4, <1>5, BeforeCounts
<1>7. /\ rows \in Seq(Nat) /\ Len(rows) = Taken(list, 0, PageSize)
      /\ \A i \in 1 .. Taken(list, 0, PageSize) : rows[i] = list[i]
    <2>. HIDE DEF list
    <2>1. 0 \in Nat /\ 0 <= Len(list) /\ 0 + 1 = 1 /\ list \in Seq(Nat)
        BY <1>6
    <2>2. /\ Window(list, 0 + 1, PageSize) \in Seq(Nat)
          /\ Len(Window(list, 0 + 1, PageSize)) = Taken(list, 0, PageSize)
          /\ \A i \in 1 .. Taken(list, 0, PageSize) :
                 Window(list, 0 + 1, PageSize)[i] = list[0 + i]
        BY <1>2, <2>1, WindowRows
    <2>3. \A i \in 1 .. Taken(list, 0, PageSize) : 0 + i = i
        OBVIOUS
    <2>. QED
        BY <2>1, <2>2, <2>3
<1>8. /\ Taken(list, 0, PageSize) \in 0 .. m
      /\ Taken(list, 0, PageSize) < PageSize => Taken(list, 0, PageSize) = m
    <2>1. Len(list) = m
        BY <1>6
    <2>. HIDE DEF list
    <2>. QED
        BY <1>2, <1>13, <2>1 DEF Taken
<1>. HIDE DEF list, rows
<1>9. /\ job' \in SignatureJobs /\ job'.found = job.found \o rows /\ job'.began = job.began
      /\ job'.stage = IF Len(rows) < PageSize THEN "done" ELSE "page"
    <2> DEFINE stage == IF Len(rows) < PageSize THEN "done" ELSE "page"
    <2>1. job' = [job EXCEPT !.found = job.found \o rows, !.stage = stage]
        BY <1>1 DEF SignaturePage, list, rows
    <2>2. stage \in {"page", "done", "raised"} /\ job.found \o rows \in Seq(Nat)
        BY <1>2, <1>7, ConcatProperties
    <2>. HIDE DEF stage
    <2>3. /\ job' \in SignatureJobs /\ job'.found = job.found \o rows
          /\ job'.began = job.began /\ job'.stage = stage
        BY <1>1, <2>1, <2>2 DEF SignatureJobs
    <2>. QED
        BY <2>3 DEF stage
<1>10. /\ Len(job'.found) = Len(job.found) + Len(rows) /\ Len(rows) \in Nat
       /\ \A k \in 1 .. Len(job.found) : job'.found[k] = job.found[k]
       /\ \A k \in Len(job.found) + 1 .. Len(job.found) + Len(rows) :
              job'.found[k] = rows[k - Len(job.found)]
    <2> DEFINE s == job.found
               u == job'.found
    <2>1. s \in Seq(Nat) /\ rows \in Seq(Nat) /\ u = s \o rows
        BY <1>2, <1>7, <1>9
    <2>. HIDE DEF s, u
    <2>2. /\ Len(u) = Len(s) + Len(rows) /\ Len(rows) \in Nat
          /\ \A k \in 1 .. Len(s) : u[k] = s[k]
          /\ \A k \in Len(s) + 1 .. Len(s) + Len(rows) : u[k] = rows[k - Len(s)]
        BY <2>1, Joined
    <2>. QED
        BY <2>2 DEF s, u
<1>11. CountsDown(job'.found, top)
    <2> SUFFICES ASSUME NEW k \in 1 .. Len(job'.found) PROVE job'.found[k] = top - k + 1
        BY DEF CountsDown
    <2>1. CASE k <= Len(job.found)
        <3>1. k \in 1 .. Len(job.found)
            BY <1>2, <2>1
        <3>. QED
            BY <1>4, <1>10, <3>1 DEF CountsDown
    <2>2. CASE k > Len(job.found)
        <3> DEFINE l == k - Len(job.found)
        <3>1. /\ k \in Len(job.found) + 1 .. Len(job.found) + Len(rows)
              /\ l \in 1 .. Len(rows) /\ l \in 1 .. Len(list)
            <4>1. Len(rows) <= Len(list) /\ Len(list) \in Nat
                BY <1>6, <1>7, <1>8, <1>13
            <4>. QED
                BY <1>2, <1>10, <2>2, <4>1
        <3>2. job'.found[k] = m - l + 1
            BY <1>6, <1>7, <1>10, <3>1 DEF CountsDown
        <3>. QED
            BY <1>2, <1>4, <1>13, <3>1, <3>2
    <2>. QED
        BY <1>2, <1>10, <2>1, <2>2
<1>12. Len(job'.found) <= top /\ (job'.stage = "done" => Len(job'.found) = top)
    BY <1>2, <1>4, <1>7, <1>8, <1>9, <1>10, <1>13
<1>. QED
    BY <1>4, <1>9, <1>11, <1>12 DEF SignaturesInv

LEMMA SignaturesWholeHolds ==
    ASSUME ChainInv, SignaturesInv
    PROVE  SignaturesWhole
<1> SUFFICES ASSUME Done("signatures")
             PROVE  /\ Len(job.found) >= job.began
                    /\ job.found = Reverse(SubSeq(Indices, 1, Len(job.found)))
    BY DEF SignaturesWhole
<1>1. /\ job \in SignatureJobs
      /\ \E top \in job.began .. Len(chain) :
             CountsDown(job.found, top) /\ Len(job.found) = top
    BY DEF Done, SignaturesInv
<1>2. /\ job.found \in Seq(Nat) /\ job.began \in Nat /\ Len(chain) \in Nat
    BY <1>1, IndicesCount DEF SignatureJobs
<1>3. /\ Len(job.found) >= job.began /\ Len(job.found) \in 0 .. Len(chain)
      /\ CountsDown(job.found, Len(job.found))
    BY <1>1, <1>2
<1> DEFINE m == Len(job.found)
           rev == Reverse(SubSeq(Indices, 1, m))
<1>4. rev \in Seq(Nat) /\ Len(rev) = m /\ CountsDown(rev, m)
    BY <1>3, ReversedCount
<1>. HIDE DEF rev
<1>5. \A k \in 1 .. m : job.found[k] = rev[k]
    BY <1>3, <1>4 DEF CountsDown
<1>6. job.found = rev
    BY <1>2, <1>4, <1>5, SeqEqual
<1>. QED
    BY <1>3, <1>6 DEF rev

-----------------------------------------------------------------------------
(* Chunks of logs.                                                         *)

Increasing(list) == \A j, k \in 1 .. Len(list) : j < k => list[j] < list[k]

(* The members of `set` up to n, in their order.                           *)
Enumerates(list, set, n) ==
    /\ list \in Seq(Nat) /\ Increasing(list)
    /\ \A k \in 1 .. Len(list) : list[k] \in 1 .. n /\ list[k] \in set
    /\ \A i \in 1 .. n : i \in set => \E k \in 1 .. Len(list) : list[k] = i

LEMMA EnumeratesNext ==
    ASSUME NEW n \in Nat, NEW set, NEW list, Enumerates(list, set, n)
    PROVE  Enumerates(IF n + 1 \in set THEN list \o <<n + 1>> ELSE list, set, n + 1)
<1>1. /\ list \in Seq(Nat) /\ Increasing(list)
      /\ \A k \in 1 .. Len(list) : list[k] \in 1 .. n /\ list[k] \in set
      /\ \A i \in 1 .. n : i \in set => \E k \in 1 .. Len(list) : list[k] = i
    BY DEF Enumerates
<1>2. CASE n + 1 \notin set
    <2>1. /\ \A k \in 1 .. Len(list) : list[k] \in 1 .. n + 1
          /\ \A i \in 1 .. n + 1 : i \in set => i \in 1 .. n
        BY <1>1, <1>2
    <2>2. Enumerates(list, set, n + 1)
        BY <1>1, <2>1 DEF Enumerates
    <2>. QED
        BY <1>2, <2>2
<1>3. CASE n + 1 \in set
    <2> DEFINE more == list \o <<n + 1>>
               l == Len(list)
    <2>1. /\ more \in Seq(Nat) /\ Len(more) = l + 1 /\ l \in Nat /\ more[l + 1] = n + 1
          /\ \A k \in 1 .. l : more[k] = list[k]
        BY <1>1
    <2>. HIDE DEF more, l
    <2>2. \A k \in 1 .. l + 1 : k \in 1 .. l \/ k = l + 1
        BY <2>1
    <2>3. \A k \in 1 .. l : list[k] \in Nat /\ list[k] <= n
        BY <1>1 DEF l
    <2>4. Increasing(more)
        <3> SUFFICES ASSUME NEW j \in 1 .. l + 1, NEW k \in 1 .. l + 1, j < k
                     PROVE  more[j] < more[k]
            BY <2>1 DEF Increasing
        <3>1. j \in 1 .. l
            BY <2>1
        <3>2. CASE k \in 1 .. l
            BY <1>1, <2>1, <3>1, <3>2 DEF Increasing, l
        <3>3. CASE k = l + 1
            BY <2>1, <2>3, <3>1, <3>3
        <3>. QED
            BY <2>2, <3>2, <3>3
    <2>5. \A k \in 1 .. l + 1 : more[k] \in 1 .. n + 1 /\ more[k] \in set
        <3> SUFFICES ASSUME NEW k \in 1 .. l + 1
                     PROVE  more[k] \in 1 .. n + 1 /\ more[k] \in set
            OBVIOUS
        <3>1. CASE k \in 1 .. l
            <4>1. more[k] = list[k] /\ list[k] \in 1 .. n /\ list[k] \in set
                BY <1>1, <2>1, <3>1 DEF l
            <4>. QED
                BY <4>1
        <3>2. CASE k = l + 1
            BY <1>3, <2>1, <3>2
        <3>. QED
            BY <2>2, <3>1, <3>2
    <2>6. \A i \in 1 .. n + 1 : i \in set => \E k \in 1 .. l + 1 : more[k] = i
        <3> SUFFICES ASSUME NEW i \in 1 .. n + 1, i \in set
                     PROVE  \E k \in 1 .. l + 1 : more[k] = i
            OBVIOUS
        <3>1. CASE i \in 1 .. n
            <4>1. PICK k \in 1 .. l : list[k] = i
                BY <1>1, <3>1 DEF l
            <4>2. k \in 1 .. l + 1 /\ more[k] = i
                BY <2>1, <4>1
            <4>. QED
                BY <4>2
        <3>2. CASE i = n + 1
            <4>1. l + 1 \in 1 .. l + 1 /\ more[l + 1] = i
                BY <2>1, <3>2
            <4>. QED
                BY <4>1
        <3>3. i \in 1 .. n \/ i = n + 1
            OBVIOUS
        <3>. QED
            BY <3>1, <3>2, <3>3
    <2>7. Enumerates(more, set, n + 1)
        BY <2>1, <2>4, <2>5, <2>6 DEF Enumerates
    <2>. QED
        BY <1>3, <2>7 DEF more
<1>. QED
    BY <1>2, <1>3

LEMMA FlattenEnumerates ==
    ASSUME NEW lists \in Seq(Seq(Nat)), NEW set,
           \A i \in 1 .. Len(lists) : lists[i] = IF i \in set THEN <<i>> ELSE <<>>
    PROVE  Enumerates(FlattenSeq(lists), set, Len(lists))
<1> DEFINE n == Len(lists)
           first(m) == SubSeq(lists, 1, m)
           T == {m \in 0 .. n : Enumerates(FlattenSeq(first(m)), set, m)}
<1>1. n \in Nat /\ first(0) = <<>> /\ first(n) = lists
    BY SubSeqFull
<1>2. \A m \in 0 .. n - 1 : /\ lists[m + 1] \in Seq(Nat) /\ first(m) \in Seq(Seq(Nat))
                           /\ first(m + 1) = Append(first(m), lists[m + 1])
    <2> SUFFICES ASSUME NEW m \in 0 .. n - 1
                 PROVE  /\ lists[m + 1] \in Seq(Nat) /\ first(m) \in Seq(Seq(Nat))
                        /\ first(m + 1) = Append(first(m), lists[m + 1])
        OBVIOUS
    <2>. QED
        BY OneMoreOf
<1>. HIDE DEF first
<1>3. 0 \in T
    <2>1. Enumerates(<<>>, set, 0)
        BY DEF Enumerates, Increasing
    <2>2. Enumerates(FlattenSeq(first(0)), set, 0)
        BY <1>1, <2>1, FlattenNone
    <2>3. 0 \in 0 .. n
        BY <1>1
    <2>. QED
        BY <2>2, <2>3
<1>4. ASSUME NEW m \in 0 .. n - 1, m \in T PROVE m + 1 \in T
    <2>1. m + 1 \in 1 .. n /\ m + 1 \in 0 .. n /\ m \in Nat
        BY <1>1
    <2> DEFINE list == FlattenSeq(first(m))
    <2>2. Enumerates(list, set, m)
        BY <1>4
    <2>3. FlattenSeq(first(m + 1)) = list \o lists[m + 1]
        BY <1>2, FlattenAppend
    <2>4. lists[m + 1] = IF m + 1 \in set THEN <<m + 1>> ELSE <<>>
        BY <2>1
    <2>. HIDE DEF list
    <2>5. list \o <<>> = list
        BY <2>2, ConcatEmptySeq DEF Enumerates
    <2>6. FlattenSeq(first(m + 1)) = IF m + 1 \in set THEN list \o <<m + 1>> ELSE list
        BY <2>3, <2>4, <2>5
    <2>7. Enumerates(FlattenSeq(first(m + 1)), set, m + 1)
        BY <2>1, <2>2, <2>6, EnumeratesNext
    <2>. QED
        BY <2>1, <2>7
<1>. HIDE DEF T
<1>5. n \in T
    <2>. HIDE DEF n
    <2>1. \A i \in 0 .. n : i \in T
        BY <1>1, <1>3, <1>4, CountingUp
    <2>. QED
        BY <1>1, <2>1
<1>. QED
    BY <1>1, <1>5 DEF T

LEMMA LogsListed ==
    ASSUME ChainInv, NEW low \in Int, NEW high \in Int
    PROVE  Enumerates(LogsIn(low, high),
                      {i \in 1 .. Len(chain) : chain[i].block \in low .. high}, Len(chain))
<1> DEFINE n == Len(chain)
           set == {i \in 1 .. n : chain[i].block \in low .. high}
           lists == [i \in 1 .. n |-> LogsOf(i, low, high)]
<1>1. n \in Nat
    BY IndicesCount
<1>2. \A i \in 1 .. n : LogsOf(i, low, high) = IF i \in set THEN <<i>> ELSE <<>>
    BY DEF LogsOf
<1>. HIDE DEF set
<1>3. \A i \in 1 .. n : (IF i \in set THEN <<i>> ELSE <<>>) \in Seq(Nat)
    BY <1>1
<1>4. \A i \in 1 .. n : LogsOf(i, low, high) \in Seq(Nat)
    BY <1>2, <1>3
<1>5. /\ lists \in Seq(Seq(Nat)) /\ Len(lists) = n
      /\ \A i \in 1 .. n : lists[i] = IF i \in set THEN <<i>> ELSE <<>>
    BY <1>1, <1>2, <1>4
<1>6. LogsIn(low, high) = FlattenSeq(lists)
    BY DEF LogsIn
<1>. HIDE DEF lists
<1>. QED
    BY <1>5, <1>6, FlattenEnumerates DEF set

LogJobs ==
    [kind : {"logs"}, stage : {"chunk", "done", "raised"}, from : Nat, to : Nat,
     chunk : Nat, found : Seq(Nat), began : Nat]

(* The blocks of the chunks scanned so far.                                *)
Scanned(j, block) ==
    j.from <= block /\ block <= j.to /\ block < j.from + j.chunk * Chunk

(* Of those, everything there was at the beginning, and nothing else.      *)
LogsInv ==
    job.kind = "logs" =>
        /\ job \in LogJobs /\ job.from <= job.to /\ job.began <= Len(chain)
        /\ Increasing(job.found)
        /\ \A k \in 1 .. Len(job.found) :
               /\ job.found[k] \in 1 .. Len(chain)
               /\ Scanned(job, chain[job.found[k]].block)
        /\ \A i \in 1 .. job.began :
               Scanned(job, chain[i].block) => \E k \in 1 .. Len(job.found) : job.found[k] = i
        /\ job.stage = "done" => job.from + job.chunk * Chunk > job.to

LEMMA BlocksTyped ==
    ASSUME ChainInv
    PROVE  Len(chain) \in Nat /\ \A i \in 1 .. Len(chain) : chain[i].block \in Nat
<1>1. chain \in Seq(Transactions)
    BY DEF ChainInv
<1>2. \A i \in 1 .. Len(chain) : chain[i] \in Transactions
    BY <1>1
<1>. QED
    BY <1>1, <1>2 DEF Transactions

LEMMA LogsStart ==
    ASSUME ChainInv, BeginLogs, UNCHANGED chain
    PROVE  LogsInv'
<1>1. PICK from \in Blocks, to \in Blocks :
          /\ from <= to
          /\ job' = [kind |-> "logs", stage |-> "chunk", from |-> from, to |-> to,
                     chunk |-> 0, found |-> <<>>, began |-> Len(chain)]
    BY DEF BeginLogs
<1>2. from \in Nat /\ to \in Nat /\ Len(chain) \in Nat /\ Chunk \in Nat
    BY WalkBounds, PagesNotEmpty, BlocksTyped DEF Blocks
<1>3. /\ job' \in LogJobs /\ job'.from = from /\ job'.to = to /\ job'.chunk = 0
      /\ job'.found = <<>> /\ job'.began = Len(chain) /\ job'.stage = "chunk"
    BY <1>1, <1>2 DEF LogJobs
<1>4. Increasing(<<>>) /\ Len(<<>>) = 0
    BY DEF Increasing
<1>5. \A i \in 1 .. Len(chain) : ~Scanned(job', chain[i].block)
    <2>1. from + 0 * Chunk = from
        BY <1>2
    <2>. QED
        BY <1>2, <1>3, <2>1, BlocksTyped DEF Scanned
<1>6. /\ Increasing(job'.found) /\ job'.began <= Len(chain') /\ job'.from <= job'.to
      /\ \A k \in 1 .. Len(job'.found) : /\ job'.found[k] \in 1 .. Len(chain')
                                        /\ Scanned(job', chain'[job'.found[k]].block)
      /\ \A i \in 1 .. job'.began :
             Scanned(job', chain'[i].block) => \E k \in 1 .. Len(job'.found) : job'.found[k] = i
      /\ job'.stage = "done" => job'.from + job'.chunk * Chunk > job'.to
    BY <1>1, <1>2, <1>3, <1>4, <1>5
<1>. QED
    BY <1>3, <1>6 DEF LogsInv, Scanned

LEMMA LogsWait ==
    ASSUME ChainInv, LogsInv, NEW more, Grew(more), UNCHANGED job
    PROVE  LogsInv'
<1> SUFFICES ASSUME job.kind = "logs" PROVE LogsInv'
    BY DEF LogsInv
<1>1. /\ job \in LogJobs /\ job.from <= job.to /\ job.began <= Len(chain)
      /\ Increasing(job.found)
      /\ \A k \in 1 .. Len(job.found) : /\ job.found[k] \in 1 .. Len(chain)
                                       /\ Scanned(job, chain[job.found[k]].block)
      /\ \A i \in 1 .. job.began :
             Scanned(job, chain[i].block) => \E k \in 1 .. Len(job.found) : job.found[k] = i
      /\ job.stage = "done" => job.from + job.chunk * Chunk > job.to
    BY DEF LogsInv
<1>2. /\ Len(chain) \in Nat /\ Len(more) \in Nat /\ Len(chain') = Len(chain) + Len(more)
      /\ \A i \in 1 .. Len(chain) : chain'[i] = chain[i]
    BY GrownChain
<1>3. job.began \in Nat
    BY <1>1 DEF LogJobs
<1>4. /\ job.began <= Len(chain')
      /\ \A i \in 1 .. Len(chain) : i \in 1 .. Len(chain') /\ chain'[i].block = chain[i].block
      /\ \A i \in 1 .. job.began : i \in 1 .. Len(chain)
    BY <1>1, <1>2, <1>3
<1>5. /\ \A k \in 1 .. Len(job.found) : /\ job.found[k] \in 1 .. Len(chain')
                                       /\ Scanned(job, chain'[job.found[k]].block)
      /\ \A i \in 1 .. job.began :
             Scanned(job, chain'[i].block) => \E k \in 1 .. Len(job.found) : job.found[k] = i
    BY <1>1, <1>4
<1>. QED
    BY <1>1, <1>4, <1>5 DEF LogsInv, Scanned

LEMMA LogsFail ==
    ASSUME LogsInv, RequestFails, UNCHANGED chain
    PROVE  job.kind = "logs" => LogsInv'
<1> SUFFICES ASSUME job.kind = "logs" PROVE LogsInv'
    OBVIOUS
<1>1. job \in LogJobs
    BY DEF LogsInv
<1>2. /\ job' \in LogJobs /\ job'.stage = "raised" /\ job'.from = job.from /\ job'.to = job.to
      /\ job'.chunk = job.chunk /\ job'.found = job.found /\ job'.began = job.began
    BY <1>1 DEF RequestFails, LogJobs
<1>. QED
    BY <1>2 DEF LogsInv, Scanned

(* The last chunk reaches the end of the range.                            *)
LEMMA LastChunk ==
    ASSUME NEW from \in Nat, NEW to \in Nat, from <= to,
           NEW count, count = (to - from + 1 + Chunk - 1) \div Chunk
    PROVE  from + count * Chunk > to
<1> DEFINE at == to - from + 1 + Chunk - 1
<1>1. Chunk \in Nat \ {0} /\ at \in Nat
    BY PagesNotEmpty
<1>. HIDE DEF at
<1>2. /\ at \div Chunk \in Nat /\ at % Chunk \in 0 .. Chunk - 1
      /\ at = (at \div Chunk) * Chunk + (at % Chunk)
    BY <1>1, Divides
<1>3. count = at \div Chunk
    BY DEF at
<1>4. count * Chunk \in Nat
    BY <1>1, <1>2, <1>3
<1>. QED
    BY <1>1, <1>2, <1>3, <1>4 DEF at

LEMMA LogsGoOn ==
    ASSUME ChainInv, LogsInv, LogChunk, UNCHANGED chain
    PROVE  LogsInv'
<1>1. /\ job.kind = "logs" /\ job.stage = "chunk"
      /\ job \in LogJobs /\ job.from <= job.to /\ job.began <= Len(chain)
      /\ Increasing(job.found)
      /\ \A k \in 1 .. Len(job.found) : /\ job.found[k] \in 1 .. Len(chain)
                                       /\ Scanned(job, chain[job.found[k]].block)
      /\ \A i \in 1 .. job.began :
             Scanned(job, chain[i].block) => \E k \in 1 .. Len(job.found) : job.found[k] = i
    BY DEF LogsInv, LogChunk
<1>2. /\ job.from \in Nat /\ job.to \in Nat /\ job.chunk \in Nat /\ job.found \in Seq(Nat)
      /\ job.began \in Nat /\ Chunk \in Nat \ {0}
    BY <1>1, PagesNotEmpty DEF LogJobs
<1>3. Len(chain) \in Nat /\ \A i \in 1 .. Len(chain) : chain[i].block \in Nat
    BY BlocksTyped
<1> DEFINE low == ChunkLow
           high == ChunkHigh
           rows == LogsIn(low, high)
           set == {i \in 1 .. Len(chain) : chain[i].block \in low .. high}
<1>4. /\ low \in Nat /\ high \in Int /\ low = job.from + job.chunk * Chunk
      /\ high = IF low + Chunk - 1 <= job.to THEN low + Chunk - 1 ELSE job.to
    <2>1. low \in Nat /\ low = job.from + job.chunk * Chunk
        <3> DEFINE c == job.chunk * Chunk
        <3>1. low = job.from + c
            BY DEF ChunkLow
        <3>2. c \in Nat
            BY <1>2
        <3>. HIDE DEF c
        <3>3. low \in Nat
            BY <1>2, <3>1, <3>2
        <3>. QED
            BY <3>1, <3>3 DEF c
    <2>2. low + Chunk - 1 \in Int /\ job.to \in Int
        BY <1>2, <2>1
    <2>3. high = Min({low + Chunk - 1, job.to})
        BY DEF ChunkHigh
    <2>. HIDE DEF low, high
    <2>4. high = IF low + Chunk - 1 <= job.to THEN low + Chunk - 1 ELSE job.to
        BY <2>2, <2>3, MinOfTwo
    <2>. QED
        BY <2>1, <2>2, <2>4
<1>. HIDE DEF low, high
<1>5. Enumerates(rows, set, Len(chain))
    BY <1>4, LogsListed
<1>. HIDE DEF rows
<1>6. /\ rows \in Seq(Nat) /\ Increasing(rows)
      /\ \A k \in 1 .. Len(rows) : rows[k] \in 1 .. Len(chain) /\ chain[rows[k]].block \in low .. high
      /\ \A i \in 1 .. Len(chain) :
             chain[i].block \in low .. high => \E k \in 1 .. Len(rows) : rows[k] = i
    BY <1>5 DEF Enumerates
<1> DEFINE last == job.chunk + 1 = ChunkCount
           stage == IF last THEN "done" ELSE "chunk"
<1>7. /\ job' \in LogJobs /\ job'.from = job.from /\ job'.to = job.to
      /\ job'.chunk = job.chunk + 1 /\ job'.found = job.found \o rows
      /\ job'.began = job.began /\ job'.stage = stage
    <2>1. job' = [job EXCEPT !.found = job.found \o rows, !.chunk = job.chunk + 1,
                             !.stage = stage]
        BY <1>1 DEF LogChunk, rows, low, high
    <2>2. /\ stage \in {"chunk", "done", "raised"} /\ job.found \o rows \in Seq(Nat)
          /\ job.chunk + 1 \in Nat
        BY <1>2, <1>6, ConcatProperties
    <2>. HIDE DEF stage
    <2>. QED
        BY <1>1, <2>1, <2>2 DEF LogJobs
<1>8. stage = "done" => job.from + (job.chunk + 1) * Chunk > job.to
    BY <1>1, <1>2, LastChunk DEF ChunkCount
<1>. HIDE DEF last, stage
<1>9. (job.chunk + 1) * Chunk = job.chunk * Chunk + Chunk /\ job.chunk * Chunk \in Nat
    BY <1>2
<1>10. \A b \in Nat : Scanned(job', b) <=> Scanned(job, b) \/ b \in low .. high
    <2> SUFFICES ASSUME NEW b \in Nat
                 PROVE  Scanned(job', b) <=> Scanned(job, b) \/ b \in low .. high
        OBVIOUS
    <2> DEFINE c == job.chunk * Chunk
    <2>1. Scanned(job', b) <=> job.from <= b /\ b <= job.to /\ b < job.from + (c + Chunk)
        BY <1>7, <1>9 DEF Scanned
    <2>2. Scanned(job, b) <=> job.from <= b /\ b <= job.to /\ b < job.from + c
        BY DEF Scanned
    <2>3. low = job.from + c /\ c \in Nat
        BY <1>4, <1>9
    <2>4. b \in low .. high <=> low <= b /\ b < low + Chunk /\ b <= job.to
        BY <1>2, <1>4
    <2>. HIDE DEF c
    <2>5. (job.from <= b /\ b <= job.to /\ b < job.from + (c + Chunk))
              <=> (job.from <= b /\ b <= job.to /\ b < job.from + c)
                  \/ (low <= b /\ b < low + Chunk /\ b <= job.to)
        BY <1>2, <2>3
    <2>. QED
        BY <2>1, <2>2, <2>4, <2>5
<1> DEFINE s == job.found
           u == job'.found
<1>11. /\ u \in Seq(Nat) /\ Len(u) = Len(s) + Len(rows) /\ Len(s) \in Nat /\ Len(rows) \in Nat
       /\ \A k \in 1 .. Len(s) : u[k] = s[k]
       /\ \A k \in Len(s) + 1 .. Len(s) + Len(rows) : u[k] = rows[k - Len(s)]
    <2>1. s \in Seq(Nat) /\ rows \in Seq(Nat) /\ u = s \o rows
        BY <1>2, <1>6, <1>7
    <2>. HIDE DEF s, u
    <2>. QED
        BY <2>1, Joined
<1>12. /\ \A k \in 1 .. Len(s) : s[k] \in 1 .. Len(chain) /\ Scanned(job, chain[s[k]].block)
       /\ Increasing(s)
       /\ \A i \in 1 .. job.began :
              Scanned(job, chain[i].block) => \E k \in 1 .. Len(s) : s[k] = i
    BY <1>1
<1>13. \A k \in 1 .. Len(u) :
           \/ k \in 1 .. Len(s)
           \/ k \in Len(s) + 1 .. Len(s) + Len(rows) /\ k - Len(s) \in 1 .. Len(rows)
    <2>. HIDE DEF s, u
    <2>. QED
        BY <1>11
<1>. HIDE DEF s, u
<1>14. \A k \in 1 .. Len(u) : u[k] \in 1 .. Len(chain) /\ Scanned(job', chain[u[k]].block)
    <2> SUFFICES ASSUME NEW k \in 1 .. Len(u)
                 PROVE  u[k] \in 1 .. Len(chain) /\ Scanned(job', chain[u[k]].block)
        OBVIOUS
    <2>1. CASE k \in 1 .. Len(s)
        <3>1. u[k] = s[k] /\ s[k] \in 1 .. Len(chain) /\ Scanned(job, chain[s[k]].block)
            BY <1>11, <1>12, <2>1
        <3>. QED
            BY <1>3, <1>10, <3>1
    <2>2. CASE k \in Len(s) + 1 .. Len(s) + Len(rows) /\ k - Len(s) \in 1 .. Len(rows)
        <3>1. /\ u[k] = rows[k - Len(s)] /\ rows[k - Len(s)] \in 1 .. Len(chain)
              /\ chain[rows[k - Len(s)]].block \in low .. high
            BY <1>6, <1>11, <2>2
        <3>. QED
            BY <1>3, <1>10, <3>1
    <2>. QED
        BY <1>13, <2>1, <2>2
<1>15. Increasing(u)
    <2> SUFFICES ASSUME NEW j \in 1 .. Len(u), NEW k \in 1 .. Len(u), j < k
                 PROVE  u[j] < u[k]
        BY DEF Increasing
    <2>1. CASE k \in 1 .. Len(s)
        <3>1. j \in 1 .. Len(s)
            BY <1>11, <2>1
        <3>. QED
            BY <1>11, <1>12, <2>1, <3>1 DEF Increasing
    <2>2. CASE k \in Len(s) + 1 .. Len(s) + Len(rows) /\ k - Len(s) \in 1 .. Len(rows)
        <3> DEFINE b == k - Len(s)
        <3>1. /\ u[k] = rows[b] /\ rows[b] \in 1 .. Len(chain) /\ b \in 1 .. Len(rows)
              /\ chain[rows[b]].block \in low .. high
            BY <1>6, <1>11, <2>2
        <3>2. CASE j \in 1 .. Len(s)
            <4>1. u[j] = s[j] /\ s[j] \in 1 .. Len(chain) /\ Scanned(job, chain[s[j]].block)
                BY <1>11, <1>12, <3>2
            <4>2. chain[s[j]].block < low /\ chain[s[j]].block \in Nat /\ chain[rows[b]].block \in Nat
                BY <1>3, <1>4, <3>1, <4>1 DEF Scanned
            <4>3. ~(chain[rows[b]].block <= chain[s[j]].block)
                <5>1. low <= chain[rows[b]].block /\ low \in Nat
                    BY <1>4, <3>1
                <5>. QED
                    BY <4>2, <5>1
            <4>4. ~(rows[b] <= s[j])
                <5>1. ASSUME rows[b] < s[j] PROVE FALSE
                    BY <3>1, <4>1, <4>3, <5>1 DEF ChainInv, Sorted
                <5>2. ASSUME rows[b] = s[j] PROVE FALSE
                    BY <4>2, <4>3, <5>2
                <5>. QED
                    BY <1>3, <3>1, <4>1, <5>1, <5>2
            <4>. QED
                BY <1>3, <3>1, <4>1, <4>4
        <3>3. CASE j \in Len(s) + 1 .. Len(s) + Len(rows) /\ j - Len(s) \in 1 .. Len(rows)
            <4>1. u[j] = rows[j - Len(s)] /\ j - Len(s) < b
                BY <1>11, <3>3
            <4>. QED
                BY <1>6, <3>1, <3>3, <4>1 DEF Increasing
        <3>. QED
            BY <1>13, <3>2, <3>3
    <2>. QED
        BY <1>13, <2>1, <2>2
<1>16. ASSUME NEW i \in 1 .. job.began, Scanned(job', chain[i].block)
       PROVE  \E k \in 1 .. Len(u) : u[k] = i
    <2>1. i \in 1 .. Len(chain)
        BY <1>1, <1>2, <1>3
    <2>2. CASE Scanned(job, chain[i].block)
        <3>1. PICK k \in 1 .. Len(s) : s[k] = i
            BY <1>12, <2>2
        <3>2. k \in 1 .. Len(u) /\ u[k] = i
            BY <1>11, <3>1
        <3>. QED
            BY <3>2
    <2>3. CASE chain[i].block \in low .. high
        <3>1. PICK k \in 1 .. Len(rows) : rows[k] = i
            BY <1>6, <2>1, <2>3
        <3>2. /\ Len(s) + k \in Len(s) + 1 .. Len(s) + Len(rows) /\ (Len(s) + k) - Len(s) = k
              /\ Len(s) + k \in 1 .. Len(u)
            BY <1>11, <3>1
        <3>3. u[Len(s) + k] = i
            BY <1>11, <3>1, <3>2
        <3>. QED
            BY <3>2, <3>3
    <2>. QED
        BY <1>3, <1>10, <1>16, <2>1, <2>2, <2>3
<1>17. /\ job'.from <= job'.to /\ job'.began <= Len(chain') /\ Increasing(job'.found)
       /\ \A k \in 1 .. Len(job'.found) : /\ job'.found[k] \in 1 .. Len(chain')
                                         /\ Scanned(job', chain'[job'.found[k]].block)
       /\ \A i \in 1 .. job'.began :
              Scanned(job', chain'[i].block) => \E k \in 1 .. Len(job'.found) : job'.found[k] = i
       /\ job'.stage = "done" => job'.from + job'.chunk * Chunk > job'.to
    BY <1>1, <1>7, <1>8, <1>14, <1>15, <1>16 DEF u
<1>. QED
    BY <1>7, <1>17 DEF LogsInv, Scanned

LEMMA LogsWholeHolds ==
    ASSUME ChainInv, LogsInv
    PROVE  LogsWhole
<1> DEFINE Seen == ToSet(job.found)
           InRange == {i \in DOMAIN chain : chain[i].block \in job.from .. job.to}
<1> SUFFICES ASSUME Done("logs")
             PROVE  /\ InRange \cap 1 .. job.began \subseteq Seen
                    /\ Seen \subseteq InRange
                    /\ \A j, k \in DOMAIN job.found : j < k => job.found[j] < job.found[k]
    BY DEF LogsWhole
<1>1. /\ job \in LogJobs /\ job.from <= job.to /\ job.began <= Len(chain)
      /\ Increasing(job.found)
      /\ \A k \in 1 .. Len(job.found) : /\ job.found[k] \in 1 .. Len(chain)
                                       /\ Scanned(job, chain[job.found[k]].block)
      /\ \A i \in 1 .. job.began :
             Scanned(job, chain[i].block) => \E k \in 1 .. Len(job.found) : job.found[k] = i
      /\ job.from + job.chunk * Chunk > job.to
    BY DEF LogsInv, Done
<1>2. /\ job.found \in Seq(Nat) /\ job.from \in Nat /\ job.to \in Nat /\ job.chunk \in Nat
      /\ Chunk \in Nat /\ chain \in Seq(Transactions)
    BY <1>1, PagesNotEmpty DEF LogJobs, ChainInv
<1>3. /\ DOMAIN job.found = 1 .. Len(job.found) /\ DOMAIN chain = 1 .. Len(chain)
      /\ Seen = {job.found[k] : k \in 1 .. Len(job.found)}
    <2>1. DOMAIN job.found = 1 .. Len(job.found) /\ DOMAIN chain = 1 .. Len(chain)
        BY <1>2
    <2>2. Seen = {job.found[k] : k \in DOMAIN job.found}
        BY DEF ToSet
    <2>. QED
        BY <2>1, <2>2
<1>4. Len(chain) \in Nat /\ \A i \in 1 .. Len(chain) : chain[i].block \in Nat
    BY BlocksTyped
<1>5. \A b \in Nat : Scanned(job, b) <=> b \in job.from .. job.to
    <2> DEFINE c == job.chunk * Chunk
    <2>1. c \in Nat /\ job.from + c > job.to
        BY <1>1, <1>2
    <2>2. \A b \in Nat : Scanned(job, b) <=> job.from <= b /\ b <= job.to /\ b < job.from + c
        BY DEF Scanned
    <2>. HIDE DEF c
    <2>. QED
        BY <1>2, <2>1, <2>2
<1>6. InRange \cap 1 .. job.began \subseteq Seen
    BY <1>1, <1>3, <1>4, <1>5
<1>7. Seen \subseteq InRange
    BY <1>1, <1>3, <1>4, <1>5
<1>8. \A j, k \in DOMAIN job.found : j < k => job.found[j] < job.found[k]
    BY <1>1, <1>3 DEF Increasing
<1>. QED
    BY <1>6, <1>7, <1>8

-----------------------------------------------------------------------------
(* The gap scan of a wallet.                                               *)

Addresses == Branches \X Nat

Finds == [address : Addresses, balance : Int]

ScanJobs ==
    [kind : {"scan"}, stage : {"address", "done", "raised"}, branch : Branches, index : Nat,
     run : Nat, found : Seq(Finds), began : SUBSET Addresses, gone : SUBSET Addresses]

Precedes(x, y) == x[1] < y[1] \/ (x[1] = y[1] /\ x[2] < y[2])

InPlace(found) ==
    \A j, k \in 1 .. Len(found) : j < k => Precedes(found[j].address, found[k].address)

SeenIn(found) == {found[k].address : k \in 1 .. Len(found)}

(* The branches that were scanned to their end. *)
Over(j, branch) == j.stage = "done" \/ (j.stage = "address" /\ branch < j.branch)

(* Where a scan stands when it asks next about address i of branch b, the  *)
(* last r before it unused: it has seen what was there at the beginning,   *)
(* except in its last run, and that address is reached from the start of   *)
(* the branch.                                                             *)
Standing(b, i, r, seen, began, wallet) ==
    /\ \A a \in seen : Precedes(a, <<b, i>>)
    /\ \A k \in 0 .. i - 1 : <<b, k>> \in began => <<b, k>> \in seen
    /\ r < Gap /\ r <= i
    /\ \A k \in i - r .. i - 1 : <<b, k>> \notin began
    /\ r < i => <<b, i - r - 1>> \in wallet
    /\ Reached(<<b, i>>, wallet)

ScanInv ==
    job.kind = "scan" =>
        /\ job \in ScanJobs /\ job.began \subseteq used /\ InPlace(job.found)
        /\ \A a \in SeenIn(job.found) : a \in used /\ Reached(a, used)
        /\ \A a \in job.began : Over(job, a[1]) /\ Reached(a, job.began) => a \in SeenIn(job.found)
        /\ job.stage = "address" =>
               Standing(job.branch, job.index, job.run, SeenIn(job.found), job.began, used)

LEMMA ReachedGrown ==
    ASSUME NEW wallet, NEW more, wallet \subseteq more, NEW a, Reached(a, wallet)
    PROVE  Reached(a, more)
BY DEF Reached

LEMMA ReachedStart ==
    ASSUME NEW branch, NEW wallet
    PROVE  Reached(<<branch, 0>>, wallet)
<1>1. Gap \in Nat \ {0}
    BY PagesNotEmpty
<1>2. 0 .. 0 - Gap = {}
    BY <1>1
<1>3. <<branch, 0>>[2] = 0
    OBVIOUS
<1>. QED
    BY <1>2, <1>3 DEF Reached

(* The next address is reached when one of the last Gap is in the wallet.  *)
LEMMA ReachedNext ==
    ASSUME NEW b \in Branches, NEW i \in Nat, NEW wallet, Reached(<<b, i>>, wallet),
           NEW last \in Int, i + 1 - Gap <= last, last <= i,
           i + 1 >= Gap => <<b, last>> \in wallet
    PROVE  Reached(<<b, i + 1>>, wallet)
<1>1. Gap \in Nat \ {0}
    BY PagesNotEmpty
<1> SUFFICES ASSUME NEW w \in 0 .. (i + 1) - Gap
             PROVE  \E j \in w .. w + Gap - 1 : <<b, j>> \in wallet
    BY DEF Reached
<1>2. CASE w = i + 1 - Gap
    <2>1. last \in w .. w + Gap - 1 /\ i + 1 >= Gap
        BY <1>1, <1>2
    <2>. QED
        BY <2>1
<1>3. CASE w # i + 1 - Gap
    <2>1. w \in 0 .. i - Gap
        BY <1>1, <1>3
    <2>. QED
        BY <2>1 DEF Reached
<1>. QED
    BY <1>2, <1>3

LEMMA SeenTyped ==
    ASSUME NEW found \in Seq(Finds)
    PROVE  SeenIn(found) \subseteq Addresses
<1>1. ASSUME NEW k \in 1 .. Len(found) PROVE found[k] \in Finds
    BY <1>1
<1>2. ASSUME NEW k \in 1 .. Len(found) PROVE found[k].address \in Addresses
    BY <1>1 DEF Finds
<1>. QED
    BY <1>2 DEF SeenIn

LEMMA PrecedesNext ==
    ASSUME NEW b \in Branches, NEW i \in Nat, NEW a \in Addresses, Precedes(a, <<b, i>>)
    PROVE  Precedes(a, <<b, i + 1>>)
BY DEF Precedes, Addresses, Branches

(* One more address found, further on. *)
LEMMA FoundOneMore ==
    ASSUME NEW found \in Seq(Finds), InPlace(found), NEW entry \in Finds,
           \A a \in SeenIn(found) : Precedes(a, entry.address),
           NEW more, more = Append(found, entry)
    PROVE  /\ more \in Seq(Finds) /\ InPlace(more)
           /\ SeenIn(more) = SeenIn(found) \cup {entry.address}
<1> DEFINE n == Len(found)
<1>1. /\ more \in Seq(Finds) /\ Len(more) = n + 1 /\ n \in Nat
      /\ more[n + 1] = entry /\ \A k \in 1 .. n : more[k] = found[k]
    OBVIOUS
<1>2. \A k \in 1 .. n + 1 : k \in 1 .. n \/ k = n + 1
    BY <1>1
<1>3. \A k \in 1 .. n : k \in 1 .. n + 1 /\ found[k].address \in SeenIn(found)
    BY <1>1 DEF SeenIn
<1>. HIDE DEF n
<1>4. InPlace(more)
    <2> SUFFICES ASSUME NEW j \in 1 .. n + 1, NEW k \in 1 .. n + 1, j < k
                 PROVE  Precedes(more[j].address, more[k].address)
        BY <1>1 DEF InPlace
    <2>1. j \in 1 .. n
        BY <1>1
    <2>2. CASE k \in 1 .. n
        BY <1>1, <2>1, <2>2 DEF InPlace, n
    <2>3. CASE k = n + 1
        BY <1>1, <1>3, <2>1, <2>3
    <2>. QED
        BY <1>2, <2>2, <2>3
<1>5. SeenIn(more) = SeenIn(found) \cup {entry.address}
    <2>1. SeenIn(more) = {more[k].address : k \in 1 .. n + 1}
        BY <1>1 DEF SeenIn
    <2>2. SeenIn(found) = {found[k].address : k \in 1 .. n}
        BY DEF SeenIn, n
    <2>3. n + 1 \in 1 .. n + 1
        BY <1>1
    <2>. QED
        BY <1>1, <1>2, <1>3, <2>1, <2>2, <2>3
<1>. QED
    BY <1>1, <1>4, <1>5

(* At the start of a branch nothing is known of it.                        *)
LEMMA StandingStart ==
    ASSUME NEW b \in Branches, NEW seen, NEW began, NEW wallet,
           \A a \in seen : Precedes(a, <<b, 0>>)
    PROVE  Standing(b, 0, 0, seen, began, wallet)
<1>1. 0 < Gap /\ 0 .. 0 - 1 = {} /\ 0 - 0 .. 0 - 1 = {}
    BY PagesNotEmpty
<1>2. Reached(<<b, 0>>, wallet)
    BY ReachedStart
<1>. QED
    BY <1>1, <1>2 DEF Standing

(* An address in use: the run starts again.                                *)
LEMMA StandingHit ==
    ASSUME NEW b \in Branches, NEW i \in Nat, NEW r \in Nat, NEW seen \in SUBSET Addresses,
           NEW began, NEW wallet, Standing(b, i, r, seen, began, wallet), <<b, i>> \in wallet,
           NEW more, more = seen \cup {<<b, i>>}
    PROVE  Standing(b, i + 1, 0, more, began, wallet)
<1>1. Gap \in Nat \ {0}
    BY PagesNotEmpty
<1>2. ASSUME NEW a \in more PROVE Precedes(a, <<b, i + 1>>)
    <2>1. CASE a \in seen
        BY <2>1, PrecedesNext DEF Standing
    <2>2. CASE a = <<b, i>>
        BY <2>2 DEF Precedes, Branches
    <2>. QED
        BY <2>1, <2>2
<1>3. ASSUME NEW k \in 0 .. (i + 1) - 1, <<b, k>> \in began
      PROVE  <<b, k>> \in more
    <2>1. k = i \/ k \in 0 .. i - 1
        OBVIOUS
    <2>. QED
        BY <1>3, <2>1 DEF Standing
<1>4. Reached(<<b, i + 1>>, wallet)
    <2>1. Reached(<<b, i>>, wallet) /\ i + 1 - Gap <= i
        BY <1>1 DEF Standing
    <2>. QED
        BY <2>1, ReachedNext
<1>5. 0 < Gap /\ 0 <= i + 1 /\ (i + 1) - 0 .. (i + 1) - 1 = {} /\ (i + 1) - 0 - 1 = i
    BY <1>1
<1>. QED
    BY <1>2, <1>3, <1>4, <1>5 DEF Standing

(* An address not in use, and the branch goes on.                          *)
LEMMA StandingMiss ==
    ASSUME NEW b \in Branches, NEW i \in Nat, NEW r \in Nat, NEW seen \in SUBSET Addresses,
           NEW began, NEW wallet, Standing(b, i, r, seen, began, wallet), <<b, i>> \notin began,
           r + 1 # Gap
    PROVE  Standing(b, i + 1, r + 1, seen, began, wallet)
<1>1. /\ Gap \in Nat \ {0} /\ r < Gap /\ r <= i
      /\ \A k \in 0 .. i - 1 : <<b, k>> \in began => <<b, k>> \in seen
      /\ \A k \in i - r .. i - 1 : <<b, k>> \notin began
      /\ r < i => <<b, i - r - 1>> \in wallet
      /\ Reached(<<b, i>>, wallet)
    BY PagesNotEmpty DEF Standing
<1>2. \A a \in seen : Precedes(a, <<b, i + 1>>)
    BY PrecedesNext DEF Standing
<1>3. \A k \in 0 .. (i + 1) - 1 : k = i \/ k \in 0 .. i - 1
    OBVIOUS
<1>4. \A k \in 0 .. (i + 1) - 1 : <<b, k>> \in began => <<b, k>> \in seen
    BY <1>1, <1>3
<1>5. \A k \in (i + 1) - (r + 1) .. (i + 1) - 1 : k = i \/ k \in i - r .. i - 1
    OBVIOUS
<1>6. \A k \in (i + 1) - (r + 1) .. (i + 1) - 1 : <<b, k>> \notin began
    BY <1>1, <1>5
<1>7. r + 1 < Gap /\ r + 1 <= i + 1 /\ (i + 1) - (r + 1) - 1 = i - r - 1
      /\ (r + 1 < i + 1 => r < i)
    BY <1>1
<1>8. Reached(<<b, i + 1>>, wallet)
    <2> DEFINE last == i - r - 1
    <2>1. /\ last \in Int /\ i + 1 - Gap <= last /\ last <= i
          /\ i + 1 >= Gap => r < i
        BY <1>1
    <2>2. i + 1 >= Gap => <<b, last>> \in wallet
        BY <1>1, <2>1
    <2>. HIDE DEF last
    <2>. QED
        BY <1>1, <2>1, <2>2, ReachedNext
<1>. QED
    BY <1>2, <1>4, <1>6, <1>7, <1>8, <1>1 DEF Standing

(* The last of Gap addresses not in use: nothing that is reached from the  *)
(* start of the branch lies further on.                                    *)
LEMMA NothingBeyond ==
    ASSUME NEW b \in Branches, NEW i \in Nat, NEW r \in Nat, NEW seen,
           NEW began \in SUBSET Addresses, NEW wallet, Standing(b, i, r, seen, began, wallet),
           <<b, i>> \notin began, r + 1 = Gap,
           NEW a \in began, a[1] = b, Reached(a, began)
    PROVE  a \in seen
<1>1. /\ Gap \in Nat \ {0} /\ r <= i
      /\ \A k \in 0 .. i - 1 : <<b, k>> \in began => <<b, k>> \in seen
      /\ \A k \in i - r .. i - 1 : <<b, k>> \notin began
    BY PagesNotEmpty DEF Standing
<1>2. PICK n \in Nat : a = <<b, n>> /\ a[2] = n
    BY DEF Addresses
<1>3. CASE n < i
    BY <1>1, <1>2, <1>3
<1>4. CASE n = i
    BY <1>2, <1>4
<1>5. CASE n > i
    <2>1. i - r \in 0 .. n - Gap
        BY <1>1, <1>5
    <2>2. PICK j \in i - r .. i - r + Gap - 1 : <<b, j>> \in began
        BY <1>2, <2>1 DEF Reached
    <2>3. j = i \/ j \in i - r .. i - 1
        BY <1>1
    <2>. QED
        BY <1>1, <2>2, <2>3
<1>. QED
    BY <1>3, <1>4, <1>5

LEMMA ScanStarts ==
    ASSUME ChainInv, BeginScan, UNCHANGED used
    PROVE  ScanInv'
<1>1. /\ job' \in ScanJobs /\ job'.branch = 0 /\ job'.index = 0 /\ job'.run = 0
      /\ job'.found = <<>> /\ job'.began = used /\ job'.stage = "address"
    BY DEF BeginScan, ScanJobs, ChainInv, Addresses, Branches
<1>2. SeenIn(<<>>) = {} /\ InPlace(<<>>) /\ 0 \in Branches
    BY DEF SeenIn, InPlace, Branches
<1>3. \A a \in used : a[1] \in Branches
    BY DEF ChainInv
<1>4. \A a \in used : ~Over(job', a[1])
    BY <1>1, <1>3 DEF Over, Branches
<1>5. Standing(0, 0, 0, {}, used, used')
    BY <1>2, StandingStart
<1>. QED
    BY <1>1, <1>2, <1>4, <1>5 DEF ScanInv, Standing, Reached, Over

LEMMA ScanWaits ==
    ASSUME ScanInv, used \subseteq used', UNCHANGED job
    PROVE  ScanInv'
<1> SUFFICES ASSUME job.kind = "scan" PROVE ScanInv'
    BY DEF ScanInv
<1>1. /\ job \in ScanJobs /\ job.began \subseteq used /\ InPlace(job.found)
      /\ \A a \in SeenIn(job.found) : a \in used /\ Reached(a, used)
      /\ \A a \in job.began : Over(job, a[1]) /\ Reached(a, job.began) => a \in SeenIn(job.found)
      /\ job.stage = "address" =>
             Standing(job.branch, job.index, job.run, SeenIn(job.found), job.began, used)
    BY DEF ScanInv
<1>2. \A a \in SeenIn(job.found) : a \in used' /\ Reached(a, used')
    BY <1>1, ReachedGrown
<1>3. job.stage = "address" =>
          Standing(job.branch, job.index, job.run, SeenIn(job.found), job.began, used')
    BY <1>1, ReachedGrown DEF Standing
<1>. QED
    BY <1>1, <1>2, <1>3 DEF ScanInv, Reached, Standing, Over

LEMMA ScanFails ==
    ASSUME ScanInv, RequestFails, UNCHANGED used
    PROVE  job.kind = "scan" => ScanInv'
<1> SUFFICES ASSUME job.kind = "scan" PROVE ScanInv'
    OBVIOUS
<1>1. /\ job \in ScanJobs /\ job.began \subseteq used /\ InPlace(job.found)
      /\ \A a \in SeenIn(job.found) : a \in used /\ Reached(a, used)
    BY DEF ScanInv
<1>2. /\ job' \in ScanJobs /\ job'.stage = "raised" /\ job'.found = job.found
      /\ job'.began = job.began
    BY <1>1 DEF RequestFails, ScanJobs
<1>3. \A a \in job'.began : ~Over(job', a[1])
    BY <1>2 DEF Over
<1>. QED
    BY <1>1, <1>2, <1>3 DEF ScanInv, Reached, Over

LEMMA ScanHit ==
    ASSUME ScanInv, ScanAddress, UNCHANGED used, <<job.branch, job.index>> \in used
    PROVE  ScanInv'
<1>1. /\ job.kind = "scan" /\ job.stage = "address"
      /\ job \in ScanJobs /\ job.began \subseteq used /\ InPlace(job.found)
      /\ \A a \in SeenIn(job.found) : a \in used /\ Reached(a, used)
      /\ \A a \in job.began : Over(job, a[1]) /\ Reached(a, job.began) => a \in SeenIn(job.found)
      /\ Standing(job.branch, job.index, job.run, SeenIn(job.found), job.began, used)
    BY DEF ScanInv, ScanAddress
<1> DEFINE b == job.branch
           i == job.index
           r == job.run
           found == job.found
           here == <<b, i>>
           entry == [address |-> here, balance |-> ConfirmedSats(Stats(here))]
           more == Append(found, entry)
           zero == 0
           next == i + 1
           stage == "address"
<1>2. /\ b \in Branches /\ i \in Nat /\ r \in Nat /\ found \in Seq(Finds)
      /\ Standing(b, i, r, SeenIn(found), job.began, used) /\ Gap # 0
    BY <1>1, PagesNotEmpty DEF ScanJobs
<1>3. ConfirmedSats(Stats(here)) \in Int
    BY DEF ConfirmedSats, Stats
<1>4. entry \in Finds /\ entry.address = here /\ here \in Addresses
    BY <1>2, <1>3 DEF Finds, Addresses
<1>5. job' = [job EXCEPT !.found = more, !.run = zero, !.index = next, !.branch = b,
                         !.stage = stage]
    BY <1>1, <1>2 DEF ScanAddress, NextRun
<1>6. zero \in Nat /\ next \in Nat /\ stage \in {"address", "done", "raised"} /\ zero = 0
      /\ next = i + 1 /\ stage = "address"
    BY <1>2
<1>7. /\ InPlace(found) /\ here \in used /\ <<b, i>> = here /\ more = Append(found, entry)
      /\ \A a \in SeenIn(found) : a \in used /\ Reached(a, used)
      /\ \A a \in job.began : Over(job, a[1]) /\ Reached(a, job.began) => a \in SeenIn(found)
      /\ \A a \in job.began : Over(job, a[1]) <=> a[1] < b
    BY <1>1 DEF Over
<1>. HIDE DEF b, i, r, found, here, entry, more, zero, next, stage
<1>8. \A a \in SeenIn(found) : Precedes(a, entry.address)
    BY <1>2, <1>4, <1>7 DEF Standing
<1>9. /\ more \in Seq(Finds) /\ InPlace(more) /\ SeenIn(more) = SeenIn(found) \cup {here}
    BY <1>2, <1>4, <1>7, <1>8, FoundOneMore
<1>10. /\ job' \in ScanJobs /\ job'.found = more /\ job'.run = zero /\ job'.index = next
       /\ job'.branch = b /\ job'.stage = stage /\ job'.began = job.began
    BY <1>1, <1>2, <1>5, <1>6, <1>9 DEF ScanJobs
<1>11. Standing(b, next, zero, SeenIn(more), job.began, used)
    <2>1. SeenIn(found) \in SUBSET Addresses
        BY <1>2, SeenTyped
    <2>. QED
        BY <1>2, <1>6, <1>7, <1>9, <2>1, StandingHit
<1>12. Reached(here, used)
    BY <1>2, <1>7 DEF Standing
<1>13. \A a \in SeenIn(more) : a \in used /\ Reached(a, used)
    BY <1>7, <1>9, <1>12
<1>14. \A a \in job.began : Over(job', a[1]) /\ Reached(a, job.began) => a \in SeenIn(more)
    BY <1>6, <1>7, <1>9, <1>10 DEF Over
<1>. QED
    BY <1>1, <1>9, <1>10, <1>11, <1>13, <1>14 DEF ScanInv, Standing, Reached, Over

LEMMA ScanMiss ==
    ASSUME ScanInv, ScanAddress, UNCHANGED used, <<job.branch, job.index>> \notin used,
           job.run + 1 # Gap
    PROVE  ScanInv'
<1>1. /\ job.kind = "scan" /\ job.stage = "address"
      /\ job \in ScanJobs /\ job.began \subseteq used /\ InPlace(job.found)
      /\ \A a \in SeenIn(job.found) : a \in used /\ Reached(a, used)
      /\ \A a \in job.began : Over(job, a[1]) /\ Reached(a, job.began) => a \in SeenIn(job.found)
      /\ Standing(job.branch, job.index, job.run, SeenIn(job.found), job.began, used)
    BY DEF ScanInv, ScanAddress
<1> DEFINE b == job.branch
           i == job.index
           r == job.run
           found == job.found
           run == r + 1
           next == i + 1
           stage == "address"
<1>2. /\ b \in Branches /\ i \in Nat /\ r \in Nat /\ found \in Seq(Finds)
      /\ Standing(b, i, r, SeenIn(found), job.began, used) /\ r + 1 # Gap
      /\ <<b, i>> \notin job.began
    BY <1>1 DEF ScanJobs
<1>3. job' = [job EXCEPT !.found = found, !.run = run, !.index = next, !.branch = b,
                         !.stage = stage]
    BY <1>1 DEF ScanAddress, NextRun
<1>4. run \in Nat /\ next \in Nat /\ stage \in {"address", "done", "raised"} /\ run = r + 1
      /\ next = i + 1 /\ stage = "address"
    BY <1>2
<1>5. /\ InPlace(found)
      /\ \A a \in SeenIn(found) : a \in used /\ Reached(a, used)
      /\ \A a \in job.began : Over(job, a[1]) /\ Reached(a, job.began) => a \in SeenIn(found)
      /\ \A a \in job.began : Over(job, a[1]) <=> a[1] < b
    BY <1>1 DEF Over
<1>. HIDE DEF b, i, r, found, run, next, stage
<1>6. /\ job' \in ScanJobs /\ job'.found = found /\ job'.run = run /\ job'.index = next
      /\ job'.branch = b /\ job'.stage = stage /\ job'.began = job.began
    BY <1>1, <1>2, <1>3, <1>4 DEF ScanJobs
<1>7. Standing(b, next, run, SeenIn(found), job.began, used)
    <2>1. SeenIn(found) \in SUBSET Addresses
        BY <1>2, SeenTyped
    <2>. QED
        BY <1>2, <1>4, <2>1, StandingMiss
<1>8. \A a \in job.began : Over(job', a[1]) /\ Reached(a, job.began) => a \in SeenIn(found)
    BY <1>4, <1>5, <1>6 DEF Over
<1>. QED
    BY <1>1, <1>5, <1>6, <1>7, <1>8 DEF ScanInv, Standing, Reached, Over

LEMMA ScanBranchEnds ==
    ASSUME ScanInv, ScanAddress, UNCHANGED used, <<job.branch, job.index>> \notin used,
           job.run + 1 = Gap
    PROVE  ScanInv'
<1>1. /\ job.kind = "scan" /\ job.stage = "address"
      /\ job \in ScanJobs /\ job.began \subseteq used /\ InPlace(job.found)
      /\ \A a \in SeenIn(job.found) : a \in used /\ Reached(a, used)
      /\ \A a \in job.began : Over(job, a[1]) /\ Reached(a, job.began) => a \in SeenIn(job.found)
      /\ Standing(job.branch, job.index, job.run, SeenIn(job.found), job.began, used)
    BY DEF ScanInv, ScanAddress
<1> DEFINE b == job.branch
           i == job.index
           r == job.run
           found == job.found
           zero == 0
           one == 1
           stage == IF b = 1 THEN "done" ELSE "address"
<1>2. /\ b \in Branches /\ i \in Nat /\ r \in Nat /\ found \in Seq(Finds)
      /\ Standing(b, i, r, SeenIn(found), job.began, used) /\ r + 1 = Gap
      /\ <<b, i>> \notin job.began /\ job.began \in SUBSET Addresses
    BY <1>1 DEF ScanJobs
<1>3. job' = [job EXCEPT !.found = found, !.run = zero, !.index = zero, !.branch = one,
                         !.stage = stage]
    BY <1>1 DEF ScanAddress, NextRun
<1>4. zero \in Nat /\ one \in Branches /\ stage \in {"address", "done", "raised"} /\ zero = 0
      /\ one = 1 /\ (b = 0 \/ b = 1) /\ (b = 1 => stage = "done") /\ (b = 0 => stage = "address")
    BY <1>2 DEF Branches
<1>5. /\ InPlace(found)
      /\ \A a \in SeenIn(found) : a \in used /\ Reached(a, used)
      /\ \A a \in job.began : Over(job, a[1]) /\ Reached(a, job.began) => a \in SeenIn(found)
      /\ \A a \in job.began : Over(job, a[1]) <=> a[1] < b
    BY <1>1 DEF Over
<1>. HIDE DEF b, i, r, found, zero, one, stage
<1>6. /\ job' \in ScanJobs /\ job'.found = found /\ job'.run = zero /\ job'.index = zero
      /\ job'.branch = one /\ job'.stage = stage /\ job'.began = job.began
    BY <1>1, <1>2, <1>3, <1>4 DEF ScanJobs
<1>7. ASSUME NEW a \in job.began, Over(job', a[1]), Reached(a, job.began)
      PROVE  a \in SeenIn(found)
    <2>1. a[1] = 0 \/ a[1] = 1
        BY <1>2 DEF Addresses, Branches
    <2>2. CASE a[1] = b
        BY <1>2, <1>7, <2>2, NothingBeyond
    <2>3. CASE a[1] # b
        <3>1. a[1] < b
            BY <1>4, <1>6, <1>7, <2>1, <2>3 DEF Over
        <3>. QED
            BY <1>5, <1>7, <3>1
    <2>. QED
        BY <2>2, <2>3
<1>8. ASSUME stage = "address" PROVE Standing(one, zero, zero, SeenIn(found), job.began, used)
    <2>1. b = 0
        BY <1>4, <1>8
    <2>2. ASSUME NEW a \in SeenIn(found) PROVE Precedes(a, <<one, 0>>)
        <3>1. Precedes(a, <<0, i>>) /\ a \in Addresses
            BY <1>2, <2>1, SeenTyped DEF Standing
        <3>. QED
            BY <1>4, <3>1 DEF Precedes, Addresses, Branches
    <2>. QED
        BY <1>4, <2>2, StandingStart
<1>. QED
    BY <1>1, <1>5, <1>6, <1>7, <1>8 DEF ScanInv, Standing, Reached, Over

LEMMA ScanGoesOn ==
    ASSUME ScanInv, ScanAddress, UNCHANGED used
    PROVE  ScanInv'
BY ScanHit, ScanMiss, ScanBranchEnds

LEMMA ScanWholeHolds ==
    ASSUME ChainInv, ScanInv
    PROVE  ScanWhole
<1> DEFINE Seen == {job.found[k].address : k \in DOMAIN job.found}
           InOrder(x, y) == x[1] < y[1] \/ (x[1] = y[1] /\ x[2] < y[2])
<1> SUFFICES ASSUME Done("scan")
             PROVE  /\ {a \in job.began : Reached(a, job.began)} \subseteq Seen
                    /\ \A a \in Seen : a \in used /\ Reached(a, used)
                    /\ \A j, k \in DOMAIN job.found :
                           j < k => InOrder(job.found[j].address, job.found[k].address)
    BY DEF ScanWhole
<1>1. /\ job \in ScanJobs /\ InPlace(job.found) /\ job.stage = "done"
      /\ \A a \in SeenIn(job.found) : a \in used /\ Reached(a, used)
      /\ \A a \in job.began : Over(job, a[1]) /\ Reached(a, job.began) => a \in SeenIn(job.found)
    BY DEF ScanInv, Done
<1>2. DOMAIN job.found = 1 .. Len(job.found)
    BY <1>1 DEF ScanJobs
<1>3. Seen = SeenIn(job.found)
    BY <1>2 DEF SeenIn
<1>4. \A a \in job.began : Over(job, a[1])
    BY <1>1 DEF Over
<1>. HIDE DEF Seen
<1>5. \A j, k \in DOMAIN job.found :
          j < k => InOrder(job.found[j].address, job.found[k].address)
    BY <1>1, <1>2 DEF InPlace, Precedes
<1>. QED
    BY <1>1, <1>3, <1>4, <1>5

-----------------------------------------------------------------------------
(* Batches: an answer found by its id is the one asked for.                *)

LEMMA AnswersById ==
    ASSUME NEW n \in Nat, NEW body, NEW refused, ValidBody(body, n),
           \A k \in DOMAIN body : body[k].refused = (body[k].id \in refused)
    PROVE  [k \in 1 .. n |-> BatchResult(ById(body, n)[k])]
               = [k \in 1 .. n |-> IF k \in refused THEN "refused" ELSE k]
<1> SUFFICES ASSUME NEW k \in 1 .. n
             PROVE  BatchResult(ById(body, n)[k]) = IF k \in refused THEN "refused" ELSE k
    OBVIOUS
<1>1. \A item \in ToSet(body) : item.refused = (item.id \in refused)
    BY DEF ToSet
<1>2. \E item \in ToSet(body) : item.id = k
    BY DEF ToSet, ValidBody
<1> DEFINE item == CHOOSE x \in ToSet(body) : x.id = k
<1>3. item \in ToSet(body) /\ item.id = k
    BY <1>2
<1>4. ById(body, n)[k] = item
    BY DEF ById
<1>. HIDE DEF item
<1>5. item.refused = (k \in refused)
    BY <1>1, <1>3
<1>. QED
    BY <1>3, <1>4, <1>5 DEF BatchResult

LEMMA BatchAnswered ==
    ASSUME BatchRequest
    PROVE  job'.kind = "batch" /\ "kind" \in DOMAIN job' /\ AnswersInPlace'
<1>1. PICK n \in 0 .. 3 : \E m \in (IF n = 0 THEN {0} ELSE 0 .. 3) :
          \E ids \in [1 .. m -> 1 .. n + 1], refused \in SUBSET (1 .. n) :
              LET body == [k \in 1 .. m |-> [id |-> ids[k], refused |-> ids[k] \in refused]]
                  valid == ValidBody(body, n)
              IN job' = [kind |-> "batch", stage |-> IF valid THEN "done" ELSE "raised",
                         asked |-> n, refused |-> refused,
                         results |-> IF ~valid THEN <<>>
                                     ELSE [k \in 1 .. n |-> BatchResult(ById(body, n)[k])]]
    BY DEF BatchRequest
<1>2. PICK m \in (IF n = 0 THEN {0} ELSE 0 .. 3) :
          \E ids \in [1 .. m -> 1 .. n + 1], refused \in SUBSET (1 .. n) :
              LET body == [k \in 1 .. m |-> [id |-> ids[k], refused |-> ids[k] \in refused]]
                  valid == ValidBody(body, n)
              IN job' = [kind |-> "batch", stage |-> IF valid THEN "done" ELSE "raised",
                         asked |-> n, refused |-> refused,
                         results |-> IF ~valid THEN <<>>
                                     ELSE [k \in 1 .. n |-> BatchResult(ById(body, n)[k])]]
    BY <1>1
<1>3. PICK ids \in [1 .. m -> 1 .. n + 1], refused \in SUBSET (1 .. n) :
          LET body == [k \in 1 .. m |-> [id |-> ids[k], refused |-> ids[k] \in refused]]
              valid == ValidBody(body, n)
          IN job' = [kind |-> "batch", stage |-> IF valid THEN "done" ELSE "raised",
                     asked |-> n, refused |-> refused,
                     results |-> IF ~valid THEN <<>>
                                 ELSE [k \in 1 .. n |-> BatchResult(ById(body, n)[k])]]
    BY <1>2
<1> DEFINE body == [k \in 1 .. m |-> [id |-> ids[k], refused |-> ids[k] \in refused]]
           results == [k \in 1 .. n |-> BatchResult(ById(body, n)[k])]
<1>4. \A k \in DOMAIN body : body[k].refused = (body[k].id \in refused)
    OBVIOUS
<1>5. job' = [kind |-> "batch", stage |-> IF ValidBody(body, n) THEN "done" ELSE "raised",
              asked |-> n, refused |-> refused,
              results |-> IF ~ValidBody(body, n) THEN <<>> ELSE results]
    BY <1>3
<1>. HIDE DEF body
<1>6. ASSUME ValidBody(body, n)
      PROVE  results = [k \in 1 .. n |-> IF k \in refused THEN "refused" ELSE k]
    <2>0. n \in Nat
        OBVIOUS
    <2>1. [k \in 1 .. n |-> BatchResult(ById(body, n)[k])]
              = [k \in 1 .. n |-> IF k \in refused THEN "refused" ELSE k]
        BY <1>4, <1>6, <2>0, AnswersById
    <2>. QED
        BY <2>1
<1>. HIDE DEF results
<1>7. /\ job'.kind = "batch" /\ "kind" \in DOMAIN job' /\ job'.asked = n
      /\ job'.refused = refused
      /\ job'.stage = "done" => ValidBody(body, n) /\ job'.results = results
    BY <1>5
<1>. QED
    BY <1>6, <1>7 DEF AnswersInPlace, Done

LEMMA AggregateAnswered ==
    ASSUME Aggregate3
    PROVE  job'.kind = "batch" /\ "kind" \in DOMAIN job' /\ AnswersInPlace'
<1>1. PICK n \in 0 .. 3 : \E reverts, allowed \in SUBSET (1 .. n), m \in 0 .. n + 1 :
          LET answers == [k \in 1 .. m |-> IF k \in reverts THEN "refused" ELSE k]
          IN job' = IF n = 0 \/ (reverts \subseteq allowed /\ m = n)
                    THEN [kind |-> "batch", stage |-> "done", asked |-> n, refused |-> reverts,
                          results |-> IF n = 0 THEN <<>> ELSE answers]
                    ELSE [kind |-> "batch", stage |-> "raised", asked |-> n,
                          refused |-> reverts, results |-> <<>>]
    BY DEF Aggregate3
<1>2. PICK reverts \in SUBSET (1 .. n), allowed \in SUBSET (1 .. n), m \in 0 .. n + 1 :
          LET answers == [k \in 1 .. m |-> IF k \in reverts THEN "refused" ELSE k]
          IN job' = IF n = 0 \/ (reverts \subseteq allowed /\ m = n)
                    THEN [kind |-> "batch", stage |-> "done", asked |-> n, refused |-> reverts,
                          results |-> IF n = 0 THEN <<>> ELSE answers]
                    ELSE [kind |-> "batch", stage |-> "raised", asked |-> n,
                          refused |-> reverts, results |-> <<>>]
    BY <1>1
<1> DEFINE answers == [k \in 1 .. m |-> IF k \in reverts THEN "refused" ELSE k]
           wanted == [k \in 1 .. n |-> IF k \in reverts THEN "refused" ELSE k]
<1>3. n = 0 => wanted = <<>>
    <2>1. n = 0 => 1 .. n = {}
        OBVIOUS
    <2>. QED
        BY <2>1
<1>4. m = n => answers = wanted
    OBVIOUS
<1>5. job' = IF n = 0 \/ (reverts \subseteq allowed /\ m = n)
             THEN [kind |-> "batch", stage |-> "done", asked |-> n, refused |-> reverts,
                   results |-> IF n = 0 THEN <<>> ELSE answers]
             ELSE [kind |-> "batch", stage |-> "raised", asked |-> n,
                   refused |-> reverts, results |-> <<>>]
    BY <1>2
<1>6. AnswersInPlace' <=>
          (job'.kind = "batch" /\ job'.stage = "done" =>
               job'.results = [k \in 1 .. job'.asked |->
                                  IF k \in job'.refused THEN "refused" ELSE k])
    BY DEF AnswersInPlace, Done
<1>. HIDE DEF answers
<1>7. /\ job'.kind = "batch" /\ "kind" \in DOMAIN job' /\ job'.asked = n
      /\ job'.refused = reverts
      /\ job'.stage = "done" => job'.results = IF n = 0 THEN <<>> ELSE answers
      /\ job'.stage = "done" => n = 0 \/ m = n
    BY <1>5
<1>. QED
    BY <1>3, <1>4, <1>6, <1>7

-----------------------------------------------------------------------------
(* A read in progress, of any kind.                                        *)

HasKind == "kind" \in DOMAIN job

(* What is true of every read at every moment.                             *)
WalkInv ==
    /\ ChainInv /\ HasKind
    /\ HistoryInv /\ SignaturesInv /\ LogsInv /\ ScanInv /\ AnswersInPlace

LEMMA WalkInvStarts ==
    ASSUME WalkInit
    PROVE  WalkInv
<1>1. ChainInv
    BY DEF WalkInit, ChainInv, Sorted
<1>2. job.kind = "none" /\ HasKind
    BY DEF WalkInit, None, HasKind
<1>. QED
    BY <1>1, <1>2 DEF WalkInv, HistoryInv, SignaturesInv, LogsInv, ScanInv, AnswersInPlace, Done

(* The chain or the wallet moves on, or nothing does.                      *)
LEMMA WalkInvWaits ==
    ASSUME WalkInv, NEW more, Grew(more), used \subseteq used',
           used' \subseteq Branches \X Nat, swept' \subseteq Branches \X Nat, UNCHANGED job
    PROVE  WalkInv'
<1>1. ChainInv'
    BY GrownChain DEF WalkInv, ChainInv
<1>2. HistoryInv' /\ SignaturesInv' /\ LogsInv'
    BY HistoryWaits, SignaturesWait, LogsWait DEF WalkInv
<1>3. ScanInv'
    BY ScanWaits DEF WalkInv
<1>4. HasKind' /\ AnswersInPlace'
    BY DEF WalkInv, HasKind, AnswersInPlace, Done
<1>. QED
    BY <1>1, <1>2, <1>3, <1>4 DEF WalkInv

LEMMA StillGrew ==
    ASSUME ChainInv, UNCHANGED chain
    PROVE  Grew(<<>>)
<1>1. chain \o <<>> = chain
    BY DEF ChainInv
<1>. QED
    BY <1>1 DEF Grew

LEMMA WalkInvBegins ==
    ASSUME WalkInv, Begins
    PROVE  WalkInv'
<1>1. ChainInv' /\ UNCHANGED <<chain, used>>
    BY DEF WalkInv, ChainInv, Sorted, Begins
<1>2. CASE BeginHistory
    <2>1. job'.kind = "history" /\ HasKind'
        BY <1>2 DEF BeginHistory, HasKind
    <2>2. HistoryInv'
        BY <1>1, <1>2, HistoryStarts DEF WalkInv
    <2>. QED
        BY <1>1, <2>1, <2>2 DEF WalkInv, SignaturesInv, LogsInv, ScanInv, AnswersInPlace, Done
<1>3. CASE BeginSignatures
    <2>1. job'.kind = "signatures" /\ HasKind'
        BY <1>3 DEF BeginSignatures, HasKind
    <2>2. SignaturesInv'
        BY <1>1, <1>3, SignaturesStart DEF WalkInv
    <2>. QED
        BY <1>1, <2>1, <2>2 DEF WalkInv, HistoryInv, LogsInv, ScanInv, AnswersInPlace, Done
<1>4. CASE BeginLogs
    <2>1. job'.kind = "logs" /\ HasKind'
        BY <1>4 DEF BeginLogs, HasKind
    <2>2. LogsInv'
        BY <1>1, <1>4, LogsStart DEF WalkInv
    <2>. QED
        BY <1>1, <2>1, <2>2 DEF WalkInv, HistoryInv, SignaturesInv, ScanInv, AnswersInPlace, Done
<1>5. CASE BeginScan
    <2>1. job'.kind = "scan" /\ HasKind'
        BY <1>5 DEF BeginScan, HasKind
    <2>2. ScanInv'
        BY <1>1, <1>5, ScanStarts DEF WalkInv
    <2>. QED
        BY <1>1, <2>1, <2>2 DEF WalkInv, HistoryInv, SignaturesInv, LogsInv, AnswersInPlace, Done
<1>6. CASE BeginBalances \/ BeginSolana
    <2>1. job'.kind \in {"balances", "solana"} /\ HasKind'
        BY <1>6 DEF BeginBalances, BeginSolana, HasKind
    <2>. QED
        BY <1>1, <2>1
        DEF WalkInv, HistoryInv, SignaturesInv, LogsInv, ScanInv, AnswersInPlace, Done
<1>7. CASE BatchRequest \/ Aggregate3
    <2>1. job'.kind = "batch" /\ HasKind' /\ AnswersInPlace'
        BY <1>7, BatchAnswered, AggregateAnswered DEF HasKind
    <2>. QED
        BY <1>1, <2>1 DEF WalkInv, HistoryInv, SignaturesInv, LogsInv, ScanInv
<1>. QED
    BY <1>2, <1>3, <1>4, <1>5, <1>6, <1>7 DEF Begins, BeginWalk

(* Each request belongs to one kind of read, *)
LEMMA RequestsOfAKind ==
    ASSUME WalkRequest
    PROVE  \/ HistoryPage /\ job.kind = "history"
           \/ SignaturePage /\ job.kind = "signatures"
           \/ LogChunk /\ job.kind = "logs"
           \/ ScanAddress /\ job.kind = "scan"
           \/ (NativeBalance \/ DiscoverTokens \/ TokenBalance) /\ job.kind = "balances"
           \/ (Lamports \/ TokenAccounts) /\ job.kind = "solana"
<1>1. CASE HistoryPage
    BY <1>1 DEF HistoryPage
<1>2. CASE SignaturePage
    BY <1>2 DEF SignaturePage
<1>3. CASE LogChunk
    BY <1>3 DEF LogChunk
<1>4. CASE ScanAddress
    BY <1>4 DEF ScanAddress
<1>5. CASE NativeBalance \/ DiscoverTokens \/ TokenBalance
    BY <1>5 DEF NativeBalance, DiscoverTokens, TokenBalance
<1>6. CASE Lamports
    BY <1>6 DEF Lamports
<1>7. CASE TokenAccounts
    BY <1>7 DEF TokenAccounts
<1>. QED
    BY <1>1, <1>2, <1>3, <1>4, <1>5, <1>6, <1>7 DEF WalkRequest

(* and does not make it another. *)
LEMMA KindKept ==
    ASSUME HasKind, WalkRequest \/ RequestFails
    PROVE  job'.kind = job.kind /\ HasKind'
<1>1. CASE HistoryPage \/ SignaturePage \/ LogChunk
    BY <1>1 DEF HasKind, HistoryPage, SignaturePage, LogChunk
<1>2. CASE ScanAddress
    BY <1>2 DEF HasKind, ScanAddress
<1>3. CASE NativeBalance \/ DiscoverTokens \/ TokenBalance
    BY <1>3 DEF HasKind, NativeBalance, DiscoverTokens, TokenBalance
<1>4. CASE Lamports
    BY <1>4 DEF HasKind, Lamports
<1>5. CASE TokenAccounts
    <2>1. job.kind = "solana"
        BY <1>5 DEF TokenAccounts
    <2>2. PICK split :
              \/ job' = [job EXCEPT !.rows = job.rows \o AllAccounts(split),
                                    !.stage = "program2"]
              \/ job' = [kind |-> "solana", stage |-> "done", began |-> job.began,
                         records |-> BuildBalances(job.lamports,
                                         AggregateByMint(job.rows \o AllAccounts(split)))]
        BY <1>5 DEF TokenAccounts
    <2> DEFINE rows == job.rows \o AllAccounts(split)
               records == BuildBalances(job.lamports, AggregateByMint(rows))
    <2>3. \/ job' = [job EXCEPT !.rows = rows, !.stage = "program2"]
          \/ job' = [kind |-> "solana", stage |-> "done", began |-> job.began,
                     records |-> records]
        BY <2>2
    <2>. HIDE DEF rows, records
    <2>4. CASE job' = [job EXCEPT !.rows = rows, !.stage = "program2"]
        BY <2>1, <2>4 DEF HasKind
    <2>5. CASE job' = [kind |-> "solana", stage |-> "done", began |-> job.began,
                       records |-> records]
        BY <2>1, <2>5 DEF HasKind
    <2>. QED
        BY <2>3, <2>4, <2>5
<1>6. CASE RequestFails
    BY <1>6 DEF HasKind, RequestFails
<1>. QED
    BY <1>1, <1>2, <1>3, <1>4, <1>5, <1>6 DEF WalkRequest

LEMMA WalkInvGoesOn ==
    ASSUME WalkInv, GoesOn
    PROVE  WalkInv'
<1>1. ChainInv' /\ UNCHANGED <<chain, used>>
    BY DEF WalkInv, ChainInv, Sorted, GoesOn
<1>2. (WalkRequest \/ RequestFails) /\ HasKind /\ job.stage \notin {"done", "raised"}
    BY DEF GoesOn, Running, WalkInv
<1>3. job'.kind = job.kind /\ HasKind'
    BY <1>2, KindKept
<1>4. HistoryInv'
    <2>1. CASE job.kind = "history"
        <3>1. HistoryPage \/ RequestFails
            BY <1>2, <2>1, RequestsOfAKind
        <3>. QED
            BY <1>1, <2>1, <3>1, HistoryGoesOn, HistoryFails DEF WalkInv
    <2>. QED
        BY <1>3, <2>1 DEF HistoryInv
<1>5. SignaturesInv'
    <2>1. CASE job.kind = "signatures"
        <3>1. SignaturePage \/ RequestFails
            BY <1>2, <2>1, RequestsOfAKind
        <3>. QED
            BY <1>1, <2>1, <3>1, SignaturesGoOn, SignaturesFail DEF WalkInv
    <2>. QED
        BY <1>3, <2>1 DEF SignaturesInv
<1>6. LogsInv'
    <2>1. CASE job.kind = "logs"
        <3>1. LogChunk \/ RequestFails
            BY <1>2, <2>1, RequestsOfAKind
        <3>. QED
            BY <1>1, <2>1, <3>1, LogsGoOn, LogsFail DEF WalkInv
    <2>. QED
        BY <1>3, <2>1 DEF LogsInv
<1>7. ScanInv'
    <2>1. CASE job.kind = "scan"
        <3>1. ScanAddress \/ RequestFails
            BY <1>2, <2>1, RequestsOfAKind
        <3>. QED
            BY <1>1, <2>1, <3>1, ScanGoesOn, ScanFails DEF WalkInv
    <2>. QED
        BY <1>3, <2>1 DEF ScanInv
<1>8. AnswersInPlace'
    <2>1. CASE job.kind = "batch"
        <3>1. RequestFails
            BY <1>2, <2>1, RequestsOfAKind
        <3>2. job'.stage # "done"
            BY <1>2, <3>1 DEF RequestFails
        <3>. QED
            BY <3>2 DEF AnswersInPlace, Done
    <2>. QED
        BY <1>3, <2>1 DEF AnswersInPlace, Done
<1>. QED
    BY <1>1, <1>3, <1>4, <1>5, <1>6, <1>7, <1>8 DEF WalkInv

LEMMA WalkInvHanded ==
    ASSUME WalkInv, Handed
    PROVE  WalkInv'
<1>1. ChainInv'
    BY DEF WalkInv, ChainInv, Sorted, Handed
<1>2. job'.kind \in {"holdings", "balances"} /\ HasKind'
    <2>1. CASE RequestFails
        BY <2>1, KindKept DEF WalkInv, Handed
    <2>2. CASE ~RequestFails
        BY <2>2 DEF Handed, HasKind
    <2>. QED
        BY <2>1, <2>2
<1>. QED
    BY <1>1, <1>2
    DEF WalkInv, HistoryInv, SignaturesInv, LogsInv, ScanInv, AnswersInPlace, Done

LEMMA WalkInvKept ==
    ASSUME WalkInv, [WalkNext \/ Handed]_walkVars
    PROVE  WalkInv'
<1>1. ChainInv /\ used \subseteq Branches \X Nat /\ swept \subseteq Branches \X Nat
    BY DEF WalkInv, ChainInv
<1>2. CASE Mine
    <2>1. PICK more \in Seq(Transactions) : Grew(more)
        BY <1>1, <1>2, MineGrows
    <2>. QED
        BY <1>1, <1>2, <2>1, WalkInvWaits DEF Mine
<1>3. CASE Receive
    <2>1. used \subseteq used' /\ used' \subseteq Branches \X Nat
        BY <1>1, <1>3 DEF Receive, WalkBounds
    <2>. QED
        BY <1>1, <1>3, <2>1, StillGrew, WalkInvWaits DEF Receive
<1>4. CASE Sweep
    <2>1. swept' \subseteq Branches \X Nat
        BY <1>1, <1>4 DEF Sweep
    <2>. QED
        BY <1>1, <1>4, <2>1, StillGrew, WalkInvWaits DEF Sweep
<1>5. CASE UNCHANGED walkVars
    BY <1>1, <1>5, StillGrew, WalkInvWaits DEF walkVars
<1>. QED
    BY <1>2, <1>3, <1>4, <1>5, WalkInvBegins, WalkInvGoesOn, WalkInvHanded DEF WalkNext

LEMMA WalkInvWhole ==
    ASSUME WalkInv
    PROVE  ReadsWhole
BY HistoryWholeHolds, SignaturesWholeHolds, LogsWholeHolds, ScanWholeHolds
DEF WalkInv, ReadsWhole

(* A read of several requests that ends well is whole: whatever the chain  *)
(* or the wallet did between its requests, for every page size, chunk and  *)
(* gap, it missed nothing that was there when it began, returned nothing   *)
(* twice and nothing out of order; and each answer of a batch is in its    *)
(* place.                                                                  *)
THEOREM EveryReadIsWhole == WalkSpec => []ReadsWhole
<1>1. WalkInit => WalkInv
    BY WalkInvStarts
<1>2. WalkInv /\ [WalkNext \/ Handed]_walkVars => WalkInv'
    BY WalkInvKept
<1>3. WalkInv => ReadsWhole
    BY WalkInvWhole
<1>. QED
    BY <1>1, <1>2, <1>3, PTL DEF WalkSpec

-----------------------------------------------------------------------------
(* Totals: the sums of the lists up to each of their amounts.              *)

SumsUpTo(sum, values, m) ==
    \A n \in 0 .. m : sum[n] = IF n = 0 THEN 0 ELSE sum[n - 1] + values[n]

RunningSum(values) ==
    CHOOSE sum : sum = [n \in 0 .. Len(values) |->
                            IF n = 0 THEN 0 ELSE sum[n - 1] + values[n]]

LEMMA SumsStep ==
    ASSUME NEW sum, NEW values, NEW m \in Nat, SumsUpTo(sum, values, m)
    PROVE  /\ sum[0] = 0
           /\ \A n \in 0 .. m - 1 : sum[n + 1] = sum[n] + values[n + 1]
<1>1. 0 \in 0 .. m
    OBVIOUS
<1>2. ASSUME NEW n \in 0 .. m - 1 PROVE sum[n + 1] = sum[n] + values[n + 1]
    <2>1. n + 1 \in 0 .. m /\ n + 1 # 0 /\ (n + 1) - 1 = n
        OBVIOUS
    <2>2. sum[n + 1] = IF n + 1 = 0 THEN 0 ELSE sum[(n + 1) - 1] + values[n + 1]
        BY <2>1 DEF SumsUpTo
    <2>. QED
        BY <2>1, <2>2
<1>. QED
    BY <1>1, <1>2 DEF SumsUpTo

LEMMA SumsOneMore ==
    ASSUME NEW values \in Seq(Int), NEW m \in Nat, m + 1 <= Len(values),
           NEW f \in [0 .. m -> Int], SumsUpTo(f, values, m)
    PROVE  \E g \in [0 .. m + 1 -> Int] : SumsUpTo(g, values, m + 1)
<1> DEFINE last == f[m] + values[m + 1]
           g == [n \in 0 .. m + 1 |-> IF n = m + 1 THEN last ELSE f[n]]
<1>1. last \in Int
    OBVIOUS
<1>. HIDE DEF last
<1>2. g \in [0 .. m + 1 -> Int] /\ g[m + 1] = last /\ \A n \in 0 .. m : g[n] = f[n]
    BY <1>1
<1>. HIDE DEF g
<1>3. ASSUME NEW n \in 0 .. m + 1
      PROVE  g[n] = IF n = 0 THEN 0 ELSE g[n - 1] + values[n]
    <2>1. CASE n = m + 1
        <3>1. n # 0 /\ n - 1 = m /\ m \in 0 .. m
            BY <2>1
        <3>. QED
            BY <1>2, <2>1, <3>1 DEF last
    <2>2. CASE n \in 0 .. m
        <3>1. f[n] = IF n = 0 THEN 0 ELSE f[n - 1] + values[n]
            BY <2>2 DEF SumsUpTo
        <3>2. n # 0 => n - 1 \in 0 .. m
            BY <2>2
        <3>. QED
            BY <1>2, <2>2, <3>1, <3>2
    <2>. QED
        BY <2>1, <2>2
<1>. QED
    BY <1>2, <1>3 DEF SumsUpTo

LEMMA TotalRuns ==
    ASSUME NEW values \in Seq(Int)
    PROVE  \E sum \in [0 .. Len(values) -> Int] :
               SumsUpTo(sum, values, Len(values)) /\ Total(values) = sum[Len(values)]
<1> DEFINE N == Len(values)
           T == {m \in 0 .. N : \E f \in [0 .. m -> Int] : SumsUpTo(f, values, m)}
<1>1. N \in Nat
    OBVIOUS
<1>2. 0 \in T
    <2> DEFINE f == [n \in 0 .. 0 |-> 0]
    <2>1. f \in [0 .. 0 -> Int] /\ SumsUpTo(f, values, 0) /\ 0 \in 0 .. N
        BY <1>1 DEF SumsUpTo
    <2>. HIDE DEF f
    <2>. QED
        BY <2>1
<1>3. ASSUME NEW m \in 0 .. N - 1, m \in T PROVE m + 1 \in T
    <2>1. PICK f \in [0 .. m -> Int] : SumsUpTo(f, values, m)
        BY <1>3
    <2>2. m \in Nat /\ m + 1 <= Len(values) /\ m + 1 \in 0 .. N
        BY <1>1
    <2>3. \E g \in [0 .. m + 1 -> Int] : SumsUpTo(g, values, m + 1)
        BY <2>1, <2>2, SumsOneMore
    <2>. QED
        BY <2>2, <2>3
<1> HIDE DEF T, N
<1>4. N \in T
    <2>1. \A i \in 0 .. N : i \in T
        BY <1>1, <1>2, <1>3, CountingUp
    <2>. QED
        BY <1>1, <2>1
<1>5. PICK sum \in [0 .. N -> Int] : SumsUpTo(sum, values, N)
    BY <1>4 DEF T
<1>6. sum = [n \in 0 .. Len(values) |-> IF n = 0 THEN 0 ELSE sum[n - 1] + values[n]]
    BY <1>5 DEF SumsUpTo, N
<1>7. RunningSum(values) = [n \in 0 .. Len(values) |->
           IF n = 0 THEN 0 ELSE RunningSum(values)[n - 1] + values[n]]
    BY <1>6, Zenon DEF RunningSum
<1> DEFINE run == RunningSum(values)
<1>8. Total(values) = run[N]
    BY Zenon DEF Total, RunningSum, N
<1>9. /\ DOMAIN run = 0 .. N /\ run = [n \in 0 .. N |-> run[n]]
      /\ SumsUpTo(run, values, N)
    <2>. HIDE DEF run
    <2>1. run = [n \in 0 .. N |-> IF n = 0 THEN 0 ELSE run[n - 1] + values[n]]
        BY <1>7 DEF run, N
    <2>. QED
        BY <2>1 DEF SumsUpTo
<1>10. \A m \in 0 .. N : run[m] \in Int
    <2> DEFINE I == {m \in 0 .. N : run[m] \in Int}
    <2>. HIDE DEF run
    <2>1. 0 \in I
        <3>1. run[0] = 0
            BY <1>1, <1>9, SumsStep
        <3>2. 0 \in 0 .. N /\ run[0] \in Int
            BY <1>1, <3>1
        <3>. QED
            BY <3>2
    <2>2. ASSUME NEW m \in 0 .. N - 1, m \in I PROVE m + 1 \in I
        <3>1. m + 1 \in 0 .. N /\ m + 1 \in 1 .. Len(values)
            BY <1>1 DEF N
        <3>2. run[m + 1] = run[m] + values[m + 1]
            BY <1>1, <1>9, SumsStep
        <3>3. values[m + 1] \in Int
            BY <3>1
        <3>. QED
            BY <2>2, <3>1, <3>2, <3>3
    <2>. HIDE DEF I
    <2>3. \A i \in 0 .. N : i \in I
        BY <1>1, <2>1, <2>2, CountingUp
    <2>. QED
        BY <2>3 DEF I
<1>. HIDE DEF run
<1>11. run \in [0 .. N -> Int]
    BY <1>9, <1>10
<1>. QED
    BY <1>8, <1>9, <1>11 DEF N

LEMMA TotalTyped ==
    ASSUME NEW values \in Seq(Int)
    PROVE  Total(values) \in Int
<1>1. Len(values) \in 0 .. Len(values)
    OBVIOUS
<1>. QED
    BY <1>1, TotalRuns

LEMMA TotalNone == Total(<< >>) = 0
<1>1. << >> \in Seq(Int) /\ Len(<< >>) = 0
    OBVIOUS
<1>2. PICK sum \in [0 .. 0 -> Int] : SumsUpTo(sum, << >>, 0) /\ Total(<< >>) = sum[0]
    BY <1>1, TotalRuns
<1>. QED
    BY <1>2, SumsStep

(* Amounts that add up one by one add up in total.                         *)
AddUp(h, f, g) ==
    /\ Len(f) = Len(h) /\ Len(g) = Len(h)
    /\ \A k \in 1 .. Len(h) : h[k] = f[k] + g[k]

LEMMA TotalPlus ==
    ASSUME NEW f \in Seq(Int), NEW g \in Seq(Int), NEW h \in Seq(Int), AddUp(h, f, g)
    PROVE  Total(h) = Total(f) + Total(g)
<1> DEFINE N == Len(h)
<1>1. N \in Nat /\ Len(f) = N /\ Len(g) = N /\ \A k \in 1 .. N : h[k] = f[k] + g[k]
    BY DEF AddUp
<1>2. PICK a \in [0 .. N -> Int] : SumsUpTo(a, f, N) /\ Total(f) = a[N]
    BY <1>1, TotalRuns
<1>3. PICK b \in [0 .. N -> Int] : SumsUpTo(b, g, N) /\ Total(g) = b[N]
    BY <1>1, TotalRuns
<1>4. PICK c \in [0 .. N -> Int] : SumsUpTo(c, h, N) /\ Total(h) = c[N]
    BY <1>1, TotalRuns
<1> DEFINE T == {m \in 0 .. N : c[m] = a[m] + b[m]}
<1>5. 0 \in T
    BY <1>1, <1>2, <1>3, <1>4, SumsStep
<1>6. ASSUME NEW m \in 0 .. N - 1, m \in T PROVE m + 1 \in T
    <2>1. m + 1 \in 0 .. N /\ m \in 0 .. N /\ m + 1 \in 1 .. N
        BY <1>1
    <2>2. /\ a[m + 1] = a[m] + f[m + 1] /\ b[m + 1] = b[m] + g[m + 1]
          /\ c[m + 1] = c[m] + h[m + 1]
        BY <1>1, <1>2, <1>3, <1>4, SumsStep
    <2>3. f[m + 1] \in Int /\ g[m + 1] \in Int /\ h[m + 1] = f[m + 1] + g[m + 1]
        BY <1>1, <2>1
    <2>4. a[m] \in Int /\ b[m] \in Int /\ c[m] = a[m] + b[m]
        BY <1>6, <2>1
    <2>. QED
        BY <2>1, <2>2, <2>3, <2>4
<1>. HIDE DEF T, N
<1>7. N \in T
    <2>1. \A i \in 0 .. N : i \in T
        BY <1>1, <1>5, <1>6, CountingUp
    <2>. QED
        BY <1>1, <2>1
<1>. QED
    BY <1>2, <1>3, <1>4, <1>7 DEF T

LEMMA TotalNatural ==
    ASSUME NEW values \in Seq(Nat)
    PROVE  Total(values) \in Nat
<1> DEFINE N == Len(values)
<1>1. N \in Nat /\ values \in Seq(Int)
    OBVIOUS
<1>2. PICK a \in [0 .. N -> Int] : SumsUpTo(a, values, N) /\ Total(values) = a[N]
    BY <1>1, TotalRuns
<1> DEFINE T == {m \in 0 .. N : a[m] \in Nat}
<1>3. 0 \in T
    BY <1>1, <1>2, SumsStep
<1>4. ASSUME NEW m \in 0 .. N - 1, m \in T PROVE m + 1 \in T
    <2>1. m + 1 \in 0 .. N /\ m + 1 \in 1 .. N
        BY <1>1
    <2>2. a[m + 1] = a[m] + values[m + 1]
        BY <1>1, <1>2, SumsStep
    <2>3. values[m + 1] \in Nat
        BY <2>1
    <2>. QED
        BY <1>4, <2>1, <2>2, <2>3
<1>. HIDE DEF T, N
<1>5. N \in T
    <2>1. \A i \in 0 .. N : i \in T
        BY <1>1, <1>3, <1>4, CountingUp
    <2>. QED
        BY <1>1, <2>1
<1>. QED
    BY <1>2, <1>5 DEF T

LEMMA TotalAppend ==
    ASSUME NEW values \in Seq(Int), NEW x \in Int
    PROVE  Total(Append(values, x)) = Total(values) + x
<1> DEFINE N == Len(values)
           more == Append(values, x)
<1>1. /\ N \in Nat /\ more \in Seq(Int) /\ Len(more) = N + 1 /\ more[N + 1] = x
      /\ \A k \in 1 .. N : more[k] = values[k]
    OBVIOUS
<1>. HIDE DEF more
<1>2. PICK a \in [0 .. N -> Int] : SumsUpTo(a, values, N) /\ Total(values) = a[N]
    BY TotalRuns
<1>3. PICK b \in [0 .. N + 1 -> Int] : SumsUpTo(b, more, N + 1) /\ Total(more) = b[N + 1]
    BY <1>1, TotalRuns
<1> DEFINE T == {m \in 0 .. N : a[m] = b[m]}
<1>4. 0 \in T
    BY <1>1, <1>2, <1>3, SumsStep
<1>5. ASSUME NEW m \in 0 .. N - 1, m \in T PROVE m + 1 \in T
    <2>1. /\ m + 1 \in 0 .. N /\ m + 1 \in 1 .. N
          /\ m \in 0 .. (N + 1) - 1 /\ N + 1 \in Nat
        BY <1>1
    <2>2. a[m + 1] = a[m] + values[m + 1]
        BY <1>1, <1>2, SumsStep
    <2>3. b[m + 1] = b[m] + more[m + 1]
        BY <1>1, <1>3, <2>1, SumsStep
    <2>. QED
        BY <1>1, <1>5, <2>1, <2>2, <2>3
<1>. HIDE DEF T, N
<1>6. N \in T
    <2>1. \A i \in 0 .. N : i \in T
        BY <1>1, <1>4, <1>5, CountingUp
    <2>. QED
        BY <1>1, <2>1
<1>7. b[N + 1] = b[N] + x
    <2>1. N \in 0 .. (N + 1) - 1 /\ N + 1 \in Nat
        BY <1>1
    <2>. QED
        BY <1>1, <1>3, <2>1, SumsStep
<1>. QED
    BY <1>2, <1>3, <1>6, <1>7 DEF T, more

LEMMA TotalJoins ==
    ASSUME NEW s \in Seq(Int), NEW t \in Seq(Int)
    PROVE  Total(s \o t) = Total(s) + Total(t)
<1> DEFINE first(m) == SubSeq(t, 1, m)
           N == Len(t)
           T == {m \in 0 .. N : Total(s \o first(m)) = Total(s) + Total(first(m))}
<1>1. N \in Nat /\ Total(s) \in Int
    BY TotalTyped
<1>2. first(0) = << >> /\ first(N) = t /\ s \o << >> = s
    BY ConcatEmptySeq, SubSeqFull
<1>2a. Total(s) + Total(<< >>) = Total(s)
    BY <1>1, TotalNone
<1>3. \A m \in 0 .. N - 1 :
          /\ t[m + 1] \in Int /\ first(m) \in Seq(Int)
          /\ first(m + 1) = Append(first(m), t[m + 1])
    <2> SUFFICES ASSUME NEW m \in 0 .. N - 1
                 PROVE  /\ t[m + 1] \in Int /\ first(m) \in Seq(Int)
                        /\ first(m + 1) = Append(first(m), t[m + 1])
        OBVIOUS
    <2>. QED
        BY OneMoreOf
<1>. HIDE DEF first, N
<1>4. 0 \in T
    <2>1. Total(s \o first(0)) = Total(s) + Total(first(0))
        BY <1>2, <1>2a
    <2>2. 0 \in 0 .. N
        BY <1>1
    <2>. QED
        BY <2>1, <2>2
<1>5. ASSUME NEW m \in 0 .. N - 1, m \in T PROVE m + 1 \in T
    <2> DEFINE x == t[m + 1]
               f == first(m)
    <2>1. m + 1 \in 0 .. N
        BY <1>1
    <2>2. x \in Int /\ f \in Seq(Int) /\ first(m + 1) = Append(f, x)
        BY <1>3
    <2>3. Total(s \o f) = Total(s) + Total(f)
        BY <1>5
    <2>. HIDE DEF x, f
    <2>4. s \o Append(f, x) = Append(s \o f, x) /\ s \o f \in Seq(Int)
        BY <2>2, AppendLast
    <2>5. /\ Total(Append(s \o f, x)) = Total(s \o f) + x
          /\ Total(Append(f, x)) = Total(f) + x /\ Total(f) \in Int
        BY <2>2, <2>4, TotalAppend, TotalTyped
    <2>6. Total(s \o Append(f, x)) = Total(s) + Total(Append(f, x))
        <3>1. (Total(s) + Total(f)) + x = Total(s) + (Total(f) + x)
            BY <1>1, <2>2, <2>5
        <3>. QED
            BY <2>3, <2>4, <2>5, <3>1
    <2>7. Total(s \o first(m + 1)) = Total(s) + Total(first(m + 1))
        BY <2>2, <2>6
    <2>. QED
        BY <2>1, <2>7
<1>. HIDE DEF T
<1>6. N \in T
    <2>1. \A i \in 0 .. N : i \in T
        BY <1>1, <1>4, <1>5, CountingUp
    <2>. QED
        BY <1>1, <2>1
<1>. QED
    BY <1>2, <1>6 DEF T

-----------------------------------------------------------------------------
(* The walk over the oracles ends with prices that are amounts.            *)

Quotes(priced) == \A a \in DOMAIN priced : priced[a] \in Int

Unasked(assets) == [assets |-> assets, raised |-> FALSE, priced |-> [a \in {} |-> 0]]

Walked(walk) ==
    /\ DOMAIN walk = {"assets", "raised", "priced"}
    /\ Quotes(walk.priced)

WalksUpTo(walk, assets, oracles, m) ==
    /\ walk = [n \in 0 .. m |-> walk[n]]
    /\ \A n \in 0 .. m : walk[n] = IF n = 0 THEN Unasked(assets)
                                   ELSE Asked(walk[n - 1], oracles[n])

OracleWalk(assets, oracles) ==
    CHOOSE walk : walk = [n \in 0 .. Len(oracles) |->
        IF n = 0 THEN [assets |-> assets, raised |-> FALSE, priced |-> [a \in {} |-> 0]]
        ELSE Asked(walk[n - 1], oracles[n])]

LEMMA AskedKeeps ==
    ASSUME NEW walk, Walked(walk), NEW oracle, Quotes(oracle.quotes)
    PROVE  Walked(Asked(walk, oracle))
<1> DEFINE answered == (walk.assets \ DOMAIN walk.priced) \cap DOMAIN oracle.quotes
           more == [a \in DOMAIN walk.priced \cup answered |->
                       IF a \in answered THEN oracle.quotes[a] ELSE walk.priced[a]]
<1>1. Quotes(more)
    BY DEF Walked, Quotes
<1>. HIDE DEF more
<1>2. \/ Asked(walk, oracle) = walk
      \/ Asked(walk, oracle) = [walk EXCEPT !.raised = TRUE]
      \/ Asked(walk, oracle) = [walk EXCEPT !.priced = more]
    BY DEF Asked, more
<1>3. DOMAIN walk = {"assets", "raised", "priced"} /\ Quotes(walk.priced)
    BY DEF Walked
<1>4. /\ DOMAIN [walk EXCEPT !.raised = TRUE] = DOMAIN walk
      /\ [walk EXCEPT !.raised = TRUE].priced = walk.priced
      /\ DOMAIN [walk EXCEPT !.priced = more] = DOMAIN walk
      /\ [walk EXCEPT !.priced = more].priced = more
    BY <1>3
<1>. QED
    BY <1>1, <1>2, <1>3, <1>4 DEF Walked

LEMMA WalkOneMore ==
    ASSUME NEW assets, NEW oracles, NEW m \in Nat, NEW f, WalksUpTo(f, assets, oracles, m)
    PROVE  \E g : WalksUpTo(g, assets, oracles, m + 1)
<1> DEFINE last == Asked(f[m], oracles[m + 1])
           g == [n \in 0 .. m + 1 |-> IF n = m + 1 THEN last ELSE f[n]]
<1>. HIDE DEF last
<1>1. /\ g = [n \in 0 .. m + 1 |-> g[n]]
      /\ g[m + 1] = last /\ \A n \in 0 .. m : g[n] = f[n]
    OBVIOUS
<1>. HIDE DEF g
<1>2. ASSUME NEW n \in 0 .. m + 1
      PROVE  g[n] = IF n = 0 THEN Unasked(assets) ELSE Asked(g[n - 1], oracles[n])
    <2>1. CASE n = m + 1
        <3>1. n # 0 /\ n - 1 = m /\ m \in 0 .. m
            BY <2>1
        <3>. QED
            BY <1>1, <2>1, <3>1 DEF last
    <2>2. CASE n \in 0 .. m
        <3>1. f[n] = IF n = 0 THEN Unasked(assets) ELSE Asked(f[n - 1], oracles[n])
            BY <2>2 DEF WalksUpTo
        <3>2. n # 0 => n - 1 \in 0 .. m
            BY <2>2
        <3>. QED
            BY <1>1, <2>2, <3>1, <3>2
    <2>. QED
        BY <2>1, <2>2
<1>. QED
    BY <1>1, <1>2 DEF WalksUpTo

LEMMA UsdPricesQuote ==
    ASSUME NEW assets, NEW oracles, Len(oracles) \in Nat,
           \A k \in 1 .. Len(oracles) : Quotes(oracles[k].quotes)
    PROVE  Quotes(UsdPrices(assets, oracles).priced)
<1> DEFINE N == Len(oracles)
           T == {m \in 0 .. N : \E f : WalksUpTo(f, assets, oracles, m)}
<1>1. 0 \in T
    <2> DEFINE f == [n \in 0 .. 0 |-> Unasked(assets)]
    <2>1. WalksUpTo(f, assets, oracles, 0)
        BY DEF WalksUpTo
    <2>. HIDE DEF f
    <2>. QED
        BY <2>1
<1>2. ASSUME NEW m \in 0 .. N - 1, m \in T PROVE m + 1 \in T
    <2>1. PICK f : WalksUpTo(f, assets, oracles, m)
        BY <1>2
    <2>2. \E g : WalksUpTo(g, assets, oracles, m + 1)
        BY <2>1, WalkOneMore
    <2>. QED
        BY <2>2
<1>3. N \in T
    <2>. HIDE DEF T, N
    <2>0. N \in Nat
        BY DEF N
    <2>1. \A i \in 0 .. N : i \in T
        BY <1>1, <1>2, <2>0, CountingUp
    <2>. QED
        BY <2>0, <2>1
<1>4. PICK f : WalksUpTo(f, assets, oracles, N)
    BY <1>3
<1>5. f = [n \in 0 .. Len(oracles) |->
        IF n = 0 THEN [assets |-> assets, raised |-> FALSE, priced |-> [a \in {} |-> 0]]
        ELSE Asked(f[n - 1], oracles[n])]
    BY <1>4 DEF WalksUpTo, Unasked
<1> DEFINE walk == OracleWalk(assets, oracles)
<1>6. walk = [n \in 0 .. Len(oracles) |->
        IF n = 0 THEN [assets |-> assets, raised |-> FALSE, priced |-> [a \in {} |-> 0]]
        ELSE Asked(walk[n - 1], oracles[n])]
    BY <1>5, Zenon DEF OracleWalk
<1>7. UsdPrices(assets, oracles) = walk[N]
    BY Zenon DEF UsdPrices, OracleWalk
<1>. HIDE DEF walk, T
<1> DEFINE I == {m \in 0 .. N : Walked(walk[m])}
<1>8. 0 \in I
    <2>1. walk[0] = Unasked(assets)
        BY <1>6 DEF Unasked
    <2>2. Walked(Unasked(assets))
        BY DEF Walked, Unasked, Quotes
    <2>. QED
        BY <2>1, <2>2
<1>9. ASSUME NEW m \in 0 .. N - 1, m \in I PROVE m + 1 \in I
    <2>1. m + 1 \in 1 .. N /\ m + 1 \in 0 .. N /\ m + 1 # 0 /\ (m + 1) - 1 = m
        OBVIOUS
    <2>2. walk[m + 1] = Asked(walk[m], oracles[m + 1])
        BY <1>6, <2>1
    <2>3. Quotes(oracles[m + 1].quotes)
        BY <2>1
    <2>. QED
        BY <1>9, <2>1, <2>2, <2>3, AskedKeeps
<1>10. N \in I
    <2>. HIDE DEF I, N
    <2>0. N \in Nat
        BY DEF N
    <2>1. \A i \in 0 .. N : i \in I
        BY <1>8, <1>9, <2>0, CountingUp
    <2>. QED
        BY <2>0, <2>1
<1>. QED
    BY <1>7, <1>10 DEF Walked

-----------------------------------------------------------------------------
(* What underlyings are worth. *)

PricedUnderlyings(priced) == {u \in UnderlyingStates : u.asset \in DOMAIN priced}

PricedPositions(priced) ==
    [adapter : ToSet(Order), id : Names \X Nat, group : Names, info : Seq(Nat),
     underlyings : Seq(PricedUnderlyings(priced))]

ValueList(all, priced) == [k \in DOMAIN all |-> Valued(all[k], priced)]

Worth(positions, priced) == Total(Values(positions, priced))

LEMMA ValuedTyped ==
    ASSUME NEW priced, Quotes(priced), NEW u \in PricedUnderlyings(priced)
    PROVE  /\ Valued(u, priced) \in Int
           /\ (IF u.borrowed THEN -u.quantity ELSE u.quantity) * priced[u.asset]
                  = Valued(u, priced)
<1>1. u.quantity \in Int /\ priced[u.asset] \in Int
    BY DEF PricedUnderlyings, UnderlyingStates, Quotes
<1>2. \A q, p \in Int : q * p \in Int /\ (-1) * (q * p) \in Int /\ 1 * (q * p) \in Int
    OBVIOUS
<1>3. \A q, p \in Int : (-q) * p = (-1) * (q * p) /\ q * p = 1 * (q * p)
    OBVIOUS
<1>. QED
    BY <1>1, <1>2, <1>3 DEF Valued

LEMMA ValueListTyped ==
    ASSUME NEW priced, Quotes(priced), NEW all \in Seq(PricedUnderlyings(priced))
    PROVE  ValueList(all, priced) \in Seq(Int) /\ Len(ValueList(all, priced)) = Len(all)
<1>1. \A k \in 1 .. Len(all) : Valued(all[k], priced) \in Int
    BY ValuedTyped
<1>. QED
    BY <1>1 DEF ValueList

LEMMA ValueListJoins ==
    ASSUME NEW priced, Quotes(priced), NEW s \in Seq(PricedUnderlyings(priced)),
           NEW t \in Seq(PricedUnderlyings(priced))
    PROVE  ValueList(s \o t, priced) = ValueList(s, priced) \o ValueList(t, priced)
<1> DEFINE value(u) == Valued(u, priced)
           U == PricedUnderlyings(priced)
<1>1. \A u \in U : value(u) \in Int
    BY ValuedTyped
<1>2. /\ ValueList(s, priced) = [k \in 1 .. Len(s) |-> value(s[k])]
      /\ ValueList(t, priced) = [k \in 1 .. Len(t) |-> value(t[k])]
      /\ ValueList(s \o t, priced) = [k \in 1 .. Len(s) + Len(t) |-> value((s \o t)[k])]
    BY DEF ValueList
<1>. HIDE DEF value, U
<1> DEFINE a == [k \in 1 .. Len(s) |-> value(s[k])]
           b == [k \in 1 .. Len(t) |-> value(t[k])]
           c == [k \in 1 .. Len(s) + Len(t) |-> value((s \o t)[k])]
<1>3. s \in Seq(U) /\ t \in Seq(U)
    BY DEF U
<1>4. a \in Seq(Int) /\ b \in Seq(Int) /\ Len(a) = Len(s) /\ Len(b) = Len(t)
    BY <1>1, <1>3
<1>5. \A k \in 1 .. Len(s) + Len(t) : c[k] = (a \o b)[k]
    <2> SUFFICES ASSUME NEW k \in 1 .. Len(s) + Len(t) PROVE c[k] = (a \o b)[k]
        OBVIOUS
    <2>1. c[k] = value((s \o t)[k])
        OBVIOUS
    <2>2. CASE k <= Len(s)
        <3>1. k \in 1 .. Len(s) /\ (s \o t)[k] = s[k] /\ a[k] = value(s[k])
            BY <1>3, <2>2
        <3>. HIDE DEF a, b, c
        <3>2. (a \o b)[k] = a[k]
            BY <1>3, <1>4, <3>1
        <3>. QED
            BY <2>1, <3>1, <3>2
    <2>3. CASE k > Len(s)
        <3>1. /\ k - Len(s) \in 1 .. Len(t) /\ (s \o t)[k] = t[k - Len(s)]
              /\ b[k - Len(s)] = value(t[k - Len(s)])
            BY <1>3, <2>3
        <3>. HIDE DEF a, b, c
        <3>2. (a \o b)[k] = b[k - Len(s)]
            BY <1>3, <1>4, <2>3
        <3>. QED
            BY <2>1, <3>1, <3>2
    <2>. QED
        BY <1>3, <2>2, <2>3
<1>6. c = a \o b
    <2>1. /\ Len(s) + Len(t) \in Nat /\ a \o b \in Seq(Int)
          /\ Len(a \o b) = Len(s) + Len(t)
        BY <1>3, <1>4
    <2>2. \A k \in 1 .. Len(s) + Len(t) : c[k] \in Int
        BY <1>5, <2>1
    <2>3. c \in Seq(Int) /\ Len(c) = Len(s) + Len(t)
        BY <2>1, <2>2
    <2>. HIDE DEF a, b, c
    <2>. QED
        BY <1>5, <2>1, <2>3, SeqEqual
<1>. QED
    BY <1>2, <1>6

LEMMA UnderlyingLists ==
    ASSUME NEW priced, NEW positions \in Seq(PricedPositions(priced))
    PROVE  /\ [k \in DOMAIN positions |-> positions[k].underlyings]
                  \in Seq(Seq(PricedUnderlyings(priced)))
           /\ Underlyings(positions) \in Seq(PricedUnderlyings(priced))
<1> DEFINE lists == [k \in DOMAIN positions |-> positions[k].underlyings]
           U == PricedUnderlyings(priced)
<1>1. ASSUME NEW k \in 1 .. Len(positions) PROVE positions[k].underlyings \in Seq(U)
    <2>1. positions[k] \in PricedPositions(priced)
        BY ElementOfSeq
    <2>. QED
        BY <2>1 DEF PricedPositions
<1>. HIDE DEF U
<1>2. lists \in Seq(Seq(U))
    <2>1. DOMAIN positions = 1 .. Len(positions) /\ Len(positions) \in Nat
        OBVIOUS
    <2>. QED
        BY <1>1, <2>1
<1>3. Underlyings(positions) = FlattenSeq(lists)
    BY DEF Underlyings
<1>. HIDE DEF lists
<1>4. FlattenSeq(lists) \in Seq(U)
    BY <1>2, FlattenTyped
<1>. QED
    BY <1>2, <1>3, <1>4 DEF lists, U

LEMMA WorthTyped ==
    ASSUME NEW priced, Quotes(priced), NEW positions \in Seq(PricedPositions(priced))
    PROVE  Worth(positions, priced) \in Int /\ Values(positions, priced) \in Seq(Int)
<1>1. Values(positions, priced) = ValueList(Underlyings(positions), priced)
    BY DEF Values, ValueList
<1>2. Values(positions, priced) \in Seq(Int)
    BY <1>1, UnderlyingLists, ValueListTyped
<1>. QED
    BY <1>2, TotalTyped DEF Worth

LEMMA WorthNone ==
    ASSUME NEW priced, Quotes(priced)
    PROVE  Worth(<< >>, priced) = 0
<1>1. [k \in DOMAIN << >> |-> << >>[k].underlyings] = << >>
    OBVIOUS
<1>2. Underlyings(<< >>) = << >>
    BY <1>1, FlattenNone DEF Underlyings
<1>3. Values(<< >>, priced) = << >>
    BY <1>2 DEF Values
<1>. QED
    BY <1>3, TotalNone DEF Worth

(* One more position adds what its underlyings are worth.                  *)
LEMMA WorthAppend ==
    ASSUME NEW priced, Quotes(priced), NEW positions \in Seq(PricedPositions(priced)),
           NEW p \in PricedPositions(priced)
    PROVE  Worth(Append(positions, p), priced)
               = Worth(positions, priced) + Total(ValueList(p.underlyings, priced))
<1> DEFINE U == PricedUnderlyings(priced)
           lists == [k \in DOMAIN positions |-> positions[k].underlyings]
           more == Append(positions, p)
           N == Len(positions)
<1>1. lists \in Seq(Seq(U)) /\ p.underlyings \in Seq(U)
    BY UnderlyingLists DEF PricedPositions
<1>2. [k \in DOMAIN more |-> more[k].underlyings] = Append(lists, p.underlyings)
    <2>1. /\ N \in Nat /\ DOMAIN more = 1 .. N + 1 /\ DOMAIN positions = 1 .. N
          /\ more[N + 1] = p /\ \A k \in 1 .. N : more[k] = positions[k]
        OBVIOUS
    <2>2. Len(lists) = N /\ \A k \in 1 .. N : lists[k] = positions[k].underlyings
        BY <2>1
    <2>. HIDE DEF more, lists, N
    <2> DEFINE a == [k \in 1 .. N + 1 |-> more[k].underlyings]
    <2>3. /\ Append(lists, p.underlyings) \in Seq(Seq(U))
          /\ Len(Append(lists, p.underlyings)) = N + 1
          /\ Append(lists, p.underlyings)[N + 1] = p.underlyings
          /\ \A k \in 1 .. N : Append(lists, p.underlyings)[k] = lists[k]
        BY <1>1, <2>1, <2>2
    <2>4. \A k \in 1 .. N + 1 : a[k] = Append(lists, p.underlyings)[k]
        BY <2>1, <2>2, <2>3
    <2>5. \A k \in 1 .. N + 1 : a[k] \in Seq(U)
        BY <2>1, <2>3, <2>4
    <2>6. a \in Seq(Seq(U)) /\ Len(a) = N + 1
        BY <2>1, <2>5
    <2>. HIDE DEF a
    <2>7. a = Append(lists, p.underlyings)
        BY <2>3, <2>4, <2>6, SeqEqual
    <2>. QED
        BY <2>1, <2>7 DEF a
<1>3. Underlyings(more) = Underlyings(positions) \o p.underlyings
    <2>. HIDE DEF more
    <2>1. Underlyings(more) = FlattenSeq(Append(lists, p.underlyings))
        BY <1>2 DEF Underlyings
    <2>2. Underlyings(positions) = FlattenSeq(lists)
        BY DEF Underlyings
    <2>. HIDE DEF lists, U
    <2>. QED
        BY <1>1, <2>1, <2>2, FlattenAppend
<1>4. Underlyings(positions) \in Seq(U)
    BY UnderlyingLists
<1> DEFINE a == ValueList(Underlyings(positions), priced)
           b == ValueList(p.underlyings, priced)
<1>5. ValueList(Underlyings(more), priced) = a \o b
    <2>. HIDE DEF more
    <2>. QED
        BY <1>1, <1>3, <1>4, ValueListJoins
<1>6. Values(positions, priced) = a /\ Values(more, priced) = a \o b
    <2>. HIDE DEF more
    <2>. QED
        BY <1>5 DEF Values, ValueList
<1>7. a \in Seq(Int) /\ b \in Seq(Int)
    BY <1>1, <1>4, ValueListTyped
<1>. HIDE DEF a, b, more
<1>8. Total(a \o b) = Total(a) + Total(b)
    BY <1>7, TotalJoins
<1>. QED
    BY <1>6, <1>8 DEF Worth, b, more

-----------------------------------------------------------------------------
(* Groups.                                                                 *)

LEMMA MembersTyped ==
    ASSUME NEW P, NEW positions \in Seq(P), NEW g
    PROVE  Members(positions, g) \in Seq(P)
<1> DEFINE lists == [k \in DOMAIN positions |->
                        IF positions[k].group = g THEN <<positions[k]>> ELSE << >>]
<1> DEFINE one(k) == IF positions[k].group = g THEN <<positions[k]>> ELSE << >>
<1>1. \A k \in 1 .. Len(positions) : one(k) \in Seq(P)
    OBVIOUS
<1>. HIDE DEF one
<1>2. [k \in 1 .. Len(positions) |-> one(k)] \in Seq(Seq(P))
    BY <1>1
<1>2a. lists = [k \in 1 .. Len(positions) |-> one(k)]
    BY DEF one
<1>3. Members(positions, g) = FlattenSeq(lists)
    BY DEF Members
<1>. HIDE DEF lists
<1>. QED
    BY <1>2, <1>2a, <1>3, FlattenTyped

LEMMA MembersNone ==
    ASSUME NEW g
    PROVE  Members(<< >>, g) = << >>
<1>1. [k \in DOMAIN << >> |-> IF << >>[k].group = g THEN << << >>[k]>> ELSE << >>] = << >>
    OBVIOUS
<1>. QED
    BY <1>1, FlattenNone DEF Members

LEMMA MembersAppend ==
    ASSUME NEW P, NEW positions \in Seq(P), NEW p \in P, NEW g
    PROVE  Members(Append(positions, p), g)
               = IF p.group = g THEN Append(Members(positions, g), p) ELSE Members(positions, g)
<1> DEFINE one(x) == IF x.group = g THEN <<x>> ELSE << >>
           lists == [k \in DOMAIN positions |-> one(positions[k])]
           more == Append(positions, p)
           N == Len(positions)
<1>0. \A x \in P : one(x) \in Seq(P)
    OBVIOUS
<1>1. one(p) = (IF p.group = g THEN <<p>> ELSE << >>)
    OBVIOUS
<1>2. /\ Members(positions, g) = FlattenSeq(lists)
      /\ Members(more, g) = FlattenSeq([k \in DOMAIN more |-> one(more[k])])
    BY DEF Members
<1>. HIDE DEF one
<1>3. lists \in Seq(Seq(P)) /\ one(p) \in Seq(P)
    <2>1. DOMAIN positions = 1 .. N /\ N \in Nat
        OBVIOUS
    <2>2. \A k \in 1 .. N : one(positions[k]) \in Seq(P)
        BY <1>0
    <2>. HIDE DEF N
    <2>. QED
        BY <1>0, <2>1, <2>2
<1>4. [k \in DOMAIN more |-> one(more[k])] = Append(lists, one(p))
    <2>1. /\ N \in Nat /\ DOMAIN more = 1 .. N + 1 /\ DOMAIN positions = 1 .. N
          /\ more[N + 1] = p /\ \A k \in 1 .. N : more[k] = positions[k]
        OBVIOUS
    <2>2. Len(lists) = N /\ \A k \in 1 .. N : lists[k] = one(positions[k])
        BY <2>1
    <2>. HIDE DEF more, lists, N
    <2> DEFINE a == [k \in 1 .. N + 1 |-> one(more[k])]
    <2>3. /\ Append(lists, one(p)) \in Seq(Seq(P))
          /\ Len(Append(lists, one(p))) = N + 1
          /\ Append(lists, one(p))[N + 1] = one(p)
          /\ \A k \in 1 .. N : Append(lists, one(p))[k] = lists[k]
        BY <1>3, <2>1, <2>2
    <2>4. \A k \in 1 .. N + 1 : a[k] = Append(lists, one(p))[k]
        BY <2>1, <2>2, <2>3
    <2>5. \A k \in 1 .. N + 1 : a[k] \in Seq(P)
        BY <2>1, <2>3, <2>4
    <2>6. a \in Seq(Seq(P)) /\ Len(a) = N + 1
        BY <2>1, <2>5
    <2>. HIDE DEF a
    <2>7. a = Append(lists, one(p))
        BY <2>3, <2>4, <2>6, SeqEqual
    <2>. QED
        BY <2>1, <2>7 DEF a
<1>. HIDE DEF lists, more
<1>5. Members(more, g) = Members(positions, g) \o one(p)
    BY <1>2, <1>3, <1>4, FlattenAppend
<1>6. Members(positions, g) \in Seq(P)
    BY MembersTyped
<1>. QED
    BY <1>1, <1>5, <1>6 DEF more

(* A finite sum of which one figure changes.                               *)
LEMMA SumZeroes ==
    ASSUME NEW S, IsFiniteSet(S), NEW f, \A x \in S : f[x] = 0
    PROVE  SumFunctionOnSet(f, S) = 0
<1>1. IsPointwiseSum(f, f, f, S)
    BY DEF IsPointwiseSum
<1> DEFINE sum == SumFunctionOnSet(f, S)
<1>2. sum = sum + sum
    BY <1>1, SumPlus
<1>3. sum \in Int
    <2>1. \A x \in S : f[x] \in Int
        OBVIOUS
    <2>. QED
        BY <2>1, SumInteger
<1>. HIDE DEF sum
<1>4. sum = 0
    BY <1>2, <1>3
<1>. QED
    BY <1>4 DEF sum

LEMMA SumChanges ==
    ASSUME NEW S, IsFiniteSet(S), NEW f, \A x \in S : f[x] \in Int, NEW h, NEW y \in S,
           NEW more \in Int, h[y] = f[y] + more, \A x \in S \ {y} : h[x] = f[x]
    PROVE  SumFunctionOnSet(h, S) = SumFunctionOnSet(f, S) + more
<1> DEFINE R == S \ {y}
<1>1. IsFiniteSet(R) /\ (\A x \in S : h[x] \in Int) /\ f[y] \in Int
    <2>1. \A x \in S : h[x] \in Int
        <3>1. f[y] + more \in Int
            OBVIOUS
        <3>. QED
            BY <3>1
    <2>. QED
        BY <2>1, FS_Subset
<1>2. /\ SumFunctionOnSet(f, S) = f[y] + SumFunctionOnSet(f, R)
      /\ SumFunctionOnSet(h, S) = h[y] + SumFunctionOnSet(h, R)
    BY <1>1, SumTakes
<1>3. SumFunctionOnSet(h, R) = SumFunctionOnSet(f, R)
    <2>1. \A x \in R : f[x] \in Int /\ h[x] = f[x]
        OBVIOUS
    <2>. QED
        BY <1>1, <2>1, SumSame
<1>4. SumFunctionOnSet(f, R) \in Int
    <2>1. \A x \in R : f[x] \in Int
        OBVIOUS
    <2>. QED
        BY <1>1, <2>1, SumInteger
<1>. HIDE DEF R
<1>. QED
    BY <1>1, <1>2, <1>3, <1>4

(* Every position is in one group: the groups are worth what they all are. *)
LEMMA GroupsAddUp ==
    ASSUME NEW priced, Quotes(priced), NEW positions \in Seq(PricedPositions(priced)),
           NEW totals, totals = [g \in Groups(positions) |-> GroupTotal(positions, g, priced)]
    PROVE  SumFunctionOnSet(totals, DOMAIN totals) = Worth(positions, priced)
<1> DEFINE P == PricedPositions(priced)
           G == Groups(positions)
           N == Len(positions)
           first(m) == SubSeq(positions, 1, m)
           f(m) == [g \in G |-> Worth(Members(first(m), g), priced)]
           T == {m \in 0 .. N : SumFunctionOnSet(f(m), G) = Worth(first(m), priced)}
<1>1. N \in Nat /\ positions \in Seq(P)
    OBVIOUS
<1>2. IsFiniteSet(G)
    <2>1. IsFiniteSet(1 .. N) /\ G = {positions[k].group : k \in 1 .. N}
        <3>1. DOMAIN positions = 1 .. N /\ 0 + 1 \in Int
            BY <1>1
        <3>. QED
            BY <1>1, <3>1, FS_Interval DEF Groups
    <2> DEFINE h == [k \in 1 .. N |-> positions[k].group]
    <2>2. h \in Surjection(1 .. N, G)
        BY <2>1 DEF Surjection
    <2>. HIDE DEF h, G
    <2>. QED
        BY <2>1, <2>2, FS_Surjection
<1>3. first(0) = << >> /\ first(N) = positions
    BY SubSeqFull
<1>4. ASSUME NEW m \in 0 .. N - 1
      PROVE  /\ positions[m + 1] \in P /\ first(m) \in Seq(P)
             /\ first(m + 1) = Append(first(m), positions[m + 1])
             /\ positions[m + 1].group \in G
    <2>1. m + 1 \in DOMAIN positions
        BY <1>1
    <2>. QED
        BY <1>1, <2>1, OneMoreOf DEF Groups
<1>. HIDE DEF first, N, P
<1>5. 0 \in T
    <2>1. \A g \in G : f(0)[g] = 0
        BY <1>3, MembersNone, WorthNone
    <2>2. SumFunctionOnSet(f(0), G) = 0
        <3>. HIDE DEF f
        <3>. QED
            BY <1>2, <2>1, SumZeroes
    <2>3. Worth(first(0), priced) = 0 /\ 0 \in 0 .. N
        BY <1>1, <1>3, WorthNone
    <2>. QED
        BY <2>2, <2>3
<1>6. ASSUME NEW m \in 0 .. N - 1, m \in T PROVE m + 1 \in T
    <2> DEFINE p == positions[m + 1]
               s == first(m)
               x == Total(ValueList(p.underlyings, priced))
    <2>1. p \in P /\ s \in Seq(P) /\ first(m + 1) = Append(s, p) /\ p.group \in G
        BY <1>4
    <2>2. p.underlyings \in Seq(PricedUnderlyings(priced))
        BY <2>1 DEF PricedPositions, P
    <2>3. x \in Int
        BY <2>2, ValueListTyped, TotalTyped
    <2>4. SumFunctionOnSet(f(m), G) = Worth(s, priced)
        BY <1>6
    <2>. HIDE DEF p, s
    <2>5. Worth(Append(s, p), priced) = Worth(s, priced) + x
        BY <2>1, WorthAppend DEF P
    <2>. HIDE DEF x
    <2>6. \A g \in G : f(m)[g] \in Int
        <3>1. \A g \in G : Worth(Members(s, g), priced) \in Int
            BY <2>1, MembersTyped, WorthTyped DEF P
        <3>. QED
            BY <3>1 DEF s
    <2>7. f(m + 1)[p.group] = f(m)[p.group] + x
        <3>1. Members(Append(s, p), p.group) = Append(Members(s, p.group), p)
            BY <2>1, MembersAppend
        <3>2. Members(s, p.group) \in Seq(P)
            BY <2>1, MembersTyped
        <3>3. Worth(Append(Members(s, p.group), p), priced)
                  = Worth(Members(s, p.group), priced) + x
            BY <2>1, <3>2, WorthAppend DEF P, x
        <3>. QED
            BY <2>1, <3>1, <3>3 DEF s
    <2>8. \A g \in G \ {p.group} : f(m + 1)[g] = f(m)[g]
        <3>1. \A g \in G \ {p.group} : Members(Append(s, p), g) = Members(s, g)
            BY <2>1, MembersAppend
        <3>. QED
            BY <2>1, <3>1 DEF s
    <2>9. SumFunctionOnSet(f(m + 1), G) = SumFunctionOnSet(f(m), G) + x
        <3> DEFINE a == f(m)
                   b == f(m + 1)
                   g0 == p.group
        <3>1. /\ IsFiniteSet(G) /\ g0 \in G /\ x \in Int /\ b[g0] = a[g0] + x
              /\ (\A g \in G : a[g] \in Int) /\ \A g \in G \ {g0} : b[g] = a[g]
            BY <1>2, <2>1, <2>3, <2>6, <2>7, <2>8
        <3>. HIDE DEF a, b, g0, G, f
        <3>2. SumFunctionOnSet(b, G) = SumFunctionOnSet(a, G) + x
            BY <3>1, SumChanges
        <3>. QED
            BY <3>2 DEF a, b
    <2>10. m + 1 \in 0 .. N
        BY <1>1
    <2>. HIDE DEF f
    <2>. QED
        BY <2>1, <2>4, <2>5, <2>9, <2>10
<1>7. N \in T
    <2>. HIDE DEF T
    <2>1. \A i \in 0 .. N : i \in T
        BY <1>1, <1>5, <1>6, CountingUp
    <2>. QED
        BY <1>1, <2>1
<1>8. f(N) = totals
    BY <1>3 DEF GroupTotal, Worth
<1>9. DOMAIN totals = G
    OBVIOUS
<1>. HIDE DEF f
<1>. QED
    BY <1>3, <1>7, <1>8, <1>9

-----------------------------------------------------------------------------
(* The drill.                                                              *)

AddsUp(positions, priced, drilled) ==
    LET synthetic == SyntheticHoldings(positions, priced) IN
    /\ drilled.net_worth = Total([k \in DOMAIN synthetic |-> synthetic[k].value])
    /\ drilled.net_worth = SumFunctionOnSet(drilled.groups, DOMAIN drilled.groups)
    /\ drilled.gross_assets >= 0 /\ drilled.total_debt >= 0

(* What can be drilled into is priced.                                     *)
LEMMA DrillablePriced ==
    ASSUME NEW priced, NEW positions \in Seq(PositionsOf(ToSet(Order))),
           Drillable(positions, priced)
    PROVE  positions \in Seq(PricedPositions(priced))
<1> DEFINE lists == [k \in DOMAIN positions |-> positions[k].underlyings]
           P == PositionsOf(ToSet(Order))
           N == Len(positions)
           U == UnderlyingStates
<1>1. N \in Nat /\ DOMAIN positions = 1 .. N /\ \A k \in 1 .. N : positions[k] \in P
    OBVIOUS
<1>2. \A k \in 1 .. N : positions[k].underlyings \in Seq(U)
    <2>. HIDE DEF N, U
    <2>. QED
        BY <1>1 DEF PositionsOf, U
<1>3. lists \in Seq(Seq(U)) /\ Len(lists) = N /\ \A k \in 1 .. N : lists[k] = positions[k].underlyings
    <2>. HIDE DEF N, U
    <2>. QED
        BY <1>1, <1>2
<1>4. \A i \in DOMAIN FlattenSeq(lists) : FlattenSeq(lists)[i].asset \in DOMAIN priced
    BY Zenon DEF Drillable, Underlyings
<1>. HIDE DEF lists
<1>5. FlattenSeq(lists) \in Seq(U)
    BY <1>3, FlattenTyped
<1>6. ASSUME NEW k \in 1 .. N
      PROVE  positions[k].underlyings \in Seq(PricedUnderlyings(priced))
    <2>1. ASSUME NEW j \in 1 .. Len(lists[k]) PROVE lists[k][j].asset \in DOMAIN priced
        <3>1. PICK i \in 1 .. Len(FlattenSeq(lists)) : FlattenSeq(lists)[i] = lists[k][j]
            BY <1>3, FlattenCovers
        <3>2. i \in DOMAIN FlattenSeq(lists)
            BY <1>5
        <3>. QED
            BY <1>4, <3>1, <3>2
    <2>2. lists[k] \in Seq(U)
        BY <1>2, <1>3
    <2>3. \A j \in 1 .. Len(lists[k]) : lists[k][j] \in PricedUnderlyings(priced)
        BY <2>1, <2>2 DEF PricedUnderlyings
    <2>4. lists[k] \in Seq(PricedUnderlyings(priced))
        BY <2>2, <2>3
    <2>. QED
        BY <1>3, <2>4
<1>. HIDE DEF U
<1>7. ASSUME NEW k \in 1 .. N PROVE positions[k] \in PricedPositions(priced)
    <2>1. positions[k] \in P /\ positions[k].underlyings \in Seq(PricedUnderlyings(priced))
        BY <1>1, <1>6
    <2> DEFINE p == positions[k]
    <2>. HIDE DEF p
    <2>2. p \in P /\ p.underlyings \in Seq(PricedUnderlyings(priced))
        BY <2>1 DEF p
    <2>3. p \in PricedPositions(priced)
        BY <2>2 DEF PositionsOf, PricedPositions
    <2>. QED
        BY <2>3 DEF p
<1>. QED
    BY <1>1, <1>7

LEMMA DrillAddsUp ==
    ASSUME NEW priced, Quotes(priced), NEW positions \in Seq(PricedPositions(priced))
    PROVE  AddsUp(positions, priced, Drill(positions, priced))
<1> DEFINE all == Underlyings(positions)
           values == Values(positions, priced)
           owned == [k \in DOMAIN values |-> IF values[k] < 0 THEN 0 ELSE values[k]]
           owed == [k \in DOMAIN values |-> IF values[k] < 0 THEN -values[k] ELSE 0]
           drilled == Drill(positions, priced)
           N == Len(values)
<1>1. values \in Seq(Int)
    BY WorthTyped
<1>2. all \in Seq(PricedUnderlyings(priced)) /\ Len(values) = Len(all) /\ values = ValueList(all, priced)
    <2>1. all \in Seq(PricedUnderlyings(priced))
        BY UnderlyingLists
    <2>2. values = ValueList(all, priced)
        BY DEF Values, ValueList
    <2>. HIDE DEF all, values
    <2>. QED
        BY <2>1, <2>2, ValueListTyped
<1>3. /\ drilled.net_worth = Total(owned) - Total(owed)
      /\ drilled.gross_assets = Total(owned) /\ drilled.total_debt = Total(owed)
      /\ drilled.groups = [g \in Groups(positions) |-> GroupTotal(positions, g, priced)]
    BY DEF Drill
<1>4. SumFunctionOnSet(drilled.groups, DOMAIN drilled.groups) = Total(values)
    <2>1. Total(values) = Worth(positions, priced)
        BY DEF Worth
    <2> DEFINE totals == drilled.groups
    <2>2. totals = [g \in Groups(positions) |-> GroupTotal(positions, g, priced)]
        BY <1>3
    <2>. HIDE DEF totals
    <2>3. SumFunctionOnSet(totals, DOMAIN totals) = Worth(positions, priced)
        BY <2>2, GroupsAddUp
    <2>. QED
        BY <2>1, <2>3 DEF totals
<1>5. ASSUME NEW k \in 1 .. N
      PROVE  /\ SyntheticHoldings(positions, priced)[k].value = values[k]
    <2>1. /\ SyntheticHoldings(positions, priced)[k].value
                 = (IF all[k].borrowed THEN -all[k].quantity ELSE all[k].quantity)
                       * priced[all[k].asset]
          /\ values[k] = Valued(all[k], priced)
        BY <1>1, <1>2 DEF SyntheticHoldings, Values
    <2>2. all[k] \in PricedUnderlyings(priced)
        BY <1>2
    <2>. HIDE DEF all, values
    <2>. QED
        BY <2>1, <2>2, ValuedTyped
<1> DEFINE synthetic == SyntheticHoldings(positions, priced)
<1>6. [k \in DOMAIN synthetic |-> synthetic[k].value] = values
    <2>1. DOMAIN synthetic = 1 .. N /\ N \in Nat
        BY <1>1, <1>2 DEF SyntheticHoldings
    <2>. HIDE DEF synthetic, values, N
    <2> DEFINE a == [k \in 1 .. N |-> synthetic[k].value]
    <2>2. \A k \in 1 .. N : a[k] = values[k]
        BY <1>5 DEF synthetic
    <2>3. N = Len(values)
        BY DEF N
    <2>4. a \in Seq(Int) /\ Len(a) = N
        BY <1>1, <2>1, <2>2, <2>3
    <2>. HIDE DEF a
    <2>5. a = values
        BY <1>1, <2>2, <2>3, <2>4, SeqEqual
    <2>. QED
        BY <2>1, <2>5 DEF a
<1>. HIDE DEF values, drilled, synthetic
<1>7. owned \in Seq(Nat) /\ owed \in Seq(Nat) /\ Len(owned) = N /\ Len(owed) = N
    <2>1. \A k \in 1 .. N : (IF values[k] < 0 THEN 0 ELSE values[k]) \in Nat
        BY <1>1
    <2>2. \A k \in 1 .. N : (IF values[k] < 0 THEN -values[k] ELSE 0) \in Nat
        BY <1>1
    <2>3. DOMAIN values = 1 .. N /\ N \in Nat
        BY <1>1
    <2>. HIDE DEF N
    <2>4. owned \in [1 .. N -> Nat] /\ owed \in [1 .. N -> Nat]
        BY <2>1, <2>2, <2>3
    <2>. HIDE DEF owned, owed
    <2>. QED
        BY <2>3, <2>4
<1>8. \A k \in 1 .. N : owned[k] = values[k] + owed[k]
    BY <1>1
<1>. HIDE DEF owned, owed
<1>9. Total(owned) = Total(values) + Total(owed)
    <2>1. AddUp(owned, values, owed)
        BY <1>7, <1>8 DEF AddUp
    <2>2. owned \in Seq(Int) /\ owed \in Seq(Int)
        BY <1>7
    <2>. QED
        BY <1>1, <2>1, <2>2, TotalPlus
<1>10. Total(owned) \in Nat /\ Total(owed) \in Nat /\ Total(values) \in Int
    BY <1>1, <1>7, TotalNatural, TotalTyped
<1>11. drilled.net_worth = Total(values)
    BY <1>3, <1>9, <1>10
<1>. QED
    BY <1>3, <1>4, <1>6, <1>10, <1>11 DEF AddsUp, drilled, synthetic

-----------------------------------------------------------------------------
(* A refresh.  r is one, bs the blocks it reads.                           *)

Fields == {"stage", "fleet", "left", "pin", "touched", "cur", "contracts", "positions",
           "failures", "refused", "result"}

Stages == {"discover", "resolve", "price", "done", "raised"}

Adapters == ToSet(Order)

TurnOf(r) == Order[Min({k \in DOMAIN Order : Order[k] \in r.left})]

AtOf(r, bs) == IF r.pin = 0 THEN Last(bs) ELSE bs[r.pin]

Places == {"aave-v3", "host", "receipt", "uniswap-v2", "uniswap-v3"}

PairsOf(r) ==
    (IF Descriptor(TurnOf(r), "pair1") \in r.contracts[TurnOf(r)] THEN <<1>> ELSE <<>>)
    \o (IF Descriptor(TurnOf(r), "pair2") \in r.contracts[TurnOf(r)] THEN <<2>> ELSE <<>>)

Asks ==
    {"start", "pair", "debt", "account", "rate", "supply", "reserves", "token", "nft", "slot0"}

Cursors(adapter) ==
    [ask : Asks, index : Nat \ {0}, count : Nat, held : Nat, supply : Nat,
     nft : Seq(NftStates), found : Seq(PositionsOf({adapter}))]

(* Every slice is its adapter's own.                                       *)
OwnSlices(r) ==
    /\ r.fleet \in Fleets /\ DOMAIN r.contracts = r.fleet
    /\ \A a \in r.fleet : \A d \in r.contracts[a] : d.adapter = a /\ d.chain = Here

(* A pair that was discovered is there, and stays there.                   *)
PairsThere(r, bs) ==
    "uniswap-v2" \in r.fleet =>
        \A d \in r.contracts["uniswap-v2"], i \in {1, 2} :
            d.address = PairAddress[i] => i <= Len(AtOf(r, bs).pairs)

(* What was found is of adapters whose turn is over and that did not fail. *)
Found(r) ==
    /\ r.left \subseteq r.fleet
    /\ r.positions \in Seq(PositionsOf(r.fleet \ r.left))
    /\ r.stage = "discover" => r.positions = <<>>
    /\ \A a \in Adapters : <<"resolve", a>> \in r.failures =>
           /\ r.stage # "discover" /\ a \notin r.left
           /\ \A k \in DOMAIN r.positions : r.positions[k].adapter # a

(* Where the adapter at work may be.                                       *)
CursorFits(cur, r, bs) ==
    /\ cur \in Cursors(TurnOf(r))
    /\ r.stage = "discover" /\ TurnOf(r) = "uniswap-v2" => cur.count <= Len(AtOf(r, bs).pairs)
    /\ r.stage = "resolve" /\ TurnOf(r) = "uniswap-v2" /\ cur.ask \in {"supply", "reserves"} =>
           cur.index <= Len(PairsOf(r))
    /\ cur.ask = "account" => cur.found # <<>>
    /\ cur.ask = "slot0" => cur.nft # <<>>

Shaped(r, bs) ==
    /\ DOMAIN r = Fields /\ r.pin \in {0, 1} /\ r.stage \in Stages
    /\ bs \in Seq(WorldStates) /\ bs # <<>>

Working(r) == r.stage \in {"discover", "resolve"}

Sound(r, bs) ==
    /\ Shaped(r, bs) /\ OwnSlices(r) /\ Found(r) /\ PairsThere(r, bs)
    /\ Working(r) => r.left # {} /\ CursorFits(r.cur, r, bs)
    /\ r.stage = "done" => AddsUp(r.positions, r.result[1], r.result[2])

PositionsInv == refresh # Idle => Sound(refresh, blocks)

LEMMA AdaptersAre == Adapters = Places
<1>1. /\ Order[1] = "aave-v3" /\ Order[2] = "host" /\ Order[3] = "receipt"
      /\ Order[4] = "uniswap-v2" /\ Order[5] = "uniswap-v3"
    BY DEF Order
<1>2. DOMAIN Order = 1 .. 5
    BY DEF Order
<1>3. Adapters = {Order[k] : k \in 1 .. 5}
    BY <1>2 DEF Adapters, ToSet
<1>4. 1 .. 5 = {1, 2, 3, 4, 5}
    OBVIOUS
<1>. QED
    BY <1>1, <1>3, <1>4 DEF Places

(* The turn is of one of those that are left.                              *)
LEMMA TurnTakes ==
    ASSUME NEW r, r.left \subseteq Adapters, r.left # {}
    PROVE  TurnOf(r) \in r.left /\ TurnOf(r) \in Places
<1> DEFINE T == {k \in DOMAIN Order : Order[k] \in r.left}
<1>1. DOMAIN Order \subseteq Nat
    BY DEF Order
<1>2. T # {} /\ T \subseteq Nat
    BY <1>1 DEF Adapters, ToSet
<1>. HIDE DEF T
<1>3. PICK x \in T : \A y \in T : x <= y
    BY <1>2, LeastNatural
<1>4. Min(T) \in T
    BY <1>3 DEF Min
<1>5. TurnOf(r) = Order[Min(T)]
    BY DEF TurnOf, T
<1>6. TurnOf(r) \in r.left
    BY <1>4, <1>5 DEF T
<1>. QED
    BY <1>6, AdaptersAre

LEMMA FleetOfAdapters ==
    ASSUME NEW r, OwnSlices(r)
    PROVE  r.fleet \subseteq Adapters /\ r.fleet # {}
BY FleetsServe DEF OwnSlices, Adapters

LEMMA WorldNow ==
    ASSUME NEW r, NEW bs, Shaped(r, bs)
    PROVE  AtOf(r, bs) \in WorldStates
<1>1. bs \in Seq(WorldStates) /\ bs # <<>> /\ r.pin \in {0, 1}
    BY DEF Shaped
<1>2. Len(bs) \in 1 .. Len(bs) /\ 1 \in 1 .. Len(bs)
    BY <1>1
<1>3. bs[1] \in WorldStates /\ bs[Len(bs)] \in WorldStates
    BY <1>1, <1>2
<1>. QED
    BY <1>1, <1>3 DEF AtOf, Last

(* PositionsOf(adapters), and what is of fewer.                            *)
LEMMA MorePositions ==
    ASSUME NEW S, NEW T, S \subseteq T
    PROVE  /\ PositionsOf(S) \subseteq PositionsOf(T)
           /\ Seq(PositionsOf(S)) \subseteq Seq(PositionsOf(T))
<1>1. PositionsOf(S) \subseteq PositionsOf(T)
    BY DEF PositionsOf
<1>. QED
    BY <1>1

(* Where a turn starts. *)
LEMMA StartFits ==
    ASSUME NEW r, NEW bs, Shaped(r, bs)
    PROVE  CursorFits(Start, r, bs)
<1>1. Len(AtOf(r, bs).pairs) \in Nat
    <2>1. AtOf(r, bs).pairs \in Seq(PairStates)
        BY WorldNow DEF WorldStates
    <2>. QED
        BY <2>1
<1>2. Start \in Cursors(TurnOf(r))
    <2> DEFINE S == Seq(NftStates)
               P == Seq(PositionsOf({TurnOf(r)}))
    <2>1. << >> \in S /\ << >> \in P
        OBVIOUS
    <2>. HIDE DEF S, P
    <2>2. Start \in [ask : Asks, index : Nat \ {0}, count : Nat, held : Nat, supply : Nat,
                     nft : S, found : P]
        BY <2>1 DEF Start, Asks
    <2>. QED
        BY <2>2 DEF Cursors, S, P
<1>. QED
    BY <1>1, <1>2 DEF CursorFits, Start

(* What Turned changes.                                                    *)
Restricted(r) == [a \in r.fleet |-> {d \in r.contracts[a] : d.address \in r.touched}]

LEMMA TurnedFields ==
    ASSUME NEW r, DOMAIN r = Fields, Working(r)
    PROVE  /\ DOMAIN Turned(r) = Fields /\ Turned(r).cur = Start
           /\ Turned(r).fleet = r.fleet /\ Turned(r).pin = r.pin
           /\ Turned(r).positions = r.positions /\ Turned(r).failures = r.failures
           /\ Turned(r).touched = r.touched /\ Turned(r).refused = r.refused
           /\ \/ /\ r.left \ {Turn} # {} /\ Turned(r).stage = r.stage
                 /\ Turned(r).left = r.left \ {Turn} /\ Turned(r).contracts = r.contracts
              \/ /\ r.left \ {Turn} = {} /\ r.stage = "discover" /\ Turned(r).stage = "resolve"
                 /\ Turned(r).left = r.fleet /\ Turned(r).contracts = Restricted(r)
              \/ /\ r.left \ {Turn} = {} /\ r.stage = "resolve" /\ Turned(r).stage = "price"
                 /\ Turned(r).left = {} /\ Turned(r).contracts = r.contracts
<1> DEFINE over == [r EXCEPT !.left = @ \ {Turn}, !.cur = Start]
           next == [over EXCEPT !.stage = "resolve", !.left = r.fleet,
                                !.contracts = Restricted(r)]
           last == [over EXCEPT !.stage = "price"]
<1>1. /\ DOMAIN over = Fields /\ over.left = r.left \ {Turn} /\ over.cur = Start
      /\ over.stage = r.stage /\ over.fleet = r.fleet /\ over.pin = r.pin
      /\ over.positions = r.positions /\ over.failures = r.failures
      /\ over.touched = r.touched /\ over.refused = r.refused
      /\ over.contracts = r.contracts
    BY DEF Fields
<1>2. Turned(r) = CASE over.left # {} -> over
                    [] over.left = {} /\ r.stage = "discover" -> next
                    [] over.left = {} /\ r.stage = "resolve" -> last
    <2>1. [over EXCEPT !.stage = "resolve", !.left = r.fleet,
              !.contracts = [a \in r.fleet |-> {d \in @[a] : d.address \in r.touched}]] = next
        <3>. HIDE DEF over
        <3>. QED
            BY <1>1 DEF Restricted
    <2>. QED
        BY <2>1 DEF Turned
<1>. HIDE DEF over
<1>3. /\ DOMAIN next = Fields /\ next.left = r.fleet /\ next.cur = Start
      /\ next.stage = "resolve" /\ next.fleet = r.fleet /\ next.pin = r.pin
      /\ next.positions = r.positions /\ next.failures = r.failures
      /\ next.touched = r.touched /\ next.refused = r.refused
      /\ next.contracts = Restricted(r)
    BY <1>1 DEF Fields
<1>4. /\ DOMAIN last = Fields /\ last.left = over.left /\ last.cur = Start
      /\ last.stage = "price" /\ last.fleet = r.fleet /\ last.pin = r.pin
      /\ last.positions = r.positions /\ last.failures = r.failures
      /\ last.touched = r.touched /\ last.refused = r.refused
      /\ last.contracts = r.contracts
    BY <1>1 DEF Fields
<1>. HIDE DEF next, last
<1>5. CASE over.left # {}
    BY <1>1, <1>2, <1>5
<1>6. CASE over.left = {} /\ r.stage = "discover"
    <2>1. Turned(r) = next
        BY <1>2, <1>6
    <2>. QED
        BY <1>1, <1>3, <1>6, <2>1
<1>7. CASE over.left = {} /\ r.stage = "resolve"
    <2>1. Turned(r) = last
        BY <1>2, <1>7
    <2>. QED
        BY <1>1, <1>4, <1>7, <2>1
<1>. QED
    BY <1>5, <1>6, <1>7 DEF Working

(* What the adapter whose turn it was left.                                *)
Left(r) ==
    /\ DOMAIN r = Fields
    /\ r.stage = refresh.stage /\ r.fleet = refresh.fleet /\ r.left = refresh.left
    /\ r.pin = refresh.pin
    /\ OwnSlices(r) /\ PairsThere(r, blocks)
    /\ r.positions \in Seq(PositionsOf((r.fleet \ r.left) \cup {Turn}))
    /\ r.stage = "discover" => r.positions = << >>
    /\ \A a \in Adapters : <<"resolve", a>> \in r.failures =>
           /\ r.stage # "discover" /\ a \notin r.left \ {Turn}
           /\ \A k \in DOMAIN r.positions : r.positions[k].adapter # a

LEMMA TurnIs == Turn = TurnOf(refresh) /\ At = AtOf(refresh, blocks) /\ (Active <=> Working(refresh))
BY DEF Turn, TurnOf, At, AtOf, Active, Working

LEMMA TurnOver ==
    ASSUME Sound(refresh, blocks), Working(refresh), NEW r, Left(r)
    PROVE  Sound(Turned(r), blocks)
<1> DEFINE q == Turned(r)
<1>0. Turn \in r.left /\ r.left \subseteq r.fleet /\ r.fleet \subseteq Adapters /\ r.fleet # {}
    <2>1. refresh.left \subseteq refresh.fleet /\ refresh.left # {} /\ OwnSlices(refresh)
        BY DEF Sound, Found
    <2>2. refresh.fleet \subseteq Adapters /\ refresh.fleet # {}
        BY <2>1, FleetOfAdapters
    <2>. QED
        BY <2>1, <2>2, TurnTakes, TurnIs DEF Left
<1>1. DOMAIN r = Fields /\ Working(r)
    BY DEF Left, Working
<1>2. /\ DOMAIN q = Fields /\ q.cur = Start /\ q.fleet = r.fleet /\ q.pin = r.pin
      /\ q.positions = r.positions /\ q.failures = r.failures
      /\ \/ /\ r.left \ {Turn} # {} /\ q.stage = r.stage
            /\ q.left = r.left \ {Turn} /\ q.contracts = r.contracts
         \/ /\ r.left \ {Turn} = {} /\ r.stage = "discover" /\ q.stage = "resolve"
            /\ q.left = r.fleet /\ q.contracts = Restricted(r)
         \/ /\ r.left \ {Turn} = {} /\ r.stage = "resolve" /\ q.stage = "price"
            /\ q.left = {} /\ q.contracts = r.contracts
    BY <1>1, TurnedFields
<1>. HIDE DEF q
<1>3. Shaped(q, blocks)
    <2>1. /\ r.pin \in {0, 1} /\ r.stage \in {"discover", "resolve"}
          /\ blocks \in Seq(WorldStates) /\ blocks # << >>
        BY <1>1 DEF Sound, Shaped, Left, Working
    <2>. QED
        BY <1>2, <2>1 DEF Shaped, Stages
<1>4. q.contracts = r.contracts \/ q.contracts = Restricted(r)
    BY <1>2
<1>5. /\ r.fleet \in Fleets /\ DOMAIN r.contracts = r.fleet
      /\ \A a \in r.fleet : \A d \in r.contracts[a] : d.adapter = a /\ d.chain = Here
    BY DEF Left, OwnSlices
<1>6. /\ DOMAIN q.contracts = r.fleet
      /\ \A a \in r.fleet : q.contracts[a] \subseteq r.contracts[a]
    <2>1. /\ DOMAIN Restricted(r) = r.fleet
          /\ \A a \in r.fleet : Restricted(r)[a] \subseteq r.contracts[a]
        BY DEF Restricted
    <2>. QED
        BY <1>4, <1>5, <2>1
<1>7. OwnSlices(q)
    BY <1>2, <1>5, <1>6 DEF OwnSlices
<1>8. PairsThere(q, blocks)
    <2>1. AtOf(q, blocks) = AtOf(r, blocks)
        BY <1>2 DEF AtOf
    <2>2. PairsThere(r, blocks)
        BY DEF Left
    <2>. QED
        BY <1>2, <1>6, <2>1, <2>2 DEF PairsThere
<1>9. Found(q)
    <2>1. /\ r.positions \in Seq(PositionsOf((r.fleet \ r.left) \cup {Turn}))
          /\ r.stage = "discover" => r.positions = << >>
          /\ \A a \in Adapters : <<"resolve", a>> \in r.failures =>
                 /\ r.stage # "discover" /\ a \notin r.left \ {Turn}
                 /\ \A k \in DOMAIN r.positions : r.positions[k].adapter # a
        BY DEF Left
    <2>2. q.left \subseteq q.fleet
        BY <1>0, <1>2
    <2>3. r.positions \in Seq(PositionsOf(q.fleet \ q.left))
        <3>1. CASE r.stage = "discover"
            BY <2>1, <3>1
        <3>2. CASE r.stage # "discover"
            <4>1. (r.fleet \ r.left) \cup {Turn} \subseteq q.fleet \ q.left
                BY <1>0, <1>2, <3>2
            <4>2. Seq(PositionsOf((r.fleet \ r.left) \cup {Turn}))
                      \subseteq Seq(PositionsOf(q.fleet \ q.left))
                BY <4>1, MorePositions
            <4>. QED
                BY <2>1, <4>2
        <3>. QED
            BY <3>1, <3>2
    <2>4. q.stage = "discover" => r.stage = "discover"
        BY <1>2
    <2>5. ASSUME NEW a \in Adapters, <<"resolve", a>> \in r.failures
          PROVE  q.stage # "discover" /\ a \notin q.left
        BY <1>2, <2>1, <2>4, <2>5
    <2>. QED
        BY <1>2, <2>1, <2>2, <2>3, <2>4, <2>5 DEF Found
<1>10. q.stage # "done" /\ (Working(q) => q.left # {})
    <2>1. r.stage \in {"discover", "resolve"}
        BY <1>1 DEF Working
    <2>. QED
        BY <1>0, <1>2, <2>1 DEF Working
<1>11. CursorFits(q.cur, q, blocks)
    BY <1>2, <1>3, StartFits
<1>. QED
    BY <1>3, <1>7, <1>8, <1>9, <1>10, <1>11 DEF Sound, q

(* Only the cursor moves.                                                  *)
LEMMA CursorMoves ==
    ASSUME NEW r, NEW bs, Sound(r, bs), Working(r), NEW cur, CursorFits(cur, r, bs)
    PROVE  Sound([r EXCEPT !.cur = cur], bs)
<1> DEFINE q == [r EXCEPT !.cur = cur]
<1>1. /\ Shaped(r, bs) /\ OwnSlices(r) /\ Found(r) /\ PairsThere(r, bs)
      /\ r.left # {} /\ DOMAIN r = Fields
    BY DEF Sound, Shaped
<1>2. /\ DOMAIN q = Fields /\ q.cur = cur /\ q.stage = r.stage /\ q.fleet = r.fleet
      /\ q.left = r.left /\ q.pin = r.pin /\ q.contracts = r.contracts
      /\ q.positions = r.positions /\ q.failures = r.failures
    BY <1>1 DEF Fields
<1>. HIDE DEF q
<1>3. TurnOf(q) = TurnOf(r) /\ AtOf(q, bs) = AtOf(r, bs) /\ PairsOf(q) = PairsOf(r)
    BY <1>2 DEF TurnOf, AtOf, PairsOf
<1>4. Shaped(q, bs) /\ OwnSlices(q) /\ Found(q) /\ PairsThere(q, bs)
    BY <1>1, <1>2, <1>3 DEF Shaped, OwnSlices, Found, PairsThere
<1>5. CursorFits(q.cur, q, bs)
    BY <1>2, <1>3 DEF CursorFits
<1>6. q.left # {} /\ q.stage # "done"
    BY <1>1, <1>2 DEF Working
<1>. QED
    BY <1>4, <1>5, <1>6 DEF Sound, q

LEMMA CursorAsks ==
    ASSUME NEW t, NEW cur \in Cursors(t), NEW ask \in Asks
    PROVE  /\ [cur EXCEPT !.ask = ask] \in Cursors(t)
           /\ [cur EXCEPT !.ask = ask].ask = ask
           /\ [cur EXCEPT !.ask = ask].index = cur.index
           /\ [cur EXCEPT !.ask = ask].count = cur.count
           /\ [cur EXCEPT !.ask = ask].nft = cur.nft
           /\ [cur EXCEPT !.ask = ask].found = cur.found
<1> DEFINE S == Seq(NftStates)
           P == Seq(PositionsOf({t}))
<1>1. cur \in [ask : Asks, index : Nat \ {0}, count : Nat, held : Nat, supply : Nat,
               nft : S, found : P]
    BY DEF Cursors
<1>. HIDE DEF S, P
<1>2. /\ [cur EXCEPT !.ask = ask] \in [ask : Asks, index : Nat \ {0}, count : Nat,
             held : Nat, supply : Nat, nft : S, found : P]
      /\ [cur EXCEPT !.ask = ask].ask = ask
      /\ [cur EXCEPT !.ask = ask].index = cur.index
      /\ [cur EXCEPT !.ask = ask].count = cur.count
      /\ [cur EXCEPT !.ask = ask].nft = cur.nft
      /\ [cur EXCEPT !.ask = ask].found = cur.found
    BY <1>1
<1>. QED
    BY <1>2 DEF Cursors, S, P

(* The adapter at work asks on.                                            *)
LEMMA NowKeeps ==
    ASSUME Sound(refresh, blocks), Working(refresh), NEW ask \in Asks,
           NEW cur \in Cursors(Turn), Now(ask, cur),
           refresh.stage = "discover" /\ Turn = "uniswap-v2" => cur.count <= Len(At.pairs),
           refresh.stage = "resolve" /\ Turn = "uniswap-v2" /\ ask \in {"supply", "reserves"} =>
               cur.index <= Len(PairsOf(refresh)),
           ask = "account" => cur.found # << >>, ask = "slot0" => cur.nft # << >>
    PROVE  Sound(refresh', blocks')
<1> DEFINE next == [cur EXCEPT !.ask = ask]
<1>1. /\ next \in Cursors(Turn) /\ next.ask = ask /\ next.index = cur.index
      /\ next.count = cur.count /\ next.nft = cur.nft /\ next.found = cur.found
    BY CursorAsks
<1>2. refresh' = [refresh EXCEPT !.cur = next] /\ blocks' = blocks
    BY DEF Now
<1>. HIDE DEF next
<1>3. CursorFits(next, refresh, blocks)
    BY <1>1, TurnIs DEF CursorFits
<1>. QED
    BY <1>2, <1>3, CursorMoves

(* The turn is over.                                                       *)
LEMMA TurnFacts ==
    ASSUME Sound(refresh, blocks), Working(refresh)
    PROVE  /\ Turn \in refresh.left /\ Turn \in refresh.fleet /\ Turn \in Places
           /\ refresh.left \subseteq refresh.fleet /\ refresh.fleet \subseteq Adapters
           /\ DOMAIN refresh = Fields /\ DOMAIN refresh.contracts = refresh.fleet
           /\ OwnSlices(refresh) /\ Found(refresh) /\ PairsThere(refresh, blocks)
           /\ Shaped(refresh, blocks) /\ At \in WorldStates /\ At = AtOf(refresh, blocks)
           /\ refresh.cur \in Cursors(Turn) /\ CursorFits(refresh.cur, refresh, blocks)
<1>1. /\ refresh.left \subseteq refresh.fleet /\ refresh.left # {} /\ OwnSlices(refresh)
      /\ Found(refresh) /\ PairsThere(refresh, blocks) /\ Shaped(refresh, blocks)
      /\ CursorFits(refresh.cur, refresh, blocks)
    BY DEF Sound, Found
<1>2. refresh.fleet \subseteq Adapters
    BY <1>1, FleetOfAdapters
<1>3. Turn \in refresh.left /\ Turn \in Places
    BY <1>1, <1>2, TurnTakes, TurnIs
<1>. QED
    BY <1>1, <1>2, <1>3, WorldNow, TurnIs DEF Shaped, OwnSlices, CursorFits

LEMMA FailureKeeps ==
    ASSUME Sound(refresh, blocks), Working(refresh), NEW r, DOMAIN r = Fields,
           r.stage = refresh.stage, r.fleet = refresh.fleet, r.left = refresh.left,
           r.pin = refresh.pin, r.contracts = refresh.contracts,
           r.positions = refresh.positions,
           r.failures = refresh.failures \cup {<<refresh.stage, Turn>>}
    PROVE  Sound(Turned(r), blocks)
<1>1. Turn \in r.left /\ Found(refresh)
    BY TurnFacts
<1>2. OwnSlices(r) /\ PairsThere(r, blocks)
    <2>1. OwnSlices(refresh) /\ PairsThere(refresh, blocks)
        BY TurnFacts
    <2>2. AtOf(r, blocks) = AtOf(refresh, blocks)
        BY DEF AtOf
    <2>. QED
        BY <2>1, <2>2 DEF OwnSlices, PairsThere
<1>3. r.positions \in Seq(PositionsOf(r.fleet \ r.left)) /\ (r.stage = "discover" => r.positions = << >>)
    BY <1>1 DEF Found
<1>4. r.positions \in Seq(PositionsOf((r.fleet \ r.left) \cup {Turn}))
    <2>1. Seq(PositionsOf(r.fleet \ r.left)) \subseteq Seq(PositionsOf((r.fleet \ r.left) \cup {Turn}))
        BY MorePositions
    <2>. QED
        BY <1>3, <2>1
<1>5. ASSUME NEW a \in Adapters, <<"resolve", a>> \in r.failures
      PROVE  /\ r.stage # "discover" /\ a \notin r.left \ {Turn}
             /\ \A k \in DOMAIN r.positions : r.positions[k].adapter # a
    <2>1. CASE <<"resolve", a>> \in refresh.failures
        BY <1>1, <2>1 DEF Found
    <2>2. CASE <<"resolve", a>> = <<refresh.stage, Turn>>
        <3>1. refresh.stage = "resolve" /\ a = Turn
            BY <2>2
        <3>2. \A k \in DOMAIN r.positions : r.positions[k].adapter \in r.fleet \ r.left
            <4> DEFINE P == PositionsOf(r.fleet \ r.left)
                       s == r.positions
            <4>1. s \in Seq(P)
                BY <1>3
            <4>. HIDE DEF P, s
            <4>2. \A k \in DOMAIN s : s[k] \in P
                BY <4>1
            <4>. QED
                BY <4>2 DEF P, s, PositionsOf
        <3>. QED
            BY <1>1, <3>1, <3>2
    <2>. QED
        BY <1>5, <2>1, <2>2
<1>6. Left(r)
    BY <1>2, <1>3, <1>4, <1>5 DEF Left
<1>. QED
    BY <1>6, TurnOver

LEMMA AdapterFailsKeeps ==
    ASSUME Sound(refresh, blocks), Working(refresh), AdapterFails
    PROVE  Sound(refresh', blocks')
<1> DEFINE r == [refresh EXCEPT !.failures = @ \cup {<<refresh.stage, Turn>>}]
<1>1. DOMAIN refresh = Fields
    BY TurnFacts
<1>2. /\ DOMAIN r = Fields /\ r.stage = refresh.stage /\ r.fleet = refresh.fleet
      /\ r.left = refresh.left /\ r.pin = refresh.pin /\ r.contracts = refresh.contracts
      /\ r.positions = refresh.positions
      /\ r.failures = refresh.failures \cup {<<refresh.stage, Turn>>}
    BY <1>1 DEF Fields
<1>3. refresh' = Turned(r) /\ blocks' = blocks
    BY DEF AdapterFails
<1>. HIDE DEF r
<1>. QED
    BY <1>2, <1>3, FailureKeeps

LEMMA CallFailsKeeps ==
    ASSUME Sound(refresh, blocks), CallFails
    PROVE  Sound(refresh', blocks')
<1>0. Working(refresh)
    BY TurnIs DEF CallFails, Requesting
<1> DEFINE r == [refresh EXCEPT !.failures = @ \cup {<<refresh.stage, Turn>>},
                                !.refused = @ \cup {Turn}]
<1>1. DOMAIN refresh = Fields
    BY <1>0, TurnFacts
<1>2. /\ DOMAIN r = Fields /\ r.stage = refresh.stage /\ r.fleet = refresh.fleet
      /\ r.left = refresh.left /\ r.pin = refresh.pin /\ r.contracts = refresh.contracts
      /\ r.positions = refresh.positions
      /\ r.failures = refresh.failures \cup {<<refresh.stage, Turn>>}
    BY <1>1 DEF Fields
<1>3. refresh' = Turned(r) /\ blocks' = blocks
    BY DEF CallFails
<1>. HIDE DEF r
<1>. QED
    BY <1>0, <1>2, <1>3, FailureKeeps

LEMMA DiscoveredKeeps ==
    ASSUME Sound(refresh, blocks), refresh.stage = "discover", NEW slice, Discovered(slice),
           \A d \in slice : d.adapter = Turn /\ d.chain = Here,
           Turn = "uniswap-v2" => \A d \in slice, i \in {1, 2} :
               d.address = PairAddress[i] => i <= Len(At.pairs)
    PROVE  Sound(refresh', blocks')
<1> DEFINE r == [refresh EXCEPT !.contracts[Turn] = slice]
<1>0. Working(refresh)
    BY DEF Working
<1>1. /\ DOMAIN refresh = Fields /\ DOMAIN refresh.contracts = refresh.fleet
      /\ Turn \in refresh.fleet /\ OwnSlices(refresh) /\ PairsThere(refresh, blocks)
      /\ Found(refresh) /\ At = AtOf(refresh, blocks)
    BY <1>0, TurnFacts
<1>2. /\ DOMAIN r = Fields /\ r.stage = refresh.stage /\ r.fleet = refresh.fleet
      /\ r.left = refresh.left /\ r.pin = refresh.pin /\ r.positions = refresh.positions
      /\ r.failures = refresh.failures
      /\ r.contracts = [refresh.contracts EXCEPT ![Turn] = slice]
    BY <1>1 DEF Fields
<1>3. refresh' = Turned(r) /\ blocks' = blocks
    BY DEF Discovered
<1>. HIDE DEF r
<1>4. /\ DOMAIN r.contracts = r.fleet /\ r.contracts[Turn] = slice
      /\ \A a \in r.fleet : a # Turn => r.contracts[a] = refresh.contracts[a]
    BY <1>1, <1>2
<1>5. OwnSlices(r)
    BY <1>1, <1>2, <1>4 DEF OwnSlices
<1>6. PairsThere(r, blocks)
    <2>1. AtOf(r, blocks) = At
        BY <1>1, <1>2 DEF AtOf
    <2>2. CASE Turn = "uniswap-v2"
        BY <1>2, <1>4, <2>1, <2>2 DEF PairsThere
    <2>3. CASE Turn # "uniswap-v2"
        BY <1>1, <1>2, <1>4, <2>1, <2>3 DEF PairsThere
    <2>. QED
        BY <2>2, <2>3
<1>7. /\ r.positions = << >> /\ \A a \in Adapters : <<"resolve", a>> \notin r.failures
    BY <1>1, <1>2 DEF Found
<1>8. Left(r)
    BY <1>2, <1>5, <1>6, <1>7 DEF Left
<1>. QED
    BY <1>0, <1>3, <1>8, TurnOver

LEMMA ResolvedKeeps ==
    ASSUME Sound(refresh, blocks), refresh.stage = "resolve",
           NEW found \in Seq(PositionsOf({Turn})), Resolved(found)
    PROVE  Sound(refresh', blocks')
<1> DEFINE r == [refresh EXCEPT !.positions = @ \o found]
           P == PositionsOf(refresh.fleet \ refresh.left)
           O == PositionsOf({Turn})
           B == PositionsOf((refresh.fleet \ refresh.left) \cup {Turn})
           s == refresh.positions
<1>0. Working(refresh)
    BY DEF Working
<1>1. /\ DOMAIN refresh = Fields /\ Turn \in refresh.left
      /\ OwnSlices(refresh) /\ PairsThere(refresh, blocks) /\ Found(refresh)
    BY <1>0, TurnFacts
<1>2. /\ DOMAIN r = Fields /\ r.stage = refresh.stage /\ r.fleet = refresh.fleet
      /\ r.left = refresh.left /\ r.pin = refresh.pin
      /\ r.positions = refresh.positions \o found
      /\ r.failures = refresh.failures /\ r.contracts = refresh.contracts
    BY <1>1 DEF Fields
<1>3. refresh' = Turned(r) /\ blocks' = blocks
    BY DEF Resolved
<1>. HIDE DEF r
<1>4. OwnSlices(r) /\ PairsThere(r, blocks)
    <2>1. AtOf(r, blocks) = AtOf(refresh, blocks)
        BY <1>2 DEF AtOf
    <2>. QED
        BY <1>1, <1>2, <2>1 DEF OwnSlices, PairsThere
<1>5. s \in Seq(P) /\ found \in Seq(O)
    BY <1>1 DEF Found
<1>6. s \in Seq(B) /\ found \in Seq(B)
    <2>1. Seq(P) \subseteq Seq(B) /\ Seq(O) \subseteq Seq(B)
        BY MorePositions
    <2>. QED
        BY <1>5, <2>1
<1>7. \A p \in O : p.adapter = Turn
    BY DEF PositionsOf
<1>8. /\ refresh.left \subseteq refresh.fleet
      /\ \A a \in Adapters : <<"resolve", a>> \in refresh.failures =>
             a \notin refresh.left /\ \A k \in DOMAIN s : s[k].adapter # a
    BY <1>1 DEF Found
<1>. HIDE DEF s, P, O, B
<1>9. /\ s \o found \in Seq(B)
      /\ \A k \in DOMAIN (s \o found) :
             \/ k \in DOMAIN s /\ (s \o found)[k] = s[k]
             \/ (s \o found)[k] \in O
    <2>1. s \o found \in Seq(B)
        BY <1>6
    <2> DEFINE u == s \o found
    <2>2. /\ Len(s) \in Nat /\ Len(found) \in Nat /\ Len(u) = Len(s) + Len(found)
          /\ DOMAIN u = 1 .. Len(u) /\ DOMAIN s = 1 .. Len(s)
          /\ \A k \in 1 .. Len(s) : u[k] = s[k]
          /\ \A k \in Len(s) + 1 .. Len(s) + Len(found) : u[k] = found[k - Len(s)]
        BY <1>6
    <2>3. \A k \in 1 .. Len(found) : found[k] \in O
        BY <1>5
    <2>. HIDE DEF u
    <2>4. ASSUME NEW k \in DOMAIN u
          PROVE  (k \in DOMAIN s /\ u[k] = s[k]) \/ u[k] \in O
        <3>1. CASE k \in 1 .. Len(s)
            BY <2>2, <3>1
        <3>2. CASE k \in Len(s) + 1 .. Len(s) + Len(found)
            <4>1. k - Len(s) \in 1 .. Len(found)
                BY <2>2, <3>2
            <4>. QED
                BY <2>2, <2>3, <3>2, <4>1
        <3>. QED
            BY <2>2, <3>1, <3>2
    <2>. QED
        BY <2>1, <2>4 DEF u
<1>10. r.positions = s \o found
    BY <1>2 DEF s
<1>11. ASSUME NEW a \in Adapters, <<"resolve", a>> \in r.failures
       PROVE  /\ a \notin r.left \ {Turn}
              /\ \A k \in DOMAIN r.positions : r.positions[k].adapter # a
    <2>1. a \notin refresh.left /\ \A k \in DOMAIN s : s[k].adapter # a
        BY <1>2, <1>8, <1>11
    <2>2. a # Turn
        BY <1>1, <2>1
    <2>. QED
        BY <1>2, <1>7, <1>9, <1>10, <2>1, <2>2
<1>12. r.positions \in Seq(PositionsOf((r.fleet \ r.left) \cup {Turn}))
    BY <1>2, <1>9, <1>10 DEF B
<1>13. Left(r)
    <2>1. r.stage # "discover"
        BY <1>2
    <2>. QED
        BY <1>2, <1>4, <1>11, <1>12, <2>1 DEF Left
<1>. QED
    BY <1>0, <1>3, <1>13, TurnOver

-----------------------------------------------------------------------------
(* Beginnings, blocks and the end.                                         *)

LEMMA NextBlockKeeps ==
    ASSUME Sound(refresh, blocks), NextBlock
    PROVE  Sound(refresh', blocks')
<1>1. Working(refresh) /\ refresh' = refresh
    BY TurnIs DEF NextBlock
<1>2. PICK world \in Worlds :
          /\ Len(world.pairs) >= Len(Last(blocks).pairs)
          /\ blocks' = Append(blocks, world)
    BY DEF NextBlock
<1>3. world \in WorldStates
    BY WorldsTyped
<1>4. /\ blocks \in Seq(WorldStates) /\ blocks # << >> /\ refresh.pin \in {0, 1}
      /\ Shaped(refresh, blocks) /\ PairsThere(refresh, blocks)
      /\ CursorFits(refresh.cur, refresh, blocks)
    BY <1>1 DEF Sound, Shaped
<1>5. /\ blocks' \in Seq(WorldStates) /\ blocks' # << >> /\ Len(blocks') = Len(blocks) + 1
      /\ blocks'[Len(blocks')] = world /\ blocks'[1] = blocks[1] /\ Len(blocks) \in Nat
    BY <1>2, <1>3, <1>4
<1>6. Shaped(refresh, blocks')
    BY <1>4, <1>5 DEF Shaped
<1>7. \/ AtOf(refresh, blocks') = AtOf(refresh, blocks)
      \/ /\ AtOf(refresh, blocks') = world /\ AtOf(refresh, blocks) = Last(blocks)
    <2>1. Last(blocks') = world
        BY <1>5 DEF Last
    <2>. QED
        BY <1>4, <1>5, <2>1 DEF AtOf
<1>8. AtOf(refresh, blocks) \in WorldStates /\ AtOf(refresh, blocks') \in WorldStates
    BY <1>4, <1>6, WorldNow
<1>9. /\ Len(AtOf(refresh, blocks).pairs) \in Nat /\ Len(AtOf(refresh, blocks').pairs) \in Nat
      /\ Len(AtOf(refresh, blocks).pairs) <= Len(AtOf(refresh, blocks').pairs)
    <2>1. \A w \in WorldStates : w.pairs \in Seq(PairStates)
        BY DEF WorldStates
    <2>2. \A w \in WorldStates : Len(w.pairs) \in Nat
        BY <2>1
    <2>. QED
        BY <1>2, <1>7, <1>8, <2>2
<1>10. PairsThere(refresh, blocks')
    BY <1>4, <1>9 DEF PairsThere
<1>11. CursorFits(refresh.cur, refresh, blocks')
    <2>1. refresh.cur.count \in Nat
        BY <1>4 DEF CursorFits, Cursors
    <2>. QED
        BY <1>4, <1>9, <2>1 DEF CursorFits
<1>. QED
    BY <1>1, <1>6, <1>10, <1>11 DEF Sound

LEMMA BeginKeeps ==
    ASSUME Begin
    PROVE  Sound(refresh', blocks')
<1>1. PICK world \in Worlds : blocks' = <<world>>
    BY DEF Begin
<1>2. PICK fleet \in Fleets, pin \in {0, 1}, touched \in TouchedSets :
           refresh' = [stage |-> "discover", fleet |-> fleet, left |-> fleet, pin |-> pin,
                       touched |-> touched, cur |-> Start,
                       contracts |-> [a \in fleet |-> {}], positions |-> <<>>,
                       failures |-> {}, refused |-> {}, result |-> <<>>]
    BY DEF Begin
<1> DEFINE q == refresh'
<1>3. /\ DOMAIN q = Fields /\ q.stage = "discover" /\ q.fleet = fleet /\ q.left = fleet
      /\ q.pin = pin /\ q.cur = Start /\ q.contracts = [a \in fleet |-> {}]
      /\ q.positions = << >> /\ q.failures = {}
    BY <1>2 DEF Fields
<1>. HIDE DEF q
<1>4. Shaped(q, blocks')
    <2>1. world \in WorldStates
        BY WorldsTyped
    <2>2. blocks' \in Seq(WorldStates) /\ blocks' # << >>
        BY <1>1, <2>1
    <2>. QED
        BY <1>3, <2>2 DEF Shaped, Stages
<1>5. OwnSlices(q) /\ PairsThere(q, blocks')
    BY <1>3 DEF OwnSlices, PairsThere
<1>6. Found(q)
    <2>1. << >> \in Seq(PositionsOf(q.fleet \ q.left))
        OBVIOUS
    <2>. QED
        BY <1>3, <2>1 DEF Found
<1>7. q.left # {}
    BY <1>3, FleetsServe
<1>. QED
    BY <1>3, <1>4, <1>5, <1>6, <1>7, StartFits DEF Sound, q

LEMMA PriceAndDrillKeeps ==
    ASSUME Sound(refresh, blocks), PriceAndDrill
    PROVE  Sound(refresh', blocks')
<1>1. /\ refresh.stage = "price" /\ blocks' = blocks /\ DOMAIN refresh = Fields
      /\ Shaped(refresh, blocks) /\ OwnSlices(refresh) /\ Found(refresh)
      /\ PairsThere(refresh, blocks)
    BY DEF PriceAndDrill, Sound, Shaped
<1> DEFINE positions == refresh.positions
           all == Underlyings(positions)
           walk(oracles) == UsdPrices({all[k].asset : k \in DOMAIN all}, oracles)
<1>2. PICK oracles \in OracleChains :
          refresh' = IF walk(oracles).raised \/ ~Drillable(positions, walk(oracles).priced)
                     THEN [refresh EXCEPT !.stage = "raised"]
                     ELSE [refresh EXCEPT !.stage = "done",
                              !.result = <<walk(oracles).priced,
                                           Drill(positions, walk(oracles).priced)>>]
    BY DEF PriceAndDrill
<1> DEFINE priced == walk(oracles).priced
           result == <<priced, Drill(positions, priced)>>
<1>3. Quotes(priced)
    <2>1. oracles \in Seq(ToSet(oracles))
          /\ \A oracle \in ToSet(oracles) : Quotes(oracle.quotes)
        BY OraclesQuote DEF Quotes
    <2>2. Len(oracles) \in Nat
        BY <2>1
    <2>3. \A k \in 1 .. Len(oracles) : oracles[k] \in ToSet(oracles)
        BY <2>1, ElementOfSeq
    <2>4. \A k \in 1 .. Len(oracles) : Quotes(oracles[k].quotes)
        BY <2>1, <2>3
    <2>. QED
        BY <2>2, <2>4, UsdPricesQuote
<1>. HIDE DEF walk, priced, result
<1>4. \/ refresh' = [refresh EXCEPT !.stage = "raised"]
      \/ Drillable(positions, priced) /\ refresh' = [refresh EXCEPT !.stage = "done", !.result = result]
    BY <1>2 DEF priced, result
<1> DEFINE q == refresh'
<1>5. /\ DOMAIN q = Fields /\ q.fleet = refresh.fleet /\ q.left = refresh.left
      /\ q.pin = refresh.pin /\ q.contracts = refresh.contracts
      /\ q.positions = refresh.positions /\ q.failures = refresh.failures
      /\ \/ q.stage = "raised"
         \/ Drillable(positions, priced) /\ q.stage = "done" /\ q.result = result
    BY <1>1, <1>4 DEF Fields
<1>. HIDE DEF q
<1>6. Shaped(q, blocks) /\ OwnSlices(q) /\ PairsThere(q, blocks) /\ ~Working(q)
    <2>1. AtOf(q, blocks) = AtOf(refresh, blocks)
        BY <1>5 DEF AtOf
    <2>. QED
        BY <1>1, <1>5, <2>1 DEF Shaped, OwnSlices, PairsThere, Working, Stages
<1>7. Found(q)
    BY <1>1, <1>5 DEF Found
<1>8. q.stage = "done" => AddsUp(q.positions, q.result[1], q.result[2])
    <2> SUFFICES ASSUME q.stage = "done" PROVE AddsUp(q.positions, q.result[1], q.result[2])
        OBVIOUS
    <2>1. Drillable(positions, priced) /\ q.result[1] = priced /\ q.result[2] = Drill(positions, priced)
        BY <1>5 DEF result
    <2>2. positions \in Seq(PositionsOf(Adapters))
        <3>1. refresh.fleet \ refresh.left \subseteq Adapters
            BY <1>1, FleetOfAdapters
        <3>2. Seq(PositionsOf(refresh.fleet \ refresh.left)) \subseteq Seq(PositionsOf(Adapters))
            BY <3>1, MorePositions
        <3>. QED
            BY <1>1, <3>2 DEF Found
    <2>3. positions \in Seq(PricedPositions(priced))
        BY <2>1, <2>2, DrillablePriced DEF Adapters
    <2>4. AddsUp(positions, priced, Drill(positions, priced))
        BY <1>3, <2>3, DrillAddsUp
    <2>. QED
        BY <1>5, <2>1, <2>4
<1>. QED
    BY <1>1, <1>6, <1>7, <1>8 DEF Sound, q

-----------------------------------------------------------------------------
(* What the adapters find.                                                 *)

LEMMA QuotientTyped == \A x \in Int, y \in Nat \ {0} : x \div y \in Int
OBVIOUS

LEMMA SuppliedTyped ==
    ASSUME NEW asset \in Nat, NEW quantity \in Int
    PROVE  Supplied(asset, quantity) \in UnderlyingStates
BY DEF Supplied, UnderlyingStates

LEMMA PositionTyped ==
    ASSUME NEW name \in Names, NEW n \in Nat, NEW group \in Names,
           NEW underlyings \in Seq(UnderlyingStates)
    PROVE  Position(<<name, n>>, group, underlyings) \in PositionsOf({Turn})
<1> DEFINE U == Seq(UnderlyingStates)
<1>1. underlyings \in U /\ << >> \in Seq(Nat)
    OBVIOUS
<1>. HIDE DEF U
<1>2. Position(<<name, n>>, group, underlyings) \in
          [adapter : {Turn}, id : Names \X Nat, group : Names, info : Seq(Nat), underlyings : U]
    BY <1>1 DEF Position
<1>. QED
    BY <1>2 DEF PositionsOf, U

LEMMA OnePosition ==
    ASSUME NEW name \in Names, NEW n \in Nat, NEW group \in Names,
           NEW u \in UnderlyingStates
    PROVE  <<Position(<<name, n>>, group, <<u>>)>> \in Seq(PositionsOf({Turn}))
<1> DEFINE P == PositionsOf({Turn})
           p == Position(<<name, n>>, group, <<u>>)
<1>1. <<u>> \in Seq(UnderlyingStates)
    OBVIOUS
<1>2. p \in P
    BY <1>1, PositionTyped
<1>. HIDE DEF P, p
<1>3. <<p>> \in Seq(P)
    BY <1>2
<1>. QED
    BY <1>3 DEF P, p

LEMMA NamesAre ==
    {"atoken", "debt", "aave", "receipt", "pair1", "pair2", "manager", "pool"} \subseteq Names
BY DEF Names

LEMMA CursorTyped ==
    ASSUME NEW t, NEW cur \in Cursors(t)
    PROVE  /\ cur.ask \in Asks /\ cur.index \in Nat \ {0} /\ cur.count \in Nat
           /\ cur.held \in Nat /\ cur.supply \in Nat /\ cur.nft \in Seq(NftStates)
           /\ cur.found \in Seq(PositionsOf({t}))
BY DEF Cursors

LEMMA CursorIndexed ==
    ASSUME NEW t, NEW cur \in Cursors(t), NEW i \in Nat \ {0}
    PROVE  /\ [cur EXCEPT !.index = i] \in Cursors(t)
           /\ [cur EXCEPT !.index = i].index = i
           /\ [cur EXCEPT !.index = i].count = cur.count
           /\ [cur EXCEPT !.index = i].nft = cur.nft
           /\ [cur EXCEPT !.index = i].found = cur.found
           /\ [cur EXCEPT !.index = i].ask = cur.ask
<1> DEFINE S == Seq(NftStates)
           P == Seq(PositionsOf({t}))
           C == [ask : Asks, index : Nat \ {0}, count : Nat, held : Nat, supply : Nat,
                 nft : S, found : P]
<1>1. cur \in C
    BY DEF Cursors
<1>2. Cursors(t) = C
    BY DEF Cursors
<1>. HIDE DEF S, P
<1>3. [cur EXCEPT !.index = i] \in C
    BY <1>1
<1>4. /\ [cur EXCEPT !.index = i].index = i
      /\ [cur EXCEPT !.index = i].count = cur.count
      /\ [cur EXCEPT !.index = i].nft = cur.nft
      /\ [cur EXCEPT !.index = i].found = cur.found
      /\ [cur EXCEPT !.index = i].ask = cur.ask
    BY <1>1
<1>. HIDE DEF C
<1>. QED
    BY <1>2, <1>3, <1>4

LEMMA CursorCounts ==
    ASSUME NEW t, NEW cur \in Cursors(t), NEW n \in Nat
    PROVE  /\ [cur EXCEPT !.count = n] \in Cursors(t)
           /\ [cur EXCEPT !.count = n].count = n
           /\ [cur EXCEPT !.count = n].index = cur.index
           /\ [cur EXCEPT !.count = n].nft = cur.nft
           /\ [cur EXCEPT !.count = n].found = cur.found
           /\ [cur EXCEPT !.count = n].ask = cur.ask
<1> DEFINE S == Seq(NftStates)
           P == Seq(PositionsOf({t}))
           C == [ask : Asks, index : Nat \ {0}, count : Nat, held : Nat, supply : Nat,
                 nft : S, found : P]
<1>1. cur \in C
    BY DEF Cursors
<1>2. Cursors(t) = C
    BY DEF Cursors
<1>. HIDE DEF S, P
<1>3. [cur EXCEPT !.count = n] \in C
    BY <1>1
<1>4. /\ [cur EXCEPT !.count = n].count = n
      /\ [cur EXCEPT !.count = n].index = cur.index
      /\ [cur EXCEPT !.count = n].nft = cur.nft
      /\ [cur EXCEPT !.count = n].found = cur.found
      /\ [cur EXCEPT !.count = n].ask = cur.ask
    BY <1>1
<1>. HIDE DEF C
<1>. QED
    BY <1>2, <1>3, <1>4

LEMMA CursorHolds ==
    ASSUME NEW t, NEW cur \in Cursors(t), NEW n \in Nat
    PROVE  /\ [cur EXCEPT !.held = n] \in Cursors(t)
           /\ [cur EXCEPT !.held = n].held = n
           /\ [cur EXCEPT !.held = n].index = cur.index
           /\ [cur EXCEPT !.held = n].count = cur.count
           /\ [cur EXCEPT !.held = n].nft = cur.nft
           /\ [cur EXCEPT !.held = n].found = cur.found
<1> DEFINE S == Seq(NftStates)
           P == Seq(PositionsOf({t}))
           C == [ask : Asks, index : Nat \ {0}, count : Nat, held : Nat, supply : Nat,
                 nft : S, found : P]
<1>1. cur \in C
    BY DEF Cursors
<1>2. Cursors(t) = C
    BY DEF Cursors
<1>. HIDE DEF S, P
<1>3. [cur EXCEPT !.held = n] \in C
    BY <1>1
<1>4. /\ [cur EXCEPT !.held = n].held = n
      /\ [cur EXCEPT !.held = n].index = cur.index
      /\ [cur EXCEPT !.held = n].count = cur.count
      /\ [cur EXCEPT !.held = n].nft = cur.nft
      /\ [cur EXCEPT !.held = n].found = cur.found
    BY <1>1
<1>. HIDE DEF C
<1>. QED
    BY <1>2, <1>3, <1>4

LEMMA CursorSupplied ==
    ASSUME NEW t, NEW cur \in Cursors(t), NEW n \in Nat
    PROVE  /\ [cur EXCEPT !.supply = n] \in Cursors(t)
           /\ [cur EXCEPT !.supply = n].supply = n
           /\ [cur EXCEPT !.supply = n].index = cur.index
           /\ [cur EXCEPT !.supply = n].count = cur.count
           /\ [cur EXCEPT !.supply = n].nft = cur.nft
           /\ [cur EXCEPT !.supply = n].found = cur.found
<1> DEFINE S == Seq(NftStates)
           P == Seq(PositionsOf({t}))
           C == [ask : Asks, index : Nat \ {0}, count : Nat, held : Nat, supply : Nat,
                 nft : S, found : P]
<1>1. cur \in C
    BY DEF Cursors
<1>2. Cursors(t) = C
    BY DEF Cursors
<1>. HIDE DEF S, P
<1>3. [cur EXCEPT !.supply = n] \in C
    BY <1>1
<1>4. /\ [cur EXCEPT !.supply = n].supply = n
      /\ [cur EXCEPT !.supply = n].index = cur.index
      /\ [cur EXCEPT !.supply = n].count = cur.count
      /\ [cur EXCEPT !.supply = n].nft = cur.nft
      /\ [cur EXCEPT !.supply = n].found = cur.found
    BY <1>1
<1>. HIDE DEF C
<1>. QED
    BY <1>2, <1>3, <1>4

LEMMA CursorNft ==
    ASSUME NEW t, NEW cur \in Cursors(t), NEW nft \in Seq(NftStates)
    PROVE  /\ [cur EXCEPT !.nft = nft] \in Cursors(t)
           /\ [cur EXCEPT !.nft = nft].nft = nft
           /\ [cur EXCEPT !.nft = nft].index = cur.index
           /\ [cur EXCEPT !.nft = nft].count = cur.count
           /\ [cur EXCEPT !.nft = nft].held = cur.held
           /\ [cur EXCEPT !.nft = nft].found = cur.found
           /\ [cur EXCEPT !.nft = nft].ask = cur.ask
<1> DEFINE S == Seq(NftStates)
           P == Seq(PositionsOf({t}))
           C == [ask : Asks, index : Nat \ {0}, count : Nat, held : Nat, supply : Nat,
                 nft : S, found : P]
<1>1. cur \in C /\ nft \in S
    BY DEF Cursors
<1>2. Cursors(t) = C
    BY DEF Cursors
<1>. HIDE DEF S, P
<1>3. [cur EXCEPT !.nft = nft] \in C
    BY <1>1
<1>4. /\ [cur EXCEPT !.nft = nft].nft = nft
      /\ [cur EXCEPT !.nft = nft].index = cur.index
      /\ [cur EXCEPT !.nft = nft].count = cur.count
      /\ [cur EXCEPT !.nft = nft].held = cur.held
      /\ [cur EXCEPT !.nft = nft].found = cur.found
      /\ [cur EXCEPT !.nft = nft].ask = cur.ask
    BY <1>1
<1>. HIDE DEF C
<1>. QED
    BY <1>2, <1>3, <1>4

LEMMA CursorFinds ==
    ASSUME NEW t, NEW cur \in Cursors(t), NEW found \in Seq(PositionsOf({t}))
    PROVE  /\ [cur EXCEPT !.found = found] \in Cursors(t)
           /\ [cur EXCEPT !.found = found].found = found
           /\ [cur EXCEPT !.found = found].index = cur.index
           /\ [cur EXCEPT !.found = found].count = cur.count
           /\ [cur EXCEPT !.found = found].held = cur.held
           /\ [cur EXCEPT !.found = found].nft = cur.nft
           /\ [cur EXCEPT !.found = found].ask = cur.ask
<1> DEFINE S == Seq(NftStates)
           P == Seq(PositionsOf({t}))
           C == [ask : Asks, index : Nat \ {0}, count : Nat, held : Nat, supply : Nat,
                 nft : S, found : P]
<1>1. cur \in C /\ found \in P
    BY DEF Cursors
<1>2. Cursors(t) = C
    BY DEF Cursors
<1>. HIDE DEF S, P
<1>3. [cur EXCEPT !.found = found] \in C
    BY <1>1
<1>4. /\ [cur EXCEPT !.found = found].found = found
      /\ [cur EXCEPT !.found = found].index = cur.index
      /\ [cur EXCEPT !.found = found].count = cur.count
      /\ [cur EXCEPT !.found = found].held = cur.held
      /\ [cur EXCEPT !.found = found].nft = cur.nft
      /\ [cur EXCEPT !.found = found].ask = cur.ask
    BY <1>1
<1>. HIDE DEF C
<1>. QED
    BY <1>2, <1>3, <1>4

(* A world, field by field.                                                *)
LEMMA WorldTyped ==
    ASSUME NEW w \in WorldStates
    PROVE  /\ w.supplied \in Nat /\ w.debt \in Nat /\ w.ltv \in Nat /\ w.shares \in Nat
           /\ w.rate \in Nat /\ w.pairs \in Seq(PairStates) /\ w.owned \in Seq(Nat)
           /\ w.nfts \in Seq(NftStates) /\ w.tick \in Int /\ Len(w.pairs) <= 2
<1>1. Len(PairAddress) = 2
    BY DEF PairAddress
<1>. QED
    BY <1>1 DEF WorldStates

-----------------------------------------------------------------------------
(* Discovery. *)

LEMMA DiscoverListedKeeps ==
    ASSUME Sound(refresh, blocks), DiscoverListed
    PROVE  Sound(refresh', blocks')
<1> DEFINE slice == {Descriptor(Turn, address) : address \in Listed[Turn]}
<1>1. refresh.stage = "discover" /\ Turn \in DOMAIN Listed /\ Discovered(slice)
    BY DEF DiscoverListed
<1>2. Turn # "uniswap-v2"
    BY <1>1 DEF Listed
<1>3. \A d \in slice : d.adapter = Turn /\ d.chain = Here
    BY DEF Descriptor
<1>. HIDE DEF slice
<1>. QED
    BY <1>1, <1>2, <1>3, DiscoveredKeeps

LEMMA DiscoverHostKeeps ==
    ASSUME Sound(refresh, blocks), DiscoverHost
    PROVE  Sound(refresh', blocks')
<1>1. refresh.stage = "discover" /\ Turn = "host" /\ Working(refresh)
    BY DEF DiscoverHost, Working
<1>2. PICK answer \in HostSlices :
          IF Acceptable(answer) THEN Discovered(answer.slice) ELSE AdapterFails
    BY DEF DiscoverHost
<1>3. CASE Acceptable(answer)
    <2>1. /\ Discovered(answer.slice)
          /\ \A d \in answer.slice : d.adapter = Turn /\ d.chain = Here
        BY <1>2, <1>3 DEF Acceptable
    <2>. QED
        BY <1>1, <2>1, DiscoveredKeeps
<1>4. CASE ~Acceptable(answer)
    BY <1>1, <1>2, <1>4, AdapterFailsKeeps
<1>. QED
    BY <1>3, <1>4

LEMMA DiscoverLengthKeeps ==
    ASSUME Sound(refresh, blocks), DiscoverLength
    PROVE  Sound(refresh', blocks')
<1>1. refresh.stage = "discover" /\ Turn = "uniswap-v2" /\ Working(refresh)
    BY DEF DiscoverLength, Turns, Working
<1>2. /\ At \in WorldStates /\ refresh.cur \in Cursors(Turn)
    BY <1>1, TurnFacts
<1>3. Len(At.pairs) \in Nat
    BY <1>2, WorldTyped
<1>4. CASE At.pairs = << >>
    <2>1. Discovered({})
        BY <1>4 DEF DiscoverLength
    <2>. QED
        BY <1>1, <2>1, DiscoveredKeeps
<1>5. CASE At.pairs # << >>
    <2> DEFINE cur == [refresh.cur EXCEPT !.count = Len(At.pairs)]
    <2>1. Now("pair", cur)
        BY <1>5 DEF DiscoverLength
    <2>2. cur \in Cursors(Turn) /\ cur.count = Len(At.pairs)
        BY <1>2, <1>3, CursorCounts
    <2>. HIDE DEF cur
    <2>3. "pair" \in Asks
        BY DEF Asks
    <2>4. cur.count <= Len(At.pairs)
        BY <1>3, <2>2
    <2>. QED
        BY <1>1, <2>1, <2>2, <2>3, <2>4, NowKeeps
<1>. QED
    BY <1>4, <1>5

LEMMA PairsDiffer == PairAddress[1] = "pair1" /\ PairAddress[2] = "pair2"
BY DEF PairAddress

LEMMA DiscoverPairKeeps ==
    ASSUME Sound(refresh, blocks), DiscoverPair
    PROVE  Sound(refresh', blocks')
<1> DEFINE cur == refresh.cur
<1>1. refresh.stage = "discover" /\ Turn = "uniswap-v2" /\ Working(refresh)
    BY DEF DiscoverPair, Turns, Working
<1>2. /\ At \in WorldStates /\ cur \in Cursors(Turn) /\ cur.count <= Len(At.pairs)
    BY <1>1, TurnFacts, TurnIs DEF CursorFits
<1>3. /\ cur.index \in Nat \ {0} /\ cur.count \in Nat
      /\ Len(At.pairs) \in Nat /\ Len(At.pairs) <= 2
    <2>1. cur.index \in Nat \ {0} /\ cur.count \in Nat
        BY <1>2, CursorTyped
    <2>2. At.pairs \in Seq(PairStates) /\ Len(At.pairs) <= 2
        BY <1>2, WorldTyped
    <2>. QED
        BY <2>1, <2>2
<1>4. CASE cur.index < cur.count
    <2> DEFINE next == [cur EXCEPT !.index = @ + 1]
    <2>1. Now("pair", next)
        BY <1>4 DEF DiscoverPair
    <2>2. next = [cur EXCEPT !.index = cur.index + 1] /\ cur.index + 1 \in Nat \ {0}
        BY <1>3
    <2>. HIDE DEF next, cur
    <2>3. next \in Cursors(Turn) /\ next.count = cur.count
        BY <1>2, <2>2, CursorIndexed
    <2>4. "pair" \in Asks /\ next.count <= Len(At.pairs)
        BY <1>2, <2>3 DEF Asks
    <2>. QED
        BY <1>1, <2>1, <2>3, <2>4, NowKeeps
<1>5. CASE ~(cur.index < cur.count)
    <2> DEFINE slice == {Descriptor(Turn, PairAddress[i]) : i \in 1 .. cur.count}
    <2>1. Discovered(slice)
        BY <1>5 DEF DiscoverPair
    <2>2. \A d \in slice : d.adapter = Turn /\ d.chain = Here
        BY DEF Descriptor
    <2>3. ASSUME NEW d \in slice, NEW i \in {1, 2}, d.address = PairAddress[i]
          PROVE  i <= Len(At.pairs)
        <3>1. PICK j \in 1 .. cur.count : d = Descriptor(Turn, PairAddress[j])
            OBVIOUS
        <3>2. d.address = PairAddress[j]
            BY <3>1 DEF Descriptor
        <3>3. j \in {1, 2}
            BY <1>2, <1>3
        <3>4. i = j
            <4>1. "pair1" # "pair2"
                OBVIOUS
            <4>2. PairAddress[i] = PairAddress[j]
                BY <2>3, <3>2
            <4>. HIDE DEF slice
            <4>3. CASE i = 1
                BY <3>3, <4>1, <4>2, <4>3, PairsDiffer
            <4>4. CASE i = 2
                BY <3>3, <4>1, <4>2, <4>4, PairsDiffer
            <4>. QED
                BY <4>3, <4>4
        <3>. QED
            BY <1>2, <1>3, <3>4
    <2>. HIDE DEF slice
    <2>. QED
        BY <1>1, <2>1, <2>2, <2>3, DiscoveredKeeps
<1>. QED
    BY <1>4, <1>5

-----------------------------------------------------------------------------
(* Resolution. *)

LEMMA Resolving ==
    ASSUME NEW adapter, NEW ask, Sound(refresh, blocks), Turns("resolve", adapter, ask)
    PROVE  /\ refresh.stage = "resolve" /\ Turn = adapter /\ refresh.cur.ask = ask
           /\ Working(refresh) /\ At \in WorldStates /\ refresh.cur \in Cursors(Turn)
           /\ CursorFits(refresh.cur, refresh, blocks)
<1>1. refresh.stage = "resolve" /\ Turn = adapter /\ refresh.cur.ask = ask /\ Working(refresh)
    BY DEF Turns, Working
<1>. QED
    BY <1>1, TurnFacts

LEMMA ResolveHostKeeps ==
    ASSUME Sound(refresh, blocks), ResolveHost
    PROVE  Sound(refresh', blocks')
<1>1. refresh.stage = "resolve" /\ Turn = "host" /\ Working(refresh)
    BY DEF ResolveHost, Working
<1>2. PICK answer \in HostResults :
          IF answer.raises \/ answer.valued THEN AdapterFails ELSE Resolved(answer.positions)
    BY DEF ResolveHost
<1>3. answer.positions \in Seq(PositionsOf({Turn}))
    BY <1>1, HostSigns
<1>. QED
    BY <1>1, <1>2, <1>3, ResolvedKeeps, AdapterFailsKeeps

LEMMA AaveSuppliedKeeps ==
    ASSUME Sound(refresh, blocks), AaveSupplied
    PROVE  Sound(refresh', blocks')
<1>1. /\ refresh.stage = "resolve" /\ Turn = "aave-v3" /\ Working(refresh)
      /\ At \in WorldStates /\ refresh.cur \in Cursors(Turn)
    BY Resolving DEF AaveSupplied
<1> DEFINE found == <<Position(<<"atoken", 0>>, "aave", <<Supplied(1, At.supplied)>>)>>
<1>2. found \in Seq(PositionsOf({Turn}))
    <2>1. At.supplied \in Int
        BY <1>1, WorldTyped
    <2>2. Supplied(1, At.supplied) \in UnderlyingStates
        BY <2>1, SuppliedTyped
    <2>. QED
        BY <2>2, OnePosition, NamesAre
<1>3. "debt" \in Asks /\ "debt" \notin {"supply", "reserves", "account", "slot0"}
    BY DEF Asks
<1>4. CASE Has("atoken") /\ At.supplied > 0
    <2> DEFINE cur == [refresh.cur EXCEPT !.found = found]
    <2>1. Now("debt", cur)
        BY <1>4 DEF AaveSupplied
    <2>2. cur \in Cursors(Turn)
        BY <1>1, <1>2, CursorFinds
    <2>. HIDE DEF cur, found
    <2>. QED
        BY <1>1, <1>3, <2>1, <2>2, NowKeeps
<1>5. CASE ~(Has("atoken") /\ At.supplied > 0)
    <2>1. Now("debt", refresh.cur)
        BY <1>5 DEF AaveSupplied
    <2>. QED
        BY <1>1, <1>3, <2>1, NowKeeps
<1>. QED
    BY <1>4, <1>5

LEMMA AaveDebtKeeps ==
    ASSUME Sound(refresh, blocks), AaveDebt
    PROVE  Sound(refresh', blocks')
<1> DEFINE owed == [asset |-> 2, quantity |-> At.debt, borrowed |-> TRUE]
           more == IF Has("debt") /\ At.debt > 0
                   THEN <<Position(<<"debt", 0>>, "aave", <<owed>>)>> ELSE << >>
           found == refresh.cur.found \o more
           cur == [refresh.cur EXCEPT !.found = found]
<1>1. /\ refresh.stage = "resolve" /\ Turn = "aave-v3" /\ Working(refresh)
      /\ At \in WorldStates /\ refresh.cur \in Cursors(Turn)
    BY Resolving DEF AaveDebt
<1>2. owed \in UnderlyingStates
    <2>1. At.debt \in Int
        BY <1>1, WorldTyped
    <2>. QED
        BY <2>1 DEF UnderlyingStates
<1>3. IF found = << >> THEN Resolved(<< >>) ELSE Now("account", cur)
    BY DEF AaveDebt
<1>. HIDE DEF owed
<1>4. found \in Seq(PositionsOf({Turn}))
    <2> DEFINE P == PositionsOf({Turn})
    <2>1. <<Position(<<"debt", 0>>, "aave", <<owed>>)>> \in Seq(P)
        BY <1>2, OnePosition, NamesAre
    <2>2. refresh.cur.found \in Seq(P)
        BY <1>1, CursorTyped
    <2>. HIDE DEF P
    <2>3. more \in Seq(P)
        BY <2>1
    <2>. HIDE DEF more
    <2>4. found \in Seq(P)
        BY <2>2, <2>3
    <2>. QED
        BY <2>4 DEF P
<1>. HIDE DEF found
<1>5. cur \in Cursors(Turn) /\ cur.found = found
    BY <1>1, <1>4, CursorFinds
<1>. HIDE DEF cur
<1>6. CASE found = << >>
    <2>1. Resolved(found)
        BY <1>3, <1>6
    <2>. QED
        BY <1>1, <1>4, <2>1, ResolvedKeeps
<1>7. CASE found # << >>
    <2>1. "account" \in Asks /\ "account" \notin {"supply", "reserves", "slot0"}
        BY DEF Asks
    <2>. QED
        BY <1>1, <1>3, <1>5, <1>7, <2>1, NowKeeps
<1>. QED
    BY <1>6, <1>7

LEMMA AaveRatioTyped ==
    ASSUME At \in WorldStates, NEW s \in Seq(PositionsOf({Turn})), s # << >>
    PROVE  [s EXCEPT ![1].info = <<At.ltv>>] \in Seq(PositionsOf({Turn}))
<1> DEFINE P == PositionsOf({Turn})
           found == [s EXCEPT ![1].info = <<At.ltv>>]
           p == [s[1] EXCEPT !.info = <<At.ltv>>]
<1>1. s \in Seq(P) /\ s # << >>
    OBVIOUS
<1>2. At.ltv \in Nat
    BY WorldTyped
<1>3. p \in P
    <2> DEFINE N == Seq(Nat)
               U == Seq(UnderlyingStates)
               q == s[1]
    <2>1. q \in P
        <3>. HIDE DEF P
        <3>. QED
            BY <1>1
    <2>2. q \in [adapter : {Turn}, id : Names \X Nat, group : Names, info : N, underlyings : U]
        BY <2>1 DEF PositionsOf
    <2>3. <<At.ltv>> \in N
        BY <1>2
    <2>. HIDE DEF N, U, q
    <2>4. [q EXCEPT !.info = <<At.ltv>>] \in
              [adapter : {Turn}, id : Names \X Nat, group : Names, info : N, underlyings : U]
        BY <2>2, <2>3
    <2>. QED
        BY <2>4 DEF PositionsOf, N, U, q
<1>4. found = [s EXCEPT ![1] = p]
    OBVIOUS
<1>. HIDE DEF P, p, found
<1>5. found \in Seq(P)
    BY <1>1, <1>3, <1>4
<1>. QED
    BY <1>5 DEF P, found

LEMMA AaveAccountKeeps ==
    ASSUME Sound(refresh, blocks), AaveAccount
    PROVE  Sound(refresh', blocks')
<1> DEFINE s == refresh.cur.found
           found == [s EXCEPT ![1].info = <<At.ltv>>]
<1>1. /\ refresh.stage = "resolve" /\ At \in WorldStates /\ refresh.cur \in Cursors(Turn)
      /\ s # << >>
    BY Resolving DEF AaveAccount, CursorFits
<1>2. Resolved(found)
    BY DEF AaveAccount
<1>3. s \in Seq(PositionsOf({Turn}))
    BY <1>1, CursorTyped
<1>. HIDE DEF s
<1>4. found \in Seq(PositionsOf({Turn}))
    BY <1>1, <1>3, AaveRatioTyped
<1>. HIDE DEF found
<1>. QED
    BY <1>1, <1>2, <1>4, ResolvedKeeps

LEMMA ReceiptShareKeeps ==
    ASSUME Sound(refresh, blocks), ReceiptShare
    PROVE  Sound(refresh', blocks')
<1>1. /\ refresh.stage = "resolve" /\ Turn = "receipt" /\ Working(refresh)
      /\ At \in WorldStates /\ refresh.cur \in Cursors(Turn)
    BY Resolving DEF ReceiptShare
<1>2. CASE Has("receipt") /\ At.shares > 0
    <2> DEFINE cur == [refresh.cur EXCEPT !.held = At.shares]
    <2>1. Now("rate", cur)
        BY <1>2 DEF ReceiptShare
    <2>2. cur \in Cursors(Turn)
        BY <1>1, WorldTyped, CursorHolds
    <2>3. "rate" \in Asks /\ "rate" \notin {"supply", "reserves", "account", "slot0"}
        BY DEF Asks
    <2>. HIDE DEF cur
    <2>. QED
        BY <1>1, <2>1, <2>2, <2>3, NowKeeps
<1>3. CASE ~(Has("receipt") /\ At.shares > 0)
    <2>1. Resolved(<< >>)
        BY <1>3 DEF ReceiptShare
    <2>2. << >> \in Seq(PositionsOf({Turn}))
        OBVIOUS
    <2>. QED
        BY <1>1, <2>1, <2>2, ResolvedKeeps
<1>. QED
    BY <1>2, <1>3

LEMMA ReceiptRateKeeps ==
    ASSUME Sound(refresh, blocks), ReceiptRate
    PROVE  Sound(refresh', blocks')
<1> DEFINE quantity == (refresh.cur.held * At.rate) \div RateOne
           found == <<Position(<<"receipt", 0>>, "receipt", <<Supplied(1, quantity)>>)>>
<1>1. /\ refresh.stage = "resolve" /\ At \in WorldStates /\ refresh.cur \in Cursors(Turn)
    BY Resolving DEF ReceiptRate
<1>2. Resolved(found)
    BY DEF ReceiptRate
<1>3. quantity \in Int
    <2>1. refresh.cur.held \in Int /\ At.rate \in Int /\ RateOne \in Nat \ {0}
        <3>1. refresh.cur.held \in Nat
            BY <1>1, CursorTyped
        <3>2. At.rate \in Nat
            BY <1>1, WorldTyped
        <3>. QED
            BY <3>1, <3>2, UnitsPositive
    <2>2. refresh.cur.held * At.rate \in Int
        BY <2>1
    <2>. QED
        BY <2>1, <2>2, QuotientTyped
<1>. HIDE DEF quantity
<1>4. Supplied(1, quantity) \in UnderlyingStates
    BY <1>3, SuppliedTyped
<1>5. found \in Seq(PositionsOf({Turn}))
    BY <1>4, OnePosition, NamesAre
<1>. HIDE DEF found
<1>. QED
    BY <1>1, <1>2, <1>5, ResolvedKeeps

-----------------------------------------------------------------------------
(* UniswapV2Adapter. *)

LEMMA PairsAre ==
    /\ Pairs \in Seq({1, 2}) /\ Pairs = PairsOf(refresh)
    /\ \A i \in 1 .. Len(Pairs) : Pairs[i] \in {1, 2} /\ Has(PairAddress[Pairs[i]])
<1>1. Pairs = PairsOf(refresh)
    BY PairsDiffer, TurnIs DEF Pairs, PairsOf, Has
<1>2. CASE Has(PairAddress[1]) /\ Has(PairAddress[2])
    <2>1. Pairs = <<1>> \o <<2>>
        BY <1>2 DEF Pairs
    <2>2. <<1>> \in Seq({1, 2}) /\ <<2>> \in Seq({1, 2}) /\ Len(<<1>>) = 1 /\ Len(<<2>>) = 1
        OBVIOUS
    <2>3. /\ Pairs \in Seq({1, 2}) /\ Len(Pairs) = 2
        BY <2>1, <2>2
    <2>4. Pairs[1] = 1 /\ Pairs[2] = 2
        BY <2>1, <2>2
    <2>. QED
        BY <1>1, <1>2, <2>3, <2>4
<1>3. CASE Has(PairAddress[1]) /\ ~Has(PairAddress[2])
    <2>1. Pairs = <<1>> \o << >>
        BY <1>3 DEF Pairs
    <2>2. Pairs = <<1>>
        BY <2>1
    <2>. QED
        BY <1>1, <1>3, <2>2
<1>4. CASE ~Has(PairAddress[1]) /\ Has(PairAddress[2])
    <2>1. Pairs = << >> \o <<2>>
        BY <1>4 DEF Pairs
    <2>2. Pairs = <<2>>
        BY <2>1
    <2>. QED
        BY <1>1, <1>4, <2>2
<1>5. CASE ~Has(PairAddress[1]) /\ ~Has(PairAddress[2])
    <2>1. Pairs = << >> \o << >>
        BY <1>5 DEF Pairs
    <2>2. Pairs = << >>
        BY <2>1
    <2>. QED
        BY <1>1, <2>2
<1>. QED
    BY <1>2, <1>3, <1>4, <1>5

(* The pair that is asked about is there to answer.                        *)
LEMMA PairAnswers ==
    ASSUME Sound(refresh, blocks), refresh.stage = "resolve", Turn = "uniswap-v2",
           refresh.cur.index \in 1 .. Len(Pairs)
    PROVE  PairNow \in {1, 2} /\ At.pairs[PairNow] \in PairStates
<1>1. PairNow \in {1, 2} /\ Has(PairAddress[PairNow])
    BY PairsAre DEF PairNow
<1> DEFINE d == Descriptor(Turn, PairAddress[PairNow])
<1>2. d \in refresh.contracts["uniswap-v2"] /\ d.address = PairAddress[PairNow]
    BY <1>1 DEF Has, Descriptor
<1>. HIDE DEF d
<1>3. /\ PairsThere(refresh, blocks) /\ "uniswap-v2" \in refresh.fleet
      /\ At = AtOf(refresh, blocks) /\ At \in WorldStates
    <2>1. Working(refresh)
        BY DEF Working
    <2>. QED
        BY <2>1, TurnFacts
<1>4. PairNow <= Len(At.pairs)
    BY <1>1, <1>2, <1>3 DEF PairsThere
<1>5. At.pairs \in Seq(PairStates)
    BY <1>3, WorldTyped
<1>. QED
    BY <1>1, <1>4, <1>5

LEMMA V2BalanceKeeps ==
    ASSUME Sound(refresh, blocks), V2Balance
    PROVE  Sound(refresh', blocks')
<1> DEFINE cur == refresh.cur
<1>1. /\ refresh.stage = "resolve" /\ Turn = "uniswap-v2" /\ Working(refresh)
      /\ At \in WorldStates /\ cur \in Cursors(Turn)
    BY Resolving DEF V2Balance
<1>2. cur.index \in Nat \ {0} /\ cur.found \in Seq(PositionsOf({Turn})) /\ Len(Pairs) \in Nat
    <2>1. Len(Pairs) \in Nat
        BY PairsAre
    <2>. QED
        BY <1>1, <2>1, CursorTyped
<1>3. CASE cur.index > Len(Pairs)
    <2>1. Resolved(cur.found)
        BY <1>3 DEF V2Balance
    <2>. QED
        BY <1>1, <1>2, <2>1, ResolvedKeeps
<1>4. CASE ~(cur.index > Len(Pairs))
    <2> DEFINE lp == At.pairs[PairNow].lp
               next == [cur EXCEPT !.index = cur.index + 1]
               asks == [cur EXCEPT !.held = lp]
    <2>1. IF lp = 0 THEN Now("start", next) ELSE Now("supply", asks)
        BY <1>4 DEF V2Balance
    <2>2. lp \in Nat
        <3>1. At.pairs[PairNow] \in PairStates
            BY <1>1, <1>2, <1>4, PairAnswers
        <3>. QED
            BY <3>1 DEF PairStates
    <2>. HIDE DEF lp
    <2>3. next \in Cursors(Turn)
        <3>1. cur.index + 1 \in Nat \ {0}
            BY <1>2
        <3>. HIDE DEF cur
        <3>. QED
            BY <1>1, <3>1, CursorIndexed
    <2>4. asks \in Cursors(Turn) /\ asks.index = cur.index
        <3>. HIDE DEF cur
        <3>. QED
            BY <1>1, <2>2, CursorHolds
    <2>5. asks.index <= Len(PairsOf(refresh))
        BY <1>2, <1>4, <2>4, PairsAre
    <2>6. "start" \in Asks /\ "supply" \in Asks
        BY DEF Asks
    <2>. HIDE DEF cur, next, asks
    <2>7. CASE lp = 0
        <3>1. Now("start", next)
            BY <2>1, <2>7
        <3>. QED
            BY <1>1, <2>3, <2>6, <3>1, NowKeeps
    <2>8. CASE lp # 0
        <3>1. Now("supply", asks)
            BY <2>1, <2>8
        <3>. QED
            BY <1>1, <2>4, <2>5, <2>6, <3>1, NowKeeps
    <2>. QED
        BY <2>7, <2>8
<1>. QED
    BY <1>3, <1>4

LEMMA AskingPair ==
    ASSUME NEW ask \in {"supply", "reserves"}, Sound(refresh, blocks),
           Turns("resolve", "uniswap-v2", ask)
    PROVE  /\ refresh.cur.index \in 1 .. Len(Pairs)
           /\ refresh.cur.index <= Len(PairsOf(refresh))
<1>1. /\ refresh.stage = "resolve" /\ Turn = "uniswap-v2" /\ refresh.cur.ask = ask
      /\ refresh.cur \in Cursors(Turn) /\ CursorFits(refresh.cur, refresh, blocks)
    BY Resolving
<1>2. refresh.cur.index <= Len(PairsOf(refresh))
    BY <1>1, TurnIs DEF CursorFits
<1>3. refresh.cur.index \in Nat \ {0}
    BY <1>1, CursorTyped
<1>4. Len(Pairs) \in Nat /\ Pairs = PairsOf(refresh)
    BY PairsAre
<1>. QED
    BY <1>2, <1>3, <1>4

LEMMA V2SupplyKeeps ==
    ASSUME Sound(refresh, blocks), V2Supply
    PROVE  Sound(refresh', blocks')
<1> DEFINE supply == At.pairs[PairNow].supply
           cur == [refresh.cur EXCEPT !.supply = supply]
<1>1. /\ refresh.stage = "resolve" /\ Turn = "uniswap-v2" /\ Working(refresh)
      /\ refresh.cur \in Cursors(Turn)
    BY Resolving DEF V2Supply
<1>2. refresh.cur.index \in 1 .. Len(Pairs) /\ refresh.cur.index <= Len(PairsOf(refresh))
    BY AskingPair DEF V2Supply
<1>3. supply \in Nat
    <2>1. At.pairs[PairNow] \in PairStates
        BY <1>1, <1>2, PairAnswers
    <2>. QED
        BY <2>1 DEF PairStates
<1>4. Now("reserves", cur)
    BY DEF V2Supply
<1>. HIDE DEF supply
<1>5. cur \in Cursors(Turn) /\ cur.index = refresh.cur.index
    BY <1>1, <1>3, CursorSupplied
<1>6. "reserves" \in Asks
    BY DEF Asks
<1>. HIDE DEF cur
<1>. QED
    BY <1>1, <1>2, <1>4, <1>5, <1>6, NowKeeps

LEMMA V2ReservesKeeps ==
    ASSUME Sound(refresh, blocks), V2Reserves
    PROVE  Sound(refresh', blocks')
<1> DEFINE cur == refresh.cur
           pair == At.pairs[PairNow]
           share0 == (cur.held * pair.r0) \div cur.supply
           share1 == (cur.held * pair.r1) \div cur.supply
           p == Position(<<PairAddress[PairNow], 0>>, PairAddress[PairNow],
                         <<Supplied(1, share0), Supplied(2, share1)>>)
           more == Append(cur.found, p)
           next == [cur EXCEPT !.index = @ + 1, !.found = Append(@, p)]
<1>1. /\ refresh.stage = "resolve" /\ Turn = "uniswap-v2" /\ Working(refresh)
      /\ cur \in Cursors(Turn)
    BY Resolving DEF V2Reserves
<1>2. refresh.cur.index \in 1 .. Len(Pairs)
    BY AskingPair DEF V2Reserves
<1>3. PairNow \in {1, 2} /\ pair \in PairStates
    BY <1>1, <1>2, PairAnswers
<1>4. CASE cur.supply = 0
    <2>1. AdapterFails
        BY <1>4 DEF V2Reserves
    <2>. QED
        BY <1>1, <2>1, AdapterFailsKeeps
<1>5. CASE cur.supply # 0
    <2>1. Now("start", next)
        BY <1>5 DEF V2Reserves
    <2>2. /\ cur.held \in Nat /\ cur.supply \in Nat \ {0} /\ cur.index \in Nat \ {0}
          /\ cur.found \in Seq(PositionsOf({Turn}))
        BY <1>1, <1>5, CursorTyped
    <2>3. pair.r0 \in Nat /\ pair.r1 \in Nat
        BY <1>3 DEF PairStates
    <2>4. share0 \in Int /\ share1 \in Int
        <3>1. cur.held * pair.r0 \in Int /\ cur.held * pair.r1 \in Int
            BY <2>2, <2>3
        <3>. QED
            BY <2>2, <3>1, QuotientTyped
    <2>. HIDE DEF share0, share1
    <2> DEFINE a == Supplied(1, share0)
               b == Supplied(2, share1)
    <2>5. a \in UnderlyingStates /\ b \in UnderlyingStates
        BY <2>4, SuppliedTyped
    <2>. HIDE DEF a, b
    <2>6. <<a, b>> \in Seq(UnderlyingStates)
        BY <2>5
    <2>7. PairAddress[PairNow] \in Names
        BY <1>3, PairsDiffer, NamesAre
    <2>8. p = Position(<<PairAddress[PairNow], 0>>, PairAddress[PairNow], <<a, b>>)
        BY DEF a, b
    <2>9. p \in PositionsOf({Turn})
        BY <2>6, <2>7, <2>8, PositionTyped
    <2>. HIDE DEF p
    <2>10. more \in Seq(PositionsOf({Turn}))
        BY <2>2, <2>9
    <2> DEFINE once == [cur EXCEPT !.index = cur.index + 1]
               twice == [once EXCEPT !.found = more]
    <2>11. once \in Cursors(Turn) /\ once.found = cur.found
        <3>1. cur.index + 1 \in Nat \ {0}
            BY <2>2
        <3>. HIDE DEF cur
        <3>. QED
            BY <1>1, <3>1, CursorIndexed
    <2>12. next = twice
        BY <2>11
    <2>. HIDE DEF once, more, next
    <2>13. next \in Cursors(Turn)
        BY <2>10, <2>11, <2>12, CursorFinds
    <2>14. "start" \in Asks /\ "start" \notin {"supply", "reserves", "account", "slot0"}
        BY DEF Asks
    <2>. QED
        BY <1>1, <2>1, <2>13, <2>14, NowKeeps
<1>. QED
    BY <1>4, <1>5

-----------------------------------------------------------------------------
(* UniswapV3Adapter. *)

LEMMA MaxOfTwo ==
    ASSUME NEW a \in Int, NEW b \in Int
    PROVE  Max({a, b}) = IF a >= b THEN a ELSE b
<1> DEFINE most == IF a >= b THEN a ELSE b
<1>1. most \in {a, b} /\ \A y \in {a, b} : most >= y
    OBVIOUS
<1>2. \A x \in {a, b} : (\A y \in {a, b} : x >= y) => x = most
    OBVIOUS
<1> HIDE DEF most
<1>3. (CHOOSE x \in {a, b} : \A y \in {a, b} : x >= y) = most
    BY <1>1, <1>2
<1>. QED
    BY <1>3 DEF Max, most

(* No price that divides is zero.                                          *)
LEMMA AmountsTyped ==
    ASSUME NEW nft \in NftStates, NEW tick \in Int
    PROVE  Amounts(nft, tick)[1] \in Int /\ Amounts(nft, tick)[2] \in Int
<1> DEFINE a == Sqrt(nft.lower)
           b == Sqrt(nft.upper)
           t == Sqrt(tick)
           p == Min({Max({t, a}), b})
           x == (((nft.liquidity * Q) * (b - p)) \div b) \div p
           y == (nft.liquidity * (p - a)) \div Q
<1>1. /\ nft.lower \in Int /\ nft.upper \in Int /\ nft.liquidity \in Int /\ Q \in Nat \ {0}
      /\ 0 < Q + nft.lower /\ nft.lower <= nft.upper
    BY UnitsPositive DEF NftStates
<1>2. a \in Int /\ b \in Int /\ t \in Int /\ 0 < a /\ a <= b
    BY <1>1 DEF Sqrt
<1>3. Amounts(nft, tick) = <<x, y>>
    BY DEF Amounts
<1>. HIDE DEF a, b, t
<1> DEFINE m == Max({t, a})
<1>4. m \in Int /\ a <= m
    <2>1. m = IF t >= a THEN t ELSE a
        BY <1>2, MaxOfTwo
    <2>. HIDE DEF m
    <2>. QED
        BY <1>2, <2>1
<1>. HIDE DEF m
<1>5. p = Min({m, b})
    BY DEF m
<1>. HIDE DEF p
<1>6. p \in Nat \ {0} /\ b \in Nat \ {0}
    <2>1. p = IF m <= b THEN m ELSE b
        BY <1>2, <1>4, <1>5, MinOfTwo
    <2>. QED
        BY <1>2, <1>4, <2>1
<1>7. x \in Int
    <2>1. (nft.liquidity * Q) * (b - p) \in Int
        <3>1. nft.liquidity * Q \in Int /\ b - p \in Int
            BY <1>1, <1>2, <1>6
        <3>. QED
            BY <3>1
    <2>2. ((nft.liquidity * Q) * (b - p)) \div b \in Int
        BY <1>6, <2>1, QuotientTyped
    <2>. QED
        BY <1>6, <2>2, QuotientTyped
<1>8. y \in Int
    <2>1. p - a \in Int
        BY <1>2, <1>6
    <2>2. nft.liquidity * (p - a) \in Int
        BY <1>1, <2>1
    <2>. QED
        BY <1>1, <2>2, QuotientTyped
<1>. HIDE DEF x, y
<1>. QED
    BY <1>3, <1>7, <1>8

LEMMA NonZeroTyped ==
    ASSUME NEW asset \in Nat, NEW quantity \in Int
    PROVE  NonZero(asset, quantity) \in Seq(UnderlyingStates)
<1>1. Supplied(asset, quantity) \in UnderlyingStates
    BY SuppliedTyped
<1>. QED
    BY <1>1 DEF NonZero

LEMMA NftUnderlyingsTyped ==
    ASSUME NEW nft \in NftStates, NEW tick \in Int
    PROVE  NftUnderlyings(nft, tick) \in Seq(UnderlyingStates)
<1> DEFINE U == UnderlyingStates
           a == NonZero(1, Amounts(nft, tick)[1])
           b == NonZero(2, Amounts(nft, tick)[2])
           c == NonZero(1, nft.owed0)
           d == NonZero(2, nft.owed1)
<1>1. nft.owed0 \in Int /\ nft.owed1 \in Int
    BY DEF NftStates
<1>2. a \in Seq(U) /\ b \in Seq(U) /\ c \in Seq(U) /\ d \in Seq(U)
    BY <1>1, AmountsTyped, NonZeroTyped
<1>3. NftUnderlyings(nft, tick) = ((a \o b) \o c) \o d
    BY DEF NftUnderlyings
<1>. HIDE DEF a, b, c, d, U
<1>4. ((a \o b) \o c) \o d \in Seq(U)
    BY <1>2
<1>. QED
    BY <1>3, <1>4 DEF U

LEMMA NftDoneKeeps ==
    ASSUME Sound(refresh, blocks), refresh.stage = "resolve", Turn = "uniswap-v3",
           NEW cur \in Cursors(Turn), NftDone(cur)
    PROVE  Sound(refresh', blocks')
<1>1. cur.index \in Nat \ {0} /\ cur.found \in Seq(PositionsOf({Turn})) /\ Working(refresh)
    BY CursorTyped DEF Working
<1>2. CASE cur.index = cur.count
    BY <1>1, <1>2, ResolvedKeeps DEF NftDone
<1>3. CASE cur.index # cur.count
    <2> DEFINE next == [cur EXCEPT !.index = cur.index + 1]
    <2>1. Now("token", next)
        BY <1>3 DEF NftDone
    <2>2. next \in Cursors(Turn)
        <3>1. cur.index + 1 \in Nat \ {0}
            BY <1>1
        <3>. QED
            BY <3>1, CursorIndexed
    <2>3. "token" \in Asks /\ "token" \notin {"supply", "reserves", "account", "slot0"}
        BY DEF Asks
    <2>. HIDE DEF next
    <2>. QED
        BY <1>1, <2>1, <2>2, <2>3, NowKeeps
<1>. QED
    BY <1>2, <1>3

LEMMA V3CountKeeps ==
    ASSUME Sound(refresh, blocks), V3Count
    PROVE  Sound(refresh', blocks')
<1>1. /\ refresh.stage = "resolve" /\ Turn = "uniswap-v3" /\ Working(refresh)
      /\ At \in WorldStates /\ refresh.cur \in Cursors(Turn)
    BY Resolving DEF V3Count
<1>2. CASE ~Has("manager") \/ At.owned = << >>
    <2>1. Resolved(<< >>)
        BY <1>2 DEF V3Count
    <2>2. << >> \in Seq(PositionsOf({Turn}))
        OBVIOUS
    <2>. QED
        BY <1>1, <2>1, <2>2, ResolvedKeeps
<1>3. CASE ~(~Has("manager") \/ At.owned = << >>)
    <2> DEFINE next == [refresh.cur EXCEPT !.count = Len(At.owned)]
    <2>1. Now("token", next)
        BY <1>3 DEF V3Count
    <2>2. next \in Cursors(Turn)
        <3>1. At.owned \in Seq(Nat)
            BY <1>1, WorldTyped
        <3>2. Len(At.owned) \in Nat
            BY <3>1
        <3>. QED
            BY <1>1, <3>2, CursorCounts
    <2>3. "token" \in Asks /\ "token" \notin {"supply", "reserves", "account", "slot0"}
        BY DEF Asks
    <2>. HIDE DEF next
    <2>. QED
        BY <1>1, <2>1, <2>2, <2>3, NowKeeps
<1>. QED
    BY <1>2, <1>3

LEMMA V3TokenKeeps ==
    ASSUME Sound(refresh, blocks), V3Token
    PROVE  Sound(refresh', blocks')
<1>1. /\ refresh.stage = "resolve" /\ Turn = "uniswap-v3" /\ Working(refresh)
      /\ At \in WorldStates /\ refresh.cur \in Cursors(Turn)
    BY Resolving DEF V3Token
<1>2. CASE refresh.cur.index > Len(At.owned)
    <2>1. AdapterFails
        BY <1>2 DEF V3Token
    <2>. QED
        BY <1>1, <2>1, AdapterFailsKeeps
<1>3. CASE ~(refresh.cur.index > Len(At.owned))
    <2> DEFINE held == At.owned[refresh.cur.index]
               next == [refresh.cur EXCEPT !.held = held]
    <2>1. Now("nft", next)
        BY <1>3 DEF V3Token
    <2>2. held \in Nat
        <3>1. At.owned \in Seq(Nat)
            BY <1>1, WorldTyped
        <3>2. refresh.cur.index \in Nat \ {0}
            BY <1>1, CursorTyped
        <3>. QED
            BY <1>3, <3>1, <3>2
    <2>. HIDE DEF held
    <2>3. next \in Cursors(Turn)
        BY <1>1, <2>2, CursorHolds
    <2>4. "nft" \in Asks /\ "nft" \notin {"supply", "reserves", "account", "slot0"}
        BY DEF Asks
    <2>. HIDE DEF next
    <2>. QED
        BY <1>1, <2>1, <2>3, <2>4, NowKeeps
<1>. QED
    BY <1>2, <1>3

LEMMA V3NftKeeps ==
    ASSUME Sound(refresh, blocks), V3Nft
    PROVE  Sound(refresh', blocks')
<1> DEFINE cur == refresh.cur
           nft == At.nfts[cur.held]
           next == [cur EXCEPT !.nft = <<nft>>]
<1>1. /\ refresh.stage = "resolve" /\ Turn = "uniswap-v3" /\ Working(refresh)
      /\ At \in WorldStates /\ cur \in Cursors(Turn)
    BY Resolving DEF V3Nft
<1>2. \/ cur.held \notin DOMAIN At.nfts /\ AdapterFails
      \/ NftDone(cur)
      \/ cur.held \in DOMAIN At.nfts /\ Now("slot0", next)
    BY DEF V3Nft
<1>3. CASE AdapterFails
    BY <1>1, <1>3, AdapterFailsKeeps
<1>4. CASE NftDone(cur)
    BY <1>1, <1>4, NftDoneKeeps
<1>5. CASE cur.held \in DOMAIN At.nfts /\ Now("slot0", next)
    <2>1. nft \in NftStates
        <3>1. At.nfts \in Seq(NftStates)
            BY <1>1, WorldTyped
        <3>. QED
            BY <1>5, <3>1, ElementOfSeq
    <2>. HIDE DEF nft
    <2>2. <<nft>> \in Seq(NftStates) /\ <<nft>> # << >>
        BY <2>1
    <2>3. next \in Cursors(Turn) /\ next.nft # << >>
        <3>. HIDE DEF cur
        <3>. QED
            BY <1>1, <2>2, CursorNft
    <2>4. "slot0" \in Asks /\ "slot0" \notin {"supply", "reserves", "account"}
        BY DEF Asks
    <2>. HIDE DEF next, cur
    <2>. QED
        BY <1>1, <1>5, <2>3, <2>4, NowKeeps
<1>. QED
    BY <1>2, <1>3, <1>4, <1>5

LEMMA V3Slot0Keeps ==
    ASSUME Sound(refresh, blocks), V3Slot0
    PROVE  Sound(refresh', blocks')
<1> DEFINE cur == refresh.cur
           underlyings == NftUnderlyings(cur.nft[1], At.tick)
           p == Position(<<"manager", cur.held>>, "pool", underlyings)
           more == Append(cur.found, p)
           next == [cur EXCEPT !.nft = << >>, !.found = Append(@, p)]
<1>1. /\ refresh.stage = "resolve" /\ Turn = "uniswap-v3" /\ Working(refresh)
      /\ At \in WorldStates /\ cur \in Cursors(Turn) /\ cur.nft # << >>
    BY Resolving DEF V3Slot0, CursorFits
<1>2. IF underlyings = << >> THEN AdapterFails ELSE NftDone(next)
    BY DEF V3Slot0
<1>3. next \in Cursors(Turn)
    <2>1. /\ cur.held \in Nat /\ cur.found \in Seq(PositionsOf({Turn}))
          /\ cur.nft \in Seq(NftStates)
        BY <1>1, CursorTyped
    <2>2. cur.nft[1] \in NftStates
        <3>1. 1 \in 1 .. Len(cur.nft)
            BY <1>1, <2>1
        <3>. QED
            BY <2>1, <3>1, ElementOfSeq
    <2>3. At.tick \in Int
        BY <1>1, WorldTyped
    <2>4. underlyings \in Seq(UnderlyingStates)
        BY <2>2, <2>3, NftUnderlyingsTyped
    <2>. HIDE DEF underlyings
    <2>5. p \in PositionsOf({Turn})
        BY <2>1, <2>4, PositionTyped, NamesAre
    <2>. HIDE DEF p
    <2>6. more \in Seq(PositionsOf({Turn}))
        BY <2>1, <2>5
    <2> DEFINE once == [cur EXCEPT !.nft = << >>]
               twice == [once EXCEPT !.found = more]
    <2>7. once \in Cursors(Turn) /\ once.found = cur.found
        <3>1. << >> \in Seq(NftStates)
            OBVIOUS
        <3>. HIDE DEF cur
        <3>. QED
            BY <1>1, <3>1, CursorNft
    <2>8. next = twice
        BY <2>7
    <2>. HIDE DEF once, more, next
    <2>. QED
        BY <2>6, <2>7, <2>8, CursorFinds
<1>. HIDE DEF next
<1>4. CASE underlyings = << >>
    BY <1>1, <1>2, <1>4, AdapterFailsKeeps
<1>5. CASE underlyings # << >>
    BY <1>1, <1>2, <1>3, <1>5, NftDoneKeeps
<1>. QED
    BY <1>4, <1>5

-----------------------------------------------------------------------------
LEMMA PositionsInvStarts ==
    ASSUME PositionsInit
    PROVE  PositionsInv
BY DEF PositionsInit, PositionsInv

(* What is not idle is at a stage.                                         *)
LEMMA OnlyBegins ==
    ASSUME refresh = Idle, PositionsNext
    PROVE  Begin
<1>1. refresh.stage = "idle" /\ ~Active
    BY DEF Idle, Active
<1>2. ~Requesting /\ \A adapter, ask :
          ~Turns("discover", adapter, ask) /\ ~Turns("resolve", adapter, ask)
    BY <1>1 DEF Requesting, Turns
<1>. QED
    BY <1>1, <1>2 DEF PositionsNext, NextBlock, CallFails, PriceAndDrill, DiscoverListed,
        DiscoverHost, DiscoverLength, DiscoverPair, ResolveHost, AaveSupplied, AaveDebt,
        AaveAccount, ReceiptShare, ReceiptRate, V2Balance, V2Supply, V2Reserves, V3Count,
        V3Token, V3Nft, V3Slot0

LEMMA PositionsInvKept ==
    ASSUME PositionsInv, [PositionsNext]_positionVars
    PROVE  PositionsInv'
<1>1. CASE UNCHANGED positionVars
    <2>1. refresh' = refresh /\ blocks' = blocks
        BY <1>1 DEF positionVars
    <2>. QED
        BY <2>1 DEF PositionsInv
<1>2. CASE refresh = Idle /\ PositionsNext
    BY <1>2, OnlyBegins, BeginKeeps DEF PositionsInv
<1>3. CASE refresh # Idle /\ PositionsNext
    <2>1. Sound(refresh, blocks)
        BY <1>3 DEF PositionsInv
    <2>2. Sound(refresh', blocks')
        BY <1>3, <2>1, NextBlockKeeps, BeginKeeps, CallFailsKeeps, PriceAndDrillKeeps,
           DiscoverListedKeeps, DiscoverHostKeeps, DiscoverLengthKeeps, DiscoverPairKeeps,
           ResolveHostKeeps, AaveSuppliedKeeps, AaveDebtKeeps, AaveAccountKeeps,
           ReceiptShareKeeps, ReceiptRateKeeps, V2BalanceKeeps, V2SupplyKeeps,
           V2ReservesKeeps, V3CountKeeps, V3TokenKeeps, V3NftKeeps, V3Slot0Keeps
        DEF PositionsNext
    <2>. QED
        BY <2>2 DEF PositionsInv
<1>. QED
    BY <1>1, <1>2, <1>3

LEMMA PositionsInvAddsUp ==
    ASSUME PositionsInv
    PROVE  NetWorthAddsUp
<1>1. CASE refresh = Idle
    BY <1>1 DEF NetWorthAddsUp, Idle
<1>2. CASE refresh # Idle
    <2>1. Sound(refresh, blocks)
        BY <1>2 DEF PositionsInv
    <2>2. \A a \in refresh.fleet : \A d \in refresh.contracts[a] : d.adapter = a /\ d.chain = Here
        BY <2>1 DEF Sound, OwnSlices
    <2>3. ASSUME NEW k \in DOMAIN refresh.positions
          PROVE  <<"resolve", refresh.positions[k].adapter>> \notin refresh.failures
        <3>1. Found(refresh) /\ refresh.fleet \subseteq Adapters
            BY <2>1, FleetOfAdapters DEF Sound
        <3> DEFINE P == PositionsOf(refresh.fleet \ refresh.left)
        <3>2. refresh.positions \in Seq(P)
            BY <3>1 DEF Found
        <3>. HIDE DEF P
        <3>3. refresh.positions[k] \in P
            BY <3>2, ElementOfSeq
        <3>4. refresh.positions[k].adapter \in Adapters
            BY <3>1, <3>3 DEF P, PositionsOf
        <3>. QED
            BY <3>1, <3>4 DEF Found
    <2>4. refresh.stage = "done" => AddsUp(refresh.positions, refresh.result[1], refresh.result[2])
        BY <2>1 DEF Sound
    <2>. QED
        BY <2>2, <2>3, <2>4 DEF NetWorthAddsUp, AddsUp
<1>. QED
    BY <1>1, <1>2

(* Whatever the contracts hold at whichever block each was read, whichever *)
(* adapters fail and whatever the host's own returns: of a refresh that    *)
(* ends, net worth is the assets less the debts, what the synthetic        *)
(* holdings sum to and what the groups sum to; an adapter that failed to   *)
(* resolve added nothing; and no slice holds another adapter's contracts.  *)
THEOREM NetWorthAlwaysAddsUp == PositionsSpec => []NetWorthAddsUp
<1>1. PositionsInit => PositionsInv
    BY PositionsInvStarts
<1>2. PositionsInv /\ [PositionsNext]_positionVars => PositionsInv'
    BY PositionsInvKept
<1>3. PositionsInv => NetWorthAddsUp
    BY PositionsInvAddsUp
<1>. QED
    BY <1>1, <1>2, <1>3, PTL DEF PositionsSpec

-----------------------------------------------------------------------------
(* A refresh that reads one world, w, from its first call to its last.     *)

Shipped == {"aave-v3", "receipt", "uniswap-v2", "uniswap-v3"}

Pinned(r, bs) == r.pin # 0 \/ Len(bs) = 1

(* What an adapter discovers in w.                                         *)
Offered(a, w) ==
    IF a = "uniswap-v2" THEN {PairAddress[i] : i \in 1 .. Len(w.pairs)} ELSE Listed[a]

Served(a, w) == {Descriptor(a, x) : x \in Offered(a, w)}

Touched(slice, touched) == {d \in slice : d.address \in touched}

(* What it finds there.                                                    *)
Exact(a, found, touched, w) ==
    /\ a = "aave-v3" => AaveExact(found, touched, w)
    /\ a = "receipt" => ReceiptExact(found, touched, w)
    /\ a = "uniswap-v2" => PairsExact(found, touched, w)
    /\ a = "uniswap-v3" => NftsExact(found, touched, w)

FailedIn(r, a) == \E stage \in {"discover", "resolve"} : <<stage, a>> \in r.failures

Explained(r, w) ==
    \A failure \in r.failures :
        \/ failure[2] \in r.refused \cup {"host"}
        \/ failure[2] = "uniswap-v3" /\ Dust(w)

(* Every adapter but those in left has had its turn.                       *)
SlicesAgree(r, w, left) ==
    \A a \in Shipped : a \in r.fleet /\ <<"discover", a>> \notin r.failures =>
        /\ r.stage = "discover" /\ a \notin left => r.contracts[a] = Served(a, w)
        /\ r.stage # "discover" => r.contracts[a] = Touched(Served(a, w), r.touched)

FindsAgree(r, w, left) ==
    \A a \in Shipped : a \in r.fleet /\ a \notin left /\ r.stage # "discover" /\ ~FailedIn(r, a) =>
        Exact(a, Of(r.positions, a), r.touched, w)

-----------------------------------------------------------------------------
(* What the adapter at work has been told is of w.                         *)

HasOf(r, x) == Descriptor(TurnOf(r), x) \in r.contracts[TurnOf(r)]

AavePosition(name, asset, quantity, borrowed) ==
    [adapter |-> "aave-v3", id |-> <<name, 0>>, group |-> "aave", info |-> <<>>,
     underlyings |-> <<[asset |-> asset, quantity |-> quantity, borrowed |-> borrowed]>>]

SuppliedThere(r, w) ==
    IF HasOf(r, "atoken") /\ w.supplied > 0
    THEN <<AavePosition("atoken", 1, w.supplied, FALSE)>> ELSE <<>>

OwedThere(r, w) ==
    IF HasOf(r, "debt") /\ w.debt > 0
    THEN <<AavePosition("debt", 2, w.debt, TRUE)>> ELSE <<>>

AaveAgrees(cur, r, w) ==
    /\ cur.ask = "start" => cur.found = <<>>
    /\ cur.ask = "debt" => cur.found = SuppliedThere(r, w)
    /\ cur.ask = "account" => cur.found = SuppliedThere(r, w) \o OwedThere(r, w)

ReceiptAgrees(cur, r, w) ==
    cur.ask = "rate" => HasOf(r, "receipt") /\ cur.held = w.shares /\ w.shares > 0

(* The pairs asked about so far, and those of them with a balance.         *)
Passed(i, cur, r) ==
    \E k \in 1 .. cur.index - 1 : k <= Len(PairsOf(r)) /\ PairsOf(r)[k] = i

These(one, two) == (IF one THEN <<1>> ELSE <<>>) \o (IF two THEN <<2>> ELSE <<>>)

HeldSoFar(cur, r, w) ==
    These(Passed(1, cur, r) /\ w.pairs[1].lp > 0, Passed(2, cur, r) /\ w.pairs[2].lp > 0)

PairMatches(p, i, w) ==
    /\ p.id = <<PairAddress[i], 0>>
    /\ Floor(Quantity(p, 1), w.pairs[i].lp, w.pairs[i].r0, w.pairs[i].supply)
    /\ Floor(Quantity(p, 2), w.pairs[i].lp, w.pairs[i].r1, w.pairs[i].supply)

PairsMatch(found, held, w) ==
    /\ Len(found) = Len(held)
    /\ \A k \in DOMAIN held : PairMatches(found[k], held[k], w)

PairsAgree(cur, r, w) ==
    LET pair == w.pairs[PairsOf(r)[cur.index]] IN
    /\ PairsMatch(cur.found, HeldSoFar(cur, r, w), w)
    /\ cur.ask \in {"supply", "reserves"} => cur.held = pair.lp /\ cur.held > 0
    /\ cur.ask = "reserves" => cur.supply = pair.supply

(* The NFTs owned, less those with nothing in them.                        *)
Pieces(w) ==
    [k \in 1 .. Len(w.owned) |-> IF Empty(w.nfts[w.owned[k]]) THEN <<>> ELSE <<w.owned[k]>>]

Kept(w, n) == FlattenSeq(SubSeq(Pieces(w), 1, n))

(* A position of an NFT is what that NFT would pay at the world's price.   *)
NftMatches(found, i, w) ==
    found.id = <<"manager", i>> /\ found.underlyings = NftUnderlyings(w.nfts[i], w.tick)

NftsMatch(found, held, w) ==
    /\ Len(found) = Len(held)
    /\ \A k \in DOMAIN held : NftMatches(found[k], held[k], w)

NftsAgree(cur, r, w) ==
    /\ NftsMatch(cur.found, Kept(w, cur.index - 1), w)
    /\ cur.ask = "start" => cur.index = 1
    /\ cur.ask \in {"token", "nft", "slot0"} =>
           HasOf(r, "manager") /\ cur.count = Len(w.owned) /\ cur.index <= cur.count
    /\ cur.ask \in {"nft", "slot0"} => cur.held = w.owned[cur.index]
    /\ cur.ask = "slot0" => cur.nft = <<w.nfts[cur.held]>> /\ ~Empty(w.nfts[cur.held])

CursorAgrees(cur, r, w) ==
    /\ r.stage = "discover" /\ TurnOf(r) = "uniswap-v2" /\ cur.ask = "pair" =>
           cur.count = Len(w.pairs)
    /\ r.stage = "resolve" =>
           /\ TurnOf(r) = "aave-v3" => AaveAgrees(cur, r, w)
           /\ TurnOf(r) = "receipt" => ReceiptAgrees(cur, r, w)
           /\ TurnOf(r) = "uniswap-v2" => PairsAgree(cur, r, w)
           /\ TurnOf(r) = "uniswap-v3" => NftsAgree(cur, r, w)

Agreed(r, w) ==
    /\ Explained(r, w) /\ SlicesAgree(r, w, r.left) /\ FindsAgree(r, w, r.left)
    /\ Working(r) => CursorAgrees(r.cur, r, w)
    /\ ~Working(r) => r.left = {}

AgreedInv ==
    refresh # Idle /\ Pinned(refresh, blocks) => Agreed(refresh, blocks[1])

-----------------------------------------------------------------------------
(* What an adapter found, of all that was found.                           *)

(* Joins of lists of one, and of none.                                     *)
LEMMA FlattenSingles ==
    ASSUME NEW S, NEW s \in Seq(S)
    PROVE  FlattenSeq([k \in 1 .. Len(s) |-> <<s[k]>>]) = s
<1> DEFINE lists == [k \in 1 .. Len(s) |-> <<s[k]>>]
           n == Len(s)
           T == {m \in 0 .. n : FlattenSeq(SubSeq(lists, 1, m)) = SubSeq(s, 1, m)}
<1>1. n \in Nat /\ lists \in Seq(Seq(S)) /\ Len(lists) = n /\ \A k \in 1 .. n : lists[k] = <<s[k]>>
    <2>1. \A k \in 1 .. n : <<s[k]>> \in Seq(S)
        OBVIOUS
    <2>. QED
        BY <2>1
<1>. HIDE DEF lists, n
<1>2. 0 \in T
    <2>1. SubSeq(lists, 1, 0) = << >> /\ SubSeq(s, 1, 0) = << >>
        BY <1>1
    <2>2. FlattenSeq(SubSeq(lists, 1, 0)) = SubSeq(s, 1, 0)
        BY <2>1, FlattenNone
    <2>3. 0 \in 0 .. n
        BY <1>1
    <2>. QED
        BY <2>2, <2>3, Zenon
<1>3. ASSUME NEW m \in 0 .. n - 1, m \in T PROVE m + 1 \in T
    <2>1. /\ lists[m + 1] = <<s[m + 1]>> /\ SubSeq(lists, 1, m) \in Seq(Seq(S))
          /\ SubSeq(lists, 1, m + 1) = Append(SubSeq(lists, 1, m), lists[m + 1])
        <3>1. m \in 0 .. Len(lists) - 1 /\ m + 1 \in 1 .. n
            BY <1>1
        <3>. QED
            BY <1>1, <3>1, OneMoreOf
    <2>2. /\ s[m + 1] \in S /\ SubSeq(s, 1, m) \in Seq(S)
          /\ SubSeq(s, 1, m + 1) = Append(SubSeq(s, 1, m), s[m + 1])
        BY OneMoreOf DEF n
    <2>3. <<s[m + 1]>> \in Seq(S)
        BY <2>2
    <2>4. FlattenSeq(SubSeq(lists, 1, m + 1)) = FlattenSeq(SubSeq(lists, 1, m)) \o <<s[m + 1]>>
        BY <2>1, <2>3, FlattenAppend
    <2>5. SubSeq(s, 1, m) \o <<s[m + 1]>> = Append(SubSeq(s, 1, m), s[m + 1])
        BY <2>2
    <2>. QED
        BY <1>1, <1>3, <2>2, <2>4, <2>5
<1>4. n \in T
    <2>. HIDE DEF T
    <2>1. \A i \in 0 .. n : i \in T
        BY <1>1, <1>2, <1>3, CountingUp
    <2>. QED
        BY <1>1, <2>1
<1>5. SubSeq(lists, 1, n) = lists /\ SubSeq(s, 1, n) = s
    BY <1>1, SubSeqFull DEF n
<1>. QED
    BY <1>4, <1>5 DEF lists, n

LEMMA FlattenEmpties ==
    ASSUME NEW n \in Nat
    PROVE  FlattenSeq([k \in 1 .. n |-> << >>]) = << >>
<1> DEFINE lists == [k \in 1 .. n |-> << >>]
           T == {m \in 0 .. n : FlattenSeq(SubSeq(lists, 1, m)) = << >>}
<1>1. lists \in Seq(Seq({})) /\ Len(lists) = n /\ \A k \in 1 .. n : lists[k] = << >>
    <2>1. << >> \in Seq({})
        OBVIOUS
    <2>. QED
        BY <2>1
<1>. HIDE DEF lists
<1>2. 0 \in T
    <2>1. SubSeq(lists, 1, 0) = << >>
        BY <1>1
    <2>2. FlattenSeq(SubSeq(lists, 1, 0)) = << >>
        BY <2>1, FlattenNone
    <2>3. 0 \in 0 .. n
        OBVIOUS
    <2>. QED
        BY <2>2, <2>3, Zenon
<1>3. ASSUME NEW m \in 0 .. n - 1, m \in T PROVE m + 1 \in T
    <2>1. /\ lists[m + 1] = << >> /\ SubSeq(lists, 1, m) \in Seq(Seq({}))
          /\ SubSeq(lists, 1, m + 1) = Append(SubSeq(lists, 1, m), lists[m + 1])
        <3>1. m \in 0 .. Len(lists) - 1 /\ m + 1 \in 1 .. n
            BY <1>1
        <3>. QED
            BY <1>1, <3>1, OneMoreOf
    <2>2. << >> \in Seq({}) /\ << >> \o << >> = << >>
        OBVIOUS
    <2>3. FlattenSeq(SubSeq(lists, 1, m + 1)) = FlattenSeq(SubSeq(lists, 1, m)) \o << >>
        BY <2>1, <2>2, FlattenAppend
    <2>4. FlattenSeq(SubSeq(lists, 1, m)) = << >> /\ m + 1 \in 0 .. n
        BY <1>3
    <2>. QED
        BY <2>2, <2>3, <2>4
<1>4. n \in T
    <2>. HIDE DEF T
    <2>1. \A i \in 0 .. n : i \in T
        BY <1>2, <1>3, CountingUp
    <2>. QED
        BY <2>1
<1>5. SubSeq(lists, 1, n) = lists
    BY <1>1, SubSeqFull
<1>. QED
    BY <1>4, <1>5 DEF lists

ChosenOf(s, a) ==
    [k \in DOMAIN s |-> IF s[k].adapter = a THEN <<s[k]>> ELSE <<>>]

LEMMA ChosenTyped ==
    ASSUME NEW P, NEW s \in Seq(P), NEW a
    PROVE  /\ ChosenOf(s, a) \in Seq(Seq(P)) /\ Len(ChosenOf(s, a)) = Len(s)
           /\ Of(s, a) = FlattenSeq(ChosenOf(s, a))
<1> DEFINE one(k) == IF s[k].adapter = a THEN <<s[k]>> ELSE << >>
<1>1. DOMAIN s = 1 .. Len(s) /\ Len(s) \in Nat /\ \A k \in 1 .. Len(s) : one(k) \in Seq(P)
    OBVIOUS
<1>2. ChosenOf(s, a) = [k \in 1 .. Len(s) |-> one(k)]
    BY <1>1 DEF ChosenOf
<1>. HIDE DEF one
<1>3. /\ [k \in 1 .. Len(s) |-> one(k)] \in Seq(Seq(P))
      /\ Len([k \in 1 .. Len(s) |-> one(k)]) = Len(s)
    BY <1>1
<1>. QED
    BY <1>2, <1>3 DEF Of, ChosenOf

LEMMA OfJoins ==
    ASSUME NEW P, NEW s \in Seq(P), NEW t \in Seq(P), NEW a
    PROVE  Of(s \o t, a) = Of(s, a) \o Of(t, a)
<1> DEFINE u == s \o t
           cs == ChosenOf(s, a)
           ct == ChosenOf(t, a)
           cu == ChosenOf(u, a)
<1>1. /\ u \in Seq(P) /\ Len(u) = Len(s) + Len(t) /\ Len(s) \in Nat /\ Len(t) \in Nat
      /\ \A k \in 1 .. Len(s) : u[k] = s[k]
      /\ \A k \in 1 .. Len(t) : u[Len(s) + k] = t[k]
    OBVIOUS
<1>. HIDE DEF u
<1>2. /\ cs \in Seq(Seq(P)) /\ ct \in Seq(Seq(P)) /\ cu \in Seq(Seq(P))
      /\ Len(cs) = Len(s) /\ Len(ct) = Len(t) /\ Len(cu) = Len(u)
      /\ Of(s, a) = FlattenSeq(cs) /\ Of(t, a) = FlattenSeq(ct) /\ Of(u, a) = FlattenSeq(cu)
    BY <1>1, ChosenTyped
<1>3. /\ \A k \in 1 .. Len(s) : cs[k] = IF s[k].adapter = a THEN <<s[k]>> ELSE << >>
      /\ \A k \in 1 .. Len(t) : ct[k] = IF t[k].adapter = a THEN <<t[k]>> ELSE << >>
      /\ \A k \in 1 .. Len(u) : cu[k] = IF u[k].adapter = a THEN <<u[k]>> ELSE << >>
    BY <1>1 DEF ChosenOf
<1>. HIDE DEF cs, ct, cu
<1>4. /\ cs \o ct \in Seq(Seq(P)) /\ Len(cs \o ct) = Len(u)
      /\ \A k \in 1 .. Len(s) : (cs \o ct)[k] = cs[k]
      /\ \A k \in 1 .. Len(t) : (cs \o ct)[Len(s) + k] = ct[k]
    <2>1. cs \o ct \in Seq(Seq(P))
        BY <1>2, ConcatProperties
    <2>2. Len(cs \o ct) = Len(u)
        <3>1. Len(cs \o ct) = Len(cs) + Len(ct)
            BY <1>2, ConcatProperties
        <3>. QED
            BY <1>1, <1>2, <3>1, Zenon
    <2>3. Laid(cs, ct, cs \o ct)
        BY <1>2, Concatenated
    <2>. QED
        BY <1>2, <2>1, <2>2, <2>3 DEF Laid
<1>5. ASSUME NEW k \in 1 .. Len(u) PROVE cu[k] = (cs \o ct)[k]
    <2>1. CASE k <= Len(s)
        <3>1. k \in 1 .. Len(s)
            BY <1>1, <2>1
        <3>. QED
            BY <1>1, <1>3, <1>4, <3>1
    <2>2. CASE ~(k <= Len(s))
        <3>1. k - Len(s) \in 1 .. Len(t) /\ Len(s) + (k - Len(s)) = k
            BY <1>1, <2>2
        <3> DEFINE j == k - Len(s)
        <3>. HIDE DEF j
        <3>2. j \in 1 .. Len(t) /\ Len(s) + j = k
            BY <3>1 DEF j
        <3>3. u[k] = t[j] /\ (cs \o ct)[k] = ct[j]
            BY <1>1, <1>4, <3>2
        <3>. QED
            BY <1>3, <3>2, <3>3
    <2>. QED
        BY <2>1, <2>2
<1>6. cu = cs \o ct
    BY <1>2, <1>4, <1>5, SeqEqual
<1>7. FlattenSeq(cs \o ct) = FlattenSeq(cs) \o FlattenSeq(ct)
    BY <1>2, FlattenSplits
<1>. QED
    BY <1>2, <1>6, <1>7 DEF u

LEMMA OfAll ==
    ASSUME NEW P, NEW s \in Seq(P), NEW a, \A p \in P : p.adapter = a
    PROVE  Of(s, a) = s
<1>1. \A k \in DOMAIN s : s[k] \in P
    OBVIOUS
<1>2. ChosenOf(s, a) = [k \in DOMAIN s |-> <<s[k]>>]
    BY <1>1 DEF ChosenOf
<1>3. DOMAIN s = 1 .. Len(s)
    OBVIOUS
<1>4. ChosenOf(s, a) = [k \in 1 .. Len(s) |-> <<s[k]>>]
    BY <1>2, <1>3, Zenon
<1>5. FlattenSeq([k \in 1 .. Len(s) |-> <<s[k]>>]) = s
    BY FlattenSingles
<1>6. Of(s, a) = FlattenSeq(ChosenOf(s, a))
    BY ChosenTyped
<1>. QED
    BY <1>4, <1>5, <1>6, Zenon

LEMMA OfNone ==
    ASSUME NEW P, NEW s \in Seq(P), NEW a, \A p \in P : p.adapter # a
    PROVE  Of(s, a) = << >>
<1>1. \A k \in DOMAIN s : s[k] \in P
    OBVIOUS
<1>2. ChosenOf(s, a) = [k \in DOMAIN s |-> << >>]
    BY <1>1 DEF ChosenOf
<1>3. DOMAIN s = 1 .. Len(s) /\ Len(s) \in Nat
    OBVIOUS
<1>. QED
    BY <1>2, <1>3, ChosenTyped, FlattenEmpties

-----------------------------------------------------------------------------
(* The turn is over, or goes on.                                           *)

CursorFields == {"ask", "index", "count", "held", "supply", "nft", "found"}

LEMMA CursorDomain ==
    ASSUME NEW t, NEW cur \in Cursors(t)
    PROVE  DOMAIN cur = CursorFields
<1> DEFINE S == Seq(NftStates)
           P == Seq(PositionsOf({t}))
<1>1. cur \in [ask : Asks, index : Nat \ {0}, count : Nat, held : Nat, supply : Nat,
               nft : S, found : P]
    BY DEF Cursors
<1>. HIDE DEF S, P
<1>. QED
    BY <1>1 DEF CursorFields

(* A step that leaves a refresh pinned where it was.                       *)
Remains ==
    blocks' = blocks /\ refresh'.pin = refresh.pin /\ Agreed(refresh', At)

LEMMA PiecesTyped ==
    ASSUME NEW w \in WorldStates
    PROVE  /\ Pieces(w) \in Seq(Seq(Nat)) /\ Len(Pieces(w)) = Len(w.owned)
           /\ Len(w.owned) \in Nat /\ Kept(w, 0) = << >>
           /\ \A n \in 0 .. Len(w.owned) - 1 :
                  Kept(w, n + 1) = Kept(w, n) \o Pieces(w)[n + 1] /\ Kept(w, n) \in Seq(Nat)
           /\ Kept(w, Len(w.owned)) = FlattenSeq(Pieces(w))
<1> DEFINE one(k) == IF Empty(w.nfts[w.owned[k]]) THEN << >> ELSE <<w.owned[k]>>
           pieces == Pieces(w)
           n == Len(w.owned)
<1>1. w.owned \in Seq(Nat) /\ Len(w.owned) \in Nat
    BY WorldTyped
<1>2. \A k \in 1 .. n : one(k) \in Seq(Nat)
    BY <1>1
<1>3. Pieces(w) = [k \in 1 .. n |-> one(k)]
    BY DEF Pieces
<1>. HIDE DEF one, n
<1>4. pieces \in Seq(Seq(Nat)) /\ Len(pieces) = n /\ n \in Nat
    BY <1>1, <1>2, <1>3 DEF n
<1>. HIDE DEF pieces
<1>5. SubSeq(pieces, 1, 0) = << >> /\ SubSeq(pieces, 1, n) = pieces
    BY <1>4, SubSeqFull
<1>6. Kept(w, 0) = << >> /\ Kept(w, n) = FlattenSeq(pieces)
    BY <1>5, FlattenNone DEF Kept, pieces
<1>7. ASSUME NEW m \in 0 .. n - 1
      PROVE  Kept(w, m + 1) = Kept(w, m) \o pieces[m + 1] /\ Kept(w, m) \in Seq(Nat)
    <2>1. /\ pieces[m + 1] \in Seq(Nat) /\ SubSeq(pieces, 1, m) \in Seq(Seq(Nat))
          /\ SubSeq(pieces, 1, m + 1) = Append(SubSeq(pieces, 1, m), pieces[m + 1])
        BY <1>4, OneMoreOf
    <2>2. /\ FlattenSeq(SubSeq(pieces, 1, m + 1)) = FlattenSeq(SubSeq(pieces, 1, m)) \o pieces[m + 1]
          /\ FlattenSeq(SubSeq(pieces, 1, m)) \in Seq(Nat)
        BY <2>1, FlattenAppend, FlattenTyped
    <2>. QED
        BY <2>2 DEF Kept, pieces
<1>. QED
    BY <1>4, <1>6, <1>7 DEF pieces, n

LEMMA StartAgrees ==
    ASSUME NEW r, NEW w \in WorldStates
    PROVE  CursorAgrees(Start, r, w)
<1>1. Start.ask = "start" /\ Start.index = 1 /\ Start.found = << >>
    BY DEF Start
<1>2. PairsAgree(Start, r, w)
    <2>1. ~Passed(1, Start, r) /\ ~Passed(2, Start, r)
        BY <1>1 DEF Passed
    <2>2. HeldSoFar(Start, r, w) = << >>
        BY <2>1 DEF HeldSoFar, These
    <2>. QED
        BY <1>1, <2>2 DEF PairsAgree, PairsMatch
<1>3. NftsAgree(Start, r, w)
    <2>1. Kept(w, Start.index - 1) = << >>
        BY <1>1, PiecesTyped
    <2>. QED
        BY <1>1, <2>1 DEF NftsAgree, NftsMatch
<1>. QED
    BY <1>1, <1>2, <1>3 DEF CursorAgrees, AaveAgrees, ReceiptAgrees

(* What the adapter whose turn it was leaves.                              *)
Ended(r, w) ==
    /\ DOMAIN r = Fields
    /\ r.stage = refresh.stage /\ r.fleet = refresh.fleet /\ r.left = refresh.left
    /\ r.pin = refresh.pin /\ DOMAIN r.contracts = r.fleet
    /\ Explained(r, w) /\ SlicesAgree(r, w, r.left \ {Turn})
    /\ FindsAgree(r, w, r.left \ {Turn})

LEMMA TurnAgrees ==
    ASSUME Working(refresh), NEW w \in WorldStates, NEW r, Ended(r, w)
    PROVE  Agreed(Turned(r), w) /\ Turned(r).pin = refresh.pin
<1> DEFINE q == Turned(r)
<1>1. DOMAIN r = Fields /\ Working(r) /\ r.stage \in {"discover", "resolve"}
    BY DEF Ended, Working
<1>2. /\ q.cur = Start /\ q.fleet = r.fleet /\ q.pin = r.pin
      /\ q.positions = r.positions /\ q.failures = r.failures
      /\ q.touched = r.touched /\ q.refused = r.refused
      /\ \/ /\ r.left \ {Turn} # {} /\ q.stage = r.stage
            /\ q.left = r.left \ {Turn} /\ q.contracts = r.contracts
         \/ /\ r.left \ {Turn} = {} /\ r.stage = "discover" /\ q.stage = "resolve"
            /\ q.left = r.fleet /\ q.contracts = Restricted(r)
         \/ /\ r.left \ {Turn} = {} /\ r.stage = "resolve" /\ q.stage = "price"
            /\ q.left = {} /\ q.contracts = r.contracts
    BY <1>1, TurnedFields
<1>. HIDE DEF q
<1>3. Explained(q, w)
    BY <1>2 DEF Ended, Explained
<1>4. SlicesAgree(q, w, q.left)
    <2> SUFFICES ASSUME NEW a \in Shipped, a \in q.fleet, <<"discover", a>> \notin q.failures
                 PROVE  /\ q.stage = "discover" /\ a \notin q.left => q.contracts[a] = Served(a, w)
                        /\ q.stage # "discover" =>
                               q.contracts[a] = Touched(Served(a, w), q.touched)
        BY DEF SlicesAgree
    <2>1. /\ r.stage = "discover" /\ a \notin r.left \ {Turn} => r.contracts[a] = Served(a, w)
          /\ r.stage # "discover" => r.contracts[a] = Touched(Served(a, w), r.touched)
        BY <1>2 DEF Ended, SlicesAgree
    <2>2. Restricted(r)[a] = Touched(r.contracts[a], r.touched)
        BY <1>2 DEF Restricted, Touched
    <2>. QED
        BY <1>1, <1>2, <2>1, <2>2
<1>5. FindsAgree(q, w, q.left)
    <2> SUFFICES ASSUME NEW a \in Shipped, a \in q.fleet, a \notin q.left,
                        q.stage # "discover", ~FailedIn(q, a)
                 PROVE  Exact(a, Of(q.positions, a), q.touched, w)
        BY DEF FindsAgree
    <2>1. r.stage # "discover" /\ a \notin r.left \ {Turn} /\ a \in r.fleet
        BY <1>1, <1>2
    <2>2. ~FailedIn(r, a)
        BY <1>2 DEF FailedIn
    <2>3. Exact(a, Of(r.positions, a), r.touched, w)
        BY <2>1, <2>2 DEF Ended, FindsAgree
    <2>. QED
        BY <1>2, <2>3
<1>6. CursorAgrees(q.cur, q, w)
    BY <1>2, StartAgrees
<1>7. ~Working(q) => q.left = {}
    BY <1>1, <1>2 DEF Working
<1>8. q.pin = refresh.pin
    BY <1>2 DEF Ended
<1>. QED
    BY <1>3, <1>4, <1>5, <1>6, <1>7, <1>8 DEF Agreed, q

(* The adapter at work asks on.                                            *)
LEMMA NowAgrees ==
    ASSUME Sound(refresh, blocks), Working(refresh), Agreed(refresh, At),
           NEW cur, NEW ask, Now(ask, cur),
           CursorAgrees([cur EXCEPT !.ask = ask], refresh, At)
    PROVE  Remains
<1> DEFINE next == [cur EXCEPT !.ask = ask]
           q == [refresh EXCEPT !.cur = next]
<1>1. refresh' = q /\ blocks' = blocks
    BY DEF Now
<1>2. DOMAIN refresh = Fields
    BY TurnFacts
<1>3. CursorAgrees(next, refresh, At)
    OBVIOUS
<1>. HIDE DEF next
<1>4. /\ q.cur = next /\ q.stage = refresh.stage /\ q.fleet = refresh.fleet
      /\ q.left = refresh.left /\ q.pin = refresh.pin /\ q.contracts = refresh.contracts
      /\ q.positions = refresh.positions /\ q.failures = refresh.failures
      /\ q.touched = refresh.touched /\ q.refused = refresh.refused
    BY <1>2 DEF Fields
<1>. HIDE DEF q
<1>5. TurnOf(q) = TurnOf(refresh) /\ PairsOf(q) = PairsOf(refresh)
      /\ \A x : HasOf(q, x) <=> HasOf(refresh, x)
    BY <1>4 DEF TurnOf, PairsOf, HasOf
<1>6. Explained(q, At) /\ SlicesAgree(q, At, q.left) /\ FindsAgree(q, At, q.left)
    <2>1. \A a : FailedIn(q, a) <=> FailedIn(refresh, a)
        BY <1>4 DEF FailedIn
    <2>. QED
        BY <1>4, <2>1 DEF Agreed, Explained, SlicesAgree, FindsAgree
<1>7. CursorAgrees(next, q, At)
    <2>1. /\ AaveAgrees(next, refresh, At) => AaveAgrees(next, q, At)
          /\ ReceiptAgrees(next, refresh, At) => ReceiptAgrees(next, q, At)
          /\ NftsAgree(next, refresh, At) => NftsAgree(next, q, At)
        BY <1>5 DEF AaveAgrees, ReceiptAgrees, NftsAgree, SuppliedThere, OwedThere
    <2>2. PairsAgree(next, refresh, At) => PairsAgree(next, q, At)
        <3>1. \A i : Passed(i, next, q) <=> Passed(i, next, refresh)
            BY <1>5 DEF Passed
        <3>2. HeldSoFar(next, q, At) = HeldSoFar(next, refresh, At)
            BY <3>1 DEF HeldSoFar
        <3>. QED
            BY <1>5, <3>2 DEF PairsAgree
    <2>. QED
        BY <1>3, <1>4, <1>5, <2>1, <2>2 DEF CursorAgrees
<1>8. Working(q)
    BY <1>4 DEF Working
<1>9. Agreed(q, At)
    BY <1>4, <1>6, <1>7, <1>8 DEF Agreed
<1>. QED
    BY <1>1, <1>4, <1>9 DEF Remains

LEMMA FailureAgrees ==
    ASSUME Sound(refresh, blocks), Working(refresh), Agreed(refresh, At), NEW r,
           DOMAIN r = Fields,
           r.stage = refresh.stage, r.fleet = refresh.fleet, r.left = refresh.left,
           r.pin = refresh.pin, r.contracts = refresh.contracts,
           r.positions = refresh.positions, r.touched = refresh.touched,
           r.failures = refresh.failures \cup {<<refresh.stage, Turn>>},
           refresh.refused \subseteq r.refused,
           Turn \in r.refused \cup {"host"} \/ (Turn = "uniswap-v3" /\ Dust(At))
    PROVE  Agreed(Turned(r), At) /\ Turned(r).pin = refresh.pin
<1>1. Turn \in refresh.left /\ DOMAIN refresh.contracts = refresh.fleet /\ At \in WorldStates
    BY TurnFacts
<1>2. Explained(refresh, At) /\ SlicesAgree(refresh, At, refresh.left) /\ FindsAgree(refresh, At, refresh.left)
    BY DEF Agreed
<1>3. Explained(r, At)
    <2> SUFFICES ASSUME NEW failure \in r.failures
                 PROVE  \/ failure[2] \in r.refused \cup {"host"}
                        \/ failure[2] = "uniswap-v3" /\ Dust(At)
        BY DEF Explained
    <2>1. CASE failure \in refresh.failures
        BY <1>2, <2>1 DEF Explained
    <2>2. CASE failure = <<refresh.stage, Turn>>
        BY <2>2
    <2>. QED
        BY <2>1, <2>2
<1>4. SlicesAgree(r, At, r.left \ {Turn})
    <2> SUFFICES ASSUME NEW a \in Shipped, a \in r.fleet, <<"discover", a>> \notin r.failures
                 PROVE  /\ r.stage = "discover" /\ a \notin r.left \ {Turn} =>
                               r.contracts[a] = Served(a, At)
                        /\ r.stage # "discover" =>
                               r.contracts[a] = Touched(Served(a, At), r.touched)
        BY DEF SlicesAgree
    <2>1. r.stage = "discover" => a # Turn
        OBVIOUS
    <2>. QED
        BY <1>2, <2>1 DEF SlicesAgree
<1>5. FindsAgree(r, At, r.left \ {Turn})
    <2> SUFFICES ASSUME NEW a \in Shipped, a \in r.fleet, a \notin r.left \ {Turn},
                        r.stage # "discover", ~FailedIn(r, a)
                 PROVE  Exact(a, Of(r.positions, a), r.touched, At)
        BY DEF FindsAgree
    <2>1. a # Turn /\ ~FailedIn(refresh, a)
        BY DEF FailedIn, Working
    <2>. QED
        BY <1>2, <2>1 DEF FindsAgree
<1>6. Ended(r, At)
    BY <1>1, <1>3, <1>4, <1>5 DEF Ended
<1>. QED
    BY <1>1, <1>6, TurnAgrees

(* An adapter gives up on its own: the host's, or over dust.               *)
LEMMA AdapterFailsAgrees ==
    ASSUME Sound(refresh, blocks), Working(refresh), Agreed(refresh, At), AdapterFails,
           Turn = "host" \/ (Turn = "uniswap-v3" /\ Dust(At))
    PROVE  Remains
<1> DEFINE r == [refresh EXCEPT !.failures = @ \cup {<<refresh.stage, Turn>>}]
<1>1. DOMAIN refresh = Fields
    BY TurnFacts
<1>2. /\ DOMAIN r = Fields /\ r.stage = refresh.stage /\ r.fleet = refresh.fleet
      /\ r.left = refresh.left /\ r.pin = refresh.pin /\ r.contracts = refresh.contracts
      /\ r.positions = refresh.positions /\ r.touched = refresh.touched
      /\ r.failures = refresh.failures \cup {<<refresh.stage, Turn>>}
      /\ r.refused = refresh.refused
    BY <1>1 DEF Fields
<1>3. refresh' = Turned(r) /\ blocks' = blocks
    BY DEF AdapterFails
<1>. HIDE DEF r
<1>4. refresh.refused \subseteq r.refused
    BY <1>2
<1>5. Agreed(Turned(r), At) /\ Turned(r).pin = refresh.pin
    BY <1>2, <1>4, FailureAgrees
<1>. QED
    BY <1>3, <1>5 DEF Remains

LEMMA CallFailsAgrees ==
    ASSUME Sound(refresh, blocks), Agreed(refresh, At), CallFails
    PROVE  Remains
<1> DEFINE r == [refresh EXCEPT !.failures = @ \cup {<<refresh.stage, Turn>>},
                                !.refused = @ \cup {Turn}]
<1>0. Working(refresh)
    BY TurnIs DEF CallFails, Requesting
<1>1. DOMAIN refresh = Fields
    BY <1>0, TurnFacts
<1>2. /\ DOMAIN r = Fields /\ r.stage = refresh.stage /\ r.fleet = refresh.fleet
      /\ r.left = refresh.left /\ r.pin = refresh.pin /\ r.contracts = refresh.contracts
      /\ r.positions = refresh.positions /\ r.touched = refresh.touched
      /\ r.failures = refresh.failures \cup {<<refresh.stage, Turn>>}
      /\ r.refused = refresh.refused \cup {Turn}
    BY <1>1 DEF Fields
<1>3. refresh' = Turned(r) /\ blocks' = blocks
    BY DEF CallFails
<1>. HIDE DEF r
<1>4. refresh.refused \subseteq r.refused /\ Turn \in r.refused
    BY <1>2
<1>5. Agreed(Turned(r), At) /\ Turned(r).pin = refresh.pin
    BY <1>0, <1>2, <1>4, FailureAgrees
<1>. QED
    BY <1>3, <1>5 DEF Remains

LEMMA DiscoveredAgrees ==
    ASSUME Sound(refresh, blocks), refresh.stage = "discover", Agreed(refresh, At),
           NEW slice, Discovered(slice), Turn \in Shipped => slice = Served(Turn, At)
    PROVE  Remains
<1> DEFINE r == [refresh EXCEPT !.contracts[Turn] = slice]
<1>0. Working(refresh)
    BY DEF Working
<1>1. /\ DOMAIN refresh = Fields /\ DOMAIN refresh.contracts = refresh.fleet
      /\ Turn \in refresh.fleet /\ At \in WorldStates
    BY <1>0, TurnFacts
<1>2. /\ DOMAIN r = Fields /\ r.stage = refresh.stage /\ r.fleet = refresh.fleet
      /\ r.left = refresh.left /\ r.pin = refresh.pin /\ r.positions = refresh.positions
      /\ r.failures = refresh.failures /\ r.refused = refresh.refused
      /\ r.contracts = [refresh.contracts EXCEPT ![Turn] = slice]
    BY <1>1 DEF Fields
<1>3. refresh' = Turned(r) /\ blocks' = blocks
    BY DEF Discovered
<1>. HIDE DEF r
<1>4. /\ DOMAIN r.contracts = r.fleet /\ r.contracts[Turn] = slice
      /\ \A a \in r.fleet : a # Turn => r.contracts[a] = refresh.contracts[a]
    BY <1>1, <1>2
<1>5. Explained(r, At)
    BY <1>2 DEF Agreed, Explained
<1>6. SlicesAgree(r, At, r.left \ {Turn})
    <2> SUFFICES ASSUME NEW a \in Shipped, a \in r.fleet, <<"discover", a>> \notin r.failures,
                        a \notin r.left \ {Turn}
                 PROVE  r.contracts[a] = Served(a, At)
        BY <1>2 DEF SlicesAgree
    <2>1. CASE a = Turn
        BY <1>4, <2>1
    <2>2. CASE a # Turn
        BY <1>2, <1>4, <2>2 DEF Agreed, SlicesAgree
    <2>. QED
        BY <2>1, <2>2
<1>7. FindsAgree(r, At, r.left \ {Turn})
    BY <1>2 DEF FindsAgree
<1>8. Ended(r, At)
    BY <1>2, <1>4, <1>5, <1>6, <1>7 DEF Ended
<1>. QED
    BY <1>0, <1>1, <1>3, <1>8, TurnAgrees DEF Remains

LEMMA ResolvedAgrees ==
    ASSUME Sound(refresh, blocks), refresh.stage = "resolve", Agreed(refresh, At),
           NEW found \in Seq(PositionsOf({Turn})), Resolved(found),
           Turn \in Shipped /\ <<"discover", Turn>> \notin refresh.failures =>
               Exact(Turn, found, refresh.touched, At)
    PROVE  Remains
<1> DEFINE r == [refresh EXCEPT !.positions = @ \o found]
           P == PositionsOf(refresh.fleet \ refresh.left)
           O == PositionsOf({Turn})
           B == PositionsOf((refresh.fleet \ refresh.left) \cup {Turn})
           s == refresh.positions
<1>0. Working(refresh)
    BY DEF Working
<1>1. /\ DOMAIN refresh = Fields /\ Turn \in refresh.left /\ Turn \in refresh.fleet
      /\ DOMAIN refresh.contracts = refresh.fleet /\ Found(refresh) /\ At \in WorldStates
    BY <1>0, TurnFacts
<1>2. /\ DOMAIN r = Fields /\ r.stage = refresh.stage /\ r.fleet = refresh.fleet
      /\ r.left = refresh.left /\ r.pin = refresh.pin
      /\ r.positions = s \o found /\ r.touched = refresh.touched
      /\ r.failures = refresh.failures /\ r.refused = refresh.refused
      /\ r.contracts = refresh.contracts
    BY <1>1 DEF Fields
<1>3. refresh' = Turned(r) /\ blocks' = blocks
    BY DEF Resolved
<1>. HIDE DEF r
<1>4. s \in Seq(P) /\ found \in Seq(O) /\ s \in Seq(B) /\ found \in Seq(B)
    <2>1. s \in Seq(P)
        BY <1>1 DEF Found
    <2>2. Seq(P) \subseteq Seq(B) /\ Seq(O) \subseteq Seq(B)
        BY MorePositions
    <2>. QED
        BY <2>1, <2>2
<1>5. (\A p \in O : p.adapter = Turn) /\ (\A p \in P : p.adapter # Turn)
    BY <1>1 DEF PositionsOf
<1>. HIDE DEF P, O, B, s
<1>6. ASSUME NEW a
      PROVE  Of(r.positions, a) = IF a = Turn THEN found ELSE Of(s, a)
    <2>1. Of(r.positions, a) = Of(s, a) \o Of(found, a)
        BY <1>2, <1>4, OfJoins
    <2>2. CASE a = Turn
        <3>1. Of(s, a) = << >> /\ Of(found, a) = found
            BY <1>4, <1>5, <2>2, OfAll, OfNone
        <3>. QED
            BY <1>4, <2>1, <2>2, <3>1, ConcatEmptySeq
    <2>3. CASE a # Turn
        <3>1. Of(found, a) = << >>
            BY <1>4, <1>5, <2>3, OfNone
        <3>2. Of(s, a) \in Seq(B)
            BY <1>4, ChosenTyped, FlattenTyped
        <3>. QED
            BY <2>1, <2>3, <3>1, <3>2, ConcatEmptySeq
    <2>. QED
        BY <2>2, <2>3
<1>7. Explained(r, At)
    BY <1>2 DEF Agreed, Explained
<1>8. SlicesAgree(r, At, r.left \ {Turn})
    BY <1>2 DEF Agreed, SlicesAgree
<1>9. FindsAgree(r, At, r.left \ {Turn})
    <2> SUFFICES ASSUME NEW a \in Shipped, a \in r.fleet, a \notin r.left \ {Turn},
                        r.stage # "discover", ~FailedIn(r, a)
                 PROVE  Exact(a, Of(r.positions, a), r.touched, At)
        BY DEF FindsAgree
    <2>1. ~FailedIn(refresh, a) /\ <<"discover", a>> \notin refresh.failures
        BY <1>2 DEF FailedIn
    <2>2. CASE a = Turn
        BY <1>2, <1>6, <2>1, <2>2
    <2>3. CASE a # Turn
        <3>1. Exact(a, Of(s, a), refresh.touched, At)
            BY <1>2, <2>1, <2>3 DEF Agreed, FindsAgree, s
        <3>. QED
            BY <1>2, <1>6, <2>3, <3>1
    <2>. QED
        BY <2>2, <2>3
<1>10. Ended(r, At)
    BY <1>1, <1>2, <1>7, <1>8, <1>9 DEF Ended
<1>. QED
    BY <1>0, <1>1, <1>3, <1>10, TurnAgrees DEF Remains

-----------------------------------------------------------------------------
(* Beginnings, the end, and discovery.                                     *)

LEMMA BeginAgrees ==
    ASSUME Begin
    PROVE  Agreed(refresh', blocks'[1])
<1>1. PICK world \in Worlds : blocks' = <<world>>
    BY DEF Begin
<1>2. PICK fleet \in Fleets, pin \in {0, 1}, touched \in TouchedSets :
           refresh' = [stage |-> "discover", fleet |-> fleet, left |-> fleet, pin |-> pin,
                       touched |-> touched, cur |-> Start,
                       contracts |-> [a \in fleet |-> {}], positions |-> <<>>,
                       failures |-> {}, refused |-> {}, result |-> <<>>]
    BY DEF Begin
<1> DEFINE q == refresh'
<1>3. /\ q.stage = "discover" /\ q.fleet = fleet /\ q.left = fleet /\ q.cur = Start
      /\ q.failures = {}
    BY <1>2
<1>4. world \in WorldStates /\ blocks'[1] = world
    BY <1>1, WorldsTyped
<1>. HIDE DEF q
<1>5. Explained(q, world) /\ SlicesAgree(q, world, q.left) /\ FindsAgree(q, world, q.left)
    BY <1>3 DEF Explained, SlicesAgree, FindsAgree
<1>6. CursorAgrees(q.cur, q, world) /\ Working(q)
    BY <1>3, <1>4, StartAgrees DEF Working
<1>. QED
    BY <1>4, <1>5, <1>6 DEF Agreed, q

LEMMA PriceAndDrillAgrees ==
    ASSUME Sound(refresh, blocks), Agreed(refresh, At), PriceAndDrill
    PROVE  Remains
<1>1. refresh.stage = "price" /\ blocks' = blocks /\ DOMAIN refresh = Fields
    BY DEF PriceAndDrill, Sound, Shaped
<1>2. \/ refresh' = [refresh EXCEPT !.stage = "raised"]
      \/ \E result : refresh' = [refresh EXCEPT !.stage = "done", !.result = result]
    BY DEF PriceAndDrill
<1> DEFINE q == refresh'
<1>3. /\ q.stage \in {"raised", "done"} /\ q.fleet = refresh.fleet /\ q.left = refresh.left
      /\ q.pin = refresh.pin /\ q.contracts = refresh.contracts
      /\ q.positions = refresh.positions /\ q.failures = refresh.failures
      /\ q.touched = refresh.touched /\ q.refused = refresh.refused
    BY <1>1, <1>2 DEF Fields
<1>. HIDE DEF q
<1>4. \A a : FailedIn(q, a) <=> FailedIn(refresh, a)
    BY <1>3 DEF FailedIn
<1>5. Explained(q, At) /\ SlicesAgree(q, At, q.left) /\ FindsAgree(q, At, q.left)
    BY <1>1, <1>3, <1>4 DEF Agreed, Explained, SlicesAgree, FindsAgree
<1>6. ~Working(q) /\ q.left = {}
    BY <1>1, <1>3 DEF Agreed, Working
<1>. QED
    BY <1>1, <1>3, <1>5, <1>6 DEF Remains, Agreed, q

LEMMA DiscoverListedAgrees ==
    ASSUME Sound(refresh, blocks), Agreed(refresh, At), DiscoverListed
    PROVE  Remains
<1> DEFINE slice == {Descriptor(Turn, address) : address \in Listed[Turn]}
<1>1. refresh.stage = "discover" /\ Turn \in DOMAIN Listed /\ Discovered(slice)
    BY DEF DiscoverListed
<1>2. Turn # "uniswap-v2"
    BY <1>1 DEF Listed
<1>3. slice = Served(Turn, At)
    BY <1>2 DEF Served, Offered
<1>. HIDE DEF slice
<1>. QED
    BY <1>1, <1>3, DiscoveredAgrees

LEMMA DiscoverHostAgrees ==
    ASSUME Sound(refresh, blocks), Agreed(refresh, At), DiscoverHost
    PROVE  Remains
<1>1. refresh.stage = "discover" /\ Turn = "host" /\ Working(refresh) /\ Turn \notin Shipped
    BY DEF DiscoverHost, Working, Shipped
<1>2. PICK answer \in HostSlices :
          IF Acceptable(answer) THEN Discovered(answer.slice) ELSE AdapterFails
    BY DEF DiscoverHost
<1>. QED
    BY <1>1, <1>2, DiscoveredAgrees, AdapterFailsAgrees

LEMMA DiscoverLengthAgrees ==
    ASSUME Sound(refresh, blocks), Agreed(refresh, At), DiscoverLength
    PROVE  Remains
<1>1. /\ refresh.stage = "discover" /\ Turn = "uniswap-v2" /\ Working(refresh)
      /\ TurnOf(refresh) = "uniswap-v2"
    BY TurnIs DEF DiscoverLength, Turns, Working
<1>2. At \in WorldStates /\ refresh.cur \in Cursors(Turn)
    BY <1>1, TurnFacts
<1>3. CASE At.pairs = << >>
    <2>1. Discovered({})
        BY <1>3 DEF DiscoverLength
    <2>2. Served(Turn, At) = {}
        <3>1. Len(At.pairs) = 0
            BY <1>3
        <3>. QED
            BY <1>1, <3>1 DEF Served, Offered
    <2>. QED
        BY <1>1, <2>1, <2>2, DiscoveredAgrees
<1>4. CASE At.pairs # << >>
    <2> DEFINE cur == [refresh.cur EXCEPT !.count = Len(At.pairs)]
               next == [cur EXCEPT !.ask = "pair"]
    <2>1. Now("pair", cur)
        BY <1>4 DEF DiscoverLength
    <2>2. next.count = Len(At.pairs)
        BY <1>2, CursorDomain DEF CursorFields
    <2>3. CursorAgrees(next, refresh, At)
        BY <1>1, <2>2 DEF CursorAgrees
    <2>. HIDE DEF cur
    <2>. QED
        BY <1>1, <2>1, <2>3, NowAgrees
<1>. QED
    BY <1>3, <1>4

LEMMA DiscoverPairAgrees ==
    ASSUME Sound(refresh, blocks), Agreed(refresh, At), DiscoverPair
    PROVE  Remains
<1> DEFINE cur == refresh.cur
<1>1. /\ refresh.stage = "discover" /\ Turn = "uniswap-v2" /\ Working(refresh)
      /\ TurnOf(refresh) = "uniswap-v2" /\ cur.ask = "pair"
    BY TurnIs DEF DiscoverPair, Turns, Working
<1>2. At \in WorldStates /\ cur \in Cursors(Turn)
    BY <1>1, TurnFacts
<1>3. cur.count = Len(At.pairs)
    BY <1>1 DEF Agreed, CursorAgrees
<1>4. CASE cur.index < cur.count
    <2> DEFINE further == [cur EXCEPT !.index = @ + 1]
               next == [further EXCEPT !.ask = "pair"]
    <2>1. Now("pair", further)
        BY <1>4 DEF DiscoverPair
    <2>2. next.count = cur.count
        <3>. HIDE DEF cur
        <3>. QED
            BY <1>2, CursorDomain DEF CursorFields
    <2>3. CursorAgrees(next, refresh, At)
        BY <1>1, <1>3, <2>2 DEF CursorAgrees
    <2>. HIDE DEF further
    <2>. QED
        BY <1>1, <2>1, <2>3, NowAgrees
<1>5. CASE ~(cur.index < cur.count)
    <2> DEFINE slice == {Descriptor(Turn, PairAddress[i]) : i \in 1 .. cur.count}
    <2>1. Discovered(slice)
        BY <1>5 DEF DiscoverPair
    <2>2. slice = Served(Turn, At)
        BY <1>1, <1>3 DEF Served, Offered
    <2>. HIDE DEF slice
    <2>. QED
        BY <1>1, <2>1, <2>2, DiscoveredAgrees
<1>. QED
    BY <1>4, <1>5

-----------------------------------------------------------------------------
(* Resolution. *)

LEMMA Agreeing ==
    ASSUME NEW adapter, NEW ask, Sound(refresh, blocks), Agreed(refresh, At),
           Turns("resolve", adapter, ask)
    PROVE  /\ refresh.stage = "resolve" /\ Turn = adapter /\ TurnOf(refresh) = adapter
           /\ refresh.cur.ask = ask /\ Working(refresh) /\ At \in WorldStates
           /\ refresh.cur \in Cursors(Turn) /\ DOMAIN refresh.cur = CursorFields
           /\ CursorAgrees(refresh.cur, refresh, At)
           /\ \A x : Has(x) <=> HasOf(refresh, x)
<1>1. /\ refresh.stage = "resolve" /\ Turn = adapter /\ refresh.cur.ask = ask
      /\ Working(refresh) /\ TurnOf(refresh) = adapter
    BY TurnIs DEF Turns, Working
<1>2. At \in WorldStates /\ refresh.cur \in Cursors(Turn)
    BY <1>1, TurnFacts
<1>3. CursorAgrees(refresh.cur, refresh, At)
    BY <1>1 DEF Agreed
<1>4. \A x : Has(x) <=> HasOf(refresh, x)
    BY TurnIs DEF Has, HasOf
<1>. QED
    BY <1>1, <1>2, <1>3, <1>4, CursorDomain

(* After restrict_discovery, an adapter reads what it offers and the       *)
(* account touched.                                                        *)
LEMMA HasTouched ==
    ASSUME Sound(refresh, blocks), refresh.stage = "resolve", Agreed(refresh, At),
           Turn \in Shipped, <<"discover", Turn>> \notin refresh.failures, NEW x
    PROVE  Has(x) <=> x \in Offered(Turn, At) /\ x \in refresh.touched
<1>1. Turn \in refresh.fleet
    BY TurnFacts DEF Working
<1>2. refresh.contracts[Turn] = Touched(Served(Turn, At), refresh.touched)
    BY <1>1 DEF Agreed, SlicesAgree
<1>3. \A y : Descriptor(Turn, y).address = y
    BY DEF Descriptor
<1>4. Descriptor(Turn, x) \in Served(Turn, At) <=> x \in Offered(Turn, At)
    BY <1>3 DEF Served
<1>. QED
    BY <1>2, <1>3, <1>4 DEF Has, Touched

LEMMA ResolveHostAgrees ==
    ASSUME Sound(refresh, blocks), Agreed(refresh, At), ResolveHost
    PROVE  Remains
<1>1. refresh.stage = "resolve" /\ Turn = "host" /\ Working(refresh) /\ Turn \notin Shipped
    BY DEF ResolveHost, Working, Shipped
<1>2. PICK answer \in HostResults :
          IF answer.raises \/ answer.valued THEN AdapterFails ELSE Resolved(answer.positions)
    BY DEF ResolveHost
<1>3. answer.positions \in Seq(PositionsOf({Turn}))
    BY <1>1, HostSigns
<1>. QED
    BY <1>1, <1>2, <1>3, ResolvedAgrees, AdapterFailsAgrees

(* Lists of two, and of one with nothing added.                            *)
LEMMA BothOf ==
    ASSUME NEW p, NEW q
    PROVE  DOMAIN (<<p>> \o <<q>>) = {1, 2} /\ (<<p>> \o <<q>>)[1] = p /\ (<<p>> \o <<q>>)[2] = q
<1> DEFINE S == {p, q}
           s == <<p>>
           t == <<q>>
<1>1. s \in Seq(S) /\ t \in Seq(S) /\ Len(s) = 1 /\ Len(t) = 1 /\ s[1] = p /\ t[1] = q
    OBVIOUS
<1>. HIDE DEF S, s, t
<1>2. s \o t \in Seq(S) /\ Laid(s, t, s \o t)
    BY <1>1, ConcatProperties, Concatenated
<1>3. Len(s \o t) = 2
    <2>1. Len(s \o t) = Len(s) + Len(t)
        BY <1>1, ConcatProperties
    <2>. QED
        BY <1>1, <2>1
<1>5. DOMAIN (s \o t) = 1 .. 2
    BY <1>2, <1>3
<1>6. (s \o t)[1] = s[1] /\ (s \o t)[2] = t[1]
    BY <1>1, <1>2 DEF Laid
<1>4. 1 .. 2 = {1, 2}
    OBVIOUS
<1>. QED
    BY <1>1, <1>4, <1>5, <1>6 DEF s, t

LEMMA FirstOf ==
    ASSUME NEW p
    PROVE  DOMAIN (<<p>> \o << >>) = {1} /\ (<<p>> \o << >>)[1] = p
<1>1. <<p>> \in Seq({p}) /\ DOMAIN <<p>> = {1} /\ <<p>>[1] = p
    OBVIOUS
<1>2. <<p>> \o << >> = <<p>>
    BY <1>1, ConcatEmptySeq
<1>. QED
    BY <1>1, <1>2

LEMMA SecondOf ==
    ASSUME NEW p
    PROVE  DOMAIN (<< >> \o <<p>>) = {1} /\ (<< >> \o <<p>>)[1] = p
<1>1. <<p>> \in Seq({p}) /\ DOMAIN <<p>> = {1} /\ <<p>>[1] = p
    OBVIOUS
<1>2. << >> \o <<p>> = <<p>>
    BY <1>1, ConcatEmptySeq
<1>. QED
    BY <1>1, <1>2

Both(one, p, two, q) == (IF one THEN <<p>> ELSE <<>>) \o (IF two THEN <<q>> ELSE <<>>)

Lists(found, one, p, two, q) ==
    /\ one /\ two => DOMAIN found = {1, 2} /\ found[1] = p /\ found[2] = q
    /\ one /\ ~two => DOMAIN found = {1} /\ found[1] = p
    /\ ~one /\ two => DOMAIN found = {1} /\ found[1] = q
    /\ ~one /\ ~two => found = <<>>

LEMMA BothAre ==
    ASSUME NEW p, NEW q, NEW one \in BOOLEAN, NEW two \in BOOLEAN
    PROVE  Lists(Both(one, p, two, q), one, p, two, q)
<1>1. CASE one /\ two
    BY <1>1, BothOf DEF Both, Lists
<1>2. CASE one /\ ~two
    BY <1>2, FirstOf DEF Both, Lists
<1>3. CASE ~one /\ two
    BY <1>3, SecondOf DEF Both, Lists
<1>4. CASE ~one /\ ~two
    <2>1. << >> \o << >> = << >>
        OBVIOUS
    <2>. QED
        BY <1>4, <2>1 DEF Both, Lists
<1>. QED
    BY <1>1, <1>2, <1>3, <1>4 DEF Lists

(* One figure for each side that there is, and the ratio with the first.   *)
LEMMA AaveSidesExact ==
    ASSUME NEW w \in WorldStates, NEW touched, NEW one \in BOOLEAN, NEW two \in BOOLEAN,
           one <=> "atoken" \in touched /\ w.supplied > 0,
           two <=> "debt" \in touched /\ w.debt > 0,
           NEW p, p.underlyings[1].quantity = w.supplied, p.underlyings[1].borrowed = FALSE,
           NEW q, q.underlyings[1].quantity = w.debt, q.underlyings[1].borrowed = TRUE,
           p.info = <<w.ltv>>, q.info = IF one THEN << >> ELSE <<w.ltv>>,
           NEW found, Lists(found, one, p, two, q)
    PROVE  AaveExact(found, touched, w)
<1> DEFINE Side(borrowed) ==
               {Quantity(found[k], 1) :
                   k \in {k \in DOMAIN found : found[k].underlyings[1].borrowed = borrowed}}
           Figure(address, raw) == IF address \in touched /\ raw > 0 THEN {raw} ELSE {}
<1>0. <<w.ltv>> # << >>
    OBVIOUS
<1>5. /\ one /\ two => DOMAIN found = {1, 2} /\ found[1] = p /\ found[2] = q
      /\ one /\ ~two => DOMAIN found = {1} /\ found[1] = p
      /\ ~one /\ two => DOMAIN found = {1} /\ found[1] = q
      /\ ~one /\ ~two => found = << >> /\ DOMAIN found = {}
    BY DEF Lists
<1>1. CASE one /\ two
    <2>3. Side(FALSE) = {w.supplied} /\ Side(TRUE) = {w.debt}
        BY <1>1, <1>5 DEF Quantity
    <2>4. Infos(found) = {<<w.ltv>>}
        BY <1>0, <1>1, <1>5 DEF Infos
    <2>. QED
        BY <1>1, <2>3, <2>4 DEF AaveExact
<1>2. CASE one /\ ~two
    <2>3. Side(FALSE) = {w.supplied} /\ Side(TRUE) = {}
        BY <1>2, <1>5 DEF Quantity
    <2>4. Infos(found) = {<<w.ltv>>}
        BY <1>0, <1>2, <1>5 DEF Infos
    <2>. QED
        BY <1>2, <2>3, <2>4 DEF AaveExact
<1>3. CASE ~one /\ two
    <2>3. Side(FALSE) = {} /\ Side(TRUE) = {w.debt}
        BY <1>3, <1>5 DEF Quantity
    <2>4. Infos(found) = {<<w.ltv>>}
        BY <1>0, <1>3, <1>5 DEF Infos
    <2>. QED
        BY <1>3, <2>3, <2>4 DEF AaveExact
<1>4. CASE ~one /\ ~two
    <2>2. Side(FALSE) = {} /\ Side(TRUE) = {} /\ found = << >>
        BY <1>4, <1>5
    <2>. QED
        BY <1>4, <2>2 DEF AaveExact
<1>. QED
    BY <1>1, <1>2, <1>3, <1>4

(* What the account holds of the two sides.                                *)
LEMMA AaveTouched ==
    ASSUME Sound(refresh, blocks), refresh.stage = "resolve", Agreed(refresh, At),
           Turn = "aave-v3", <<"discover", Turn>> \notin refresh.failures
    PROVE  /\ Has("atoken") <=> "atoken" \in refresh.touched
           /\ Has("debt") <=> "debt" \in refresh.touched
<1>1. "atoken" \in Offered(Turn, At) /\ "debt" \in Offered(Turn, At) /\ Turn \in Shipped
    BY DEF Offered, Listed, Shipped
<1>. QED
    BY <1>1, HasTouched

LEMMA AaveSuppliedAgrees ==
    ASSUME Sound(refresh, blocks), Agreed(refresh, At), AaveSupplied
    PROVE  Remains
<1> DEFINE found == <<Position(<<"atoken", 0>>, "aave", <<Supplied(1, At.supplied)>>)>>
           cur == IF Has("atoken") /\ At.supplied > 0
                  THEN [refresh.cur EXCEPT !.found = found] ELSE refresh.cur
           next == [cur EXCEPT !.ask = "debt"]
<1>1. /\ refresh.stage = "resolve" /\ Turn = "aave-v3" /\ TurnOf(refresh) = "aave-v3"
      /\ Working(refresh) /\ refresh.cur.ask = "start" /\ DOMAIN refresh.cur = CursorFields
      /\ CursorAgrees(refresh.cur, refresh, At) /\ \A x : Has(x) <=> HasOf(refresh, x)
    BY Agreeing DEF AaveSupplied
<1>2. Now("debt", cur)
    BY DEF AaveSupplied
<1>3. refresh.cur.found = << >>
    BY <1>1 DEF CursorAgrees, AaveAgrees
<1>4. found = <<AavePosition("atoken", 1, At.supplied, FALSE)>>
    BY <1>1 DEF Position, Supplied, AavePosition
<1>. HIDE DEF found
<1>5. next.ask = "debt" /\ next.found = SuppliedThere(refresh, At)
    BY <1>1, <1>3, <1>4 DEF CursorFields, SuppliedThere
<1>6. CursorAgrees(next, refresh, At)
    BY <1>1, <1>5 DEF CursorAgrees, AaveAgrees
<1>. HIDE DEF cur
<1>. QED
    BY <1>1, <1>2, <1>6, NowAgrees

LEMMA AaveDebtAgrees ==
    ASSUME Sound(refresh, blocks), Agreed(refresh, At), AaveDebt
    PROVE  Remains
<1> DEFINE owed == [asset |-> 2, quantity |-> At.debt, borrowed |-> TRUE]
           more == IF Has("debt") /\ At.debt > 0
                   THEN <<Position(<<"debt", 0>>, "aave", <<owed>>)>> ELSE << >>
           found == refresh.cur.found \o more
           cur == [refresh.cur EXCEPT !.found = found]
           next == [cur EXCEPT !.ask = "account"]
<1>1. /\ refresh.stage = "resolve" /\ Turn = "aave-v3" /\ TurnOf(refresh) = "aave-v3"
      /\ Working(refresh) /\ refresh.cur.ask = "debt" /\ DOMAIN refresh.cur = CursorFields
      /\ CursorAgrees(refresh.cur, refresh, At) /\ At \in WorldStates
      /\ \A x : Has(x) <=> HasOf(refresh, x)
    BY Agreeing DEF AaveDebt
<1>2. IF found = << >> THEN Resolved(<< >>) ELSE Now("account", cur)
    BY DEF AaveDebt
<1>3. refresh.cur.found = SuppliedThere(refresh, At)
    BY <1>1 DEF CursorAgrees, AaveAgrees
<1>4. more = OwedThere(refresh, At)
    BY <1>1 DEF OwedThere, Position, AavePosition
<1>. HIDE DEF more
<1>5. CASE found = << >>
    <2>1. SuppliedThere(refresh, At) = << >> /\ OwedThere(refresh, At) = << >>
        BY <1>3, <1>4, <1>5 DEF SuppliedThere, OwedThere
    <2>2. ~(Has("atoken") /\ At.supplied > 0) /\ ~(Has("debt") /\ At.debt > 0)
        BY <1>1, <2>1 DEF SuppliedThere, OwedThere
    <2>3. Resolved(<< >>) /\ << >> \in Seq(PositionsOf({Turn}))
        BY <1>2, <1>5
    <2>4. <<"discover", Turn>> \notin refresh.failures => Exact(Turn, << >>, refresh.touched, At)
        <3> SUFFICES ASSUME <<"discover", Turn>> \notin refresh.failures
                     PROVE  AaveExact(<< >>, refresh.touched, At)
            BY <1>1 DEF Exact
        <3>1. /\ ~("atoken" \in refresh.touched /\ At.supplied > 0)
              /\ ~("debt" \in refresh.touched /\ At.debt > 0)
            BY <1>1, <2>2, AaveTouched
        <3>. QED
            BY <3>1 DEF AaveExact
    <2>. QED
        BY <1>1, <2>3, <2>4, ResolvedAgrees
<1>6. CASE found # << >>
    <2>1. Now("account", cur)
        BY <1>2, <1>6
    <2>2. found = SuppliedThere(refresh, At) \o OwedThere(refresh, At)
        BY <1>3, <1>4
    <2>. HIDE DEF found
    <2>3. next.ask = "account" /\ next.found = found
        BY <1>1 DEF CursorFields
    <2>4. CursorAgrees(next, refresh, At)
        BY <1>1, <2>2, <2>3 DEF CursorAgrees, AaveAgrees
    <2>. HIDE DEF cur
    <2>. QED
        BY <1>1, <2>1, <2>4, NowAgrees
<1>. QED
    BY <1>5, <1>6

LEMMA AaveAccountAgrees ==
    ASSUME Sound(refresh, blocks), Agreed(refresh, At), AaveAccount
    PROVE  Remains
<1> DEFINE s == refresh.cur.found
           found == [s EXCEPT ![1].info = <<At.ltv>>]
           one == Has("atoken") /\ At.supplied > 0
           two == Has("debt") /\ At.debt > 0
           p == AavePosition("atoken", 1, At.supplied, FALSE)
           q == AavePosition("debt", 2, At.debt, TRUE)
           top == [p EXCEPT !.info = <<At.ltv>>]
           other == IF one THEN q ELSE [q EXCEPT !.info = <<At.ltv>>]
<1>1. /\ refresh.stage = "resolve" /\ Turn = "aave-v3" /\ TurnOf(refresh) = "aave-v3"
      /\ Working(refresh) /\ refresh.cur.ask = "account" /\ At \in WorldStates
      /\ CursorAgrees(refresh.cur, refresh, At) /\ refresh.cur \in Cursors(Turn)
      /\ \A x : Has(x) <=> HasOf(refresh, x)
    BY Agreeing DEF AaveAccount
<1>2. Resolved(found)
    BY DEF AaveAccount
<1>3. s = SuppliedThere(refresh, At) \o OwedThere(refresh, At) /\ s # << >>
    <2>1. CursorFits(refresh.cur, refresh, blocks)
        BY <1>1, TurnFacts
    <2>. QED
        BY <1>1, <2>1 DEF CursorAgrees, AaveAgrees, CursorFits
<1>4. s = Both(one, p, two, q)
    BY <1>1, <1>3 DEF Both, SuppliedThere, OwedThere
<1>5. one \in BOOLEAN /\ two \in BOOLEAN
    OBVIOUS
<1>6. /\ p.underlyings[1].quantity = At.supplied /\ p.underlyings[1].borrowed = FALSE
      /\ q.underlyings[1].quantity = At.debt /\ q.underlyings[1].borrowed = TRUE
      /\ top.underlyings[1].quantity = At.supplied /\ top.underlyings[1].borrowed = FALSE
      /\ other.underlyings[1].quantity = At.debt /\ other.underlyings[1].borrowed = TRUE
      /\ top.info = <<At.ltv>> /\ other.info = IF one THEN << >> ELSE <<At.ltv>>
    BY DEF AavePosition
<1>7. s \in Seq(PositionsOf({Turn})) /\ found \in Seq(PositionsOf({Turn}))
    BY <1>1, <1>3, AaveRatioTyped, CursorTyped
<1>. HIDE DEF s, one, two, p, q
<1>8. Lists(s, one, p, two, q)
    BY <1>4, <1>5, BothAre
<1>9. Lists(found, one, top, two, other)
    <2>1. found = [s EXCEPT ![1] = [s[1] EXCEPT !.info = <<At.ltv>>]]
        OBVIOUS
    <2>2. DOMAIN found = DOMAIN s
        BY <2>1
    <2>3. 1 \in DOMAIN s => found[1] = [s[1] EXCEPT !.info = <<At.ltv>>]
        BY <2>1
    <2>4. 2 \in DOMAIN s => found[2] = s[2]
        BY <2>1
    <2>. HIDE DEF found
    <2>. QED
        BY <1>3, <1>8, <2>2, <2>3, <2>4 DEF Lists
<1>. HIDE DEF found, top, other
<1>10. ASSUME <<"discover", Turn>> \notin refresh.failures
       PROVE  Exact(Turn, found, refresh.touched, At)
    <2>1. /\ one <=> "atoken" \in refresh.touched /\ At.supplied > 0
          /\ two <=> "debt" \in refresh.touched /\ At.debt > 0
        BY <1>1, <1>10, AaveTouched DEF one, two
    <2>2. AaveExact(found, refresh.touched, At)
        BY <1>1, <1>5, <1>6, <1>9, <2>1, AaveSidesExact
    <2>. QED
        BY <1>1, <2>2 DEF Exact
<1>. QED
    BY <1>1, <1>2, <1>7, <1>10, ResolvedAgrees

-----------------------------------------------------------------------------
LEMMA QuotientFloor ==
    ASSUME NEW a \in Nat, NEW b \in Nat, NEW n \in Nat \ {0}
    PROVE  Floor((a * b) \div n, a, b, n)
<1> DEFINE x == a * b
           q == x \div n
           t == x % n
<1>1. x \in Nat
    OBVIOUS
<1>. HIDE DEF x
<1>2. q \in Nat /\ t \in 0 .. n - 1 /\ x = q * n + t
    BY <1>1, Divides
<1>. HIDE DEF q, t
<1>3. q * n <= x /\ x < (q + 1) * n
    <2>1. q * n \in Nat /\ (q + 1) * n = q * n + n
        BY <1>2
    <2>. HIDE DEF x
    <2>. QED
        BY <1>1, <1>2, <2>1
<1>. QED
    BY <1>3 DEF Floor, x, q

LEMMA ReceiptTouched ==
    ASSUME Sound(refresh, blocks), refresh.stage = "resolve", Agreed(refresh, At),
           Turn = "receipt", <<"discover", Turn>> \notin refresh.failures
    PROVE  Has("receipt") <=> "receipt" \in refresh.touched
<1>1. "receipt" \in Offered(Turn, At) /\ Turn \in Shipped
    BY DEF Offered, Listed, Shipped
<1>. QED
    BY <1>1, HasTouched

LEMMA ReceiptShareAgrees ==
    ASSUME Sound(refresh, blocks), Agreed(refresh, At), ReceiptShare
    PROVE  Remains
<1>1. /\ refresh.stage = "resolve" /\ Turn = "receipt" /\ TurnOf(refresh) = "receipt"
      /\ Working(refresh) /\ DOMAIN refresh.cur = CursorFields /\ At \in WorldStates
      /\ \A x : Has(x) <=> HasOf(refresh, x)
    BY Agreeing DEF ReceiptShare
<1>2. CASE Has("receipt") /\ At.shares > 0
    <2> DEFINE cur == [refresh.cur EXCEPT !.held = At.shares]
               next == [cur EXCEPT !.ask = "rate"]
    <2>1. Now("rate", cur)
        BY <1>2 DEF ReceiptShare
    <2>2. next.held = At.shares
        BY <1>1 DEF CursorFields
    <2>3. CursorAgrees(next, refresh, At)
        BY <1>1, <1>2, <2>2 DEF CursorAgrees, ReceiptAgrees
    <2>. HIDE DEF cur
    <2>. QED
        BY <1>1, <2>1, <2>3, NowAgrees
<1>3. CASE ~(Has("receipt") /\ At.shares > 0)
    <2>1. Resolved(<< >>) /\ << >> \in Seq(PositionsOf({Turn}))
        BY <1>3 DEF ReceiptShare
    <2>2. ASSUME <<"discover", Turn>> \notin refresh.failures
          PROVE  Exact(Turn, << >>, refresh.touched, At)
        <3>1. ~("receipt" \in refresh.touched /\ At.shares > 0)
            BY <1>1, <1>3, <2>2, ReceiptTouched
        <3>. QED
            BY <1>1, <3>1 DEF Exact, ReceiptExact
    <2>. QED
        BY <1>1, <2>1, <2>2, ResolvedAgrees
<1>. QED
    BY <1>2, <1>3

LEMMA ReceiptRateAgrees ==
    ASSUME Sound(refresh, blocks), Agreed(refresh, At), ReceiptRate
    PROVE  Remains
<1> DEFINE quantity == (refresh.cur.held * At.rate) \div RateOne
           p == Position(<<"receipt", 0>>, "receipt", <<Supplied(1, quantity)>>)
           found == <<p>>
<1>1. /\ refresh.stage = "resolve" /\ Turn = "receipt" /\ TurnOf(refresh) = "receipt"
      /\ refresh.cur.ask = "rate" /\ At \in WorldStates
      /\ CursorAgrees(refresh.cur, refresh, At) /\ \A x : Has(x) <=> HasOf(refresh, x)
    BY Agreeing DEF ReceiptRate
<1>2. Resolved(found)
    BY DEF ReceiptRate
<1>3. Has("receipt") /\ refresh.cur.held = At.shares /\ At.shares > 0
    BY <1>1 DEF CursorAgrees, ReceiptAgrees
<1>4. At.shares \in Nat /\ At.rate \in Nat /\ RateOne \in Nat \ {0}
    BY <1>1, WorldTyped, UnitsPositive
<1>5. Floor(quantity, At.shares, At.rate, RateOne) /\ quantity \in Int
    <2>1. At.shares * At.rate \in Int
        BY <1>4
    <2>2. (At.shares * At.rate) \div RateOne \in Int
        BY <1>4, <2>1, QuotientTyped
    <2>. QED
        BY <1>3, <1>4, <2>2, QuotientFloor
<1>. HIDE DEF quantity
<1>6. found \in Seq(PositionsOf({Turn}))
    BY <1>5, SuppliedTyped, OnePosition, NamesAre
<1>7. Quantity(p, 1) = quantity
    BY DEF Quantity, Position, Supplied
<1>. HIDE DEF p
<1>8. Len(found) = 1 /\ found[1] = p
    OBVIOUS
<1>. HIDE DEF found
<1>9. ASSUME <<"discover", Turn>> \notin refresh.failures
      PROVE  Exact(Turn, found, refresh.touched, At)
    <2>1. "receipt" \in refresh.touched
        BY <1>1, <1>3, <1>9, ReceiptTouched
    <2>. QED
        BY <1>1, <1>3, <1>5, <1>7, <1>8, <2>1 DEF Exact, ReceiptExact
<1>. QED
    BY <1>1, <1>2, <1>6, <1>9, ResolvedAgrees

-----------------------------------------------------------------------------
(* UniswapV2Adapter: the pairs it has asked about, in order, and those of  *)
(* them with a balance, in the same order.                                 *)

LEMMA RangesCount ==
    ASSUME NEW n \in Nat
    PROVE  (1 .. n = {1, 2} => n = 2) /\ (1 .. n = {1} => n = 1)
<1>1. ASSUME 1 .. n = {1, 2} PROVE n = 2
    <2>1. 2 \in 1 .. n /\ 3 \notin 1 .. n
        BY <1>1
    <2>. QED
        BY <2>1
<1>2. ASSUME 1 .. n = {1} PROVE n = 1
    <2>1. 1 \in 1 .. n /\ 2 \notin 1 .. n
        BY <1>2
    <2>. QED
        BY <2>1
<1>. QED
    BY <1>1, <1>2

LEMMA PairsOrdered ==
    /\ Pairs = PairsOf(refresh) /\ Len(Pairs) \in 0 .. 2
    /\ Len(Pairs) = 2 => Pairs[1] = 1 /\ Pairs[2] = 2
    /\ \A i \in {1, 2} : Has(PairAddress[i]) <=> \E k \in 1 .. Len(Pairs) : Pairs[k] = i
<1> DEFINE one == Has(PairAddress[1])
           two == Has(PairAddress[2])
<1>1. one \in BOOLEAN /\ two \in BOOLEAN /\ Pairs = Both(one, 1, two, 2)
    BY DEF Pairs, Both, Has
<1>2. Lists(Pairs, one, 1, two, 2)
    BY <1>1, BothAre
<1>3. Pairs = PairsOf(refresh) /\ Len(Pairs) \in Nat /\ DOMAIN Pairs = 1 .. Len(Pairs)
    BY PairsAre
<1>. HIDE DEF one, two
<1>5. CASE one /\ two
    <2>1. DOMAIN Pairs = {1, 2} /\ Pairs[1] = 1 /\ Pairs[2] = 2
        BY <1>2, <1>5 DEF Lists
    <2>2. Len(Pairs) = 2
        BY <1>3, <2>1, RangesCount
    <2>. QED
        BY <1>3, <1>5, <2>1, <2>2 DEF one, two
<1>6. CASE one /\ ~two
    <2>1. DOMAIN Pairs = {1} /\ Pairs[1] = 1
        BY <1>2, <1>6 DEF Lists
    <2>2. Len(Pairs) = 1
        BY <1>3, <2>1, RangesCount
    <2>. QED
        BY <1>3, <1>6, <2>1, <2>2 DEF one, two
<1>7. CASE ~one /\ two
    <2>1. DOMAIN Pairs = {1} /\ Pairs[1] = 2
        BY <1>2, <1>7 DEF Lists
    <2>2. Len(Pairs) = 1
        BY <1>3, <2>1, RangesCount
    <2>. QED
        BY <1>3, <1>7, <2>1, <2>2 DEF one, two
<1>8. CASE ~one /\ ~two
    <2>1. Pairs = << >>
        BY <1>2, <1>8 DEF Lists
    <2>2. Len(Pairs) = 0
        BY <2>1
    <2>. QED
        BY <1>3, <1>8, <2>2 DEF one, two
<1>. QED
    BY <1>1, <1>5, <1>6, <1>7, <1>8

LEMMA TheseAre ==
    /\ These(FALSE, FALSE) = << >>
    /\ These(TRUE, FALSE) = Append(These(FALSE, FALSE), 1)
    /\ \A one \in BOOLEAN : These(one, TRUE) = Append(These(one, FALSE), 2)
    /\ \A one \in BOOLEAN, two \in BOOLEAN : These(one, two) \in Seq({1, 2})
<1>1. These(FALSE, FALSE) = << >> /\ These(TRUE, FALSE) = <<1>> /\ These(FALSE, TRUE) = <<2>>
    BY DEF These
<1>2. These(TRUE, TRUE) = <<1>> \o <<2>>
    BY DEF These
<1>3. <<1>> \o <<2>> = Append(<<1>>, 2) /\ <<1>> \o <<2>> \in Seq({1, 2})
    OBVIOUS
<1>4. << >> \in Seq({1, 2}) /\ <<1>> \in Seq({1, 2}) /\ <<2>> \in Seq({1, 2})
    OBVIOUS
<1>5. These(TRUE, FALSE) = Append(These(FALSE, FALSE), 1)
    <2>1. Append(<< >>, 1) = <<1>>
        OBVIOUS
    <2>. QED
        BY <1>1, <2>1, Zenon
<1>6. ASSUME NEW one \in BOOLEAN PROVE These(one, TRUE) = Append(These(one, FALSE), 2)
    <2>1. Append(<< >>, 2) = <<2>>
        OBVIOUS
    <2>2. CASE one = TRUE
        BY <1>1, <1>2, <1>3, <2>2, Zenon
    <2>3. CASE one = FALSE
        BY <1>1, <2>1, <2>3, Zenon
    <2>. QED
        BY <2>2, <2>3
<1>7. ASSUME NEW one \in BOOLEAN, NEW two \in BOOLEAN PROVE These(one, two) \in Seq({1, 2})
    <2>1. CASE one = TRUE /\ two = TRUE
        BY <1>2, <1>3, <2>1, Zenon
    <2>2. CASE one = TRUE /\ two = FALSE
        BY <1>1, <1>4, <2>2, Zenon
    <2>3. CASE one = FALSE /\ two = TRUE
        BY <1>1, <1>4, <2>3, Zenon
    <2>4. CASE one = FALSE /\ two = FALSE
        BY <1>1, <1>4, <2>4, Zenon
    <2>. QED
        BY <2>1, <2>2, <2>3, <2>4
<1>. QED
    BY <1>1, <1>5, <1>6, <1>7

LEMMA PassedNext ==
    ASSUME NEW cur, NEW next, cur.index \in 1 .. Len(Pairs), next.index = cur.index + 1,
           cur.index = refresh.cur.index
    PROVE  /\ PairNow \in {1, 2} /\ Passed(PairNow, next, refresh)
           /\ \A i \in {1, 2} \ {PairNow} : Passed(i, next, refresh) <=> Passed(i, cur, refresh)
           /\ PairNow = 1 => ~Passed(1, cur, refresh) /\ ~Passed(2, cur, refresh)
           /\ PairNow = 2 => ~Passed(2, cur, refresh)
<1> DEFINE n == Len(Pairs)
           at == cur.index
<1>1. /\ Pairs = PairsOf(refresh) /\ n \in 0 .. 2
      /\ n = 2 => Pairs[1] = 1 /\ Pairs[2] = 2
    BY PairsOrdered
<1>2. at \in 1 .. n /\ PairNow = Pairs[at] /\ PairNow \in {1, 2}
    BY PairsAre DEF PairNow
<1>3. \A i : Passed(i, cur, refresh) <=> \E k \in 1 .. at - 1 : k <= n /\ Pairs[k] = i
    BY <1>1, Zenon DEF Passed
<1>4. \A i : Passed(i, next, refresh) <=> \E k \in 1 .. at : k <= n /\ Pairs[k] = i
    <2>1. next.index - 1 = at
        <3>1. at \in Nat
            BY <1>1, <1>2
        <3>. HIDE DEF n
        <3>. QED
            BY <3>1
    <2>. QED
        BY <1>1, <2>1, Zenon DEF Passed
<1>. HIDE DEF n, at
<1>5. CASE at = 1
    <2>1. \A i : ~Passed(i, cur, refresh)
        BY <1>3, <1>5
    <2>2. \A i : Passed(i, next, refresh) <=> Pairs[1] = i
        BY <1>1, <1>2, <1>4, <1>5
    <2>. QED
        BY <1>2, <1>5, <2>1, <2>2
<1>6. CASE at # 1
    <2>0. n = 2 /\ at = 2
        BY <1>1, <1>2, <1>6
    <2>1. n = 2 /\ at = 2 /\ Pairs[1] = 1 /\ Pairs[2] = 2
        BY <1>1, <2>0
    <2>2. \A i : Passed(i, cur, refresh) <=> Pairs[1] = i
        BY <1>3, <2>1
    <2>3. \A i : Passed(i, next, refresh) <=> i \in {1, 2}
        BY <1>4, <2>1
    <2>. QED
        BY <1>2, <2>1, <2>2, <2>3
<1>. QED
    BY <1>5, <1>6

LEMMA HeldTyped ==
    ASSUME NEW cur, NEW r, NEW w
    PROVE  HeldSoFar(cur, r, w) \in Seq({1, 2})
BY TheseAre DEF HeldSoFar, Passed

LEMMA HeldGrows ==
    ASSUME NEW cur, NEW next, cur.index \in 1 .. Len(Pairs), next.index = cur.index + 1,
           cur.index = refresh.cur.index, NEW w
    PROVE  HeldSoFar(next, refresh, w) =
               IF w.pairs[PairNow].lp > 0 THEN Append(HeldSoFar(cur, refresh, w), PairNow)
               ELSE HeldSoFar(cur, refresh, w)
<1> DEFINE Was(i) == Passed(i, cur, refresh) /\ w.pairs[i].lp > 0
           Is(i) == Passed(i, next, refresh) /\ w.pairs[i].lp > 0
           full == w.pairs[PairNow].lp > 0
<1>1. /\ PairNow \in {1, 2} /\ (Is(PairNow) <=> full)
      /\ \A i \in {1, 2} \ {PairNow} : Is(i) <=> Was(i)
      /\ PairNow = 1 => ~Was(1) /\ ~Was(2)
      /\ PairNow = 2 => ~Was(2)
    BY PassedNext
<1>2. /\ HeldSoFar(cur, refresh, w) = These(Was(1), Was(2))
      /\ HeldSoFar(next, refresh, w) = These(Is(1), Is(2))
      /\ Was(1) \in BOOLEAN /\ Was(2) \in BOOLEAN /\ Is(1) \in BOOLEAN
      /\ Is(2) \in BOOLEAN /\ full \in BOOLEAN
    BY DEF HeldSoFar, Passed
<1>. HIDE DEF Was, Is, full
<1>3. CASE PairNow = 1
    <2>0. /\ (Is(1) <=> full) /\ ~Was(1) /\ ~Was(2) /\ ~Is(2)
        BY <1>1, <1>3
    <2>1. /\ HeldSoFar(cur, refresh, w) = These(FALSE, FALSE)
          /\ Is(1) = full /\ Is(2) = FALSE
        <3>1. Was(1) = FALSE /\ Was(2) = FALSE
            BY <1>2, <2>0
        <3>. QED
            BY <1>2, <2>0, <3>1, Zenon
    <2>2. HeldSoFar(next, refresh, w) = These(full, FALSE)
        BY <1>2, <2>1
    <2>. QED
        BY <1>2, <1>3, <2>1, <2>2, TheseAre DEF full
<1>4. CASE PairNow = 2
    <2>0. /\ (Is(2) <=> full) /\ (Is(1) <=> Was(1)) /\ ~Was(2)
        BY <1>1, <1>4
    <2>1. /\ HeldSoFar(cur, refresh, w) = These(Was(1), FALSE)
          /\ Is(1) = Was(1) /\ Is(2) = full
        <3>1. Was(2) = FALSE
            BY <1>2, <2>0
        <3>. QED
            BY <1>2, <2>0, <3>1, Zenon
    <2>2. HeldSoFar(next, refresh, w) = These(Was(1), full)
        BY <1>2, <2>1
    <2>. QED
        BY <1>2, <1>4, <2>1, <2>2, TheseAre DEF full
<1>. QED
    BY <1>1, <1>3, <1>4

LEMMA PairsMatchGrows ==
    ASSUME NEW P, NEW found \in Seq(P), NEW p \in P, NEW held \in Seq({1, 2}),
           NEW i \in {1, 2}, NEW w, PairsMatch(found, held, w), PairMatches(p, i, w)
    PROVE  PairsMatch(Append(found, p), Append(held, i), w)
<1> DEFINE more == Append(found, p)
           further == Append(held, i)
           n == Len(held)
<1>1. /\ Len(found) = n /\ n \in Nat /\ Len(more) = n + 1 /\ Len(further) = n + 1
      /\ DOMAIN further = 1 .. n + 1 /\ DOMAIN held = 1 .. n
      /\ \A k \in 1 .. n : more[k] = found[k] /\ further[k] = held[k]
      /\ more[n + 1] = p /\ further[n + 1] = i
    BY DEF PairsMatch
<1>. HIDE DEF more, further, n
<1>2. ASSUME NEW k \in DOMAIN further PROVE PairMatches(more[k], further[k], w)
    <2>1. CASE k \in 1 .. n
        BY <1>1, <2>1 DEF PairsMatch
    <2>2. CASE k = n + 1
        BY <1>1, <2>2
    <2>. QED
        BY <1>1, <1>2, <2>1, <2>2
<1>. QED
    BY <1>1, <1>2 DEF PairsMatch, more, further

(* The last pair has been asked about.                                     *)
LEMMA PairsDone ==
    ASSUME Sound(refresh, blocks), Agreed(refresh, At), refresh.stage = "resolve",
           Turn = "uniswap-v2", refresh.cur.index > Len(Pairs),
           PairsAgree(refresh.cur, refresh, At), <<"discover", Turn>> \notin refresh.failures
    PROVE  PairsExact(refresh.cur.found, refresh.touched, At)
<1> DEFINE cur == refresh.cur
           Holds(i) == i <= Len(At.pairs) /\ PairAddress[i] \in refresh.touched /\ At.pairs[i].lp > 0
<1>1. At \in WorldStates /\ cur.index \in Nat \ {0} /\ Len(Pairs) \in 0 .. 2
    BY TurnFacts, CursorTyped, PairsOrdered DEF Working
<1>2. Len(At.pairs) \in Nat
    <2>1. At.pairs \in Seq(PairStates)
        BY <1>1, WorldTyped
    <2>. QED
        BY <2>1
<1>3. ASSUME NEW i \in {1, 2}
      PROVE  Passed(i, cur, refresh) <=> i <= Len(At.pairs) /\ PairAddress[i] \in refresh.touched
    <2>1. Passed(i, cur, refresh) <=> \E k \in 1 .. Len(Pairs) : Pairs[k] = i
        BY <1>1, PairsOrdered DEF Passed
    <2>2. Has(PairAddress[i]) <=>
              PairAddress[i] \in Offered(Turn, At) /\ PairAddress[i] \in refresh.touched
        BY HasTouched DEF Shipped
    <2>3. Offered(Turn, At) = {PairAddress[j] : j \in 1 .. Len(At.pairs)}
        BY DEF Offered
    <2>4. PairAddress[i] \in Offered(Turn, At) <=> i <= Len(At.pairs)
        <3>1. Len(At.pairs) <= 2
            BY <1>1, WorldTyped
        <3>. QED
            BY <1>2, <2>3, <3>1, PairsDiffer
    <2>. QED
        BY <2>1, <2>2, <2>4, PairsOrdered
<1>4. \A i \in {1, 2} : (Passed(i, cur, refresh) /\ At.pairs[i].lp > 0) <=> Holds(i)
    BY <1>3
<1> DEFINE held == (IF Holds(1) THEN <<1>> ELSE << >>) \o (IF Holds(2) THEN <<2>> ELSE << >>)
<1>5. held = HeldSoFar(cur, refresh, At)
    <2>. HIDE DEF Holds, cur
    <2>. QED
        BY <1>4 DEF HeldSoFar, These
<1>6. PairsMatch(cur.found, held, At)
    BY <1>5 DEF PairsAgree
<1>7. PairsExact(cur.found, refresh.touched, At) <=> PairsMatch(cur.found, held, At)
    BY DEF PairsExact, PairsMatch, PairMatches
<1>. QED
    BY <1>6, <1>7

LEMMA V2BalanceAgrees ==
    ASSUME Sound(refresh, blocks), Agreed(refresh, At), V2Balance
    PROVE  Remains
<1> DEFINE cur == refresh.cur
<1>1. /\ refresh.stage = "resolve" /\ Turn = "uniswap-v2" /\ TurnOf(refresh) = "uniswap-v2"
      /\ Working(refresh) /\ cur.ask = "start" /\ At \in WorldStates
      /\ cur \in Cursors(Turn) /\ DOMAIN cur = CursorFields
      /\ CursorAgrees(cur, refresh, At)
    BY Agreeing DEF V2Balance
<1>2. PairsAgree(cur, refresh, At)
    BY <1>1 DEF CursorAgrees
<1>3. /\ cur.index \in Nat \ {0} /\ cur.found \in Seq(PositionsOf({Turn}))
      /\ Len(Pairs) \in 0 .. 2 /\ Pairs = PairsOf(refresh)
    BY <1>1, CursorTyped, PairsOrdered
<1>4. CASE cur.index > Len(Pairs)
    <2>1. Resolved(cur.found)
        BY <1>4 DEF V2Balance
    <2>2. ASSUME <<"discover", Turn>> \notin refresh.failures
          PROVE  Exact(Turn, cur.found, refresh.touched, At)
        BY <1>1, <1>2, <1>4, <2>2, PairsDone DEF Exact
    <2>. QED
        BY <1>1, <1>3, <2>1, <2>2, ResolvedAgrees
<1>5. CASE ~(cur.index > Len(Pairs))
    <2> DEFINE lp == At.pairs[PairNow].lp
               on == [cur EXCEPT !.index = cur.index + 1]
               asks == [cur EXCEPT !.held = lp]
    <2>1. IF lp = 0 THEN Now("start", on) ELSE Now("supply", asks)
        BY <1>5 DEF V2Balance
    <2>2. cur.index \in 1 .. Len(Pairs)
        BY <1>3, <1>5
    <2>3. lp \in Nat /\ PairNow = PairsOf(refresh)[cur.index]
        <3>1. At.pairs[PairNow] \in PairStates
            BY <1>1, <2>2, PairAnswers
        <3>. QED
            BY <1>3, <3>1 DEF PairStates, PairNow
    <2>4. CASE lp = 0
        <3> DEFINE next == [on EXCEPT !.ask = "start"]
        <3>1. next.ask = "start" /\ next.index = cur.index + 1 /\ next.found = cur.found
            <4>. HIDE DEF cur
            <4>. QED
                BY <1>1 DEF CursorFields
        <3>. HIDE DEF on
        <3>2. HeldSoFar(next, refresh, At) = HeldSoFar(cur, refresh, At)
            <4>. HIDE DEF next
            <4>1. ~(At.pairs[PairNow].lp > 0)
                BY <2>4
            <4>. QED
                BY <2>2, <3>1, <4>1, HeldGrows
        <3>3. CursorAgrees(next, refresh, At)
            <4>. HIDE DEF next
            <4>1. PairsAgree(next, refresh, At)
                BY <1>2, <3>1, <3>2 DEF PairsAgree
            <4>. QED
                BY <1>1, <4>1 DEF CursorAgrees
        <3>. QED
            BY <1>1, <2>1, <2>4, <3>3, NowAgrees
    <2>5. CASE lp # 0
        <3> DEFINE next == [asks EXCEPT !.ask = "supply"]
        <3>1. /\ next.ask = "supply" /\ next.index = cur.index /\ next.found = cur.found
              /\ next.held = lp /\ lp > 0
            <4>. HIDE DEF cur, lp
            <4>. QED
                BY <1>1, <2>3, <2>5 DEF CursorFields
        <3>. HIDE DEF asks
        <3>2. CursorAgrees(next, refresh, At)
            <4>. HIDE DEF next
            <4>1. HeldSoFar(next, refresh, At) = HeldSoFar(cur, refresh, At)
                BY <3>1 DEF HeldSoFar, Passed
            <4>2. PairsAgree(next, refresh, At)
                BY <1>2, <2>3, <3>1, <4>1 DEF PairsAgree
            <4>. QED
                BY <1>1, <4>2 DEF CursorAgrees
        <3>. QED
            BY <1>1, <2>1, <2>5, <3>2, NowAgrees
    <2>. QED
        BY <2>4, <2>5
<1>. QED
    BY <1>4, <1>5

LEMMA V2SupplyAgrees ==
    ASSUME Sound(refresh, blocks), Agreed(refresh, At), V2Supply
    PROVE  Remains
<1> DEFINE cur == refresh.cur
           supply == At.pairs[PairNow].supply
           told == [cur EXCEPT !.supply = supply]
           next == [told EXCEPT !.ask = "reserves"]
<1>1. /\ refresh.stage = "resolve" /\ Turn = "uniswap-v2" /\ TurnOf(refresh) = "uniswap-v2"
      /\ Working(refresh) /\ cur.ask = "supply" /\ DOMAIN cur = CursorFields
      /\ CursorAgrees(cur, refresh, At)
    BY Agreeing DEF V2Supply
<1>2. PairsAgree(cur, refresh, At)
    BY <1>1 DEF CursorAgrees
<1>3. PairNow = PairsOf(refresh)[cur.index]
    BY PairsOrdered DEF PairNow
<1>4. Now("reserves", told)
    BY DEF V2Supply
<1>5. /\ next.ask = "reserves" /\ next.index = cur.index /\ next.found = cur.found
      /\ next.held = cur.held /\ next.supply = supply
    <2>. HIDE DEF cur, supply
    <2>. QED
        BY <1>1 DEF CursorFields
<1>. HIDE DEF told
<1>6. CursorAgrees(next, refresh, At)
    <2>. HIDE DEF next
    <2>1. HeldSoFar(next, refresh, At) = HeldSoFar(cur, refresh, At)
        BY <1>5 DEF HeldSoFar, Passed
    <2>2. PairsAgree(next, refresh, At)
        BY <1>1, <1>2, <1>3, <1>5, <2>1 DEF PairsAgree
    <2>. QED
        BY <1>1, <2>2 DEF CursorAgrees
<1>. QED
    BY <1>1, <1>4, <1>6, NowAgrees

(* What is held is part of the supply, so there is one to divide by.       *)
LEMMA V2ReservesAgrees ==
    ASSUME Sound(refresh, blocks), Agreed(refresh, At), V2Reserves
    PROVE  Remains
<1> DEFINE cur == refresh.cur
           pair == At.pairs[PairNow]
           share0 == (cur.held * pair.r0) \div cur.supply
           share1 == (cur.held * pair.r1) \div cur.supply
           p == Position(<<PairAddress[PairNow], 0>>, PairAddress[PairNow],
                         <<Supplied(1, share0), Supplied(2, share1)>>)
           told == [cur EXCEPT !.index = @ + 1, !.found = Append(@, p)]
           next == [told EXCEPT !.ask = "start"]
<1>1. /\ refresh.stage = "resolve" /\ Turn = "uniswap-v2" /\ TurnOf(refresh) = "uniswap-v2"
      /\ Working(refresh) /\ cur.ask = "reserves" /\ DOMAIN cur = CursorFields
      /\ cur \in Cursors(Turn) /\ CursorAgrees(cur, refresh, At)
    BY Agreeing DEF V2Reserves
<1>2. PairsAgree(cur, refresh, At)
    BY <1>1 DEF CursorAgrees
<1>3. cur.index \in 1 .. Len(Pairs) /\ PairNow = PairsOf(refresh)[cur.index]
    BY AskingPair, PairsOrdered DEF V2Reserves, PairNow
<1>4. PairNow \in {1, 2} /\ pair \in PairStates
    BY <1>1, <1>3, PairAnswers
<1>5. /\ pair.lp \in Nat /\ pair.supply \in Nat \ {0} /\ pair.r0 \in Nat /\ pair.r1 \in Nat
      /\ cur.held = pair.lp /\ cur.supply = pair.supply
    <2>1. cur.held = pair.lp /\ cur.held > 0 /\ cur.supply = pair.supply
        BY <1>1, <1>2, <1>3 DEF PairsAgree
    <2>2. /\ pair.lp \in Nat /\ pair.supply \in Nat /\ pair.r0 \in Nat /\ pair.r1 \in Nat
          /\ pair.lp <= pair.supply
        BY <1>4 DEF PairStates
    <2>. QED
        BY <2>1, <2>2
<1>6. cur.supply # 0
    BY <1>5
<1>7. Now("start", told)
    BY <1>6 DEF V2Reserves
<1>8. /\ Floor(share0, pair.lp, pair.r0, pair.supply)
      /\ Floor(share1, pair.lp, pair.r1, pair.supply)
    <2>. HIDE DEF pair
    <2>. QED
        BY <1>5, QuotientFloor
<1>. HIDE DEF share0, share1
<1>9. PairMatches(p, PairNow, At)
    <2>1. p.id = <<PairAddress[PairNow], 0>> /\ Quantity(p, 1) = share0 /\ Quantity(p, 2) = share1
        BY DEF Position, Supplied, Quantity
    <2>. HIDE DEF p
    <2>. QED
        BY <1>8, <2>1 DEF PairMatches
<1>. HIDE DEF p
<1>10. next.ask = "start" /\ next.index = cur.index + 1 /\ next.found = Append(cur.found, p)
    <2>. HIDE DEF cur
    <2>. QED
        BY <1>1 DEF CursorFields
<1>. HIDE DEF told
<1>11. CursorAgrees(next, refresh, At)
    <2>. HIDE DEF next
    <2>1. HeldSoFar(next, refresh, At) = Append(HeldSoFar(cur, refresh, At), PairNow)
        <3>1. At.pairs[PairNow].lp > 0
            BY <1>1, <1>2, <1>3 DEF PairsAgree
        <3>. QED
            BY <1>3, <1>10, <3>1, HeldGrows
    <2>2. PairsMatch(Append(cur.found, p), Append(HeldSoFar(cur, refresh, At), PairNow), At)
        <3> DEFINE P == PositionsOf({Turn}) \cup {p}
        <3>1. cur.found \in Seq(P)
            <4>1. cur.found \in Seq(PositionsOf({Turn}))
                BY <1>1, CursorTyped
            <4>2. PositionsOf({Turn}) \subseteq P
                OBVIOUS
            <4> DEFINE O == PositionsOf({Turn})
            <4>3. Seq(O) \subseteq Seq(P)
                <5>1. O \subseteq P
                    BY <4>2
                <5>. HIDE DEF O, P
                <5>. QED
                    BY <5>1
            <4>. HIDE DEF O, P, cur
            <4>. QED
                BY <4>1, <4>3 DEF O
        <3>2. p \in P
            OBVIOUS
        <3>3. PairsMatch(cur.found, HeldSoFar(cur, refresh, At), At)
            BY <1>2 DEF PairsAgree
        <3>. HIDE DEF P, cur
        <3>. QED
            BY <1>4, <1>9, <3>1, <3>2, <3>3, HeldTyped, PairsMatchGrows
    <2>3. PairsAgree(next, refresh, At)
        BY <1>10, <2>1, <2>2 DEF PairsAgree
    <2>. QED
        BY <1>1, <2>3 DEF CursorAgrees
<1>. QED
    BY <1>1, <1>7, <1>11, NowAgrees

-----------------------------------------------------------------------------
(* UniswapV3Adapter: the NFTs it has asked about, less the empty ones.     *)

LEMMA NftsMatchGrows ==
    ASSUME NEW P, NEW found \in Seq(P), NEW p \in P, NEW held \in Seq(Nat), NEW i \in Nat,
           NEW w, NftsMatch(found, held, w), NftMatches(p, i, w)
    PROVE  NftsMatch(Append(found, p), Append(held, i), w)
<1> DEFINE more == Append(found, p)
           further == Append(held, i)
           n == Len(held)
<1>1. /\ Len(found) = n /\ n \in Nat /\ Len(more) = n + 1 /\ Len(further) = n + 1
      /\ DOMAIN further = 1 .. n + 1 /\ DOMAIN held = 1 .. n
      /\ \A k \in 1 .. n : more[k] = found[k] /\ further[k] = held[k]
      /\ more[n + 1] = p /\ further[n + 1] = i
    BY DEF NftsMatch
<1>. HIDE DEF more, further, n
<1>2. ASSUME NEW k \in DOMAIN further PROVE NftMatches(more[k], further[k], w)
    <2>1. CASE k \in 1 .. n
        BY <1>1, <2>1 DEF NftsMatch
    <2>2. CASE k = n + 1
        BY <1>1, <2>2
    <2>. QED
        BY <1>1, <1>2, <2>1, <2>2
<1>. QED
    BY <1>1, <1>2 DEF NftsMatch, more, further

LEMMA KeptNext ==
    ASSUME NEW w \in WorldStates, NEW k \in 1 .. Len(w.owned)
    PROVE  /\ w.owned[k] \in Nat /\ w.owned[k] \in DOMAIN w.nfts /\ Kept(w, k - 1) \in Seq(Nat)
           /\ Kept(w, k) = IF Empty(w.nfts[w.owned[k]]) THEN Kept(w, k - 1)
                           ELSE Append(Kept(w, k - 1), w.owned[k])
<1> DEFINE n == Len(w.owned)
           m == k - 1
<1>1. w.owned \in Seq(Nat) /\ n \in Nat
    BY WorldTyped
<1>2. m \in 0 .. n - 1 /\ m + 1 = k
    BY <1>1
<1>3. w.owned[k] \in Nat /\ k \in DOMAIN w.owned
    BY <1>1
<1>4. w.owned[k] \in DOMAIN w.nfts
    BY <1>3 DEF WorldStates
<1>5. Pieces(w)[k] = IF Empty(w.nfts[w.owned[k]]) THEN << >> ELSE <<w.owned[k]>>
    BY DEF Pieces
<1>. HIDE DEF m, n
<1>6. Kept(w, k) = Kept(w, m) \o Pieces(w)[k] /\ Kept(w, m) \in Seq(Nat)
    BY <1>2, PiecesTyped DEF n
<1>7. Kept(w, m) \o << >> = Kept(w, m)
    BY <1>6, ConcatEmptySeq
<1>8. Kept(w, m) \o <<w.owned[k]>> = Append(Kept(w, m), w.owned[k])
    BY <1>3, <1>6
<1>. QED
    BY <1>3, <1>4, <1>5, <1>6, <1>7, <1>8 DEF m

LEMMA ManagerTouched ==
    ASSUME Sound(refresh, blocks), refresh.stage = "resolve", Agreed(refresh, At),
           Turn = "uniswap-v3", <<"discover", Turn>> \notin refresh.failures
    PROVE  Has("manager") <=> "manager" \in refresh.touched
<1>1. "manager" \in Offered(Turn, At) /\ Turn \in Shipped
    BY DEF Offered, Listed, Shipped
<1>. QED
    BY <1>1, HasTouched

LEMMA NftsAllExact ==
    ASSUME NEW w \in WorldStates, NEW found, NEW touched, "manager" \in touched,
           NftsMatch(found, Kept(w, Len(w.owned)), w)
    PROVE  NftsExact(found, touched, w)
<1> DEFINE held == FlattenSeq([k \in DOMAIN w.owned |->
                                  IF Empty(w.nfts[w.owned[k]]) THEN << >> ELSE <<w.owned[k]>>])
<1>1. DOMAIN w.owned = 1 .. Len(w.owned)
    <2>1. w.owned \in Seq(Nat)
        BY WorldTyped
    <2>. QED
        BY <2>1
<1>2. held = FlattenSeq(Pieces(w))
    BY <1>1, Zenon DEF Pieces
<1>3. NftsMatch(found, held, w)
    BY <1>2, PiecesTyped
<1>4. NftsExact(found, touched, w) <=> NftsMatch(found, held, w)
    BY DEF NftsExact, NftsMatch, NftMatches
<1>. QED
    BY <1>3, <1>4

LEMMA NftsNone ==
    ASSUME NEW w, NEW touched, "manager" \in touched => w.owned = << >>
    PROVE  NftsExact(<< >>, touched, w)
<1> DEFINE owned == IF "manager" \in touched THEN w.owned ELSE << >>
           pieces == [k \in DOMAIN owned |->
                         IF Empty(w.nfts[owned[k]]) THEN << >> ELSE <<owned[k]>>]
           held == FlattenSeq(pieces)
<1>1. owned = << >>
    OBVIOUS
<1>2. pieces = << >>
    BY <1>1
<1>3. held = << >>
    BY <1>2, FlattenNone
<1>4. Len(<< >>) = Len(held) /\ DOMAIN held = {}
    BY <1>3
<1>. QED
    BY <1>4 DEF NftsExact

(* One NFT is done with.                                                   *)
LEMMA NftDoneAgrees ==
    ASSUME Sound(refresh, blocks), Agreed(refresh, At), refresh.stage = "resolve",
           Turn = "uniswap-v3", HasOf(refresh, "manager"), NEW cur \in Cursors(Turn),
           cur.count = Len(At.owned), cur.index <= cur.count,
           NftsMatch(cur.found, Kept(At, cur.index), At), NftDone(cur)
    PROVE  Remains
<1>1. /\ Working(refresh) /\ At \in WorldStates /\ DOMAIN cur = CursorFields
      /\ cur.index \in Nat \ {0} /\ cur.count \in Nat
      /\ cur.found \in Seq(PositionsOf({Turn})) /\ TurnOf(refresh) = "uniswap-v3"
    BY TurnFacts, TurnIs, CursorTyped, CursorDomain DEF Working
<1>2. CASE cur.index = cur.count
    <2>1. Resolved(cur.found)
        BY <1>2 DEF NftDone
    <2>2. ASSUME <<"discover", Turn>> \notin refresh.failures
          PROVE  Exact(Turn, cur.found, refresh.touched, At)
        <3>1. "manager" \in refresh.touched
            BY <2>2, ManagerTouched, TurnIs DEF HasOf, Has
        <3>2. NftsExact(cur.found, refresh.touched, At)
            BY <1>1, <1>2, <3>1, NftsAllExact
        <3>. QED
            BY <3>2 DEF Exact
    <2>. QED
        BY <1>1, <2>1, <2>2, ResolvedAgrees
<1>3. CASE cur.index # cur.count
    <2> DEFINE on == [cur EXCEPT !.index = @ + 1]
               next == [on EXCEPT !.ask = "token"]
    <2>1. Now("token", on)
        BY <1>3 DEF NftDone
    <2>2. /\ next.ask = "token" /\ next.index = cur.index + 1 /\ next.count = cur.count
          /\ next.found = cur.found
        BY <1>1 DEF CursorFields
    <2>. HIDE DEF on
    <2>3. CursorAgrees(next, refresh, At)
        <3>. HIDE DEF next
        <3>1. next.index - 1 = cur.index /\ next.index <= next.count
            BY <1>1, <1>3, <2>2
        <3>2. NftsAgree(next, refresh, At)
            BY <2>2, <3>1 DEF NftsAgree
        <3>. QED
            BY <1>1, <3>2 DEF CursorAgrees
    <2>. QED
        BY <1>1, <2>1, <2>3, NowAgrees
<1>. QED
    BY <1>2, <1>3

LEMMA V3CountAgrees ==
    ASSUME Sound(refresh, blocks), Agreed(refresh, At), V3Count
    PROVE  Remains
<1> DEFINE cur == refresh.cur
<1>1. /\ refresh.stage = "resolve" /\ Turn = "uniswap-v3" /\ TurnOf(refresh) = "uniswap-v3"
      /\ Working(refresh) /\ cur.ask = "start" /\ At \in WorldStates
      /\ DOMAIN cur = CursorFields /\ CursorAgrees(cur, refresh, At)
      /\ \A x : Has(x) <=> HasOf(refresh, x)
    BY Agreeing DEF V3Count
<1>2. NftsAgree(cur, refresh, At)
    BY <1>1 DEF CursorAgrees
<1>3. CASE ~Has("manager") \/ At.owned = << >>
    <2>1. Resolved(<< >>) /\ << >> \in Seq(PositionsOf({Turn}))
        BY <1>3 DEF V3Count
    <2>2. ASSUME <<"discover", Turn>> \notin refresh.failures
          PROVE  Exact(Turn, << >>, refresh.touched, At)
        <3>1. "manager" \in refresh.touched => At.owned = << >>
            BY <1>1, <1>3, <2>2, ManagerTouched
        <3>2. NftsExact(<< >>, refresh.touched, At)
            BY <3>1, NftsNone
        <3>. QED
            BY <1>1, <3>2 DEF Exact
    <2>. QED
        BY <1>1, <2>1, <2>2, ResolvedAgrees
<1>4. CASE ~(~Has("manager") \/ At.owned = << >>)
    <2> DEFINE told == [cur EXCEPT !.count = Len(At.owned)]
               next == [told EXCEPT !.ask = "token"]
    <2>1. Now("token", told)
        BY <1>4 DEF V3Count
    <2>2. /\ next.ask = "token" /\ next.index = cur.index /\ next.found = cur.found
          /\ next.count = Len(At.owned)
        <3>. HIDE DEF cur
        <3>. QED
            BY <1>1 DEF CursorFields
    <2>. HIDE DEF told
    <2>3. 1 <= Len(At.owned)
        <3>1. At.owned \in Seq(Nat) /\ At.owned # << >>
            BY <1>1, <1>4, WorldTyped
        <3>. QED
            BY <3>1
    <2>4. CursorAgrees(next, refresh, At)
        <3>. HIDE DEF next
        <3>1. NftsAgree(next, refresh, At)
            BY <1>1, <1>2, <1>4, <2>2, <2>3 DEF NftsAgree
        <3>. QED
            BY <1>1, <3>1 DEF CursorAgrees
    <2>. QED
        BY <1>1, <2>1, <2>4, NowAgrees
<1>. QED
    BY <1>3, <1>4

(* No NFT comes or goes, so that no place asked about is beyond the last.  *)
LEMMA V3TokenAgrees ==
    ASSUME Sound(refresh, blocks), Agreed(refresh, At), V3Token
    PROVE  Remains
<1> DEFINE cur == refresh.cur
           told == [cur EXCEPT !.held = At.owned[cur.index]]
           next == [told EXCEPT !.ask = "nft"]
<1>1. /\ refresh.stage = "resolve" /\ Turn = "uniswap-v3" /\ TurnOf(refresh) = "uniswap-v3"
      /\ Working(refresh) /\ cur.ask = "token" /\ At \in WorldStates
      /\ DOMAIN cur = CursorFields /\ cur \in Cursors(Turn) /\ CursorAgrees(cur, refresh, At)
    BY Agreeing DEF V3Token
<1>2. NftsAgree(cur, refresh, At)
    BY <1>1 DEF CursorAgrees
<1>3. HasOf(refresh, "manager") /\ cur.count = Len(At.owned) /\ cur.index <= cur.count
    BY <1>1, <1>2 DEF NftsAgree
<1>4. ~(cur.index > Len(At.owned))
    <2>1. cur.index \in Nat /\ cur.count \in Nat
        BY <1>1, CursorTyped
    <2>. QED
        BY <1>3, <2>1
<1>5. Now("nft", told)
    BY <1>4 DEF V3Token
<1>6. /\ next.ask = "nft" /\ next.index = cur.index /\ next.found = cur.found
      /\ next.count = cur.count /\ next.held = At.owned[cur.index]
    <2>. HIDE DEF cur
    <2>. QED
        BY <1>1 DEF CursorFields
<1>. HIDE DEF told
<1>7. CursorAgrees(next, refresh, At)
    <2>. HIDE DEF next
    <2>1. NftsAgree(next, refresh, At)
        BY <1>2, <1>3, <1>6 DEF NftsAgree
    <2>. QED
        BY <1>1, <2>1 DEF CursorAgrees
<1>. QED
    BY <1>1, <1>5, <1>7, NowAgrees

LEMMA V3NftAgrees ==
    ASSUME Sound(refresh, blocks), Agreed(refresh, At), V3Nft
    PROVE  Remains
<1> DEFINE cur == refresh.cur
           nft == At.nfts[cur.held]
           told == [cur EXCEPT !.nft = <<nft>>]
           next == [told EXCEPT !.ask = "slot0"]
<1>1. /\ refresh.stage = "resolve" /\ Turn = "uniswap-v3" /\ TurnOf(refresh) = "uniswap-v3"
      /\ Working(refresh) /\ cur.ask = "nft" /\ At \in WorldStates
      /\ DOMAIN cur = CursorFields /\ cur \in Cursors(Turn) /\ CursorAgrees(cur, refresh, At)
    BY Agreeing DEF V3Nft
<1>2. NftsAgree(cur, refresh, At)
    BY <1>1 DEF CursorAgrees
<1>3. /\ HasOf(refresh, "manager") /\ cur.count = Len(At.owned) /\ cur.index <= cur.count
      /\ cur.held = At.owned[cur.index] /\ NftsMatch(cur.found, Kept(At, cur.index - 1), At)
    BY <1>1, <1>2 DEF NftsAgree
<1>4. cur.index \in 1 .. Len(At.owned)
    <2>1. cur.index \in Nat \ {0} /\ cur.count \in Nat
        BY <1>1, CursorTyped
    <2>. QED
        BY <1>3, <2>1
<1>5. /\ cur.held \in DOMAIN At.nfts
      /\ Empty(nft) => Kept(At, cur.index) = Kept(At, cur.index - 1)
    BY <1>1, <1>3, <1>4, KeptNext
<1>6. CASE Empty(nft)
    <2>1. NftDone(cur)
        BY <1>5, <1>6 DEF V3Nft
    <2>. HIDE DEF cur, nft
    <2>. QED
        BY <1>1, <1>3, <1>5, <1>6, <2>1, NftDoneAgrees
<1>7. CASE ~Empty(nft)
    <2>1. Now("slot0", told)
        BY <1>5, <1>7 DEF V3Nft
    <2>2. /\ next.ask = "slot0" /\ next.index = cur.index /\ next.found = cur.found
          /\ next.count = cur.count /\ next.held = cur.held /\ next.nft = <<nft>>
        <3>. HIDE DEF cur, nft
        <3>. QED
            BY <1>1 DEF CursorFields
    <2>. HIDE DEF told
    <2>3. CursorAgrees(next, refresh, At)
        <3>. HIDE DEF next
        <3>1. NftsAgree(next, refresh, At)
            BY <1>3, <1>7, <2>2 DEF NftsAgree
        <3>. QED
            BY <1>1, <3>1 DEF CursorAgrees
    <2>. QED
        BY <1>1, <2>1, <2>3, NowAgrees
<1>. QED
    BY <1>6, <1>7

LEMMA V3Slot0Agrees ==
    ASSUME Sound(refresh, blocks), Agreed(refresh, At), V3Slot0
    PROVE  Remains
<1> DEFINE cur == refresh.cur
           underlyings == NftUnderlyings(cur.nft[1], At.tick)
           p == Position(<<"manager", cur.held>>, "pool", underlyings)
           told == [cur EXCEPT !.nft = << >>, !.found = Append(@, p)]
<1>1. /\ refresh.stage = "resolve" /\ Turn = "uniswap-v3" /\ TurnOf(refresh) = "uniswap-v3"
      /\ Working(refresh) /\ cur.ask = "slot0" /\ At \in WorldStates
      /\ DOMAIN cur = CursorFields /\ cur \in Cursors(Turn) /\ CursorAgrees(cur, refresh, At)
    BY Agreeing DEF V3Slot0
<1>2. NftsAgree(cur, refresh, At)
    BY <1>1 DEF CursorAgrees
<1>3. /\ HasOf(refresh, "manager") /\ cur.count = Len(At.owned) /\ cur.index <= cur.count
      /\ cur.held = At.owned[cur.index] /\ NftsMatch(cur.found, Kept(At, cur.index - 1), At)
      /\ cur.nft = <<At.nfts[cur.held]>> /\ ~Empty(At.nfts[cur.held])
    BY <1>1, <1>2 DEF NftsAgree
<1>4. cur.index \in 1 .. Len(At.owned)
    <2>1. cur.index \in Nat \ {0} /\ cur.count \in Nat
        BY <1>1, CursorTyped
    <2>. QED
        BY <1>3, <2>1
<1>5. cur.nft[1] = At.nfts[cur.held]
    BY <1>3
<1>6. CASE underlyings = << >>
    <2>1. AdapterFails
        BY <1>6 DEF V3Slot0
    <2>2. Dust(At)
        <3>1. cur.index \in DOMAIN At.owned
            <4>1. At.owned \in Seq(Nat)
                BY <1>1, WorldTyped
            <4>. QED
                BY <1>4, <4>1
        <3>2. NftUnderlyings(At.nfts[At.owned[cur.index]], At.tick) = << >>
            BY <1>3, <1>5, <1>6
        <3>. QED
            BY <1>3, <3>1, <3>2 DEF Dust
    <2>. QED
        BY <1>1, <2>1, <2>2, AdapterFailsAgrees
<1>7. CASE underlyings # << >>
    <2>1. NftDone(told)
        BY <1>7 DEF V3Slot0
    <2>2. told \in Cursors(Turn)
        <3> DEFINE once == [cur EXCEPT !.nft = << >>]
                   more == Append(cur.found, p)
        <3>1. /\ cur.held \in Nat /\ cur.found \in Seq(PositionsOf({Turn}))
              /\ At.tick \in Int /\ At.nfts \in Seq(NftStates)
            BY <1>1, CursorTyped, WorldTyped
        <3>2. cur.nft[1] \in NftStates
            <4>1. cur.held \in DOMAIN At.nfts
                BY <1>1, <1>3, <1>4, KeptNext
            <4>. QED
                BY <1>5, <3>1, <4>1, ElementOfSeq
        <3>3. underlyings \in Seq(UnderlyingStates)
            BY <3>1, <3>2, NftUnderlyingsTyped
        <3>. HIDE DEF underlyings
        <3>4. p \in PositionsOf({Turn})
            BY <3>1, <3>3, PositionTyped, NamesAre
        <3>. HIDE DEF p
        <3>5. more \in Seq(PositionsOf({Turn}))
            BY <3>1, <3>4
        <3>6. once \in Cursors(Turn) /\ once.found = cur.found
            <4>1. << >> \in Seq(NftStates)
                OBVIOUS
            <4>. HIDE DEF cur
            <4>. QED
                BY <1>1, <4>1, CursorNft
        <3>7. told = [once EXCEPT !.found = more]
            BY <3>6
        <3>. HIDE DEF once, more, told
        <3>. QED
            BY <3>5, <3>6, <3>7, CursorFinds
    <2>3. NftMatches(p, cur.held, At)
        BY <1>5 DEF Position, NftMatches
    <2>. HIDE DEF p
    <2>4. /\ told.index = cur.index /\ told.count = cur.count
          /\ told.found = Append(cur.found, p)
        <3>. HIDE DEF cur
        <3>. QED
            BY <1>1 DEF CursorFields
    <2>5. /\ cur.held \in Nat /\ Kept(At, cur.index - 1) \in Seq(Nat)
          /\ Kept(At, cur.index) = Append(Kept(At, cur.index - 1), cur.held)
        BY <1>1, <1>3, <1>4, KeptNext
    <2>6. NftsMatch(Append(cur.found, p), Append(Kept(At, cur.index - 1), cur.held), At)
        <3> DEFINE P == PositionsOf({Turn}) \cup {p}
                   O == PositionsOf({Turn})
        <3>1. cur.found \in Seq(O) /\ O \subseteq P /\ p \in P
            BY <1>1, CursorTyped
        <3>2. cur.found \in Seq(P)
            <4>. HIDE DEF O, P, cur
            <4>1. Seq(O) \subseteq Seq(P)
                BY <3>1
            <4>. QED
                BY <3>1, <4>1
        <3>. HIDE DEF P, cur
        <3>. QED
            BY <1>3, <2>3, <2>5, <3>1, <3>2, NftsMatchGrows
    <2>. HIDE DEF told, cur
    <2>. QED
        BY <1>1, <1>3, <2>1, <2>2, <2>4, <2>5, <2>6, NftDoneAgrees
<1>. QED
    BY <1>6, <1>7

-----------------------------------------------------------------------------
(* A refresh stays where it is pinned.                                     *)

Pins == blocks' = blocks /\ refresh'.pin = refresh.pin

LEMMA TurnPins ==
    ASSUME Sound(refresh, blocks), Working(refresh), blocks' = blocks,
           NEW r, refresh' = Turned(r), DOMAIN r = Fields, r.stage = refresh.stage,
           r.pin = refresh.pin
    PROVE  Pins
<1>1. Working(r)
    BY DEF Working
<1>. QED
    BY <1>1, TurnedFields DEF Pins

LEMMA AdapterFailsPins ==
    ASSUME Sound(refresh, blocks), Working(refresh), AdapterFails
    PROVE  Pins
<1> DEFINE r == [refresh EXCEPT !.failures = @ \cup {<<refresh.stage, Turn>>}]
<1>1. DOMAIN refresh = Fields
    BY TurnFacts
<1>2. DOMAIN r = Fields /\ r.stage = refresh.stage /\ r.pin = refresh.pin
    BY <1>1 DEF Fields
<1>3. refresh' = Turned(r) /\ blocks' = blocks
    BY DEF AdapterFails
<1>. HIDE DEF r
<1>. QED
    BY <1>2, <1>3, TurnPins

LEMMA CallFailsPins ==
    ASSUME Sound(refresh, blocks), CallFails
    PROVE  Pins
<1> DEFINE r == [refresh EXCEPT !.failures = @ \cup {<<refresh.stage, Turn>>},
                                !.refused = @ \cup {Turn}]
<1>0. Working(refresh)
    BY TurnIs DEF CallFails, Requesting
<1>1. DOMAIN refresh = Fields
    BY <1>0, TurnFacts
<1>2. DOMAIN r = Fields /\ r.stage = refresh.stage /\ r.pin = refresh.pin
    BY <1>1 DEF Fields
<1>3. refresh' = Turned(r) /\ blocks' = blocks
    BY DEF CallFails
<1>. HIDE DEF r
<1>. QED
    BY <1>0, <1>2, <1>3, TurnPins

LEMMA DiscoveredPins ==
    ASSUME Sound(refresh, blocks), Working(refresh), NEW slice, Discovered(slice)
    PROVE  Pins
<1> DEFINE r == [refresh EXCEPT !.contracts[Turn] = slice]
<1>1. DOMAIN refresh = Fields
    BY TurnFacts
<1>2. DOMAIN r = Fields /\ r.stage = refresh.stage /\ r.pin = refresh.pin
    BY <1>1 DEF Fields
<1>3. refresh' = Turned(r) /\ blocks' = blocks
    BY DEF Discovered
<1>. HIDE DEF r
<1>. QED
    BY <1>2, <1>3, TurnPins

LEMMA ResolvedPins ==
    ASSUME Sound(refresh, blocks), Working(refresh), NEW found, Resolved(found)
    PROVE  Pins
<1> DEFINE r == [refresh EXCEPT !.positions = @ \o found]
<1>1. DOMAIN refresh = Fields
    BY TurnFacts
<1>2. DOMAIN r = Fields /\ r.stage = refresh.stage /\ r.pin = refresh.pin
    BY <1>1 DEF Fields
<1>3. refresh' = Turned(r) /\ blocks' = blocks
    BY DEF Resolved
<1>. HIDE DEF r
<1>. QED
    BY <1>2, <1>3, TurnPins

LEMMA NowPins ==
    ASSUME Sound(refresh, blocks), NEW ask, NEW cur, Now(ask, cur)
    PROVE  Pins
<1> DEFINE next == [cur EXCEPT !.ask = ask]
<1>1. DOMAIN refresh = Fields
    BY DEF Sound, Shaped
<1>2. refresh' = [refresh EXCEPT !.cur = next] /\ blocks' = blocks
    BY DEF Now
<1>. HIDE DEF next
<1>. QED
    BY <1>1, <1>2 DEF Pins, Fields

LEMMA PriceAndDrillPins ==
    ASSUME Sound(refresh, blocks), PriceAndDrill
    PROVE  Pins
<1>1. DOMAIN refresh = Fields /\ blocks' = blocks
    BY DEF PriceAndDrill, Sound, Shaped
<1>2. \/ refresh' = [refresh EXCEPT !.stage = "raised"]
      \/ \E result : refresh' = [refresh EXCEPT !.stage = "done", !.result = result]
    BY DEF PriceAndDrill
<1>. QED
    BY <1>1, <1>2 DEF Pins, Fields

LEMMA StepsPin ==
    ASSUME Sound(refresh, blocks), refresh # Idle, PositionsNext, ~NextBlock
    PROVE  Pins
<1> DEFINE Steps ==
        \/ AdapterFails
        \/ \E slice : Discovered(slice)
        \/ \E found : Resolved(found)
        \/ \E ask, cur : Now(ask, cur)
<1>1. CallFails \/ PriceAndDrill \/ (Working(refresh) /\ Steps)
    <2>1. ~Begin
        BY DEF Begin
    <2>2. CASE DiscoverListed \/ DiscoverHost \/ DiscoverLength \/ DiscoverPair
        <3>1. refresh.stage = "discover"
            BY <2>2 DEF DiscoverListed, DiscoverHost, DiscoverLength, DiscoverPair, Turns
        <3>2. Steps
            BY <2>2 DEF DiscoverListed, DiscoverHost, DiscoverLength, DiscoverPair
        <3>. QED
            BY <3>1, <3>2 DEF Working
    <2>3. CASE ResolveHost \/ AaveSupplied \/ AaveDebt \/ AaveAccount
        <3>1. refresh.stage = "resolve"
            BY <2>3 DEF ResolveHost, AaveSupplied, AaveDebt, AaveAccount, Turns
        <3>2. Steps
            BY <2>3 DEF ResolveHost, AaveSupplied, AaveDebt, AaveAccount
        <3>. QED
            BY <3>1, <3>2 DEF Working
    <2>4. CASE ReceiptShare \/ ReceiptRate \/ V2Balance \/ V2Supply \/ V2Reserves
        <3>1. refresh.stage = "resolve"
            BY <2>4 DEF ReceiptShare, ReceiptRate, V2Balance, V2Supply, V2Reserves, Turns
        <3>2. Steps
            BY <2>4 DEF ReceiptShare, ReceiptRate, V2Balance, V2Supply, V2Reserves
        <3>. QED
            BY <3>1, <3>2 DEF Working
    <2>5. CASE V3Count \/ V3Token \/ V3Nft \/ V3Slot0
        <3>1. refresh.stage = "resolve"
            BY <2>5 DEF V3Count, V3Token, V3Nft, V3Slot0, Turns
        <3>2. Steps
            BY <2>5 DEF V3Count, V3Token, V3Nft, V3Slot0, NftDone
        <3>. QED
            BY <3>1, <3>2 DEF Working
    <2>. QED
        BY <2>1, <2>2, <2>3, <2>4, <2>5 DEF PositionsNext
<1>2. CASE CallFails \/ PriceAndDrill
    BY <1>2, CallFailsPins, PriceAndDrillPins
<1>3. CASE Working(refresh) /\ Steps
    BY <1>3, AdapterFailsPins, DiscoveredPins, ResolvedPins, NowPins
<1>. QED
    BY <1>1, <1>2, <1>3

(* The one world that such a refresh reads.                                *)
LEMMA PinnedReads ==
    ASSUME Sound(refresh, blocks), Pinned(refresh, blocks)
    PROVE  At = blocks[1] /\ Len(blocks) \in Nat \ {0}
<1>1. refresh.pin \in {0, 1} /\ blocks \in Seq(WorldStates) /\ blocks # << >>
    BY DEF Sound, Shaped
<1>2. refresh.pin = 0 => Last(blocks) = blocks[1]
    BY <1>1 DEF Pinned, Last
<1>. QED
    BY <1>1, <1>2 DEF At

LEMMA AgreedInvStarts ==
    ASSUME PositionsInit
    PROVE  AgreedInv
BY DEF PositionsInit, AgreedInv

LEMMA AgreedInvKept ==
    ASSUME PositionsInv, AgreedInv, [PositionsNext]_positionVars
    PROVE  AgreedInv'
<1>1. CASE UNCHANGED positionVars
    <2>1. refresh' = refresh /\ blocks' = blocks
        BY <1>1 DEF positionVars
    <2>. QED
        BY <2>1 DEF AgreedInv
<1>2. CASE refresh = Idle /\ PositionsNext
    BY <1>2, OnlyBegins, BeginAgrees DEF AgreedInv
<1>3. CASE refresh # Idle /\ NextBlock
    <2>1. Sound(refresh, blocks) /\ refresh' = refresh
        BY <1>3 DEF PositionsInv, NextBlock
    <2>2. blocks \in Seq(WorldStates) /\ blocks # << >>
        BY <2>1 DEF Sound, Shaped
    <2>3. PICK world \in WorldStates : blocks' = Append(blocks, world)
        BY <1>3, WorldsTyped DEF NextBlock
    <2>4. blocks'[1] = blocks[1] /\ Len(blocks') # 1
        BY <2>2, <2>3
    <2>5. Pinned(refresh', blocks') => Pinned(refresh, blocks)
        BY <2>1, <2>4 DEF Pinned
    <2>. QED
        BY <1>3, <2>1, <2>4, <2>5 DEF AgreedInv
<1>4. CASE refresh # Idle /\ PositionsNext /\ ~NextBlock
    <2> SUFFICES ASSUME Pinned(refresh', blocks')
                 PROVE  Agreed(refresh', blocks'[1])
        BY DEF AgreedInv
    <2>1. Sound(refresh, blocks)
        BY <1>4 DEF PositionsInv
    <2>2. Pins
        BY <1>4, <2>1, StepsPin
    <2>3. Pinned(refresh, blocks)
        BY <2>2 DEF Pins, Pinned
    <2>4. At = blocks[1]
        BY <2>1, <2>3, PinnedReads
    <2>5. Agreed(refresh, At)
        BY <1>4, <2>3, <2>4 DEF AgreedInv
    <2>6. ~Begin
        BY <1>4 DEF Begin
    <2>7. Remains
        BY <1>4, <2>1, <2>5, <2>6, CallFailsAgrees, PriceAndDrillAgrees, DiscoverListedAgrees,
           DiscoverHostAgrees, DiscoverLengthAgrees, DiscoverPairAgrees, ResolveHostAgrees,
           AaveSuppliedAgrees, AaveDebtAgrees, AaveAccountAgrees, ReceiptShareAgrees,
           ReceiptRateAgrees, V2BalanceAgrees, V2SupplyAgrees, V2ReservesAgrees,
           V3CountAgrees, V3TokenAgrees, V3NftAgrees, V3Slot0Agrees
        DEF PositionsNext
    <2>. QED
        BY <2>4, <2>7 DEF Remains
<1>. QED
    BY <1>1, <1>2, <1>3, <1>4

LEMMA AgreedInvAgrees ==
    ASSUME PositionsInv, AgreedInv
    PROVE  PinnedReadsAgree
<1> SUFFICES ASSUME refresh # Idle, Pinned(refresh, blocks)
             PROVE  /\ \A a \in Shipped : Succeeded(a) =>
                           Exact(a, Of(refresh.positions, a), refresh.touched, blocks[1])
                    /\ Explained(refresh, blocks[1])
    BY DEF PinnedReadsAgree, Pinned, Shipped, Exact, Explained
<1>1. Agreed(refresh, blocks[1])
    BY DEF AgreedInv
<1>2. Explained(refresh, blocks[1])
    BY <1>1 DEF Agreed
<1>3. ASSUME NEW a \in Shipped, Succeeded(a)
      PROVE  Exact(a, Of(refresh.positions, a), refresh.touched, blocks[1])
    <2>1. /\ refresh.stage # "discover" /\ ~Working(refresh) /\ a \in refresh.fleet
          /\ ~FailedIn(refresh, a)
        BY <1>3 DEF Succeeded, Working, FailedIn
    <2>2. a \notin refresh.left
        BY <1>1, <2>1 DEF Agreed
    <2>. QED
        BY <1>1, <2>1, <2>2 DEF Agreed, FindsAgree
<1>. QED
    BY <1>2, <1>3

(* Whatever the contracts hold, whichever adapters serve the chain and     *)
(* whichever calls fail, as long as every read is of one block: an adapter *)
(* of the four shipped that does not fail finds what the address holds in  *)
(* the contracts it touched, each position once, in the shares that the    *)
(* contracts would pay out; and none fails but for a call that failed or,  *)
(* uniswap-v3, over an NFT worth nothing on either side.                   *)
THEOREM PinnedReadsAlwaysAgree == PositionsSpec => []PinnedReadsAgree
<1>1. PositionsInit => PositionsInv /\ AgreedInv
    BY PositionsInvStarts, AgreedInvStarts
<1>2. PositionsInv /\ AgreedInv /\ [PositionsNext]_positionVars => PositionsInv' /\ AgreedInv'
    BY PositionsInvKept, AgreedInvKept
<1>3. PositionsInv /\ AgreedInv => PinnedReadsAgree
    BY AgreedInvAgrees
<1>. QED
    BY <1>1, <1>2, <1>3, PTL DEF PositionsSpec

=============================================================================
