-------------------------- MODULE AccountingProofs --------------------------
(***************************************************************************)
(* Proofs about Accounting, over any stream of events and under any of the *)
(* four methods.  First the units: lots, pools and a plain balance count   *)
(* the same, no unit is sold at a known cost that was not bought at one,   *)
(* and FIFO leaves a lot alone while an older one has units.  Then the     *)
(* amounts: fractions are exact, each lot keeps its part of its cost, the  *)
(* rows of a report bear out its totals, no method makes money, and no     *)
(* sale of HIFO could have cost more.                                      *)
(***************************************************************************)
EXTENDS Accounting, Lemmas

Costs == {Unknown} \cup Amount

Lots == [id : Txs \X Nat, opened_at : Nat, original : Nat \ {0}, remaining : Nat,
         cost_total : Costs, cost_remaining : Costs]

Ledgers == [lots : Seq(Lots), decimals : Scales \cup {NoScale}, seq : [Txs -> Nat]]

Pools == [currency : Currencies \cup {NoCurrency}, cost : Costs, quantity : Nat]

Books == [booked : 0..MaxEvents, paid : Amount, got : Amount, units : [Assets -> Nat],
          priced : [Assets -> Nat], costed : [Assets -> Nat]]

Shapes ==
    /\ method \in Methods
    /\ currency \in Currencies \cup {NoCurrency}
    /\ last \in Times \cup {0}
    /\ ledgers \in [Assets -> Ledgers]
    /\ pools \in [Assets -> Pools]
    /\ scales \in [Assets -> Scales \cup {0}]
    /\ truth \in Books

(* A lot keeps within what was bought, and was bought by now. *)
LotKept(lot, now) ==
    /\ lot.remaining <= lot.original
    /\ lot.cost_total = Unknown <=> lot.cost_remaining = Unknown
    /\ lot.opened_at <= now

(* The ordinals given out tell the lots apart, those to come included. *)
Ordinals(ledger, given) ==
    /\ \A i \in DOMAIN ledger.lots : ledger.lots[i].id[2] < ledger.seq[ledger.lots[i].id[1]]
    /\ \A i, j \in DOMAIN ledger.lots : ledger.lots[i].id = ledger.lots[j].id => i = j
    /\ \A t \in Txs : ledger.seq[t] <= given

OldestUsed(lots) ==
    \A i, j \in DOMAIN lots :
        lots[i].opened_at < lots[j].opened_at /\ lots[i].remaining > 0
            => lots[j].remaining = lots[j].original

LedgersKept ==
    \A a \in Assets :
        /\ \A i \in DOMAIN ledgers[a].lots : LotKept(ledgers[a].lots[i], last)
        /\ Ordinals(ledgers[a], truth.booked)
        /\ method = "fifo" => OldestUsed(ledgers[a].lots)

(* Only the average cost keeps pools, all of them in the stream's currency *)
(* once it has one: so no acquisition is refused halfway.                  *)
PoolsKept ==
    \A a \in Assets :
        /\ method # "acb" => pools[a] = NoPool
        /\ currency # NoCurrency => pools[a].currency \in {NoCurrency, currency}

(* The sum of a weight over the lots: of their units, and of those bought  *)
(* at a known cost.                                                        *)
Weighs(g, lots) == SumFunctionOnSet([i \in DOMAIN lots |-> g[lots[i]]], DOMAIN lots)

AllUnits == [lot \in Lots |-> lot.remaining]

PricedUnits == [lot \in Lots |-> IF lot.cost_total = Unknown THEN 0 ELSE lot.remaining]

Counted ==
    \A a \in Assets :
        /\ Weighs(AllUnits, ledgers[a].lots) = truth.units[a]
        /\ method = "acb" => pools[a].quantity = truth.units[a]

(* What can still be sold at a known cost was bought at one, and not sold. *)
Covered ==
    \A a \in Assets :
        /\ truth.costed[a] <= truth.priced[a]
        /\ method # "acb" =>
               truth.costed[a] + Weighs(PricedUnits, ledgers[a].lots) <= truth.priced[a]
        /\ (method = "acb" /\ pools[a].cost # Unknown) =>
               truth.costed[a] + pools[a].quantity <= truth.priced[a]

IInv == Shapes /\ LedgersKept /\ PoolsKept /\ Counted /\ Covered

-----------------------------------------------------------------------------
(* Numbers. *)

LEMMA MinOfTwo ==
    ASSUME NEW x \in Int, NEW y \in Int
    PROVE  Min({x, y}) = IF x <= y THEN x ELSE y
<1> DEFINE m == IF x <= y THEN x ELSE y
<1>1. m \in {x, y} /\ \A z \in {x, y} : m <= z
    OBVIOUS
<1>2. Min({x, y}) \in {x, y} /\ \A z \in {x, y} : Min({x, y}) <= z
    BY <1>1, Zenon DEF Min
<1>. QED
    BY <1>1, <1>2

LEMMA MaxOfTwo ==
    ASSUME NEW x \in Int, NEW y \in Int
    PROVE  Max({x, y}) = IF x >= y THEN x ELSE y
<1> DEFINE m == IF x >= y THEN x ELSE y
<1>1. m \in {x, y} /\ \A z \in {x, y} : m >= z
    OBVIOUS
<1>2. Max({x, y}) \in {x, y} /\ \A z \in {x, y} : Max({x, y}) >= z
    BY <1>1, Zenon DEF Max
<1>. QED
    BY <1>1, <1>2

(* A quotient by a divisor is no less than one. *)
LEMMA ExactQuotient ==
    ASSUME NEW d \in Nat \ {0}, NEW g \in 1..d
    PROVE  d \div g \in Nat \ {0}
OBVIOUS

LEMMA ReducedIsAmount ==
    ASSUME NEW n \in Int, NEW d \in Nat \ {0}
    PROVE  Reduced(n, d) \in Amount
<1> DEFINE common == {k \in 1..d : d % k = 0 /\ n % k = 0}
           g == Max(common)
<1>1. common \subseteq 0..d /\ common # {}
    <2>1. 1 \in 1..d /\ d % 1 = 0 /\ n % 1 = 0
        OBVIOUS
    <2>2. 1 \in common
        BY <2>1
    <2>. QED
        BY <2>2
<1>2. \E b \in common : \A c \in common : c <= b
    <2>. HIDE DEF common
    <2>. QED
        BY <1>1, GreatestNatural
<1>3. \E b \in common : \A c \in common : b >= c
    <2>1. \A c \in common : c \in Int
        OBVIOUS
    <2>. HIDE DEF common
    <2>. QED
        BY <1>2, <2>1
<1>4. g \in common
    <2>. HIDE DEF common
    <2>. QED
        BY <1>3, Zenon DEF Max
<1>5. g \in 1..d
    <2>. HIDE DEF g
    <2>. QED
        BY <1>4
<1> HIDE DEF g
<1>6. d \div g \in Nat \ {0} /\ n \div g \in Int
    BY <1>5, ExactQuotient
<1>7. Reduced(n, d) = <<n \div g, d \div g>>
    BY DEF Reduced, g
<1>. QED
    BY <1>6, <1>7 DEF Amount

LEMMA AmountParts ==
    ASSUME NEW x \in Amount
    PROVE  x # Unknown /\ x[1] \in Int /\ x[2] \in Nat \ {0}
BY DEF Amount, Unknown

LEMMA Exact ==
    ASSUME NEW x \in Amount, NEW y \in Amount, NEW take \in Nat, NEW whole \in Nat \ {0}
    PROVE  /\ Plus(x, y) \in Amount /\ Minus(x, y) \in Amount
           /\ Share(x, take, whole) \in Amount
<1>1. /\ x[1] \in Int /\ x[2] \in Nat \ {0}
      /\ y[1] \in Int /\ y[2] \in Nat \ {0}
    BY AmountParts
<1>2. /\ x[2] * y[2] \in Nat \ {0} /\ x[2] * whole \in Nat \ {0}
      /\ x[1] * y[2] + y[1] * x[2] \in Int /\ x[1] * y[2] - y[1] * x[2] \in Int
      /\ x[1] * take \in Int
    BY <1>1
<1>. QED
    BY <1>2, ReducedIsAmount DEF Plus, Minus, Share

LEMMA ZeroIsAmount == \A n \in Int : Q(n) \in Amount
BY DEF Q, Amount

(* Rationals are ordered by their cross products. *)
LEMMA Dearer ==
    ASSUME NEW x \in Amount, NEW y \in Amount, NEW z \in Amount
    PROVE  /\ ~Exceeds(x, x)
           /\ Exceeds(x, y) => ~Exceeds(y, x)
           /\ Exceeds(x, y) /\ ~Exceeds(z, y) => Exceeds(x, z)
           /\ ~Exceeds(y, x) /\ Exceeds(y, z) => Exceeds(x, z)
<1> DEFINE a == x[1]
           b == x[2]
           c == y[1]
           d == y[2]
           e == z[1]
           f == z[2]
<1>1. /\ a \in Int /\ c \in Int /\ e \in Int
      /\ b \in Int /\ b > 0 /\ d \in Int /\ d > 0 /\ f \in Int /\ f > 0
    BY AmountParts
<1> HIDE DEF a, b, c, d, e, f
<1>2. a * d > c * b /\ ~(e * d > c * f) => a * f > e * b
    <2> SUFFICES ASSUME a * d > c * b, e * d <= c * f PROVE a * f > e * b
        BY <1>1
    <2>1. (a * d) * f > (c * b) * f
        BY <1>1
    <2>2. (e * d) * b <= (c * f) * b
        BY <1>1
    <2>3. (a * d) * f = (a * f) * d /\ (c * b) * f = (c * f) * b /\ (e * d) * b = (e * b) * d
        BY <1>1
    <2>4. (a * f) * d > (e * b) * d
        BY <1>1, <2>1, <2>2, <2>3
    <2>. QED
        BY <1>1, <2>4
<1>3. ~(c * b > a * d) /\ c * f > e * d => a * f > e * b
    <2> SUFFICES ASSUME c * b <= a * d, c * f > e * d PROVE a * f > e * b
        BY <1>1
    <2>1. (c * b) * f <= (a * d) * f
        BY <1>1
    <2>2. (c * f) * b > (e * d) * b
        BY <1>1
    <2>3. (a * d) * f = (a * f) * d /\ (c * b) * f = (c * f) * b /\ (e * d) * b = (e * b) * d
        BY <1>1
    <2>4. (a * f) * d > (e * b) * d
        BY <1>1, <2>1, <2>2, <2>3
    <2>. QED
        BY <1>1, <2>4
<1>4. ~(a * b > a * b) /\ (a * d > c * b => ~(c * b > a * d))
    BY <1>1
<1>. QED
    BY <1>2, <1>3, <1>4 DEF Exceeds, a, b, c, d, e, f

-----------------------------------------------------------------------------
(* Weights of lists of lots. *)

LEMMA Indexes ==
    ASSUME NEW S, NEW s \in Seq(S)
    PROVE  /\ Len(s) \in Nat /\ DOMAIN s = 1 .. Len(s) /\ IsFiniteSet(DOMAIN s)
           /\ \A i \in DOMAIN s : s[i] \in S
<1>1. Len(s) \in Nat /\ DOMAIN s = 1 .. Len(s) /\ \A i \in DOMAIN s : s[i] \in S
    OBVIOUS
<1>2. IsFiniteSet(1 .. Len(s))
    BY <1>1, FS_Interval
<1>. QED
    BY <1>1, <1>2

LEMMA WeightsAre ==
    /\ AllUnits \in [Lots -> Nat] /\ PricedUnits \in [Lots -> Nat]
    /\ \A lot \in Lots :
        /\ AllUnits[lot] = lot.remaining
        /\ PricedUnits[lot] = IF lot.cost_total = Unknown THEN 0 ELSE lot.remaining
        /\ lot.remaining \in Nat
<1>1. \A lot \in Lots : lot.remaining \in Nat
    BY DEF Lots
<1>. QED
    BY <1>1 DEF AllUnits, PricedUnits

LEMMA WeighType ==
    ASSUME NEW g \in [Lots -> Nat], NEW s \in Seq(Lots)
    PROVE  Weighs(g, s) \in Nat
<1> DEFINE f == [i \in DOMAIN s |-> g[s[i]]]
<1>1. IsFiniteSet(DOMAIN s) /\ \A i \in DOMAIN s : s[i] \in Lots
    BY Indexes
<1>2. \A i \in DOMAIN s : f[i] \in Nat
    BY <1>1
<1>. HIDE DEF f
<1>3. SumFunctionOnSet(f, DOMAIN s) \in Nat
    BY <1>1, <1>2, SumType
<1>. QED
    BY <1>3 DEF Weighs, f

LEMMA WeighNone ==
    ASSUME NEW g
    PROVE  Weighs(g, << >>) = 0
<1>1. DOMAIN << >> = {}
    OBVIOUS
<1>. QED
    BY <1>1, SumEmpty DEF Weighs

LEMMA WeighAppend ==
    ASSUME NEW g \in [Lots -> Nat], NEW s \in Seq(Lots), NEW lot \in Lots
    PROVE  Weighs(g, Append(s, lot)) = Weighs(g, s) + g[lot]
<1> DEFINE t == Append(s, lot)
           n == Len(s)
           f == [i \in DOMAIN s |-> g[s[i]]]
           h == [i \in DOMAIN t |-> g[t[i]]]
<1>1. /\ n \in Nat /\ DOMAIN s = 1 .. n /\ IsFiniteSet(1 .. n)
      /\ \A i \in 1 .. n : s[i] \in Lots
    BY Indexes
<1>2. DOMAIN t = 1 .. n + 1 /\ t[n + 1] = lot /\ \A i \in 1 .. n : t[i] = s[i]
    BY <1>1
<1> HIDE DEF t
<1>3. \A i \in 1 .. n : f[i] \in Nat /\ h[i] = f[i]
    BY <1>1, <1>2
<1>4. h[n + 1] = g[lot] /\ g[lot] \in Nat
    BY <1>1, <1>2
<1>5. 1 .. n + 1 = (1 .. n) \cup {n + 1} /\ n + 1 \notin 1 .. n
    BY <1>1
<1> HIDE DEF f, h, n
<1>6. SumFunctionOnSet(h, 1 .. n) = SumFunctionOnSet(f, 1 .. n)
    <2>1. \A i \in 1 .. n : f[i] \in Int /\ h[i] = f[i]
        BY <1>3
    <2>. QED
        BY <1>1, <2>1, SumSame
<1>7. SumFunctionOnSet(h, (1 .. n) \cup {n + 1}) = h[n + 1] + SumFunctionOnSet(h, 1 .. n)
    <2>1. h[n + 1] \in Int /\ \A i \in 1 .. n : h[i] \in Int
        BY <1>3, <1>4
    <2>. QED
        BY <1>1, <1>5, <2>1, SumAdds
<1>8. SumFunctionOnSet(f, 1 .. n) \in Nat
    BY <1>1, <1>3, SumType
<1>9. Weighs(g, s) = SumFunctionOnSet(f, 1 .. n)
    BY <1>1 DEF Weighs, f
<1>10. Weighs(g, t) = SumFunctionOnSet(h, 1 .. n + 1)
    BY <1>2 DEF Weighs, h
<1>11. SumFunctionOnSet(h, 1 .. n + 1) = g[lot] + SumFunctionOnSet(f, 1 .. n)
    BY <1>4, <1>5, <1>6, <1>7
<1>12. Weighs(g, t) = Weighs(g, s) + g[lot]
    BY <1>4, <1>8, <1>9, <1>10, <1>11
<1>. QED
    BY <1>12 DEF t

IsTaken(taken, g, s, t) == \A i \in DOMAIN s : taken[i] \in Nat /\ g[s[i]] = g[t[i]] + taken[i]

(* What draining a list takes from its weight. *)
LEMMA WeighDrained ==
    ASSUME NEW g \in [Lots -> Nat], NEW s \in Seq(Lots), NEW t \in Seq(Lots), Len(t) = Len(s),
           NEW taken, IsTaken(taken, g, s, t)
    PROVE  Weighs(g, s) = Weighs(g, t) + SumFunctionOnSet(taken, DOMAIN s)
<1> DEFINE n == Len(s)
           f == [i \in DOMAIN s |-> g[s[i]]]
           h == [i \in DOMAIN t |-> g[t[i]]]
<1>1. /\ n \in Nat /\ DOMAIN s = 1 .. n /\ DOMAIN t = 1 .. n /\ IsFiniteSet(1 .. n)
      /\ \A i \in 1 .. n : s[i] \in Lots /\ t[i] \in Lots
    BY Indexes
<1>2. IsPointwiseSum(f, h, taken, 1 .. n)
    BY <1>1 DEF IsPointwiseSum, IsTaken
<1> HIDE DEF f, h, n
<1>3. SumFunctionOnSet(f, 1 .. n) = SumFunctionOnSet(h, 1 .. n) + SumFunctionOnSet(taken, 1 .. n)
    BY <1>1, <1>2, SumPlus
<1>. QED
    BY <1>1, <1>3 DEF Weighs, f, h

-----------------------------------------------------------------------------
(* The open lots. *)

(* open[n] are those among the first n. *)
Opens(open, lots, n) ==
    \A i \in 0 .. n :
        open[i] = IF i = 0 THEN << >>
                  ELSE IF lots[i].remaining > 0 THEN Append(open[i - 1], lots[i])
                  ELSE open[i - 1]

Opening(lots) ==
    CHOOSE open : open = [n \in 0 .. Len(lots) |->
        IF n = 0 THEN << >>
        ELSE IF lots[n].remaining > 0 THEN Append(open[n - 1], lots[n])
        ELSE open[n - 1]]

LEMMA OpensOneMore ==
    ASSUME NEW lots \in Seq(Lots), NEW m \in Nat, m + 1 <= Len(lots),
           NEW f \in [0 .. m -> Seq(Lots)], Opens(f, lots, m)
    PROVE  \E g \in [0 .. m + 1 -> Seq(Lots)] : Opens(g, lots, m + 1)
<1> DEFINE last_one == IF lots[m + 1].remaining > 0 THEN Append(f[m], lots[m + 1]) ELSE f[m]
           g == [i \in 0 .. m + 1 |-> IF i = m + 1 THEN last_one ELSE f[i]]
<1>1. lots[m + 1] \in Lots /\ f[m] \in Seq(Lots) /\ m + 1 \in 0 .. m + 1 /\ m + 1 # 0
    OBVIOUS
<1>2. last_one \in Seq(Lots)
    BY <1>1
<1> HIDE DEF last_one
<1>3. g \in [0 .. m + 1 -> Seq(Lots)]
    BY <1>2
<1>4. g[m + 1] = last_one /\ \A i \in 0 .. m : g[i] = f[i]
    BY <1>1
<1> HIDE DEF g
<1>5. ASSUME NEW i \in 0 .. m + 1
      PROVE  g[i] = IF i = 0 THEN << >>
                    ELSE IF lots[i].remaining > 0 THEN Append(g[i - 1], lots[i])
                    ELSE g[i - 1]
    <2>1. CASE i = m + 1
        <3>1. i - 1 = m /\ i # 0 /\ g[m] = f[m]
            BY <1>4, <2>1
        <3>. QED
            BY <1>4, <2>1, <3>1 DEF last_one
    <2>2. CASE i \in 0 .. m
        <3>1. f[i] = IF i = 0 THEN << >>
                     ELSE IF lots[i].remaining > 0 THEN Append(f[i - 1], lots[i])
                     ELSE f[i - 1]
            BY <2>2 DEF Opens
        <3>2. i # 0 => i - 1 \in 0 .. m
            BY <2>2
        <3>3. g[i] = f[i] /\ (i # 0 => g[i - 1] = f[i - 1])
            BY <1>4, <2>2, <3>2
        <3>. QED
            BY <3>1, <3>3
    <2>. QED
        BY <2>1, <2>2
<1>. QED
    BY <1>3, <1>5 DEF Opens

LEMMA OpeningOpens ==
    ASSUME NEW lots \in Seq(Lots)
    PROVE  Opens(Opening(lots), lots, Len(lots))
<1> DEFINE n == Len(lots)
           T == {m \in 0 .. n : \E f \in [0 .. m -> Seq(Lots)] : Opens(f, lots, m)}
<1>1. n \in Nat
    OBVIOUS
<1>2. 0 \in T
    <2>1. [i \in 0 .. 0 |-> << >>] \in [0 .. 0 -> Seq(Lots)]
        OBVIOUS
    <2>2. Opens([i \in 0 .. 0 |-> << >>], lots, 0)
        BY DEF Opens
    <2>3. 0 \in 0 .. n
        BY <1>1
    <2>. QED
        BY <2>1, <2>2, <2>3, Zenon
<1>3. ASSUME NEW m \in 0 .. n - 1, m \in T PROVE m + 1 \in T
    <2>1. PICK f \in [0 .. m -> Seq(Lots)] : Opens(f, lots, m)
        BY <1>3
    <2>2. m \in Nat /\ m + 1 <= Len(lots) /\ m + 1 \in 0 .. n
        BY <1>1, <1>3
    <2>3. \E g \in [0 .. m + 1 -> Seq(Lots)] : Opens(g, lots, m + 1)
        BY <2>1, <2>2, OpensOneMore
    <2>. QED
        BY <2>2, <2>3
<1> HIDE DEF T, n
<1>4. n \in T
    <2>1. \A i \in 0 .. n : i \in T
        BY <1>1, <1>2, <1>3, CountingUp
    <2>. QED
        BY <1>1, <2>1
<1>5. PICK f \in [0 .. n -> Seq(Lots)] : Opens(f, lots, n)
    BY <1>4 DEF T
<1>6. f = [i \in 0 .. Len(lots) |->
              IF i = 0 THEN << >>
              ELSE IF lots[i].remaining > 0 THEN Append(f[i - 1], lots[i])
              ELSE f[i - 1]]
    BY <1>5 DEF Opens, n
<1>7. Opening(lots) = [i \in 0 .. Len(lots) |->
          IF i = 0 THEN << >>
          ELSE IF lots[i].remaining > 0 THEN Append(Opening(lots)[i - 1], lots[i])
          ELSE Opening(lots)[i - 1]]
    BY <1>6, Zenon DEF Opening
<1>. QED
    BY <1>7 DEF Opens

(* Where each of the open lots stands among all of them. *)
Picks(out, lots, n) ==
    \E e \in [1 .. Len(out) -> 1 .. n] :
        /\ \A k \in 1 .. Len(out) : out[k] = lots[e[k]] /\ out[k].remaining > 0
        /\ \A k, l \in 1 .. Len(out) : k < l => e[k] < e[l]

LEMMA PicksNext ==
    ASSUME NEW lots \in Seq(Lots), NEW n \in Nat, n + 1 <= Len(lots),
           NEW out \in Seq(Lots), Picks(out, lots, n)
    PROVE  /\ Picks(out, lots, n + 1)
           /\ lots[n + 1].remaining > 0 => Picks(Append(out, lots[n + 1]), lots, n + 1)
<1>1. PICK e \in [1 .. Len(out) -> 1 .. n] :
          /\ \A k \in 1 .. Len(out) : out[k] = lots[e[k]] /\ out[k].remaining > 0
          /\ \A k, l \in 1 .. Len(out) : k < l => e[k] < e[l]
    BY DEF Picks
<1>2. e \in [1 .. Len(out) -> 1 .. n + 1]
    OBVIOUS
<1>3. ASSUME lots[n + 1].remaining > 0
      PROVE  Picks(Append(out, lots[n + 1]), lots, n + 1)
    <2> DEFINE more == Append(out, lots[n + 1])
               m == Len(out)
               d == [k \in 1 .. m + 1 |-> IF k = m + 1 THEN n + 1 ELSE e[k]]
    <2>1. /\ m \in Nat /\ Len(more) = m + 1 /\ more[m + 1] = lots[n + 1]
          /\ \A k \in 1 .. m : more[k] = out[k]
        OBVIOUS
    <2> HIDE DEF more, m
    <2>2. \A k \in 1 .. m : e[k] \in 1 .. n
        BY DEF m
    <2>3. d \in [1 .. m + 1 -> 1 .. n + 1]
        BY <2>1, <2>2
    <2>4. d[m + 1] = n + 1 /\ \A k \in 1 .. m : d[k] = e[k]
        BY <2>1
    <2> HIDE DEF d
    <2>5. \A k \in 1 .. m + 1 : k = m + 1 \/ k \in 1 .. m
        BY <2>1
    <2>6. \A k \in 1 .. m + 1 : more[k] = lots[d[k]] /\ more[k].remaining > 0
        BY <1>1, <1>3, <2>1, <2>4, <2>5 DEF m
    <2>7. \A k, l \in 1 .. m + 1 : k < l => d[k] < d[l]
        <3> SUFFICES ASSUME NEW k \in 1 .. m + 1, NEW l \in 1 .. m + 1, k < l
                     PROVE  d[k] < d[l]
            OBVIOUS
        <3>1. k \in 1 .. m
            BY <2>1
        <3>2. CASE l = m + 1
            BY <2>2, <2>4, <3>1, <3>2
        <3>3. CASE l \in 1 .. m
            BY <1>1, <2>4, <3>1, <3>3 DEF m
        <3>. QED
            BY <2>5, <3>2, <3>3
    <2>. QED
        BY <2>1, <2>3, <2>6, <2>7 DEF Picks, more
<1>. QED
    BY <1>1, <1>2, <1>3 DEF Picks

LEMMA OpenLotsAre ==
    ASSUME NEW ledger \in Ledgers
    PROVE  /\ OpenLots(ledger) \in Seq(Lots)
           /\ Picks(OpenLots(ledger), ledger.lots, Len(ledger.lots))
           /\ \A g \in [Lots -> Nat] :
                  (\A lot \in Lots : lot.remaining = 0 => g[lot] = 0) =>
                      Weighs(g, OpenLots(ledger)) = Weighs(g, ledger.lots)
<1> DEFINE lots == ledger.lots
           open == Opening(lots)
           N == Len(lots)
           Light == {g \in [Lots -> Nat] : \A lot \in Lots : lot.remaining = 0 => g[lot] = 0}
           first(n) == SubSeq(lots, 1, n)
           T == {n \in 0 .. N : /\ open[n] \in Seq(Lots)
                                /\ Picks(open[n], lots, n)
                                /\ \A g \in Light : Weighs(g, open[n]) = Weighs(g, first(n))}
<1>1. lots \in Seq(Lots) /\ N \in Nat
    BY DEF Ledgers
<1>2. OpenLots(ledger) = open[N]
    BY Zenon DEF OpenLots, Opening
<1> HIDE DEF lots
<1>3. Opens(open, lots, N)
    BY <1>1, OpeningOpens
<1> HIDE DEF open
<1>4. 0 \in T
    <2>1. 0 \in 0 .. N
        BY <1>1
    <2>2. open[0] = << >>
        BY <1>3, <2>1 DEF Opens
    <2>3. first(0) = << >>
        BY <1>1
    <2>4. Picks(open[0], lots, 0)
        <3>1. [k \in 1 .. 0 |-> k] \in [1 .. Len(open[0]) -> 1 .. 0]
            BY <2>2
        <3>2. \A k \in 1 .. Len(open[0]) : FALSE
            BY <2>2
        <3>. QED
            BY <3>1, <3>2 DEF Picks
    <2>5. open[0] \in Seq(Lots)
        BY <2>2
    <2>. QED
        BY <2>1, <2>2, <2>3, <2>4, <2>5
<1>5. ASSUME NEW n \in 0 .. N - 1, n \in T PROVE n + 1 \in T
    <2>1. n \in Nat /\ n + 1 \in 0 .. N /\ n + 1 # 0 /\ n + 1 - 1 = n /\ n + 1 <= Len(lots)
        BY <1>1, <1>5
    <2> DEFINE lot == lots[n + 1]
    <2>2. lot \in Lots /\ lot.remaining \in Nat
        <3>1. n + 1 \in 1 .. Len(lots)
            BY <1>1, <2>1
        <3>2. lot \in Lots
            BY <1>1, <3>1
        <3>. QED
            BY <3>2, WeightsAre
    <2>3. open[n + 1] = IF lot.remaining > 0 THEN Append(open[n], lot) ELSE open[n]
        BY <1>3, <2>1 DEF Opens
    <2>4. first(n + 1) = Append(first(n), lot) /\ first(n) \in Seq(Lots)
        BY <1>1, <2>1
    <2>5. open[n] \in Seq(Lots) /\ Picks(open[n], lots, n)
        BY <1>5
    <2>6. \A g \in Light : Weighs(g, open[n]) = Weighs(g, first(n))
        BY <1>5
    <2> HIDE DEF first
    <2>7. open[n + 1] \in Seq(Lots)
        BY <2>2, <2>3, <2>5
    <2>8. Picks(open[n + 1], lots, n + 1)
        BY <1>1, <2>1, <2>3, <2>5, PicksNext
    <2>9. ASSUME NEW g \in Light PROVE Weighs(g, open[n + 1]) = Weighs(g, first(n + 1))
        <3>1. g \in [Lots -> Nat] /\ g[lot] \in Nat /\ (lot.remaining = 0 => g[lot] = 0)
            BY <2>2
        <3>2. Weighs(g, first(n + 1)) = Weighs(g, first(n)) + g[lot]
            BY <2>2, <2>4, <3>1, WeighAppend
        <3>3. Weighs(g, first(n)) \in Nat
            BY <2>4, <3>1, WeighType
        <3>4. CASE lot.remaining > 0
            <4>1. open[n + 1] = Append(open[n], lot)
                BY <2>3, <3>4
            <4>2. Weighs(g, Append(open[n], lot)) = Weighs(g, open[n]) + g[lot]
                BY <2>2, <2>5, <3>1, WeighAppend
            <4>. QED
                BY <2>6, <3>2, <4>1, <4>2
        <3>5. CASE ~(lot.remaining > 0)
            <4>1. open[n + 1] = open[n] /\ g[lot] = 0
                BY <2>2, <2>3, <3>1, <3>5
            <4>. QED
                BY <2>6, <3>2, <3>3, <4>1
        <3>. QED
            BY <3>4, <3>5
    <2>. QED
        BY <2>1, <2>7, <2>8, <2>9
<1> HIDE DEF T
<1>6. N \in T
    <2> HIDE DEF N
    <2>1. \A i \in 0 .. N : i \in T
        BY <1>1, <1>4, <1>5, CountingUp
    <2>. QED
        BY <1>1, <2>1
<1>7. first(N) = lots
    BY <1>1
<1>8. /\ open[N] \in Seq(Lots) /\ Picks(open[N], lots, N)
      /\ \A g \in Light : Weighs(g, open[N]) = Weighs(g, first(N))
    BY <1>6 DEF T
<1> HIDE DEF first, N
<1>9. \A g \in Light : Weighs(g, open[N]) = Weighs(g, lots)
    BY <1>7, <1>8
<1>10. \A g \in [Lots -> Nat] :
           (\A lot \in Lots : lot.remaining = 0 => g[lot] = 0) =>
               Weighs(g, open[N]) = Weighs(g, lots)
    BY <1>9
<1>. QED
    BY <1>2, <1>8, <1>10 DEF lots, N

-----------------------------------------------------------------------------
(* A plan over lots in some order: each gives what those before it leave   *)
(* unmet, so together they give what is needed, or all there is.           *)

IsOrder(R, D) ==
    /\ \A i \in D : i \notin R[i]
    /\ \A i, j, k \in D : i \in R[j] /\ j \in R[k] => i \in R[k]
    /\ \A i, j \in D : i # j => i \in R[j] \/ j \in R[i]

Before(R, D, i) == {j \in D \ {i} : j \in R[i]}

Lesser(x, y) == IF x <= y THEN x ELSE y

(* What one that has r gives to a need of which `met` is met. *)
Gives(r, needed, met) == IF needed <= met THEN 0 ELSE Lesser(r, needed - met)

LEMMA LastOne ==
    ASSUME NEW D, NEW R, IsOrder(R, D), NEW E \in SUBSET D, IsFiniteSet(E), E # {}
    PROVE  \E m \in E : \A j \in E \ {m} : j \in R[m]
<1> DEFINE Ends(s) == \E m \in s : \A j \in s \ {m} : j \in R[m]
           P == {s \in SUBSET E : s # {} => Ends(s)}
<1>1. {} \in P
    OBVIOUS
<1>2. ASSUME NEW s \in SUBSET E, NEW x \in E \ s, s \in P PROVE s \cup {x} \in P
    <2>1. CASE s = {}
        BY <2>1
    <2>2. CASE s # {}
        <3>1. PICK m \in s : \A j \in s \ {m} : j \in R[m]
            BY <1>2, <2>2
        <3>2. m \in D /\ x \in D /\ m # x
            OBVIOUS
        <3>3. CASE x \in R[m]
            <4>1. \A j \in (s \cup {x}) \ {m} : j \in R[m]
                BY <3>1, <3>3
            <4>. QED
                BY <4>1
        <3>4. CASE m \in R[x]
            <4>1. ASSUME NEW j \in (s \cup {x}) \ {x} PROVE j \in R[x]
                <5>1. CASE j = m
                    BY <3>4, <5>1
                <5>2. CASE j # m
                    <6>1. j \in R[m] /\ j \in D
                        BY <3>1, <5>2
                    <6>. QED
                        BY <3>2, <3>4, <6>1 DEF IsOrder
                <5>. QED
                    BY <5>1, <5>2
            <4>. QED
                BY <4>1
        <3>. QED
            BY <3>2, <3>3, <3>4 DEF IsOrder
    <2>. QED
        BY <2>1, <2>2
<1>3. E \in P
    <2>. HIDE DEF P
    <2>. QED
        BY <1>1, <1>2, FiniteInduction
<1>. QED
    BY <1>3

LEMMA Waterfall ==
    ASSUME NEW D, IsFiniteSet(D), NEW R, IsOrder(R, D), NEW needed \in Nat,
           NEW rem, \A i \in D : rem[i] \in Nat,
           NEW plan, \A i \in D : plan[i] = Gives(rem[i], needed, SumFunctionOnSet(rem, Before(R, D, i)))
    PROVE  /\ \A i \in D : plan[i] \in 0 .. rem[i]
           /\ SumFunctionOnSet(plan, D) = Lesser(needed, SumFunctionOnSet(rem, D))
<1>1. ASSUME NEW i \in D
      PROVE  SumFunctionOnSet(rem, Before(R, D, i)) \in Nat
    <2>1. Before(R, D, i) \in SUBSET D
        BY DEF Before
    <2>2. IsFiniteSet(Before(R, D, i)) /\ \A j \in Before(R, D, i) : rem[j] \in Nat
        BY <2>1, FS_Subset
    <2>. QED
        BY <2>2, SumType
<1>2. ASSUME NEW i \in D PROVE plan[i] \in 0 .. rem[i] /\ plan[i] \in Nat /\ rem[i] \in Nat
    BY <1>1 DEF Gives, Lesser
<1> DEFINE Closed(E) == \A i \in E : \A j \in D : j \in R[i] => j \in E
           bad == {E \in SUBSET D : /\ Closed(E)
                                    /\ SumFunctionOnSet(plan, E)
                                           # Lesser(needed, SumFunctionOnSet(rem, E))}
<1>3. ASSUME bad # {} PROVE FALSE
    <2>1. bad \subseteq SUBSET D
        OBVIOUS
    <2>2. PICK E \in bad : \A F \in bad : Cardinality(E) <= Cardinality(F)
        <3>. HIDE DEF bad
        <3>. QED
            BY <1>3, <2>1, SmallestSubset
    <2>3. /\ E \in SUBSET D /\ Closed(E) /\ IsFiniteSet(E)
          /\ SumFunctionOnSet(plan, E) # Lesser(needed, SumFunctionOnSet(rem, E))
        BY <2>2, FS_Subset
    <2>4. E # {}
        <3>1. SumFunctionOnSet(plan, {}) = 0 /\ SumFunctionOnSet(rem, {}) = 0
            BY SumEmpty
        <3>. QED
            BY <2>3, <3>1 DEF Lesser
    <2>5. PICK m \in E : \A j \in E \ {m} : j \in R[m]
        BY <2>3, <2>4, LastOne
    <2> DEFINE F == E \ {m}
    <2>6. m \in D /\ m \notin R[m]
        BY <2>3 DEF IsOrder
    <2>7. Before(R, D, m) = F
        BY <2>3, <2>5, <2>6 DEF Before
    <2>8. Closed(F)
        <3> SUFFICES ASSUME NEW i \in F, NEW j \in D, j \in R[i] PROVE j \in F
            OBVIOUS
        <3>1. j \in E /\ i \in D
            BY <2>3
        <3>2. j # m
            BY <2>5, <2>6, <3>1 DEF IsOrder
        <3>. QED
            BY <3>1, <3>2
    <2>9. IsFiniteSet(F) /\ Cardinality(F) = Cardinality(E) - 1 /\ Cardinality(E) \in Nat
        BY <2>3, Removed
    <2>10. SumFunctionOnSet(plan, F) = Lesser(needed, SumFunctionOnSet(rem, F))
        <3>1. F \notin bad
            <4>. HIDE DEF bad, F
            <4>. QED
                BY <2>2, <2>9
        <3>2. F \in SUBSET D
            BY <2>3
        <3>. QED
            BY <2>8, <3>1, <3>2
    <2>11. /\ SumFunctionOnSet(plan, E) = plan[m] + SumFunctionOnSet(plan, F)
           /\ SumFunctionOnSet(rem, E) = rem[m] + SumFunctionOnSet(rem, F)
        <3>1. \A i \in E : plan[i] \in Int /\ rem[i] \in Int
            BY <1>2, <2>3
        <3>. QED
            BY <2>3, <3>1, SumTakes
    <2>12. plan[m] = Gives(rem[m], needed, SumFunctionOnSet(rem, F))
        BY <2>6, <2>7
    <2>13. SumFunctionOnSet(rem, F) \in Nat
        BY <1>1, <2>6, <2>7
    <2>14. rem[m] \in Nat
        BY <2>6
    <2> HIDE DEF F
    <2>. QED
        BY <2>3, <2>10, <2>11, <2>12, <2>13, <2>14 DEF Gives, Lesser
<1>4. D \notin bad
    BY <1>3
<1>5. SumFunctionOnSet(plan, D) = Lesser(needed, SumFunctionOnSet(rem, D))
    BY <1>4
<1>. QED
    BY <1>2, <1>5

-----------------------------------------------------------------------------
(* Each method's order is one. *)

Pricier(lots, k, m) ==
    /\ lots[k].cost_total # Unknown
    /\ lots[m].cost_total # Unknown => Exceeds(UnitCost(lots[k]), UnitCost(lots[m]))

Goes(m, lots, i, j) ==
    \/ m = "lifo" /\ OldestFirst(lots, j, i)
    \/ m \in {"fifo", "acb"} /\ OldestFirst(lots, i, j)
    \/ /\ m = "hifo"
       /\ Pricier(lots, i, j) \/ (~Pricier(lots, j, i) /\ OldestFirst(lots, i, j))

Order(m, lots) == [j \in DOMAIN lots |-> {i \in DOMAIN lots : Goes(m, lots, i, j)}]

LEMMA UnitCostIsAmount ==
    ASSUME NEW lot \in Lots, lot.cost_total # Unknown
    PROVE  UnitCost(lot) \in Amount
<1>1. lot.cost_total \in Amount /\ lot.original \in Nat \ {0}
    BY DEF Lots, Costs
<1>. QED
    BY <1>1, Exact, 1 \in Nat DEF UnitCost

LEMMA PricierOrders ==
    ASSUME NEW lots \in Seq(Lots), NEW x \in DOMAIN lots, NEW y \in DOMAIN lots,
           NEW z \in DOMAIN lots
    PROVE  /\ ~Pricier(lots, x, x)
           /\ Pricier(lots, x, y) => ~Pricier(lots, y, x)
           /\ Pricier(lots, x, y) /\ ~Pricier(lots, z, y) => Pricier(lots, x, z)
           /\ ~Pricier(lots, y, x) /\ Pricier(lots, y, z) => Pricier(lots, x, z)
<1> DEFINE priced(k) == lots[k].cost_total # Unknown
           u(k) == UnitCost(lots[k])
<1>1. \A k \in DOMAIN lots : priced(k) => u(k) \in Amount
    BY Indexes, UnitCostIsAmount
<1>2. priced(x) => ~Exceeds(u(x), u(x))
    BY <1>1, Dearer
<1>3. priced(x) /\ priced(y) => (Exceeds(u(x), u(y)) => ~Exceeds(u(y), u(x)))
    BY <1>1, Dearer
<1>4. priced(x) /\ priced(y) /\ priced(z) =>
          /\ Exceeds(u(x), u(y)) /\ ~Exceeds(u(z), u(y)) => Exceeds(u(x), u(z))
          /\ ~Exceeds(u(y), u(x)) /\ Exceeds(u(y), u(z)) => Exceeds(u(x), u(z))
    BY <1>1, Dearer
<1>. QED
    BY <1>2, <1>3, <1>4 DEF Pricier

LEMMA OldestOrders ==
    ASSUME NEW lots \in Seq(Lots), NEW x \in DOMAIN lots, NEW y \in DOMAIN lots,
           NEW z \in DOMAIN lots
    PROVE  /\ ~OldestFirst(lots, x, x)
           /\ OldestFirst(lots, x, y) /\ OldestFirst(lots, y, z) => OldestFirst(lots, x, z)
           /\ x # y => OldestFirst(lots, x, y) \/ OldestFirst(lots, y, x)
<1>1. x \in Nat /\ y \in Nat /\ z \in Nat
    BY Indexes
<1>2. lots[x].opened_at \in Nat /\ lots[y].opened_at \in Nat /\ lots[z].opened_at \in Nat
    <2>1. \A lot \in Lots : lot.opened_at \in Nat
        BY DEF Lots
    <2>2. lots[x] \in Lots /\ lots[y] \in Lots /\ lots[z] \in Lots
        BY Indexes
    <2>. QED
        BY <2>1, <2>2
<1>. QED
    BY <1>1, <1>2 DEF OldestFirst

LEMMA GoesFirst ==
    ASSUME method \in Methods, NEW lots, NEW i, NEW j
    PROVE  Precedes(lots, i, j) <=> Goes(method, lots, i, j)
BY DEF Precedes, Goes, DearestFirst, Pricier, Methods

LEMMA GoesOrders ==
    ASSUME NEW m \in Methods, NEW lots \in Seq(Lots), NEW i \in DOMAIN lots,
           NEW j \in DOMAIN lots, NEW k \in DOMAIN lots
    PROVE  /\ ~Goes(m, lots, i, i)
           /\ Goes(m, lots, i, j) /\ Goes(m, lots, j, k) => Goes(m, lots, i, k)
           /\ i # j => Goes(m, lots, i, j) \/ Goes(m, lots, j, i)
<1> DEFINE pricier(x, y) == Pricier(lots, x, y)
           oldest(x, y) == OldestFirst(lots, x, y)
<1>1. CASE m \in {"fifo", "acb"}
    <2>1. \A x, y \in DOMAIN lots : Goes(m, lots, x, y) <=> oldest(x, y)
        BY <1>1 DEF Goes
    <2>. QED
        BY <2>1, OldestOrders
<1>2. CASE m = "lifo"
    <2>1. \A x, y \in DOMAIN lots : Goes(m, lots, x, y) <=> oldest(y, x)
        BY <1>2 DEF Goes
    <2>. QED
        BY <2>1, OldestOrders
<1>3. CASE m = "hifo"
    <2>1. \A x, y \in DOMAIN lots :
              Goes(m, lots, x, y) <=> pricier(x, y) \/ (~pricier(y, x) /\ oldest(x, y))
        BY <1>3 DEF Goes
    <2>2. ~Goes(m, lots, i, i) /\ (i # j => Goes(m, lots, i, j) \/ Goes(m, lots, j, i))
        BY <2>1, OldestOrders, PricierOrders
    <2>3. ASSUME Goes(m, lots, i, j), Goes(m, lots, j, k) PROVE Goes(m, lots, i, k)
        <3>1. CASE pricier(i, j)
            <4>1. ~pricier(k, j)
                BY <2>1, <2>3, PricierOrders
            <4>2. pricier(i, k)
                BY <3>1, <4>1, PricierOrders
            <4>. QED
                BY <2>1, <4>2
        <3>2. CASE ~pricier(j, i) /\ oldest(i, j)
            <4>1. CASE pricier(j, k)
                <5>1. pricier(i, k)
                    BY <3>2, <4>1, PricierOrders
                <5>. QED
                    BY <2>1, <5>1
            <4>2. CASE ~pricier(k, j) /\ oldest(j, k)
                <5>1. oldest(i, k)
                    BY <3>2, <4>2, OldestOrders
                <5>2. ~pricier(k, i)
                    BY <3>2, <4>2, PricierOrders
                <5>. QED
                    BY <2>1, <5>1, <5>2
            <4>. QED
                BY <2>1, <2>3, <4>1, <4>2
        <3>. QED
            BY <2>1, <2>3, <3>1, <3>2
    <2>. QED
        BY <2>2, <2>3
<1>. QED
    BY <1>1, <1>2, <1>3 DEF Methods

LEMMA Orders ==
    ASSUME NEW m \in Methods, NEW lots \in Seq(Lots)
    PROVE  IsOrder(Order(m, lots), DOMAIN lots)
<1>1. \A i, j \in DOMAIN lots : i \in Order(m, lots)[j] <=> Goes(m, lots, i, j)
    BY DEF Order
<1>2. \A i, j, k \in DOMAIN lots :
          /\ ~Goes(m, lots, i, i)
          /\ Goes(m, lots, i, j) /\ Goes(m, lots, j, k) => Goes(m, lots, i, k)
          /\ i # j => Goes(m, lots, i, j) \/ Goes(m, lots, j, i)
    BY GoesOrders
<1>. QED
    BY <1>1, <1>2 DEF IsOrder

(* What the plan of a disposal is, under any method. *)
LEMMA PlanGives ==
    ASSUME NEW lots \in Seq(Lots), method \in Methods, NEW needed \in Nat
    PROVE  /\ DOMAIN Plan(lots, needed) = DOMAIN lots
           /\ \A i \in DOMAIN lots : Plan(lots, needed)[i] \in 0 .. lots[i].remaining
           /\ SumFunction(Plan(lots, needed)) = Lesser(needed, Weighs(AllUnits, lots))
           /\ \A i \in DOMAIN lots :
                  LET met == Units(lots, Before(Order(method, lots), DOMAIN lots, i))
                  IN  met \in Nat /\ Plan(lots, needed)[i] = Gives(lots[i].remaining, needed, met)
<1> DEFINE D == DOMAIN lots
           rem == [i \in D |-> lots[i].remaining]
           plan == Plan(lots, needed)
           R == Order(method, lots)
<1>1. IsFiniteSet(D) /\ \A i \in D : lots[i] \in Lots /\ rem[i] \in Nat
    BY Indexes, WeightsAre
<1>2. IsOrder(R, D)
    BY Orders
<1>3. ASSUME NEW i \in D
      PROVE  /\ SumFunctionOnSet(rem, Before(R, D, i)) \in Nat
             /\ plan[i] = Gives(rem[i], needed, SumFunctionOnSet(rem, Before(R, D, i)))
    <2> DEFINE before == Before(R, D, i)
               met == SumFunctionOnSet(rem, before)
               unmet == needed - met
    <2>1. before = {j \in D \ {i} : Precedes(lots, j, i)}
        <3>1. \A j \in D : Precedes(lots, j, i) <=> Goes(method, lots, j, i)
            BY GoesFirst
        <3>2. \A j \in D : j \in R[i] <=> Goes(method, lots, j, i)
            BY DEF Order
        <3>. QED
            BY <3>1, <3>2 DEF Before
    <2>2. met \in Nat
        <3>1. before \in SUBSET D
            BY DEF Before
        <3>2. IsFiniteSet(before) /\ \A j \in before : rem[j] \in Nat
            BY <1>1, <3>1, FS_Subset
        <3>. HIDE DEF rem, before
        <3>. QED
            BY <3>2, SumType
    <2>3. plan[i] = Min({rem[i], Max({unmet, 0})})
        BY <2>1 DEF Plan, Units
    <2>4. Max({unmet, 0}) = IF unmet >= 0 THEN unmet ELSE 0
        BY <2>2, MaxOfTwo
    <2>5. Max({unmet, 0}) \in Int
        BY <2>2, <2>4
    <2>6. plan[i] = IF rem[i] <= Max({unmet, 0}) THEN rem[i] ELSE Max({unmet, 0})
        BY <1>1, <2>3, <2>5, MinOfTwo
    <2>7. rem[i] \in Nat
        BY <1>1
    <2> HIDE DEF met, rem, plan
    <2>8. plan[i] = Gives(rem[i], needed, met)
        BY <2>2, <2>4, <2>6, <2>7 DEF Gives, Lesser
    <2>. QED
        BY <2>2, <2>8 DEF met
<1>4. DOMAIN plan = D
    BY DEF Plan
<1>5. Weighs(AllUnits, lots) = SumFunctionOnSet(rem, D)
    <2>1. [i \in D |-> AllUnits[lots[i]]] = rem
        BY <1>1, WeightsAre
    <2>. QED
        BY <2>1 DEF Weighs
<1>6. \A i \in D : rem[i] = lots[i].remaining
    OBVIOUS
<1>7. \A i \in D : Units(lots, Before(R, D, i)) = SumFunctionOnSet(rem, Before(R, D, i))
    BY DEF Units
<1> HIDE DEF plan, rem, R, D
<1>8. /\ \A i \in D : plan[i] \in 0 .. rem[i]
      /\ SumFunctionOnSet(plan, D) = Lesser(needed, SumFunctionOnSet(rem, D))
    BY <1>1, <1>2, <1>3, Waterfall
<1>9. SumFunction(plan) = SumFunctionOnSet(plan, D)
    BY <1>4 DEF SumFunction
<1>. QED
    BY <1>3, <1>4, <1>5, <1>6, <1>7, <1>8, <1>9 DEF plan, R, D

(* While a lot keeps units, those after it give none. *)
LEMMA LaterWait ==
    ASSUME NEW lots \in Seq(Lots), method \in Methods, NEW needed \in Nat,
           NEW i \in DOMAIN lots, NEW j \in DOMAIN lots, i # j, Precedes(lots, i, j),
           Plan(lots, needed)[i] < lots[i].remaining
    PROVE  Plan(lots, needed)[j] = 0
<1> DEFINE D == DOMAIN lots
           R == Order(method, lots)
           rem == [k \in D |-> lots[k].remaining]
           sum(S) == SumFunctionOnSet(rem, S)
           near == Before(R, D, i)
           far == Before(R, D, j)
           plan == Plan(lots, needed)
<1>1. IsFiniteSet(D) /\ \A k \in D : lots[k].remaining \in Nat /\ rem[k] = lots[k].remaining
    BY Indexes, WeightsAre
<1>2. /\ sum(near) \in Nat /\ plan[i] = Gives(rem[i], needed, sum(near))
      /\ sum(far) \in Nat /\ plan[j] = Gives(rem[j], needed, sum(far))
    <2>1. \A k \in D : /\ Units(lots, Before(R, D, k)) \in Nat
                       /\ plan[k] = Gives(lots[k].remaining, needed, Units(lots, Before(R, D, k)))
        BY PlanGives
    <2>2. \A S : Units(lots, S) = sum(S)
        BY DEF Units
    <2>. HIDE DEF plan, R, sum
    <2>3. /\ Units(lots, near) \in Nat /\ plan[i] = Gives(lots[i].remaining, needed, Units(lots, near))
          /\ Units(lots, far) \in Nat /\ plan[j] = Gives(lots[j].remaining, needed, Units(lots, far))
        BY <2>1
    <2>4. Units(lots, near) = sum(near) /\ Units(lots, far) = sum(far)
        BY <2>2
    <2>5. rem[i] = lots[i].remaining /\ rem[j] = lots[j].remaining
        BY <1>1
    <2>. QED
        BY <2>3, <2>4, <2>5
<1>3. IsOrder(R, D)
    BY Orders
<1>4. i \in R[j]
    <2>1. Goes(method, lots, i, j)
        BY GoesFirst
    <2>. QED
        BY <2>1 DEF Order
<1> HIDE DEF R, rem, plan, D
<1>5. i \in D /\ j \in D /\ rem[i] \in Nat /\ rem[i] = lots[i].remaining
    BY <1>1 DEF D
<1>6. near \cup {i} \in SUBSET far /\ i \notin near
    <2>1. \A k \in near : k \in R[j] /\ k # j
        BY <1>3, <1>4, <1>5 DEF Before, IsOrder
    <2>. QED
        BY <1>4, <1>5, <2>1 DEF Before
<1>7. near \in SUBSET D /\ far \in SUBSET D
    BY DEF Before
<1>8. /\ IsFiniteSet(near) /\ \A k \in near : rem[k] \in Nat
      /\ IsFiniteSet(far) /\ \A k \in far : rem[k] \in Nat
    BY <1>1, <1>7, FS_Subset
<1> HIDE DEF near, far
<1>9. sum(near \cup {i}) = rem[i] + sum(near)
    BY <1>5, <1>6, <1>8, SumAdds
<1>10. sum(near \cup {i}) <= sum(far)
    BY <1>6, <1>8, SumWithin
<1>11. plan[i] < rem[i]
    BY <1>5 DEF plan
<1> HIDE DEF sum
<1>12. needed <= sum(near) + rem[i]
    BY <1>2, <1>5, <1>11 DEF Gives, Lesser
<1>13. plan[j] = 0
    BY <1>2, <1>5, <1>9, <1>10, <1>12 DEF Gives
<1>. QED
    BY <1>13 DEF plan

-----------------------------------------------------------------------------
(* A disposal draws on the open lots. *)

LEMMA LotsType ==
    ASSUME NEW lot \in Lots
    PROVE  /\ lot.remaining \in Nat /\ lot.original \in Nat \ {0} /\ lot.opened_at \in Nat
           /\ lot.cost_total \in Costs /\ lot.cost_remaining \in Costs /\ lot.id \in Txs \X Nat
BY DEF Lots

LEMMA DrawnLot ==
    ASSUME NEW lot \in Lots, NEW take \in 0 .. lot.remaining,
           lot.cost_total = Unknown <=> lot.cost_remaining = Unknown
    PROVE  LET left == Drawn(lot, take)
           IN  /\ left \in Lots /\ left.remaining = lot.remaining - take
               /\ left.id = lot.id /\ left.opened_at = lot.opened_at
               /\ left.original = lot.original /\ left.cost_total = lot.cost_total
               /\ left.cost_total = Unknown <=> left.cost_remaining = Unknown
<1> DEFINE rest == IF lot.cost_remaining = Unknown THEN Unknown
                   ELSE Minus(lot.cost_remaining, Portion(lot, take))
           units == lot.remaining - take
<1>1. /\ take \in Nat /\ units \in Nat
      /\ lot.original \in Nat \ {0} /\ lot.cost_total \in Costs /\ lot.cost_remaining \in Costs
    BY LotsType
<1>2. rest \in Costs /\ (lot.cost_total = Unknown <=> rest = Unknown)
    <2>1. CASE lot.cost_remaining = Unknown
        BY <2>1 DEF Costs
    <2>2. CASE lot.cost_remaining # Unknown
        <3>1. lot.cost_remaining \in Amount /\ lot.cost_total \in Amount /\ lot.cost_total # Unknown
            BY <1>1, <2>2 DEF Costs
        <3>2. Portion(lot, take) \in Amount
            BY <1>1, <3>1, Exact DEF Portion
        <3>3. Minus(lot.cost_remaining, Portion(lot, take)) \in Amount
            BY <3>1, <3>2, Exact, 1 \in Nat \ {0}
        <3>. QED
            BY <2>2, <3>1, <3>3, AmountParts DEF Costs
    <2>. QED
        BY <2>1, <2>2
<1>3. Drawn(lot, take) = [lot EXCEPT !.remaining = units, !.cost_remaining = rest]
    BY DEF Drawn
<1> HIDE DEF rest, units
<1>4. [lot EXCEPT !.remaining = units, !.cost_remaining = rest] \in Lots
    <2>1. \A r \in Nat, c \in Costs : [lot EXCEPT !.remaining = r, !.cost_remaining = c] \in Lots
        BY DEF Lots
    <2>. QED
        BY <1>1, <1>2, <2>1, Zenon
<1>5. LET left == [lot EXCEPT !.remaining = units, !.cost_remaining = rest]
      IN  /\ left.remaining = units /\ left.cost_remaining = rest
          /\ left.id = lot.id /\ left.opened_at = lot.opened_at
          /\ left.original = lot.original /\ left.cost_total = lot.cost_total
    BY DEF Lots
<1>6. Drawn(lot, take) \in Lots
    BY <1>3, <1>4, Zenon
<1>. QED
    BY <1>2, <1>3, <1>5, <1>6 DEF units

Left(ledger, needed) ==
    LET lots == OpenLots(ledger)
    IN  [i \in DOMAIN lots |-> Drawn(lots[i], Plan(lots, needed)[i])]

(* Each open lot, drawn on as planned; `e` tells where it stood.           *)
IsDrained(lots, plan, left, all, e) ==
    /\ lots \in Seq(Lots) /\ left \in Seq(Lots) /\ Len(left) = Len(lots)
    /\ DOMAIN left = DOMAIN lots /\ DOMAIN lots = 1 .. Len(lots)
    /\ e \in [DOMAIN lots -> DOMAIN all]
    /\ \A i, j \in DOMAIN lots : i < j => e[i] < e[j]
    /\ \A i \in DOMAIN lots :
        /\ lots[i] \in Lots /\ left[i] \in Lots /\ lots[i] = all[e[i]]
        /\ plan[i] \in 0 .. lots[i].remaining
        /\ left[i].remaining = lots[i].remaining - plan[i]
        /\ left[i].id = lots[i].id /\ left[i].opened_at = lots[i].opened_at
        /\ left[i].original = lots[i].original /\ left[i].cost_total = lots[i].cost_total
        /\ left[i].cost_total = Unknown <=> left[i].cost_remaining = Unknown

LEMMA Drained ==
    ASSUME NEW ledger \in Ledgers, method \in Methods, NEW needed \in Nat,
           \A i \in DOMAIN ledger.lots :
               ledger.lots[i].cost_total = Unknown <=> ledger.lots[i].cost_remaining = Unknown
    PROVE  \E e : IsDrained(OpenLots(ledger), Plan(OpenLots(ledger), needed),
                            Left(ledger, needed), ledger.lots, e)
<1> DEFINE all == ledger.lots
           lots == OpenLots(ledger)
           plan == Plan(lots, needed)
           left == Left(ledger, needed)
<1>1. all \in Seq(Lots) /\ lots \in Seq(Lots) /\ Picks(lots, all, Len(all))
    BY OpenLotsAre DEF Ledgers
<1>2. /\ DOMAIN lots = 1 .. Len(lots) /\ Len(lots) \in Nat /\ DOMAIN all = 1 .. Len(all)
      /\ \A i \in DOMAIN lots : lots[i] \in Lots
    BY <1>1, Indexes
<1>3. \A i \in DOMAIN lots : plan[i] \in 0 .. lots[i].remaining
    BY <1>1, PlanGives
<1>4. left = [i \in DOMAIN lots |-> Drawn(lots[i], plan[i])]
    BY DEF Left
<1> HIDE DEF all, lots, plan, left
<1>5. PICK e \in [1 .. Len(lots) -> 1 .. Len(all)] :
          /\ \A k \in 1 .. Len(lots) : lots[k] = all[e[k]] /\ lots[k].remaining > 0
          /\ \A k, l \in 1 .. Len(lots) : k < l => e[k] < e[l]
    BY <1>1 DEF Picks
<1>6. ASSUME NEW i \in DOMAIN lots
      PROVE  LET lot == Drawn(lots[i], plan[i])
             IN  /\ lot \in Lots /\ lot.remaining = lots[i].remaining - plan[i]
                 /\ lot.id = lots[i].id /\ lot.opened_at = lots[i].opened_at
                 /\ lot.original = lots[i].original /\ lot.cost_total = lots[i].cost_total
                 /\ lot.cost_total = Unknown <=> lot.cost_remaining = Unknown
    <2>1. lots[i] \in Lots /\ plan[i] \in 0 .. lots[i].remaining
        BY <1>2, <1>3
    <2>2. e[i] \in DOMAIN all /\ lots[i] = all[e[i]]
        BY <1>2, <1>5
    <2>3. lots[i].cost_total = Unknown <=> lots[i].cost_remaining = Unknown
        BY <2>2 DEF all
    <2>. QED
        BY <2>1, <2>3, DrawnLot
<1>7. left \in Seq(Lots) /\ Len(left) = Len(lots) /\ DOMAIN left = DOMAIN lots
    <2>1. \A i \in DOMAIN lots : Drawn(lots[i], plan[i]) \in Lots
        BY <1>6
    <2>2. left \in [1 .. Len(lots) -> Lots]
        BY <1>2, <1>4, <2>1
    <2>. QED
        BY <1>2, <2>2
<1>8. \A i \in DOMAIN lots : left[i] = Drawn(lots[i], plan[i])
    BY <1>4
<1>9. IsDrained(lots, plan, left, all, e)
    BY <1>1, <1>2, <1>3, <1>5, <1>6, <1>7, <1>8 DEF IsDrained
<1>. QED
    BY <1>9 DEF all, lots, plan, left

(* Lots that are kept stay kept, and apart.                                *)
LEMMA DrainedKept ==
    ASSUME NEW ledger \in Ledgers, method \in Methods, NEW needed \in Nat, NEW now \in Nat,
           NEW given, NEW later \in Nat, now <= later,
           \A i \in DOMAIN ledger.lots : LotKept(ledger.lots[i], now),
           Ordinals(ledger, given)
    PROVE  LET left == Left(ledger, needed)
           IN  /\ left \in Seq(Lots)
               /\ \A i \in DOMAIN left : LotKept(left[i], later)
               /\ \A i \in DOMAIN left : left[i].id[2] < ledger.seq[left[i].id[1]]
               /\ \A i, j \in DOMAIN left : left[i].id = left[j].id => i = j
<1> DEFINE all == ledger.lots
           lots == OpenLots(ledger)
           plan == Plan(lots, needed)
           left == Left(ledger, needed)
<1>1. PICK e : IsDrained(lots, plan, left, all, e)
    <2>1. \A i \in DOMAIN ledger.lots :
              ledger.lots[i].cost_total = Unknown <=> ledger.lots[i].cost_remaining = Unknown
        BY DEF LotKept
    <2>. QED
        BY <2>1, Drained
<1>2. /\ \A i \in DOMAIN all : LotKept(all[i], now) /\ all[i].id[2] < ledger.seq[all[i].id[1]]
      /\ \A i, j \in DOMAIN all : all[i].id = all[j].id => i = j
    BY DEF Ordinals
<1> HIDE DEF all, lots, plan, left
<1>3. ASSUME NEW i \in DOMAIN left
      PROVE  /\ e[i] \in DOMAIN all /\ left[i].id = all[e[i]].id
             /\ LotKept(left[i], later)
             /\ left[i].id[2] < ledger.seq[left[i].id[1]]
    <2>1. i \in DOMAIN lots /\ e[i] \in DOMAIN all /\ lots[i] = all[e[i]] /\ lots[i] \in Lots
        BY <1>1 DEF IsDrained
    <2>2. /\ plan[i] \in 0 .. lots[i].remaining
          /\ left[i].remaining = lots[i].remaining - plan[i]
          /\ left[i].id = lots[i].id /\ left[i].opened_at = lots[i].opened_at
          /\ left[i].original = lots[i].original
          /\ left[i].cost_total = Unknown <=> left[i].cost_remaining = Unknown
        BY <1>1, <2>1 DEF IsDrained
    <2>3. LotKept(lots[i], now)
        BY <1>2, <2>1
    <2>4. /\ lots[i].remaining \in Nat /\ lots[i].original \in Nat /\ lots[i].opened_at \in Nat
        BY <2>1, LotsType
    <2>5. LotKept(left[i], later)
        BY <2>2, <2>3, <2>4 DEF LotKept
    <2>. QED
        BY <1>2, <2>1, <2>2, <2>5
<1>4. ASSUME NEW i \in DOMAIN left, NEW j \in DOMAIN left, left[i].id = left[j].id, i # j
      PROVE  FALSE
    <2>1. i \in Nat /\ j \in Nat /\ i \in DOMAIN lots /\ j \in DOMAIN lots
        BY <1>1 DEF IsDrained
    <2>2. e[i] = e[j]
        BY <1>2, <1>3, <1>4
    <2>3. e[i] \in Nat /\ e[j] \in Nat
        <3>1. DOMAIN all \subseteq Nat
            BY Indexes DEF Ledgers, all
        <3>. QED
            BY <1>3, <3>1
    <2>4. (i < j => e[i] < e[j]) /\ (j < i => e[j] < e[i])
        BY <1>1, <2>1 DEF IsDrained
    <2>. QED
        BY <1>4, <2>1, <2>2, <2>3, <2>4
<1>5. left \in Seq(Lots)
    BY <1>1 DEF IsDrained
<1>. QED
    BY <1>3, <1>4, <1>5 DEF left

LEMMA DrainedOldest ==
    ASSUME NEW ledger \in Ledgers, method = "fifo", NEW needed \in Nat,
           \A i \in DOMAIN ledger.lots :
               ledger.lots[i].cost_total = Unknown <=> ledger.lots[i].cost_remaining = Unknown,
           OldestUsed(ledger.lots)
    PROVE  OldestUsed(Left(ledger, needed))
<1> DEFINE all == ledger.lots
           lots == OpenLots(ledger)
           plan == Plan(lots, needed)
           left == Left(ledger, needed)
<1>1. method \in Methods
    BY DEF Methods
<1>2. PICK e : IsDrained(lots, plan, left, all, e)
    BY <1>1, Drained
<1>3. OldestUsed(all)
    OBVIOUS
<1>4. \A i, j \in DOMAIN lots :
          i # j /\ Precedes(lots, i, j) /\ plan[i] < lots[i].remaining => plan[j] = 0
    BY <1>1, LaterWait, OpenLotsAre
<1> HIDE DEF all, lots, plan, left
<1>5. ASSUME NEW i \in DOMAIN left, NEW j \in DOMAIN left,
             left[i].opened_at < left[j].opened_at, left[i].remaining > 0
      PROVE  left[j].remaining = left[j].original
    <2>1. i \in DOMAIN lots /\ j \in DOMAIN lots
        BY <1>2 DEF IsDrained
    <2>2. /\ lots[i] \in Lots /\ lots[i] = all[e[i]] /\ e[i] \in DOMAIN all
          /\ plan[i] \in 0 .. lots[i].remaining
          /\ left[i].remaining = lots[i].remaining - plan[i]
          /\ left[i].opened_at = lots[i].opened_at
        BY <1>2, <2>1 DEF IsDrained
    <2>3. /\ lots[j] \in Lots /\ lots[j] = all[e[j]] /\ e[j] \in DOMAIN all
          /\ plan[j] \in 0 .. lots[j].remaining
          /\ left[j].remaining = lots[j].remaining - plan[j]
          /\ left[j].opened_at = lots[j].opened_at /\ left[j].original = lots[j].original
        BY <1>2, <2>1 DEF IsDrained
    <2>4. /\ lots[i].remaining \in Nat /\ lots[i].opened_at \in Nat
          /\ lots[j].remaining \in Nat /\ lots[j].opened_at \in Nat
        BY <2>2, <2>3, LotsType
    <2>5. lots[i].opened_at < lots[j].opened_at /\ lots[i].remaining > 0
          /\ plan[i] < lots[i].remaining
        BY <1>5, <2>2, <2>3, <2>4
    <2>6. lots[j].remaining = lots[j].original
        BY <1>3, <2>2, <2>3, <2>5 DEF OldestUsed
    <2>7. Precedes(lots, i, j) /\ i # j
        BY <2>4, <2>5 DEF Precedes, OldestFirst
    <2>8. plan[j] = 0
        BY <1>4, <2>1, <2>5, <2>7
    <2>. QED
        BY <2>3, <2>4, <2>6, <2>8
<1>6. OldestUsed(left)
    BY <1>5 DEF OldestUsed
<1>. QED
    BY <1>6 DEF left

(* What a plan takes counts the same by units as by lots; and, when its    *)
(* basis is known, all of it comes from lots bought at a known cost.       *)
LEMMA DrainedWeighs ==
    ASSUME NEW ledger \in Ledgers, method \in Methods, NEW needed \in Nat,
           \A i \in DOMAIN ledger.lots :
               ledger.lots[i].cost_total = Unknown <=> ledger.lots[i].cost_remaining = Unknown
    PROVE  LET all == ledger.lots
               lots == OpenLots(ledger)
               left == Left(ledger, needed)
               sold == Lesser(needed, Weighs(AllUnits, all))
           IN  /\ Weighs(AllUnits, left) = Weighs(AllUnits, all) - sold
               /\ Weighs(PricedUnits, left) <= Weighs(PricedUnits, all)
               /\ BasisOfLots(lots, Plan(lots, needed)) # Unknown =>
                      Weighs(PricedUnits, left) = Weighs(PricedUnits, all) - sold
<1> DEFINE all == ledger.lots
           lots == OpenLots(ledger)
           plan == Plan(lots, needed)
           left == Left(ledger, needed)
           sold == Lesser(needed, Weighs(AllUnits, all))
           priced == [i \in DOMAIN lots |-> IF lots[i].cost_total = Unknown THEN 0 ELSE plan[i]]
<1>1. PICK e : IsDrained(lots, plan, left, all, e)
    BY Drained
<1>2. Weighs(AllUnits, lots) = Weighs(AllUnits, all)
      /\ Weighs(PricedUnits, lots) = Weighs(PricedUnits, all)
    BY OpenLotsAre, WeightsAre
<1>3. SumFunctionOnSet(plan, DOMAIN lots) = sold
    <2>1. lots \in Seq(Lots)
        BY <1>1 DEF IsDrained
    <2>2. /\ SumFunction(plan) = Lesser(needed, Weighs(AllUnits, lots))
          /\ DOMAIN plan = DOMAIN lots
        BY <2>1, PlanGives
    <2>. QED
        BY <1>2, <2>2 DEF SumFunction
<1>4. BasisOfLots(lots, plan) # Unknown =>
          \A i \in DOMAIN lots : plan[i] > 0 => lots[i].cost_total # Unknown
    BY DEF BasisOfLots
<1> HIDE DEF all, lots, plan, left, sold
<1>5. /\ lots \in Seq(Lots) /\ left \in Seq(Lots) /\ Len(left) = Len(lots)
      /\ IsFiniteSet(DOMAIN lots)
    BY <1>1, Indexes DEF IsDrained
<1>6. ASSUME NEW i \in DOMAIN lots
      PROVE  /\ plan[i] \in Nat /\ AllUnits[lots[i]] = AllUnits[left[i]] + plan[i]
             /\ priced[i] \in Nat /\ PricedUnits[lots[i]] = PricedUnits[left[i]] + priced[i]
    <2>1. /\ lots[i] \in Lots /\ left[i] \in Lots
          /\ plan[i] \in 0 .. lots[i].remaining
          /\ left[i].remaining = lots[i].remaining - plan[i]
          /\ left[i].cost_total = lots[i].cost_total
        BY <1>1 DEF IsDrained
    <2>2. /\ lots[i].remaining \in Nat /\ AllUnits[lots[i]] = lots[i].remaining
          /\ AllUnits[left[i]] = left[i].remaining
          /\ PricedUnits[lots[i]]
                 = IF lots[i].cost_total = Unknown THEN 0 ELSE lots[i].remaining
          /\ PricedUnits[left[i]]
                 = IF left[i].cost_total = Unknown THEN 0 ELSE left[i].remaining
        BY <2>1, WeightsAre
    <2>3. priced[i] = IF lots[i].cost_total = Unknown THEN 0 ELSE plan[i]
        OBVIOUS
    <2>. HIDE DEF priced
    <2>. QED
        BY <2>1, <2>2, <2>3
<1>7. /\ \A i \in DOMAIN lots : plan[i] \in Nat /\ priced[i] \in Nat
      /\ BasisOfLots(lots, plan) # Unknown => \A i \in DOMAIN lots : priced[i] = plan[i]
    BY <1>4, <1>6
<1> HIDE DEF priced
<1>8. /\ AllUnits \in [Lots -> Nat] /\ PricedUnits \in [Lots -> Nat]
      /\ Weighs(AllUnits, left) \in Nat /\ Weighs(PricedUnits, left) \in Nat
    BY <1>5, WeightsAre, WeighType
<1>9. Weighs(AllUnits, lots) = Weighs(AllUnits, left) + SumFunctionOnSet(plan, DOMAIN lots)
    <2>1. IsTaken(plan, AllUnits, lots, left)
        BY <1>6 DEF IsTaken
    <2>. QED
        BY <1>5, <1>8, <2>1, WeighDrained
<1>10. Weighs(PricedUnits, lots) = Weighs(PricedUnits, left) + SumFunctionOnSet(priced, DOMAIN lots)
    <2>1. IsTaken(priced, PricedUnits, lots, left)
        BY <1>6 DEF IsTaken
    <2>. QED
        BY <1>5, <1>8, <2>1, WeighDrained, Zenon
<1>11. /\ SumFunctionOnSet(plan, DOMAIN lots) \in Nat
       /\ SumFunctionOnSet(priced, DOMAIN lots) \in Nat
    BY <1>5, <1>7, SumType
<1>12. BasisOfLots(lots, plan) # Unknown =>
           SumFunctionOnSet(priced, DOMAIN lots) = SumFunctionOnSet(plan, DOMAIN lots)
    <2>1. \A i \in DOMAIN lots : plan[i] \in Int
        BY <1>7
    <2>. QED
        BY <1>5, <1>7, <2>1, SumSame
<1>13. /\ Weighs(AllUnits, left) = Weighs(AllUnits, all) - sold
       /\ Weighs(PricedUnits, left) <= Weighs(PricedUnits, all)
       /\ BasisOfLots(lots, plan) # Unknown =>
              Weighs(PricedUnits, left) = Weighs(PricedUnits, all) - sold
    BY <1>2, <1>3, <1>8, <1>9, <1>10, <1>11, <1>12
<1>. QED
    BY <1>13 DEF all, lots, plan, left, sold

-----------------------------------------------------------------------------
(* An acquisition opens a lot. *)

LEMMA EventParts ==
    ASSUME NEW e \in Events
    PROVE  /\ e.asset \in Assets /\ e.at \in Times /\ e.at \in Nat /\ e.quantity \in Nat \ {0}
           /\ e.decimals \in Scales /\ e.tx \in Txs
           /\ e.money = Unpriced => e.money.amount = Unknown
           /\ e.money # Unpriced => /\ e.money.amount \in Amount /\ e.money.amount # Unknown
                                    /\ e.money.currency \in Currencies
           /\ e.money.amount \in Costs
<1>1. /\ e.asset \in Assets /\ e.at \in Times /\ e.quantity \in 1..MaxQuantity
      /\ e.decimals \in Scales /\ e.tx \in Txs /\ e.money \in Moneys
    BY DEF Events
<1>2. e.at \in Nat /\ e.quantity \in Nat \ {0}
    <2>1. e.at \in Nat
        BY <1>1, AmountConstants
    <2>2. \A q \in 1..MaxQuantity : q \in Nat \ {0}
        BY Bounds
    <2>. QED
        BY <1>1, <2>1, <2>2
<1>3. CASE e.money = Unpriced
    BY <1>1, <1>2, <1>3 DEF Unpriced, Costs
<1>4. CASE e.money # Unpriced
    <2>1. e.money \in [amount : {Q(n) : n \in Amounts}, currency : Currencies]
        BY <1>1, <1>4 DEF Moneys
    <2>2. PICK n \in Amounts : e.money.amount = Q(n)
        BY <2>1
    <2>3. n \in Int /\ e.money.currency \in Currencies
        BY <2>1, AmountConstants
    <2>4. e.money.amount \in Amount
        BY <2>2, <2>3, ZeroIsAmount
    <2>. QED
        BY <1>1, <1>2, <1>4, <2>3, <2>4, AmountParts DEF Costs
<1>. QED
    BY <1>3, <1>4

LEMMA OpenedKept ==
    ASSUME NEW ledger \in Ledgers, NEW e \in Events, NEW now \in Nat, now <= e.at,
           NEW given \in Nat,
           \A i \in DOMAIN ledger.lots : LotKept(ledger.lots[i], now),
           Ordinals(ledger, given)
    PROVE  LET new == Opened(ledger, e)
           IN  /\ new \in Ledgers
               /\ \A i \in DOMAIN new.lots : LotKept(new.lots[i], e.at)
               /\ Ordinals(new, given + 1)
               /\ OldestUsed(ledger.lots) => OldestUsed(new.lots)
               /\ Weighs(AllUnits, new.lots) = Weighs(AllUnits, ledger.lots) + e.quantity
               /\ Weighs(PricedUnits, new.lots)
                      = Weighs(PricedUnits, ledger.lots)
                            + (IF e.money = Unpriced THEN 0 ELSE e.quantity)
<1> DEFINE new == Opened(ledger, e)
           all == ledger.lots
           n == Len(all)
           seq == ledger.seq
           lot == [id |-> <<e.tx, seq[e.tx]>>, opened_at |-> e.at,
                   original |-> e.quantity, remaining |-> e.quantity,
                   cost_total |-> e.money.amount, cost_remaining |-> e.money.amount]
           more == Append(all, lot)
           next == [seq EXCEPT ![e.tx] = seq[e.tx] + 1]
<1>1. /\ all \in Seq(Lots) /\ seq \in [Txs -> Nat] /\ n \in Nat /\ DOMAIN all = 1 .. n
      /\ \A i \in 1 .. n : all[i] \in Lots
    <2>1. all \in Seq(Lots) /\ seq \in [Txs -> Nat]
        BY DEF Ledgers
    <2>. QED
        BY <2>1, Indexes
<1>2. /\ e.tx \in Txs /\ e.at \in Nat /\ e.quantity \in Nat \ {0} /\ e.decimals \in Scales
      /\ e.money.amount \in Costs /\ seq[e.tx] \in Nat
      /\ (e.money = Unpriced <=> e.money.amount = Unknown)
    BY <1>1, EventParts
<1>3. /\ lot.id = <<e.tx, seq[e.tx]>> /\ lot.id[1] = e.tx /\ lot.id[2] = seq[e.tx]
      /\ lot.opened_at = e.at /\ lot.original = e.quantity /\ lot.remaining = e.quantity
      /\ lot.cost_total = e.money.amount /\ lot.cost_remaining = e.money.amount
    OBVIOUS
<1>4. lot \in Lots
    BY <1>2 DEF Lots
<1>5. new = [lots |-> more, decimals |-> e.decimals, seq |-> next]
    BY DEF Opened, Ordinal
<1>6. /\ more \in Seq(Lots) /\ DOMAIN more = 1 .. n + 1 /\ more[n + 1] = lot
      /\ \A i \in 1 .. n : more[i] = all[i]
    <2>. HIDE DEF lot
    <2>. QED
        BY <1>1, <1>4
<1>7. /\ next \in [Txs -> Nat] /\ next[e.tx] = seq[e.tx] + 1
      /\ \A t \in Txs : t # e.tx => next[t] = seq[t]
    BY <1>1, <1>2
<1>8. /\ \A i \in 1 .. n : LotKept(all[i], now) /\ all[i].id[2] < seq[all[i].id[1]]
      /\ \A i, j \in 1 .. n : all[i].id = all[j].id => i = j
      /\ \A t \in Txs : seq[t] <= given
    BY <1>1 DEF Ordinals
<1>9. \A i \in 1 .. n : all[i].id \in Txs \X Nat /\ all[i].opened_at \in Nat
    BY <1>1, LotsType
<1> HIDE DEF lot, more, next, all, seq, n
<1>10. \A i \in 1 .. n + 1 : i \in 1 .. n \/ i = n + 1
    BY <1>1
<1>11. \A i \in 1 .. n + 1 : LotKept(more[i], e.at)
    <2>1. LotKept(lot, e.at)
        BY <1>2, <1>3 DEF LotKept
    <2>2. ASSUME NEW i \in 1 .. n PROVE LotKept(all[i], e.at)
        BY <1>2, <1>8, <1>9 DEF LotKept
    <2>. QED
        BY <1>6, <1>10, <2>1, <2>2
<1>12. \A i \in 1 .. n : all[i].id[1] \in Txs /\ all[i].id[2] \in Nat
    BY <1>9
<1>13. \A i \in 1 .. n + 1 : more[i].id[2] < next[more[i].id[1]]
    <2>1. lot.id[2] < next[lot.id[1]]
        BY <1>2, <1>3, <1>7
    <2>2. ASSUME NEW i \in 1 .. n PROVE all[i].id[2] < next[all[i].id[1]]
        <3>1. all[i].id[1] \in Txs /\ all[i].id[2] \in Nat /\ all[i].id[2] < seq[all[i].id[1]]
            BY <1>8, <1>12
        <3>2. seq[all[i].id[1]] \in Nat
            BY <1>1, <3>1
        <3>3. CASE all[i].id[1] = e.tx
            BY <1>7, <3>1, <3>2, <3>3
        <3>4. CASE all[i].id[1] # e.tx
            BY <1>7, <3>1, <3>4
        <3>. QED
            BY <3>3, <3>4
    <2>. QED
        BY <1>6, <1>10, <2>1, <2>2
<1>14. \A i \in 1 .. n : all[i].id # lot.id
    <2> SUFFICES ASSUME NEW i \in 1 .. n, all[i].id = lot.id PROVE FALSE
        OBVIOUS
    <2>1. all[i].id[1] = e.tx /\ all[i].id[2] = seq[e.tx]
        BY <1>3
    <2>2. all[i].id[2] < seq[all[i].id[1]]
        BY <1>8
    <2>. QED
        BY <1>2, <2>1, <2>2
<1>15. \A i, j \in 1 .. n + 1 : more[i].id = more[j].id => i = j
    BY <1>6, <1>8, <1>10, <1>14
<1>16. \A t \in Txs : next[t] <= given + 1
    <2> SUFFICES ASSUME NEW t \in Txs PROVE next[t] <= given + 1
        OBVIOUS
    <2>1. seq[t] \in Nat /\ seq[t] <= given
        BY <1>1, <1>8
    <2>2. next[t] = seq[t] \/ next[t] = seq[t] + 1
        BY <1>2, <1>7
    <2>. QED
        BY <2>1, <2>2
<1>17. ASSUME OldestUsed(all) PROVE OldestUsed(more)
    <2> SUFFICES ASSUME NEW i \in 1 .. n + 1, NEW j \in 1 .. n + 1,
                        more[i].opened_at < more[j].opened_at, more[i].remaining > 0
                 PROVE  more[j].remaining = more[j].original
        BY <1>6 DEF OldestUsed
    <2>1. CASE j = n + 1
        BY <1>3, <1>6, <2>1
    <2>2. CASE j \in 1 .. n /\ i = n + 1
        <3>1. all[j].opened_at <= now /\ all[j].opened_at \in Nat
            BY <1>8, <1>9, <2>2 DEF LotKept
        <3>2. e.at < all[j].opened_at
            BY <1>3, <1>6, <2>2
        <3>. QED
            BY <1>2, <3>1, <3>2
    <2>3. CASE j \in 1 .. n /\ i \in 1 .. n
        BY <1>1, <1>6, <1>17, <2>3 DEF OldestUsed
    <2>. QED
        BY <1>10, <2>1, <2>2, <2>3
<1>18. /\ Weighs(AllUnits, more) = Weighs(AllUnits, all) + e.quantity
       /\ Weighs(PricedUnits, more)
              = Weighs(PricedUnits, all) + (IF e.money = Unpriced THEN 0 ELSE e.quantity)
    <2>1. /\ AllUnits \in [Lots -> Nat] /\ PricedUnits \in [Lots -> Nat]
          /\ AllUnits[lot] = e.quantity
          /\ PricedUnits[lot] = IF e.money = Unpriced THEN 0 ELSE e.quantity
        BY <1>2, <1>3, <1>4, WeightsAre
    <2>. QED
        BY <1>1, <1>4, <2>1, WeighAppend DEF more
<1>19. new \in Ledgers /\ new.lots = more /\ new.seq = next
    <2>1. [lots |-> more, decimals |-> e.decimals, seq |-> next] \in Ledgers
        BY <1>2, <1>6, <1>7 DEF Ledgers
    <2>. QED
        BY <1>5, <2>1
<1> HIDE DEF new
<1>20. Ordinals(new, given + 1)
    BY <1>6, <1>13, <1>15, <1>16, <1>19 DEF Ordinals
<1>. QED
    BY <1>6, <1>11, <1>17, <1>18, <1>19, <1>20 DEF new, all

-----------------------------------------------------------------------------
(* The pools. *)

Renamed(pool, c) == [pool EXCEPT !.currency = c]

Refilled(pool, q, x) == [pool EXCEPT !.quantity = q, !.cost = x]

LEMMA PoolType ==
    ASSUME NEW pool \in Pools
    PROVE  /\ pool.currency \in Currencies \cup {NoCurrency} /\ pool.cost \in Costs
           /\ pool.quantity \in Nat
BY DEF Pools

LEMMA PoolRenamed ==
    ASSUME NEW pool \in Pools, NEW c \in Currencies \cup {NoCurrency}
    PROVE  /\ Renamed(pool, c) \in Pools /\ Renamed(pool, c).currency = c
           /\ Renamed(pool, c).cost = pool.cost /\ Renamed(pool, c).quantity = pool.quantity
BY DEF Pools, Renamed

LEMMA PoolRefilled ==
    ASSUME NEW pool \in Pools, NEW q \in Nat, NEW x \in Costs
    PROVE  /\ Refilled(pool, q, x) \in Pools /\ Refilled(pool, q, x).currency = pool.currency
           /\ Refilled(pool, q, x).cost = x /\ Refilled(pool, q, x).quantity = q
<1>1. \A p \in Pools : [p EXCEPT !.quantity = q, !.cost = x] \in Pools
    BY DEF Pools
<1>2. LET new == [pool EXCEPT !.quantity = q, !.cost = x]
      IN  new.currency = pool.currency /\ new.cost = x /\ new.quantity = q
    BY DEF Pools
<1>. QED
    BY <1>1, <1>2, Zenon DEF Refilled

(* The first priced event makes all pools its currency's. *)
LEMMA RetaggedKept ==
    ASSUME Shapes, PoolsKept, NEW e \in Events, InCurrency(e)
    PROVE  /\ Denominated(e) \in Currencies \cup {NoCurrency}
           /\ e.money # Unpriced => Denominated(e) = e.money.currency
           /\ Retagged(e) \in [Assets -> Pools]
           /\ \A a \in Assets :
               /\ Retagged(e)[a].cost = pools[a].cost
               /\ Retagged(e)[a].quantity = pools[a].quantity
               /\ method # "acb" => Retagged(e)[a] = NoPool
               /\ Denominated(e) # NoCurrency =>
                      Retagged(e)[a].currency \in {NoCurrency, Denominated(e)}
<1>1. /\ currency \in Currencies \cup {NoCurrency} /\ pools \in [Assets -> Pools]
      /\ \A a \in Assets : pools[a] \in Pools
    BY DEF Shapes
<1>2. e.money # Unpriced => e.money.currency \in Currencies
    BY EventParts
<1>3. /\ Unpriced.currency = NoCurrency
      /\ e.money # Unpriced => e.money.currency # NoCurrency
    BY <1>2, CurrencyConstants DEF Unpriced
<1>4. \A a \in Assets :
          /\ method # "acb" => pools[a] = NoPool
          /\ currency # NoCurrency => pools[a].currency \in {NoCurrency, currency}
    BY DEF PoolsKept
<1>5. CASE currency = NoCurrency /\ e.money # Unpriced
    <2> DEFINE Tag(a) == IF pools[a].currency = NoCurrency THEN pools[a]
                         ELSE Renamed(pools[a], e.money.currency)
    <2>1. Retagged(e) = [a \in Assets |-> Tag(a)] /\ Denominated(e) = e.money.currency
        BY <1>5 DEF Retagged, Denominated, Renamed
    <2>2. ASSUME NEW a \in Assets
          PROVE  /\ Tag(a) \in Pools /\ Tag(a).cost = pools[a].cost
                 /\ Tag(a).quantity = pools[a].quantity
                 /\ Tag(a).currency \in {NoCurrency, e.money.currency}
                 /\ method # "acb" => Tag(a) = NoPool
        <3>1. pools[a] \in Pools /\ e.money.currency \in Currencies \cup {NoCurrency}
            BY <1>1, <1>2, <1>5
        <3>2. LET new == Renamed(pools[a], e.money.currency)
              IN  /\ new \in Pools /\ new.currency = e.money.currency
                  /\ new.cost = pools[a].cost /\ new.quantity = pools[a].quantity
            BY <3>1, PoolRenamed
        <3>3. NoPool.currency = NoCurrency
            BY DEF NoPool
        <3>. QED
            BY <1>4, <3>1, <3>2, <3>3
    <2> HIDE DEF Tag
    <2>3. Retagged(e) \in [Assets -> Pools] /\ \A a \in Assets : Retagged(e)[a] = Tag(a)
        BY <2>1, <2>2
    <2>. QED
        BY <1>2, <1>5, <2>1, <2>2, <2>3
<1>6. CASE ~(currency = NoCurrency /\ e.money # Unpriced)
    <2>1. Retagged(e) = pools
        BY <1>6 DEF Retagged
    <2>2. Denominated(e) = currency
        BY <1>3, <1>6 DEF Denominated
    <2>3. e.money # Unpriced => currency = e.money.currency
        BY <1>6 DEF InCurrency
    <2>. QED
        BY <1>1, <1>4, <2>1, <2>2, <2>3
<1>. QED
    BY <1>5, <1>6

(* So the pool an acquisition joins is in its currency. *)
LEMMA PoolForKept ==
    ASSUME Shapes, PoolsKept, NEW e \in Events, InCurrency(e)
    PROVE  /\ PoolFor(e) \in Pools
           /\ PoolFor(e).cost = pools[e.asset].cost
           /\ PoolFor(e).quantity = pools[e.asset].quantity
           /\ Denominated(e) # NoCurrency => PoolFor(e).currency = Denominated(e)
           /\ PoolAccepts(PoolFor(e), e)
<1> DEFINE pool == Retagged(e)[e.asset]
           stream == IF Denominated(e) = NoCurrency THEN Default ELSE Denominated(e)
<1>1. /\ e.asset \in Assets /\ Denominated(e) \in Currencies \cup {NoCurrency}
      /\ e.money # Unpriced => Denominated(e) = e.money.currency
      /\ pool \in Pools /\ pool.cost = pools[e.asset].cost
      /\ pool.quantity = pools[e.asset].quantity
      /\ Denominated(e) # NoCurrency => pool.currency \in {NoCurrency, Denominated(e)}
    BY RetaggedKept, EventParts
<1>2. stream \in Currencies \cup {NoCurrency}
    BY <1>1, CurrencyConstants
<1>3. PoolFor(e) = IF pool.currency # NoCurrency THEN pool
                   ELSE Renamed(pool, stream)
    BY DEF PoolFor, Renamed
<1> HIDE DEF pool, stream
<1>4. LET new == Renamed(pool, stream)
      IN  /\ new \in Pools /\ new.currency = stream
          /\ new.cost = pool.cost /\ new.quantity = pool.quantity
    BY <1>1, <1>2, PoolRenamed
<1>5. /\ PoolFor(e) \in Pools
      /\ PoolFor(e).cost = pool.cost
      /\ PoolFor(e).quantity = pool.quantity
      /\ PoolFor(e).currency = IF pool.currency # NoCurrency THEN pool.currency ELSE stream
    BY <1>1, <1>3, <1>4
<1>6. Denominated(e) # NoCurrency => PoolFor(e).currency = Denominated(e)
    BY <1>1, <1>5 DEF stream
<1>7. e.money # Unpriced => e.money.currency # NoCurrency
    BY EventParts, CurrencyConstants
<1>8. PoolAccepts(PoolFor(e), e)
    BY <1>1, <1>6, <1>7 DEF PoolAccepts
<1>. QED
    BY <1>1, <1>5, <1>6, <1>8

LEMMA JoinedPool ==
    ASSUME NEW pool \in Pools, NEW e \in Events
    PROVE  LET new == Joined(pool, e)
           IN  /\ new \in Pools /\ new.currency = pool.currency
               /\ new.quantity = pool.quantity + e.quantity
               /\ new.cost # Unknown => pool.cost # Unknown /\ e.money # Unpriced
<1> DEFINE x == IF pool.cost = Unknown \/ e.money = Unpriced THEN Unknown
                ELSE Plus(pool.cost, e.money.amount)
           q == pool.quantity + e.quantity
<1>1. pool.cost \in Costs /\ pool.quantity \in Nat /\ e.quantity \in Nat
    BY PoolType, EventParts
<1>2. x \in Costs
    <2>1. CASE pool.cost = Unknown \/ e.money = Unpriced
        BY <2>1 DEF Costs
    <2>2. CASE ~(pool.cost = Unknown \/ e.money = Unpriced)
        <3>1. pool.cost \in Amount /\ e.money.amount \in Amount
            BY <1>1, <2>2, EventParts DEF Costs
        <3>. QED
            BY <2>2, <3>1, Exact, 1 \in Nat \ {0} DEF Costs
    <2>. QED
        BY <2>1, <2>2
<1>3. Joined(pool, e) = Refilled(pool, q, x)
    BY DEF Joined, Refilled
<1>4. x # Unknown => pool.cost # Unknown /\ e.money # Unpriced
    OBVIOUS
<1>5. q \in Nat
    BY <1>1
<1> HIDE DEF x
<1>6. LET new == Refilled(pool, q, x)
      IN  /\ new \in Pools /\ new.currency = pool.currency
          /\ new.cost = x /\ new.quantity = q
    BY <1>2, <1>5, PoolRefilled
<1>. QED
    BY <1>3, <1>4, <1>6

LEMMA ShrunkPool ==
    ASSUME NEW pool \in Pools, NEW take \in 0 .. pool.quantity
    PROVE  LET new == Shrunk(pool, take)
           IN  /\ new \in Pools /\ new.currency = pool.currency
               /\ new.quantity = pool.quantity - take
               /\ new.cost # Unknown <=> pool.cost # Unknown
               /\ Averaged(pool, take) # Unknown => pool.cost # Unknown
<1> DEFINE x == IF pool.cost = Unknown THEN Unknown
                ELSE Minus(pool.cost, Averaged(pool, take))
           q == pool.quantity - take
<1>1. pool.cost \in Costs /\ pool.quantity \in Nat /\ take \in Nat /\ q \in Nat
    BY PoolType
<1>2. x \in Costs /\ (x # Unknown <=> pool.cost # Unknown)
    <2>1. CASE pool.cost = Unknown
        BY <2>1 DEF Costs
    <2>2. CASE pool.cost # Unknown
        <3>1. pool.cost \in Amount
            BY <1>1, <2>2 DEF Costs
        <3>2. Averaged(pool, take) \in Amount
            <4>1. CASE take = 0
                BY <2>2, <4>1, ZeroIsAmount, 0 \in Int DEF Averaged
            <4>2. CASE take # 0
                <5>1. pool.quantity \in Nat \ {0}
                    BY <1>1, <4>2
                <5>. QED
                    BY <1>1, <2>2, <3>1, <4>2, <5>1, Exact DEF Averaged
            <4>. QED
                BY <4>1, <4>2
        <3>3. Minus(pool.cost, Averaged(pool, take)) \in Amount
            BY <3>1, <3>2, Exact, 1 \in Nat \ {0}
        <3>. QED
            BY <2>2, <3>3, AmountParts DEF Costs
    <2>. QED
        BY <2>1, <2>2
<1>3. Shrunk(pool, take) = Refilled(pool, q, x)
    BY DEF Shrunk, Refilled
<1>4. Averaged(pool, take) # Unknown => pool.cost # Unknown
    BY DEF Averaged
<1> HIDE DEF x
<1>5. LET new == Refilled(pool, q, x)
      IN  /\ new \in Pools /\ new.currency = pool.currency
          /\ new.cost = x /\ new.quantity = q
    BY <1>1, <1>2, PoolRefilled
<1>. QED
    BY <1>2, <1>3, <1>4, <1>5

-----------------------------------------------------------------------------
(* What is booked. *)

LEMMA BooksTyped ==
    /\ \A b \in Books :
        /\ b.booked \in 0..MaxEvents /\ b.paid \in Amount /\ b.got \in Amount
        /\ b.units \in [Assets -> Nat] /\ b.priced \in [Assets -> Nat]
        /\ b.costed \in [Assets -> Nat]
    /\ \A b \in Books, n \in 0..MaxEvents : [b EXCEPT !.booked = n] \in Books
    /\ \A b \in Books, x \in Amount : [b EXCEPT !.paid = x] \in Books
    /\ \A b \in Books, x \in Amount : [b EXCEPT !.got = x] \in Books
<1>1. \A b \in Books :
          /\ b.booked \in 0..MaxEvents /\ b.paid \in Amount /\ b.got \in Amount
          /\ b.units \in [Assets -> Nat] /\ b.priced \in [Assets -> Nat]
          /\ b.costed \in [Assets -> Nat]
    BY DEF Books
<1>2. \A b \in Books, n \in 0..MaxEvents : [b EXCEPT !.booked = n] \in Books
    BY DEF Books
<1>3. \A b \in Books, x \in Amount : [b EXCEPT !.paid = x] \in Books
    BY DEF Books
<1>4. \A b \in Books, x \in Amount : [b EXCEPT !.got = x] \in Books
    BY DEF Books
<1>. QED
    BY <1>1, <1>2, <1>3, <1>4

LEMMA BooksCount ==
    /\ \A b \in Books, n \in Nat, a \in Assets : [b EXCEPT !.units[a] = n] \in Books
    /\ \A b \in Books, n \in Nat, a \in Assets : [b EXCEPT !.priced[a] = n] \in Books
    /\ \A b \in Books, n \in Nat, a \in Assets : [b EXCEPT !.costed[a] = n] \in Books
<1>1. \A b \in Books, n \in Nat, a \in Assets : [b EXCEPT !.units[a] = n] \in Books
    BY DEF Books
<1>2. \A b \in Books, n \in Nat, a \in Assets : [b EXCEPT !.priced[a] = n] \in Books
    BY DEF Books
<1>3. \A b \in Books, n \in Nat, a \in Assets : [b EXCEPT !.costed[a] = n] \in Books
    BY DEF Books
<1>. QED
    BY <1>1, <1>2, <1>3

Buy(b, a, q, x, known) ==
    [b EXCEPT !.booked = @ + 1, !.paid = x, !.units[a] = @ + q, !.priced[a] = known]

Sale(b, a, sold, x, known) ==
    [b EXCEPT !.booked = @ + 1, !.got = x, !.units[a] = @ - sold, !.costed[a] = known]

LEMMA BookedBuy ==
    ASSUME NEW b \in Books, b.booked < MaxEvents, NEW a \in Assets, NEW q \in Nat,
           NEW x \in Amount, NEW known \in Nat, NEW new, new = Buy(b, a, q, x, known)
    PROVE  /\ new \in Books /\ new.booked = b.booked + 1 /\ new.costed = b.costed
           /\ new.units[a] = b.units[a] + q /\ new.priced[a] = known
           /\ \A c \in Assets \ {a} :
                  new.units[c] = b.units[c] /\ new.priced[c] = b.priced[c]
<1> DEFINE n == b.booked + 1
           u == b.units[a] + q
           b1 == [b EXCEPT !.booked = n]
           b2 == [b1 EXCEPT !.paid = x]
           b3 == [b2 EXCEPT !.units[a] = u]
           b4 == [b3 EXCEPT !.priced[a] = known]
<1>1. new = b4
    BY DEF Buy
<1>2. b.booked \in 0..MaxEvents /\ b.units \in [Assets -> Nat]
    BY BooksTyped
<1>3. n \in 0..MaxEvents /\ u \in Nat
    BY <1>2, Bounds
<1>4. /\ new.booked = n /\ new.costed = b.costed
      /\ new.units[a] = u /\ new.priced[a] = known
      /\ \A c \in Assets \ {a} : new.units[c] = b.units[c] /\ new.priced[c] = b.priced[c]
    BY DEF Books, Buy
<1> HIDE DEF n, u
<1>5. b1 \in Books
    BY <1>3, BooksTyped
<1> HIDE DEF b1
<1>6. b2 \in Books
    BY <1>5, BooksTyped
<1> HIDE DEF b2
<1>7. b3 \in Books
    BY <1>3, <1>6, BooksCount
<1> HIDE DEF b3
<1>8. b4 \in Books
    BY <1>7, BooksCount
<1>. QED
    BY <1>1, <1>4, <1>8 DEF n, u

LEMMA BookedSale ==
    ASSUME NEW b \in Books, b.booked < MaxEvents, NEW a \in Assets,
           NEW sold \in 0 .. b.units[a], NEW x \in Amount, NEW known \in Nat, NEW new,
           new = Sale(b, a, sold, x, known)
    PROVE  /\ new \in Books /\ new.booked = b.booked + 1 /\ new.priced = b.priced
           /\ new.units[a] = b.units[a] - sold /\ new.costed[a] = known
           /\ \A c \in Assets \ {a} :
                  new.units[c] = b.units[c] /\ new.costed[c] = b.costed[c]
<1> DEFINE n == b.booked + 1
           u == b.units[a] - sold
           b1 == [b EXCEPT !.booked = n]
           b2 == [b1 EXCEPT !.got = x]
           b3 == [b2 EXCEPT !.units[a] = u]
           b4 == [b3 EXCEPT !.costed[a] = known]
<1>1. new = b4
    BY DEF Sale
<1>2. b.booked \in 0..MaxEvents /\ b.units[a] \in Nat
    BY BooksTyped
<1>3. n \in 0..MaxEvents /\ u \in Nat
    BY <1>2, Bounds
<1>4. /\ new.booked = n /\ new.priced = b.priced
      /\ new.units[a] = u /\ new.costed[a] = known
      /\ \A c \in Assets \ {a} : new.units[c] = b.units[c] /\ new.costed[c] = b.costed[c]
    BY DEF Books, Sale
<1> HIDE DEF n, u
<1>5. b1 \in Books
    BY <1>3, BooksTyped
<1> HIDE DEF b1
<1>6. b2 \in Books
    BY <1>5, BooksTyped
<1> HIDE DEF b2
<1>7. b3 \in Books
    BY <1>3, <1>6, BooksCount
<1> HIDE DEF b3
<1>8. b4 \in Books
    BY <1>7, BooksCount
<1>. QED
    BY <1>1, <1>4, <1>8 DEF n, u

-----------------------------------------------------------------------------
(* Refusals change a scale, and at most tag the pools. *)

LEMMA LedgerLater ==
    ASSUME NEW ledger \in Ledgers, NEW now \in Nat, NEW later \in Nat, now <= later,
           NEW given \in Nat,
           \A i \in DOMAIN ledger.lots : LotKept(ledger.lots[i], now),
           Ordinals(ledger, given)
    PROVE  /\ \A i \in DOMAIN ledger.lots : LotKept(ledger.lots[i], later)
           /\ Ordinals(ledger, given + 1)
<1>1. ledger.lots \in Seq(Lots) /\ ledger.seq \in [Txs -> Nat]
    BY DEF Ledgers
<1>2. ASSUME NEW i \in DOMAIN ledger.lots PROVE LotKept(ledger.lots[i], later)
    <2>1. ledger.lots[i] \in Lots
        BY <1>1, Indexes
    <2>2. ledger.lots[i].opened_at \in Nat
        BY <2>1, LotsType
    <2>. QED
        BY <2>2 DEF LotKept
<1>3. ASSUME NEW t \in Txs PROVE ledger.seq[t] <= given + 1
    <2>1. ledger.seq[t] \in Nat /\ ledger.seq[t] <= given
        BY <1>1 DEF Ordinals
    <2>. QED
        BY <2>1
<1>. QED
    BY <1>2, <1>3 DEF Ordinals

LEMMA Scaled ==
    ASSUME Shapes, NEW e \in Events
    PROVE  [scales EXCEPT ![e.asset] = e.decimals] \in [Assets -> Scales \cup {0}]
BY EventParts DEF Shapes

LEMMA RefusesCurrency ==
    ASSUME IInv, NEW e \in Events, RefuseCurrency(e)
    PROVE  IInv'
<1>1. /\ scales' \in [Assets -> Scales \cup {0}]
      /\ UNCHANGED <<method, currency, last, ledgers, pools, truth>>
    BY Scaled DEF IInv, RefuseCurrency
<1>2. Shapes'
    BY <1>1 DEF IInv, Shapes
<1>3. LedgersKept' /\ PoolsKept' /\ Counted' /\ Covered'
    BY <1>1 DEF IInv, LedgersKept, PoolsKept, Counted, Covered
<1>. QED
    BY <1>2, <1>3 DEF IInv

LEMMA RefusesScale ==
    ASSUME IInv, NEW e \in Events, RefuseScale(e)
    PROVE  IInv'
<1>1. /\ scales' \in [Assets -> Scales \cup {0}]
      /\ InCurrency(e) /\ currency' = Denominated(e) /\ pools' = Retagged(e)
      /\ UNCHANGED <<method, last, ledgers, truth>>
    BY Scaled DEF IInv, RefuseScale
<1>2. /\ currency' \in Currencies \cup {NoCurrency} /\ pools' \in [Assets -> Pools]
      /\ \A a \in Assets :
          /\ pools'[a].cost = pools[a].cost /\ pools'[a].quantity = pools[a].quantity
          /\ method # "acb" => pools'[a] = NoPool
          /\ currency' # NoCurrency => pools'[a].currency \in {NoCurrency, currency'}
    BY <1>1, RetaggedKept DEF IInv
<1>3. Shapes'
    BY <1>1, <1>2 DEF IInv, Shapes
<1>4. LedgersKept'
    BY <1>1 DEF IInv, LedgersKept
<1>5. PoolsKept'
    BY <1>1, <1>2 DEF PoolsKept
<1>6. Counted' /\ Covered'
    BY <1>1, <1>2 DEF IInv, Counted, Covered
<1>. QED
    BY <1>3, <1>4, <1>5, <1>6 DEF IInv

(* What every accepted event may rely on. *)
LEMMA AcceptedEvent ==
    ASSUME IInv, NEW e \in Events, Accepted(e)
    PROVE  /\ e.asset \in Assets /\ e.at \in Times /\ e.at \in Nat /\ e.quantity \in Nat \ {0}
           /\ last \in Nat /\ last <= e.at
           /\ truth \in Books /\ truth.booked < MaxEvents /\ truth.booked \in Nat
           /\ InCurrency(e)
           /\ scales' \in [Assets -> Scales \cup {0}]
           /\ currency' = Denominated(e) /\ method' = method /\ method \in Methods
           /\ \A a \in Assets :
               /\ ledgers[a] \in Ledgers
               /\ \A i \in DOMAIN ledgers[a].lots : LotKept(ledgers[a].lots[i], last)
               /\ Ordinals(ledgers[a], truth.booked)
               /\ method = "fifo" => OldestUsed(ledgers[a].lots)
               /\ \A i \in DOMAIN ledgers[a].lots :
                      ledgers[a].lots[i].cost_total = Unknown
                          <=> ledgers[a].lots[i].cost_remaining = Unknown
               /\ truth.units[a] \in Nat /\ truth.priced[a] \in Nat /\ truth.costed[a] \in Nat
               /\ Weighs(AllUnits, ledgers[a].lots) \in Nat
               /\ Weighs(PricedUnits, ledgers[a].lots) \in Nat
<1>1. /\ method \in Methods /\ last \in Times \cup {0} /\ truth \in Books
      /\ \A a \in Assets : ledgers[a] \in Ledgers
    BY DEF IInv, Shapes
<1>2. last \in Nat /\ last <= e.at
    <2>1. last \in Nat
        BY <1>1, AmountConstants
    <2>. QED
        BY <2>1 DEF Accepted, Monotonic
<1>3. /\ truth.booked \in 0..MaxEvents /\ truth.units \in [Assets -> Nat]
      /\ truth.priced \in [Assets -> Nat] /\ truth.costed \in [Assets -> Nat]
    BY <1>1, BooksTyped
<1>4. /\ truth.booked < MaxEvents /\ InCurrency(e) /\ method' = method
      /\ currency' = Denominated(e) /\ scales' = [scales EXCEPT ![e.asset] = e.decimals]
    BY DEF Accepted
<1>5. scales' \in [Assets -> Scales \cup {0}]
    BY <1>4, Scaled DEF IInv
<1>6. ASSUME NEW a \in Assets
      PROVE  /\ \A i \in DOMAIN ledgers[a].lots : LotKept(ledgers[a].lots[i], last)
             /\ Ordinals(ledgers[a], truth.booked)
             /\ method = "fifo" => OldestUsed(ledgers[a].lots)
             /\ \A i \in DOMAIN ledgers[a].lots :
                    ledgers[a].lots[i].cost_total = Unknown
                        <=> ledgers[a].lots[i].cost_remaining = Unknown
             /\ Weighs(AllUnits, ledgers[a].lots) \in Nat
             /\ Weighs(PricedUnits, ledgers[a].lots) \in Nat
    <2>1. /\ \A i \in DOMAIN ledgers[a].lots : LotKept(ledgers[a].lots[i], last)
          /\ Ordinals(ledgers[a], truth.booked)
          /\ method = "fifo" => OldestUsed(ledgers[a].lots)
        BY DEF IInv, LedgersKept
    <2>2. \A i \in DOMAIN ledgers[a].lots :
              ledgers[a].lots[i].cost_total = Unknown
                  <=> ledgers[a].lots[i].cost_remaining = Unknown
        BY <2>1 DEF LotKept
    <2>3. ledgers[a].lots \in Seq(Lots)
        BY <1>1 DEF Ledgers
    <2>4. /\ Weighs(AllUnits, ledgers[a].lots) \in Nat
          /\ Weighs(PricedUnits, ledgers[a].lots) \in Nat
        BY <2>3, WeighType, WeightsAre
    <2>. QED
        BY <2>1, <2>2, <2>4
<1>7. truth.booked \in Nat
    BY <1>3
<1>. QED
    BY <1>1, <1>2, <1>3, <1>4, <1>5, <1>6, <1>7, EventParts

(* The ledgers nothing happened to. *)
LEMMA OtherLedgers ==
    ASSUME IInv, NEW e \in Events, Accepted(e), NEW a \in Assets
    PROVE  /\ \A i \in DOMAIN ledgers[a].lots : LotKept(ledgers[a].lots[i], e.at)
           /\ Ordinals(ledgers[a], truth.booked + 1)
<1>1. /\ ledgers[a] \in Ledgers /\ last \in Nat /\ e.at \in Nat /\ last <= e.at
      /\ truth.booked \in Nat
      /\ \A i \in DOMAIN ledgers[a].lots : LotKept(ledgers[a].lots[i], last)
      /\ Ordinals(ledgers[a], truth.booked)
    BY AcceptedEvent
<1>. QED
    BY <1>1, LedgerLater

LEMMA Acquires ==
    ASSUME IInv, NEW e \in Events, Acquire(e)
    PROVE  IInv'
<1> DEFINE b == e.asset
           pool == PoolFor(e)
           new == Opened(ledgers[b], e)
           joined == Joined(pool, e)
           bought == IF e.money = Unpriced THEN 0 ELSE e.quantity
<1>1. Accepted(e)
    BY DEF Acquire
<1>2. /\ b \in Assets /\ e.at \in Times /\ e.at \in Nat /\ e.quantity \in Nat \ {0}
      /\ last \in Nat /\ last <= e.at /\ truth \in Books
      /\ truth.booked < MaxEvents /\ truth.booked \in Nat /\ InCurrency(e)
      /\ scales' \in [Assets -> Scales \cup {0}] /\ currency' = Denominated(e)
      /\ method' = method /\ method \in Methods
    BY <1>1, AcceptedEvent
<1>3. Shapes /\ PoolsKept /\ Counted /\ Covered
    BY DEF IInv
<1>4. /\ pool \in Pools /\ pool.cost = pools[b].cost /\ pool.quantity = pools[b].quantity
      /\ Denominated(e) # NoCurrency => pool.currency = Denominated(e)
      /\ PoolAccepts(pool, e)
    BY <1>2, <1>3, PoolForKept
<1>5. /\ ledgers' = [ledgers EXCEPT ![b] = new]
      /\ pools' = IF method # "acb" THEN pools ELSE [Retagged(e) EXCEPT ![b] = joined]
      /\ last' = e.at
    BY <1>4 DEF Acquire
<1>6. /\ new \in Ledgers
      /\ \A i \in DOMAIN new.lots : LotKept(new.lots[i], e.at)
      /\ Ordinals(new, truth.booked + 1)
      /\ OldestUsed(ledgers[b].lots) => OldestUsed(new.lots)
      /\ Weighs(AllUnits, new.lots) = Weighs(AllUnits, ledgers[b].lots) + e.quantity
      /\ Weighs(PricedUnits, new.lots) = Weighs(PricedUnits, ledgers[b].lots) + bought
    <2>1. /\ ledgers[b] \in Ledgers /\ Ordinals(ledgers[b], truth.booked)
          /\ \A i \in DOMAIN ledgers[b].lots : LotKept(ledgers[b].lots[i], last)
        BY <1>1, <1>2, AcceptedEvent
    <2>. QED
        BY <1>2, <2>1, OpenedKept
<1>7. /\ joined \in Pools /\ joined.currency = pool.currency
      /\ joined.quantity = pool.quantity + e.quantity
      /\ joined.cost # Unknown => pool.cost # Unknown /\ e.money # Unpriced
    BY <1>4, JoinedPool
<1>8. /\ truth' \in Books /\ truth'.booked = truth.booked + 1 /\ truth'.costed = truth.costed
      /\ truth'.units[b] = truth.units[b] + e.quantity
      /\ truth'.priced[b] = truth.priced[b] + bought
      /\ \A a \in Assets \ {b} :
             truth'.units[a] = truth.units[a] /\ truth'.priced[a] = truth.priced[a]
    <2> DEFINE x == IF e.money = Unpriced THEN truth.paid ELSE Plus(truth.paid, e.money.amount)
               known == IF e.money = Unpriced THEN truth.priced[b]
                        ELSE truth.priced[b] + e.quantity
    <2>1. truth' = Buy(truth, b, e.quantity, x, known)
        BY DEF Acquire, Buy
    <2>2. x \in Amount
        BY <1>2, BooksTyped, EventParts, Exact, 0 \in Nat, 1 \in Nat \ {0}
    <2>3. truth.priced[b] \in Nat
        BY <1>1, <1>2, AcceptedEvent
    <2>4. known \in Nat /\ known = truth.priced[b] + bought
        BY <1>2, <2>3
    <2>5. e.quantity \in Nat
        BY <1>2
    <2> HIDE DEF x, known, bought
    <2>. QED
        BY <1>2, <2>1, <2>2, <2>4, <2>5, BookedBuy
<1>9. /\ Retagged(e) \in [Assets -> Pools] /\ Denominated(e) \in Currencies \cup {NoCurrency}
      /\ \A a \in Assets :
          /\ Retagged(e)[a].cost = pools[a].cost
          /\ Retagged(e)[a].quantity = pools[a].quantity
          /\ Denominated(e) # NoCurrency =>
                 Retagged(e)[a].currency \in {NoCurrency, Denominated(e)}
    BY <1>2, <1>3, RetaggedKept
<1>10. /\ ledgers \in [Assets -> Ledgers] /\ pools \in [Assets -> Pools]
       /\ \A a \in Assets : /\ truth.units[a] \in Nat /\ truth.priced[a] \in Nat
                            /\ truth.costed[a] \in Nat
                            /\ Weighs(PricedUnits, ledgers[a].lots) \in Nat
    BY <1>1, <1>3, AcceptedEvent DEF Shapes
<1>11. bought \in Nat /\ (e.money # Unpriced => bought = e.quantity)
    BY <1>2
<1> HIDE DEF b, pool, new, joined, bought
<1>12. /\ ledgers' \in [Assets -> Ledgers] /\ ledgers'[b] = new
       /\ \A a \in Assets \ {b} : ledgers'[a] = ledgers[a]
    BY <1>2, <1>5, <1>6, <1>10
<1>13. method = "acb" => /\ pools' \in [Assets -> Pools] /\ pools'[b] = joined
                         /\ \A a \in Assets \ {b} : pools'[a] = Retagged(e)[a]
    BY <1>2, <1>5, <1>7, <1>9
<1>14. method # "acb" => pools' = pools
    BY <1>5
<1>15. Shapes'
    <2>1. pools' \in [Assets -> Pools]
        BY <1>10, <1>13, <1>14
    <2>. QED
        BY <1>2, <1>5, <1>8, <1>9, <1>12, <2>1 DEF Shapes
<1>16. LedgersKept'
    <2> SUFFICES ASSUME NEW a \in Assets
                 PROVE  /\ \A i \in DOMAIN ledgers'[a].lots : LotKept(ledgers'[a].lots[i], e.at)
                        /\ Ordinals(ledgers'[a], truth.booked + 1)
                        /\ method = "fifo" => OldestUsed(ledgers'[a].lots)
        BY <1>2, <1>5, <1>8 DEF LedgersKept
    <2>1. method = "fifo" => OldestUsed(ledgers[a].lots)
        BY <1>1, AcceptedEvent
    <2>2. CASE a = b
        BY <1>6, <1>12, <2>1, <2>2
    <2>3. CASE a # b
        BY <1>1, <1>12, <2>1, <2>3, OtherLedgers
    <2>. QED
        BY <2>2, <2>3
<1>17. PoolsKept'
    <2> SUFFICES ASSUME NEW a \in Assets
                 PROVE  /\ method # "acb" => pools'[a] = NoPool
                        /\ Denominated(e) # NoCurrency =>
                               pools'[a].currency \in {NoCurrency, Denominated(e)}
        BY <1>2 DEF PoolsKept
    <2>1. CASE method # "acb"
        <3>1. pools'[a] = NoPool
            BY <1>3, <1>14, <2>1 DEF PoolsKept
        <3>. QED
            BY <2>1, <3>1 DEF NoPool
    <2>2. CASE method = "acb"
        BY <1>4, <1>7, <1>9, <1>13, <2>2
    <2>. QED
        BY <2>1, <2>2
<1>18. Counted'
    <2> SUFFICES ASSUME NEW a \in Assets
                 PROVE  /\ Weighs(AllUnits, ledgers'[a].lots) = truth'.units[a]
                        /\ method = "acb" => pools'[a].quantity = truth'.units[a]
        BY <1>2 DEF Counted
    <2>1. /\ Weighs(AllUnits, ledgers[a].lots) = truth.units[a]
          /\ method = "acb" => pools[a].quantity = truth.units[a]
        BY <1>3 DEF Counted
    <2>2. CASE a = b
        BY <1>4, <1>6, <1>7, <1>8, <1>12, <1>13, <2>1, <2>2
    <2>3. CASE a # b
        BY <1>8, <1>9, <1>12, <1>13, <2>1, <2>3
    <2>. QED
        BY <2>2, <2>3
<1>19. Covered'
    <2> SUFFICES ASSUME NEW a \in Assets
                 PROVE  /\ truth'.costed[a] <= truth'.priced[a]
                        /\ method # "acb" =>
                               truth'.costed[a] + Weighs(PricedUnits, ledgers'[a].lots)
                                   <= truth'.priced[a]
                        /\ (method = "acb" /\ pools'[a].cost # Unknown) =>
                               truth'.costed[a] + pools'[a].quantity <= truth'.priced[a]
        BY <1>2 DEF Covered
    <2>1. /\ truth.costed[a] <= truth.priced[a]
          /\ method # "acb" =>
                 truth.costed[a] + Weighs(PricedUnits, ledgers[a].lots) <= truth.priced[a]
          /\ (method = "acb" /\ pools[a].cost # Unknown) =>
                 truth.costed[a] + pools[a].quantity <= truth.priced[a]
        BY <1>3 DEF Covered
    <2>2. /\ truth.priced[a] \in Nat /\ truth.costed[a] \in Nat
          /\ Weighs(PricedUnits, ledgers[a].lots) \in Nat /\ pools[a].quantity \in Nat
        <3>1. pools[a] \in Pools
            BY <1>10
        <3>. QED
            BY <1>10, <3>1, PoolType
    <2>3. CASE a = b
        <3>1. /\ truth'.costed[a] = truth.costed[a]
              /\ truth'.priced[a] = truth.priced[a] + bought
              /\ Weighs(PricedUnits, ledgers'[a].lots)
                     = Weighs(PricedUnits, ledgers[a].lots) + bought
            BY <1>6, <1>8, <1>12, <2>3
        <3>2. (method = "acb" /\ pools'[a].cost # Unknown) =>
                  /\ pools[a].cost # Unknown /\ bought = e.quantity
                  /\ pools'[a].quantity = pools[a].quantity + e.quantity
            BY <1>4, <1>7, <1>11, <1>13, <2>3
        <3>. QED
            BY <1>11, <2>1, <2>2, <3>1, <3>2
    <2>4. CASE a # b
        BY <1>8, <1>9, <1>12, <1>13, <2>1, <2>4
    <2>. QED
        BY <2>3, <2>4
<1>. QED
    BY <1>15, <1>16, <1>17, <1>18, <1>19 DEF IInv

LEMMA Disposes ==
    ASSUME IInv, NEW e \in Events, Dispose(e)
    PROVE  IInv'
<1> DEFINE b == e.asset
           q == e.quantity
           ledger == ledgers[b]
           lots == OpenLots(ledger)
           plan == Plan(lots, q)
           left == Left(ledger, q)
           new == [ledger EXCEPT !.lots = left]
           pool == PoolFor(e)
           held == Min({q, pool.quantity})
           sold == Min({q, truth.units[b]})
           shrunk == Shrunk(pool, held)
           basis == IF method = "acb" THEN Averaged(pool, held) ELSE BasisOfLots(lots, plan)
           x == IF e.money = Unpriced THEN truth.got ELSE Plus(truth.got, e.money.amount)
           known == IF basis = Unknown THEN truth.costed[b] ELSE truth.costed[b] + sold
<1>1. Accepted(e)
    BY DEF Dispose
<1>2. /\ b \in Assets /\ e.at \in Times /\ e.at \in Nat /\ q \in Nat /\ q \in Int
      /\ last \in Nat /\ last <= e.at /\ truth \in Books
      /\ truth.booked < MaxEvents /\ truth.booked \in Nat /\ InCurrency(e)
      /\ scales' \in [Assets -> Scales \cup {0}] /\ currency' = Denominated(e)
      /\ method' = method /\ method \in Methods
    BY <1>1, AcceptedEvent
<1>3. Shapes /\ PoolsKept /\ Counted /\ Covered
    BY DEF IInv
<1>4. /\ ledger \in Ledgers /\ Ordinals(ledger, truth.booked)
      /\ \A i \in DOMAIN ledger.lots : LotKept(ledger.lots[i], last)
      /\ method = "fifo" => OldestUsed(ledger.lots)
      /\ \A i \in DOMAIN ledger.lots :
             ledger.lots[i].cost_total = Unknown <=> ledger.lots[i].cost_remaining = Unknown
      /\ truth.units[b] \in Nat /\ truth.costed[b] \in Nat /\ truth.priced[b] \in Nat
      /\ Weighs(AllUnits, ledger.lots) \in Nat /\ Weighs(PricedUnits, ledger.lots) \in Nat
    BY <1>1, <1>2, AcceptedEvent
<1>5. /\ pool \in Pools /\ pool.cost = pools[b].cost /\ pool.quantity = pools[b].quantity
      /\ pool.quantity \in Nat
      /\ Denominated(e) # NoCurrency => pool.currency = Denominated(e)
    BY <1>2, <1>3, PoolForKept, PoolType
<1>6. /\ Retagged(e) \in [Assets -> Pools] /\ Denominated(e) \in Currencies \cup {NoCurrency}
      /\ \A a \in Assets :
          /\ Retagged(e)[a].cost = pools[a].cost
          /\ Retagged(e)[a].quantity = pools[a].quantity
          /\ Denominated(e) # NoCurrency =>
                 Retagged(e)[a].currency \in {NoCurrency, Denominated(e)}
    BY <1>2, <1>3, RetaggedKept
<1>7. /\ ledgers' = [ledgers EXCEPT ![b].lots = left]
      /\ pools' = IF method # "acb" THEN pools ELSE [Retagged(e) EXCEPT ![b] = shrunk]
      /\ last' = e.at
      /\ truth' = Sale(truth, b, sold, x, known)
    BY DEF Dispose, Left, Sale
<1>8. /\ left \in Seq(Lots)
      /\ \A i \in DOMAIN left : LotKept(left[i], e.at)
      /\ \A i \in DOMAIN left : left[i].id[2] < ledger.seq[left[i].id[1]]
      /\ \A i, j \in DOMAIN left : left[i].id = left[j].id => i = j
    <2>. HIDE DEF ledger, q
    <2>. QED
        BY <1>2, <1>4, DrainedKept
<1>9. method = "fifo" => OldestUsed(left)
    <2>. HIDE DEF ledger, q
    <2>. QED
        BY <1>2, <1>4, DrainedOldest
<1>10. /\ Weighs(AllUnits, ledger.lots) = truth.units[b]
       /\ method = "acb" => pool.quantity = truth.units[b]
    BY <1>2, <1>3, <1>5 DEF Counted
<1>11. /\ sold = Lesser(q, truth.units[b]) /\ sold \in 0 .. truth.units[b]
       /\ held \in 0 .. pool.quantity /\ (method = "acb" => held = sold)
    <2>1. /\ sold = IF q <= truth.units[b] THEN q ELSE truth.units[b]
          /\ held = IF q <= pool.quantity THEN q ELSE pool.quantity
        <3>1. truth.units[b] \in Int /\ pool.quantity \in Int
            BY <1>4, <1>5
        <3>. HIDE DEF b, q, pool
        <3>. QED
            BY <1>2, <3>1, MinOfTwo
    <2>. HIDE DEF sold, held, q, b, pool
    <2>. QED
        BY <1>2, <1>4, <1>5, <1>10, <2>1 DEF Lesser
<1>12. /\ Weighs(AllUnits, left) = Weighs(AllUnits, ledger.lots) - sold
       /\ Weighs(PricedUnits, left) <= Weighs(PricedUnits, ledger.lots)
       /\ Weighs(PricedUnits, left) \in Nat
       /\ BasisOfLots(lots, plan) # Unknown =>
              Weighs(PricedUnits, left) = Weighs(PricedUnits, ledger.lots) - sold
    <2>1. sold = Lesser(q, Weighs(AllUnits, ledger.lots))
        BY <1>10, <1>11
    <2>2. Weighs(PricedUnits, left) \in Nat
        BY <1>8, WeighType, WeightsAre
    <2>. HIDE DEF ledger, q, sold
    <2>. QED
        BY <1>2, <1>4, <2>1, <2>2, DrainedWeighs
<1>13. /\ shrunk \in Pools /\ shrunk.currency = pool.currency
       /\ shrunk.quantity = pool.quantity - held
       /\ shrunk.cost # Unknown <=> pool.cost # Unknown
       /\ Averaged(pool, held) # Unknown => pool.cost # Unknown
    <2>. HIDE DEF pool, held
    <2>. QED
        BY <1>5, <1>11, ShrunkPool
<1>14. x \in Amount
    BY <1>2, BooksTyped, EventParts, Exact, 0 \in Nat, 1 \in Nat \ {0}
<1>15. known \in Nat
    <2>. HIDE DEF basis, sold, b
    <2>. QED
        BY <1>4, <1>11
<1>16. /\ truth' \in Books /\ truth'.booked = truth.booked + 1 /\ truth'.priced = truth.priced
       /\ truth'.units[b] = truth.units[b] - sold /\ truth'.costed[b] = known
       /\ \A a \in Assets \ {b} :
              truth'.units[a] = truth.units[a] /\ truth'.costed[a] = truth.costed[a]
    <2>. HIDE DEF sold, x, known, b
    <2>. QED
        BY <1>2, <1>7, <1>11, <1>14, <1>15, BookedSale
<1>17. /\ ledgers \in [Assets -> Ledgers] /\ pools \in [Assets -> Pools]
       /\ \A a \in Assets : /\ truth.units[a] \in Nat /\ truth.priced[a] \in Nat
                            /\ truth.costed[a] \in Nat
    BY <1>1, <1>3, AcceptedEvent DEF Shapes
<1>18. /\ new \in Ledgers /\ new.lots = left /\ new.seq = ledger.seq
    <2>. HIDE DEF left, ledger
    <2>. QED
        BY <1>4, <1>8 DEF Ledgers
<1>19. ledgers' = [ledgers EXCEPT ![b] = new]
    BY <1>7
<1>20. method # "acb" => basis = BasisOfLots(lots, plan)
    OBVIOUS
<1>21. method = "acb" => basis = Averaged(pool, held)
    OBVIOUS
<1>22. known = IF basis = Unknown THEN truth.costed[b] ELSE truth.costed[b] + sold
    OBVIOUS
<1> HIDE DEF known, x, basis, shrunk, sold, held, pool, new, left, plan, lots, ledger, q
<1>23. ledger = ledgers[b]
    BY DEF ledger
<1> HIDE DEF b
<1>24. /\ ledgers' \in [Assets -> Ledgers] /\ ledgers'[b] = new
       /\ \A a \in Assets \ {b} : ledgers'[a] = ledgers[a]
    BY <1>2, <1>17, <1>18, <1>19
<1>25. method = "acb" => /\ pools' \in [Assets -> Pools] /\ pools'[b] = shrunk
                         /\ \A a \in Assets \ {b} : pools'[a] = Retagged(e)[a]
    BY <1>2, <1>6, <1>7, <1>13
<1>26. method # "acb" => pools' = pools
    BY <1>7
<1>27. Shapes'
    <2>1. pools' \in [Assets -> Pools]
        BY <1>17, <1>25, <1>26
    <2>. QED
        BY <1>2, <1>6, <1>7, <1>16, <1>24, <2>1 DEF Shapes
<1>28. Ordinals(new, truth.booked + 1)
    <2>1. ASSUME NEW t \in Txs PROVE new.seq[t] <= truth.booked + 1
        <3>1. new.seq[t] \in Nat
            BY <1>18 DEF Ledgers
        <3>2. new.seq[t] <= truth.booked
            BY <1>4, <1>18 DEF Ordinals
        <3>. QED
            BY <1>2, <3>1, <3>2
    <2>. QED
        BY <1>8, <1>18, <2>1 DEF Ordinals
<1>29. LedgersKept'
    <2> SUFFICES ASSUME NEW a \in Assets
                 PROVE  /\ \A i \in DOMAIN ledgers'[a].lots : LotKept(ledgers'[a].lots[i], e.at)
                        /\ Ordinals(ledgers'[a], truth.booked + 1)
                        /\ method = "fifo" => OldestUsed(ledgers'[a].lots)
        BY <1>2, <1>7, <1>16 DEF LedgersKept
    <2>1. CASE a = b
        BY <1>8, <1>9, <1>18, <1>24, <1>28, <2>1
    <2>2. CASE a # b
        <3>1. method = "fifo" => OldestUsed(ledgers[a].lots)
            BY <1>1, AcceptedEvent
        <3>. QED
            BY <1>1, <1>24, <2>2, <3>1, OtherLedgers
    <2>. QED
        BY <2>1, <2>2
<1>30. PoolsKept'
    <2> SUFFICES ASSUME NEW a \in Assets
                 PROVE  /\ method # "acb" => pools'[a] = NoPool
                        /\ Denominated(e) # NoCurrency =>
                               pools'[a].currency \in {NoCurrency, Denominated(e)}
        BY <1>2 DEF PoolsKept
    <2>1. CASE method # "acb"
        <3>1. pools'[a] = NoPool
            BY <1>3, <1>26, <2>1 DEF PoolsKept
        <3>. QED
            BY <2>1, <3>1 DEF NoPool
    <2>2. CASE method = "acb"
        BY <1>5, <1>6, <1>13, <1>25, <2>2
    <2>. QED
        BY <2>1, <2>2
<1>31. Counted'
    <2> SUFFICES ASSUME NEW a \in Assets
                 PROVE  /\ Weighs(AllUnits, ledgers'[a].lots) = truth'.units[a]
                        /\ method = "acb" => pools'[a].quantity = truth'.units[a]
        BY <1>2 DEF Counted
    <2>1. /\ Weighs(AllUnits, ledgers[a].lots) = truth.units[a]
          /\ method = "acb" => pools[a].quantity = truth.units[a]
        BY <1>3 DEF Counted
    <2>2. CASE a = b
        BY <1>10, <1>11, <1>12, <1>13, <1>16, <1>18, <1>24, <1>25, <2>2
    <2>3. CASE a # b
        BY <1>6, <1>16, <1>24, <1>25, <2>1, <2>3
    <2>. QED
        BY <2>2, <2>3
<1>32. Covered'
    <2> SUFFICES ASSUME NEW a \in Assets
                 PROVE  /\ truth'.costed[a] <= truth'.priced[a]
                        /\ method # "acb" =>
                               truth'.costed[a] + Weighs(PricedUnits, ledgers'[a].lots)
                                   <= truth'.priced[a]
                        /\ (method = "acb" /\ pools'[a].cost # Unknown) =>
                               truth'.costed[a] + pools'[a].quantity <= truth'.priced[a]
        BY <1>2 DEF Covered
    <2>1. /\ truth.costed[a] <= truth.priced[a]
          /\ method # "acb" =>
                 truth.costed[a] + Weighs(PricedUnits, ledgers[a].lots) <= truth.priced[a]
          /\ (method = "acb" /\ pools[a].cost # Unknown) =>
                 truth.costed[a] + pools[a].quantity <= truth.priced[a]
        BY <1>3 DEF Covered
    <2>2. CASE a = b
        <3>1. /\ truth'.costed[a] = known /\ truth'.priced[a] = truth.priced[a]
              /\ ledgers'[a].lots = left /\ ledgers[a] = ledger
            BY <1>16, <1>18, <1>23, <1>24, <2>2
        <3>2. CASE method # "acb"
            <4>1. truth.costed[b] + Weighs(PricedUnits, ledger.lots) <= truth.priced[b]
                BY <2>1, <2>2, <3>1, <3>2
            <4>2. known + Weighs(PricedUnits, left) <= truth.priced[b]
                <5>1. CASE basis = Unknown
                    BY <1>4, <1>12, <1>22, <4>1, <5>1
                <5>2. CASE basis # Unknown
                    BY <1>4, <1>11, <1>12, <1>20, <1>22, <3>2, <4>1, <5>2
                <5>. QED
                    BY <5>1, <5>2
            <4>3. known <= truth.priced[b]
                BY <1>4, <1>12, <1>15, <4>2
            <4>. QED
                BY <2>2, <3>1, <3>2, <4>2, <4>3
        <3>3. CASE method = "acb"
            <4>1. /\ truth.costed[b] <= truth.priced[b]
                  /\ pool.cost # Unknown => truth.costed[b] + pool.quantity <= truth.priced[b]
                BY <1>5, <2>1, <2>2, <3>3
            <4>2. /\ pools'[a].cost # Unknown <=> pool.cost # Unknown
                  /\ pools'[a].quantity = pool.quantity - sold
                BY <1>11, <1>13, <1>25, <2>2, <3>3
            <4>3. basis # Unknown => pool.cost # Unknown
                BY <1>13, <1>21, <3>3
            <4>4. sold \in Nat /\ sold <= pool.quantity
                BY <1>4, <1>5, <1>10, <1>11, <3>3
            <4>5. known <= truth.priced[b]
                BY <1>4, <1>5, <1>22, <4>1, <4>3, <4>4
            <4>6. pool.cost # Unknown =>
                      known + (pool.quantity - sold) <= truth.priced[b]
                BY <1>4, <1>5, <1>22, <4>1, <4>4
            <4>. QED
                BY <2>2, <3>1, <3>3, <4>2, <4>5, <4>6
        <3>. QED
            BY <3>2, <3>3
    <2>3. CASE a # b
        BY <1>6, <1>16, <1>24, <1>25, <2>1, <2>3
    <2>. QED
        BY <2>2, <2>3
<1>. QED
    BY <1>27, <1>29, <1>30, <1>31, <1>32 DEF IInv

-----------------------------------------------------------------------------
(* The invariant and what follows from it. *)

LEMMA Begins == Init => IInv
<1> SUFFICES ASSUME Init PROVE IInv
    OBVIOUS
<1>1. /\ method \in Methods /\ currency = NoCurrency /\ last = 0
      /\ ledgers = [a \in Assets |-> EmptyLedger] /\ pools = [a \in Assets |-> NoPool]
      /\ scales = [a \in Assets |-> 0]
      /\ truth = [booked |-> 0, paid |-> Q(0), got |-> Q(0), units |-> [a \in Assets |-> 0],
                  priced |-> [a \in Assets |-> 0], costed |-> [a \in Assets |-> 0]]
    BY DEF Init
<1>2. Q(0) \in Amount
    BY ZeroIsAmount, 0 \in Int
<1>3. EmptyLedger \in Ledgers /\ EmptyLedger.lots = << >> /\ EmptyLedger.seq = [t \in Txs |-> 0]
    BY DEF EmptyLedger, Ledgers
<1>4. /\ NoPool \in Pools /\ NoPool.quantity = 0 /\ NoPool.currency = NoCurrency
    BY <1>2 DEF NoPool, Pools, Costs
<1>5. 0 \in 0..MaxEvents
    BY Bounds
<1>6. truth \in Books
    BY <1>1, <1>2, <1>5 DEF Books
<1>7. \A a \in Assets : /\ ledgers[a] = EmptyLedger /\ pools[a] = NoPool
                        /\ truth.units[a] = 0 /\ truth.priced[a] = 0 /\ truth.costed[a] = 0
    BY <1>1
<1>8. /\ ledgers \in [Assets -> Ledgers] /\ pools \in [Assets -> Pools]
      /\ scales \in [Assets -> Scales \cup {0}]
    BY <1>1, <1>3, <1>4
<1>9. Shapes
    BY <1>1, <1>6, <1>8 DEF Shapes
<1>10. LedgersKept
    <2>1. truth.booked = 0
        BY <1>1
    <2>2. \A t \in Txs : EmptyLedger.seq[t] = 0
        BY <1>3
    <2>. QED
        BY <1>3, <1>7, <2>1, <2>2 DEF LedgersKept, Ordinals, OldestUsed
<1>11. PoolsKept
    BY <1>1, <1>7 DEF PoolsKept
<1>12. \A g : Weighs(g, << >>) = 0
    BY WeighNone
<1>13. Counted
    BY <1>3, <1>4, <1>7, <1>12 DEF Counted
<1>14. Covered
    BY <1>3, <1>4, <1>7, <1>12 DEF Covered
<1>. QED
    BY <1>9, <1>10, <1>11, <1>13, <1>14 DEF IInv

LEMMA Stays == IInv /\ [Next]_vars => IInv'
<1> SUFFICES ASSUME IInv, [Next]_vars PROVE IInv'
    OBVIOUS
<1>1. CASE Next
    <2>1. PICK e \in Events :
              Acquire(e) \/ Dispose(e) \/ RefuseCurrency(e) \/ RefuseScale(e)
        BY <1>1 DEF Next
    <2>. QED
        BY <2>1, Acquires, Disposes, RefusesCurrency, RefusesScale
<1>2. CASE UNCHANGED vars
    <2>1. UNCHANGED <<method, currency, last, ledgers, pools, scales, truth>>
        BY <1>2 DEF vars
    <2>2. Shapes'
        BY <2>1 DEF IInv, Shapes
    <2>3. LedgersKept' /\ PoolsKept' /\ Counted' /\ Covered'
        BY <2>1 DEF IInv, LedgersKept, PoolsKept, Counted, Covered
    <2>. QED
        BY <2>2, <2>3 DEF IInv
<1>. QED
    BY <1>1, <1>2

(* Every state of a replay, after any events taken or refused, keeps its   *)
(* lots, pools and balances in step (process).                             *)
THEOREM Replays == Spec => []IInv
<1>. QED
    BY Begins, Stays, PTL DEF Spec

(* A replay's state keeps its types: no lot holds more than it was bought  *)
(* with, and its basis is known exactly when its cost was (Lot, AcbPool).  *)
THEOREM TypeCorrect == Spec => []TypeOK
<1>1. IInv => TypeOK
    <2> SUFFICES ASSUME IInv PROVE TypeOK
        OBVIOUS
    <2>1. /\ method \in Methods /\ currency \in Currencies \cup {NoCurrency}
          /\ last \in Times \cup {0} /\ scales \in [Assets -> Scales \cup {0}]
          /\ \A a \in Assets : ledgers[a] \in Ledgers /\ pools[a] \in Pools
          /\ truth.booked \in 0..MaxEvents
        BY BooksTyped DEF IInv, Shapes
    <2>2. ASSUME NEW a \in Assets
          PROVE  /\ ledgers[a].decimals \in Scales \cup {NoScale}
                 /\ ledgers[a].seq \in [Txs -> 0..MaxEvents]
                 /\ pools[a].currency \in Currencies \cup {NoCurrency}
                 /\ pools[a].quantity \in Nat
                 /\ pools[a].cost = Unknown \/ pools[a].cost \in Amount
        <3>1. /\ ledgers[a].decimals \in Scales \cup {NoScale}
              /\ ledgers[a].seq \in [Txs -> Nat]
            BY <2>1 DEF Ledgers
        <3>2. \A t \in Txs : ledgers[a].seq[t] <= truth.booked
            BY DEF IInv, LedgersKept, Ordinals
        <3>3. ledgers[a].seq \in [Txs -> 0..MaxEvents]
            BY <2>1, <3>1, <3>2, Bounds
        <3>. QED
            BY <2>1, <3>1, <3>3, PoolType DEF Costs
    <2>3. ASSUME NEW a \in Assets, NEW i \in DOMAIN ledgers[a].lots
          PROVE  /\ ledgers[a].lots[i].remaining \in 0 .. ledgers[a].lots[i].original
                 /\ ledgers[a].lots[i].cost_total = Unknown
                        <=> ledgers[a].lots[i].cost_remaining = Unknown
        <3>1. ledgers[a].lots[i] \in Lots
            BY <2>1, Indexes DEF Ledgers
        <3>2. LotKept(ledgers[a].lots[i], last)
            BY DEF IInv, LedgersKept
        <3>. QED
            BY <3>1, <3>2, LotsType DEF LotKept
    <2>. QED
        BY <2>1, <2>2, <2>3 DEF TypeOK
<1>. QED
    BY <1>1, Replays, PTL

LEMMA CountsAgree == IInv => BooksAgree
<1> SUFFICES ASSUME IInv PROVE BooksAgree
    OBVIOUS
<1>1. LotIdsDiffer
    BY DEF IInv, LedgersKept, Ordinals, LotIdsDiffer
<1>2. ASSUME NEW a \in Assets
      PROVE  Held(a) = truth.units[a] /\ (method = "acb" => pools[a].quantity = truth.units[a])
    <2> DEFINE lots == OpenLots(ledgers[a])
    <2>1. ledgers[a] \in Ledgers
        BY DEF IInv, Shapes
    <2>2. lots \in Seq(Lots) /\ Weighs(AllUnits, lots) = Weighs(AllUnits, ledgers[a].lots)
        BY <2>1, OpenLotsAre, WeightsAre
    <2>3. /\ Weighs(AllUnits, ledgers[a].lots) = truth.units[a]
          /\ method = "acb" => pools[a].quantity = truth.units[a]
        BY DEF IInv, Counted
    <2>4. Held(a) = Units(lots, DOMAIN lots)
        BY DEF Held
    <2> HIDE DEF lots
    <2>5. \A i \in DOMAIN lots : AllUnits[lots[i]] = lots[i].remaining
        BY <2>2, Indexes, WeightsAre
    <2>6. [i \in DOMAIN lots |-> AllUnits[lots[i]]]
              = [i \in DOMAIN lots |-> lots[i].remaining]
        BY <2>5
    <2>7. Units(lots, DOMAIN lots) = Weighs(AllUnits, lots)
        BY <2>6 DEF Units, Weighs
    <2>. QED
        BY <2>2, <2>3, <2>4, <2>7
<1>. QED
    BY <1>1, <1>2 DEF BooksAgree

(* A ledger's lots, a pool and a plain balance count the same units, after *)
(* any events, also refused ones, and a lot's id is no other's (process,   *)
(* consume, acquire, dispose, open_lot).                                   *)
THEOREM BooksAlwaysAgree == Spec => []BooksAgree
BY CountsAgree, Replays, PTL

(* No more units are sold at a known cost than were acquired at one, under *)
(* any method: what has no price never gets one from its neighbours (the   *)
(* None of consume's cost basis, the poisoned pool of acb).                *)
THEOREM KnownCostsArePaid == Spec => []KnownCostsWerePaid
<1>1. IInv => KnownCostsWerePaid
    BY DEF IInv, Covered, KnownCostsWerePaid
<1>. QED
    BY <1>1, Replays, PTL

(* FIFO never touches a lot while an older one has units (fifo.select,     *)
(* _walk, and the watermark that refuses events of the past).              *)
THEOREM OldestAlwaysFirst == Spec => []OldestGoFirst
<1>1. IInv => OldestGoFirst
    BY DEF IInv, LedgersKept, OldestUsed, OldestGoFirst
<1>. QED
    BY <1>1, Replays, PTL

-----------------------------------------------------------------------------
(* Reduced fractions.  A fraction in lowest terms has the least of all the *)
(* denominators of its value: so it is one for each value, and equations   *)
(* between amounts are equations between their cross products.             *)

Rat == {x \in Amount : Reduced(x[1], x[2]) = x}

Denominators(n, d) == {b \in Nat \ {0} : \E a \in Int : a * d = n * b}

IsLeast(a, b, n, d) == a * d = n * b /\ \A c \in Denominators(n, d) : b <= c

DividesAll(a, b, n, d) ==
    \A x \in Int, y \in Nat \ {0} :
        x * d = n * y => \E q \in Nat \ {0} : x = q * a /\ y = q * b

(* The least of them divides all of them. *)
LEMMA LeastDivides ==
    ASSUME NEW n \in Int, NEW d \in Nat \ {0},
           NEW a \in Int, NEW b \in Nat \ {0}, IsLeast(a, b, n, d)
    PROVE  DividesAll(a, b, n, d)
<1> SUFFICES ASSUME NEW x \in Int, NEW y \in Nat \ {0}, x * d = n * y
             PROVE  \E q \in Nat \ {0} : x = q * a /\ y = q * b
    BY DEF DividesAll
<1> DEFINE q == y \div b
           r == y % b
<1>0. a * d = n * b /\ \A c \in Denominators(n, d) : b <= c
    BY DEF IsLeast
<1>1. q \in Nat /\ r \in 0 .. b - 1 /\ y = q * b + r
    BY Divides
<1>. HIDE DEF q, r
<1>2. (x - q * a) * d = n * r
    <2>1. (x - q * a) * d = x * d - q * (a * d)
        BY <1>1
    <2>2. n * r = n * y - q * (n * b)
        BY <1>1
    <2>. QED
        BY <1>0, <2>1, <2>2
<1>3. r = 0
    <2> SUFFICES ASSUME r # 0 PROVE FALSE
        OBVIOUS
    <2>1. r \in Nat \ {0} /\ x - q * a \in Int
        BY <1>1
    <2>2. r \in Denominators(n, d)
        BY <1>2, <2>1 DEF Denominators
    <2>. QED
        BY <1>0, <1>1, <2>2
<1>4. y = q * b /\ q # 0
    BY <1>1, <1>3
<1>5. (x - q * a) * d = 0
    BY <1>2, <1>3
<1>6. x - q * a = 0
    <2> DEFINE z == x - q * a
    <2>1. z \in Int /\ z * d = 0
        BY <1>1, <1>5
    <2>. HIDE DEF z
    <2>2. z = 0
        BY <2>1
    <2>. QED
        BY <2>2 DEF z
<1>. QED
    BY <1>1, <1>4, <1>6

LEMMA WholeParts ==
    ASSUME NEW k \in Nat \ {0}, NEW m \in Int
    PROVE  (k * m) % k = 0 /\ (k * m) \div k = m
<1> DEFINE p == k * m
           q == p \div k
           r == p % k
<1>1. q \in Int /\ r \in 0 .. k - 1 /\ p = k * q + r
    OBVIOUS
<1>. HIDE DEF q, r
<1>2. k * (m - q) = r
    BY <1>1
<1>3. m - q = 0
    <2> DEFINE z == m - q
    <2>1. z \in Int /\ k * z = r
        BY <1>1, <1>2
    <2>. HIDE DEF z
    <2>2. ~(z >= 1)
        <3> SUFFICES ASSUME z >= 1 PROVE FALSE
            OBVIOUS
        <3>1. k * z >= k * 1
            BY <2>1
        <3>. QED
            BY <1>1, <2>1, <3>1
    <2>3. ~(z <= -1)
        <3> SUFFICES ASSUME z <= -1 PROVE FALSE
            OBVIOUS
        <3>1. k * z <= k * (-1)
            BY <2>1
        <3>2. k * (-1) = -k
            OBVIOUS
        <3>. QED
            BY <1>1, <2>1, <3>1, <3>2
    <2>. QED
        BY <2>1, <2>2, <2>3 DEF z
<1>. QED
    BY <1>1, <1>2, <1>3 DEF q, r

LEMMA Multiple ==
    ASSUME NEW k \in Nat \ {0}, NEW p \in Int, p % k = 0
    PROVE  p = k * (p \div k) /\ p \div k \in Int
<1>1. p \div k \in Int /\ p = k * (p \div k) + (p % k)
    OBVIOUS
<1>. QED
    BY <1>1

(* Reduced gives the value, with the least denominator. *)
LEMMA Lowest ==
    ASSUME NEW n \in Int, NEW d \in Nat \ {0}
    PROVE  /\ Reduced(n, d)[1] * d = n * Reduced(n, d)[2]
           /\ \A c \in Denominators(n, d) : Reduced(n, d)[2] <= c
<1> DEFINE D == Denominators(n, d)
           common == {k \in 1..d : d % k = 0 /\ n % k = 0}
<1>1. D \subseteq Nat /\ d \in D
    BY DEF Denominators
<1>2. PICK b \in D : \A c \in D : b <= c
    <2>. HIDE DEF D
    <2>. QED
        BY <1>1, LeastNatural
<1>3. PICK a \in Int : a * d = n * b
    BY <1>2 DEF Denominators
<1>4. b \in Nat \ {0}
    BY <1>2 DEF Denominators
<1>5. PICK k \in Nat \ {0} : n = k * a /\ d = k * b
    <2>1. IsLeast(a, b, n, d)
        BY <1>2, <1>3 DEF IsLeast
    <2>2. DividesAll(a, b, n, d)
        BY <1>4, <2>1, LeastDivides
    <2>3. n \in Int /\ d \in Nat \ {0} /\ n * d = n * d
        OBVIOUS
    <2>4. n * d = n * d => \E q \in Nat \ {0} : n = q * a /\ d = q * b
        BY <2>2, <2>3 DEF DividesAll
    <2>. QED
        BY <2>4
<1>6. k \in common
    <2>1. (k * b) % k = 0 /\ (k * a) % k = 0
        BY <1>3, <1>4, WholeParts
    <2>2. k * b >= k * 1
        BY <1>4
    <2>3. d % k = 0 /\ n % k = 0 /\ k \in 1..d
        BY <1>4, <1>5, <2>1, <2>2
    <2>. QED
        BY <2>3
<1>7. ASSUME NEW c \in common PROVE k >= c
    <2> DEFINE y == d \div c
               x == n \div c
    <2>1. /\ c \in Nat \ {0} /\ d = c * y /\ n = c * x /\ x \in Int /\ y \in Int
        BY Multiple
    <2>. HIDE DEF x, y
    <2>2. x * d = n * y
        <3>1. x * (c * y) = (c * x) * y
            BY <2>1
        <3>. QED
            BY <2>1, <3>1
    <2>3. y \in Nat \ {0}
        <3> SUFFICES ASSUME y <= 0 PROVE FALSE
            BY <2>1
        <3>1. c * y <= c * 0
            BY <2>1
        <3>. QED
            BY <2>1, <3>1
    <2>4. y \in D
        BY <2>1, <2>2, <2>3 DEF Denominators
    <2>5. b <= y
        BY <1>2, <2>4
    <2>6. ~(c > k)
        <3> SUFFICES ASSUME c >= k + 1 PROVE FALSE
            BY <2>1
        <3>1. c * y >= (k + 1) * y
            BY <2>1, <2>3
        <3>2. (k + 1) * y >= (k + 1) * b
            BY <1>4, <2>3, <2>5
        <3>3. (k + 1) * b = k * b + b
            BY <1>4
        <3>. QED
            BY <1>4, <1>5, <2>1, <2>3, <3>1, <3>2, <3>3
    <2>. QED
        BY <2>1, <2>6
<1>8. Max(common) = k
    <2>1. \A c \in common : c \in Int
        OBVIOUS
    <2>. HIDE DEF common
    <2>2. Max(common) \in common /\ \A c \in common : Max(common) >= c
        BY <1>6, <1>7, Zenon DEF Max
    <2>3. Max(common) >= k /\ k >= Max(common)
        BY <1>6, <1>7, <2>2
    <2>. QED
        BY <2>1, <2>2, <2>3
<1>9. Reduced(n, d) = <<n \div k, d \div k>>
    BY <1>8 DEF Reduced
<1>10. n \div k = a /\ d \div k = b
    <2>1. (k * a) \div k = a /\ (k * b) \div k = b
        BY <1>3, <1>4, WholeParts
    <2>. QED
        BY <1>5, <2>1
<1>11. Reduced(n, d)[1] = a /\ Reduced(n, d)[2] = b
    BY <1>9, <1>10
<1>. QED
    BY <1>2, <1>3, <1>11

LEMMA Cancels ==
    ASSUME NEW d \in Nat \ {0}, NEW x \in Int, NEW y \in Int, x * d = y * d
    PROVE  x = y
<1>1. (x - y) * d = 0
    OBVIOUS
<1>. QED
    BY <1>1

(* Equal values reduce to one fraction. *)
LEMMA ReducedSame ==
    ASSUME NEW n \in Int, NEW d \in Nat \ {0}, NEW m \in Int, NEW e \in Nat \ {0},
           n * e = m * d
    PROVE  Reduced(n, d) = Reduced(m, e)
<1> DEFINE x == Reduced(n, d)
           y == Reduced(m, e)
<1>1. /\ x \in Amount /\ x[1] * d = n * x[2] /\ \A c \in Denominators(n, d) : x[2] <= c
      /\ y \in Amount /\ y[1] * e = m * y[2] /\ \A c \in Denominators(m, e) : y[2] <= c
    BY Lowest, ReducedIsAmount
<1>. HIDE DEF x, y
<1>2. /\ x[1] \in Int /\ x[2] \in Nat \ {0} /\ y[1] \in Int /\ y[2] \in Nat \ {0}
      /\ x = <<x[1], x[2]>> /\ y = <<y[1], y[2]>>
    BY <1>1, AmountParts DEF Amount
<1> DEFINE a == x[1]
           b == x[2]
           f == y[1]
           g == y[2]
<1>3. /\ a \in Int /\ b \in Nat \ {0} /\ f \in Int /\ g \in Nat \ {0}
      /\ a * d = n * b /\ f * e = m * g
    BY <1>1, <1>2
<1>. HIDE DEF a, b, f, g
<1>4. a * e = m * b
    <2>1. (a * e) * d = (a * d) * e /\ (n * b) * e = (n * e) * b /\ (m * d) * b = (m * b) * d
        BY <1>3
    <2>2. (a * e) * d = (m * b) * d
        BY <1>3, <2>1
    <2>3. a * e \in Int /\ m * b \in Int
        BY <1>3
    <2>. QED
        BY <2>2, <2>3, Cancels
<1>5. f * d = n * g
    <2>1. (f * d) * e = (f * e) * d /\ (m * g) * d = (m * d) * g /\ (n * e) * g = (n * g) * e
        BY <1>3
    <2>2. (f * d) * e = (n * g) * e
        BY <1>3, <2>1
    <2>3. f * d \in Int /\ n * g \in Int
        BY <1>3
    <2>. QED
        BY <2>2, <2>3, Cancels
<1>6. b \in Denominators(m, e) /\ g \in Denominators(n, d)
    BY <1>3, <1>4, <1>5 DEF Denominators
<1>7. b = g
    <2>1. b <= g /\ g <= b
        BY <1>1, <1>6 DEF b, g
    <2>. QED
        BY <1>3, <2>1
<1>8. a = f
    <2>1. a * d = f * d
        BY <1>3, <1>5, <1>7
    <2>. QED
        BY <1>3, <2>1, Cancels
<1>. QED
    BY <1>2, <1>7, <1>8 DEF a, b, f, g, x, y

LEMMA ReducedRat ==
    ASSUME NEW n \in Int, NEW d \in Nat \ {0}
    PROVE  /\ Reduced(n, d) \in Rat
           /\ Reduced(n, d)[1] * d = n * Reduced(n, d)[2]
<1> DEFINE x == Reduced(n, d)
<1>1. x \in Amount /\ x[1] * d = n * x[2]
    BY Lowest, ReducedIsAmount
<1>2. x[1] \in Int /\ x[2] \in Nat \ {0}
    BY <1>1, AmountParts
<1>3. Reduced(x[1], x[2]) = x
    <2>. HIDE DEF x
    <2>1. Reduced(x[1], x[2]) = Reduced(n, d)
        BY <1>1, <1>2, ReducedSame
    <2>. QED
        BY <2>1 DEF x
<1>. QED
    BY <1>1, <1>3 DEF Rat

LEMMA RatParts ==
    ASSUME NEW x \in Rat
    PROVE  /\ x \in Amount /\ x # Unknown /\ x[1] \in Int /\ x[2] \in Nat \ {0}
           /\ Reduced(x[1], x[2]) = x
BY AmountParts DEF Rat

(* What the operations do to reduced fractions. *)
LEMMA Adds ==
    ASSUME NEW n \in Int, NEW d \in Nat \ {0}, NEW m \in Int, NEW e \in Nat \ {0}
    PROVE  /\ Plus(Reduced(n, d), Reduced(m, e)) = Reduced(n * e + m * d, d * e)
           /\ Minus(Reduced(n, d), Reduced(m, e)) = Reduced(n * e - m * d, d * e)
<1> DEFINE x == Reduced(n, d)
           y == Reduced(m, e)
           a == x[1]
           b == x[2]
           f == y[1]
           g == y[2]
<1>1. /\ a \in Int /\ b \in Nat \ {0} /\ f \in Int /\ g \in Nat \ {0}
      /\ a * d = n * b /\ f * e = m * g
    BY ReducedRat, RatParts
<1>2. /\ Plus(x, y) = Reduced(a * g + f * b, b * g)
      /\ Minus(x, y) = Reduced(a * g - f * b, b * g)
    BY DEF Plus, Minus
<1>. HIDE DEF a, b, f, g, x, y
<1>3. /\ (a * g) * (d * e) = (n * e) * (b * g)
      /\ (f * b) * (d * e) = (m * d) * (b * g)
    <2>1. /\ (a * g) * (d * e) = (a * d) * (g * e)
          /\ (n * b) * (g * e) = (n * e) * (b * g)
          /\ (f * b) * (d * e) = (f * e) * (b * d)
          /\ (m * g) * (b * d) = (m * d) * (b * g)
        BY <1>1
    <2>. QED
        BY <1>1, <2>1
<1> DEFINE ag == a * g
           fb == f * b
           de == d * e
           ne == n * e
           md == m * d
           bg == b * g
<1>4. /\ ag \in Int /\ fb \in Int /\ ne \in Int /\ md \in Int
      /\ de \in Nat \ {0} /\ bg \in Nat \ {0}
      /\ ag * de = ne * bg /\ fb * de = md * bg
    BY <1>1, <1>3
<1>. HIDE DEF ag, fb, de, ne, md, bg
<1>5. (ag + fb) * de = (ne + md) * bg /\ (ag - fb) * de = (ne - md) * bg
    BY <1>4
<1>6. ag + fb \in Int /\ ne + md \in Int /\ ag - fb \in Int /\ ne - md \in Int
    BY <1>4
<1>7. Reduced(ag + fb, bg) = Reduced(ne + md, de) /\ Reduced(ag - fb, bg) = Reduced(ne - md, de)
    BY <1>4, <1>5, <1>6, ReducedSame
<1>. QED
    BY <1>2, <1>7 DEF ag, fb, de, ne, md, bg, x, y

LEMMA Shares ==
    ASSUME NEW n \in Int, NEW d \in Nat \ {0}, NEW t \in Nat, NEW w \in Nat \ {0}
    PROVE  Share(Reduced(n, d), t, w) = Reduced(n * t, d * w)
<1> DEFINE x == Reduced(n, d)
           a == x[1]
           b == x[2]
<1>1. /\ a \in Int /\ b \in Nat \ {0} /\ a * d = n * b
    BY ReducedRat, RatParts
<1>2. Share(x, t, w) = Reduced(a * t, b * w)
    BY DEF Share
<1>. HIDE DEF a, b, x
<1>3. (a * t) * (d * w) = (n * t) * (b * w)
    <2>1. /\ (a * t) * (d * w) = (a * d) * (t * w)
          /\ (n * t) * (b * w) = (n * b) * (t * w)
        BY <1>1
    <2>. QED
        BY <1>1, <2>1
<1>4. a * t \in Int /\ n * t \in Int /\ b * w \in Nat \ {0} /\ d * w \in Nat \ {0}
    BY <1>1
<1>5. Reduced(a * t, b * w) = Reduced(n * t, d * w)
    BY <1>3, <1>4, ReducedSame
<1>. QED
    BY <1>2, <1>5 DEF x

LEMMA RatType ==
    ASSUME NEW x \in Rat, NEW y \in Rat, NEW t \in Nat, NEW w \in Nat \ {0}
    PROVE  Plus(x, y) \in Rat /\ Minus(x, y) \in Rat /\ Share(x, t, w) \in Rat
<1>1. x[1] \in Int /\ x[2] \in Nat \ {0} /\ y[1] \in Int /\ y[2] \in Nat \ {0}
    BY RatParts
<1>2. /\ x[1] * y[2] + y[1] * x[2] \in Int /\ x[1] * y[2] - y[1] * x[2] \in Int
      /\ x[2] * y[2] \in Nat \ {0} /\ x[1] * t \in Int /\ x[2] * w \in Nat \ {0}
    BY <1>1
<1>. QED
    BY <1>2, ReducedRat DEF Plus, Minus, Share

LEMMA WholeRat ==
    ASSUME NEW n \in Int
    PROVE  Q(n) \in Rat /\ Reduced(n, 1) = Q(n)
<1> DEFINE x == Reduced(n, 1)
<1>1. x \in Amount /\ x[1] * 1 = n * x[2] /\ \A c \in Denominators(n, 1) : x[2] <= c
    BY Lowest, ReducedIsAmount
<1>2. 1 \in Denominators(n, 1)
    BY DEF Denominators
<1>. HIDE DEF x
<1>3. x[1] \in Int /\ x[2] \in Nat \ {0} /\ x = <<x[1], x[2]>>
    BY <1>1, AmountParts DEF Amount
<1>4. x[2] = 1
    BY <1>1, <1>2, <1>3
<1>5. x[1] = n
    BY <1>1, <1>3, <1>4
<1>6. x = Q(n)
    BY <1>3, <1>4, <1>5 DEF Q
<1>7. Q(n)[1] = n /\ Q(n)[2] = 1
    BY DEF Q
<1>. QED
    BY <1>6, <1>7, ZeroIsAmount DEF Rat, x

LEMMA PlusSwaps ==
    ASSUME NEW x \in Rat, NEW y \in Rat
    PROVE  Plus(x, y) = Plus(y, x)
<1>1. x[1] \in Int /\ x[2] \in Nat \ {0} /\ y[1] \in Int /\ y[2] \in Nat \ {0}
    BY RatParts
<1>2. x[1] * y[2] + y[1] * x[2] = y[1] * x[2] + x[1] * y[2] /\ x[2] * y[2] = y[2] * x[2]
    BY <1>1
<1>. QED
    BY <1>2 DEF Plus

LEMMA PlusJoins ==
    ASSUME NEW x \in Rat, NEW y \in Rat, NEW z \in Rat
    PROVE  Plus(Plus(x, y), z) = Plus(x, Plus(y, z))
<1> DEFINE a == x[1]
           b == x[2]
           c == y[1]
           d == y[2]
           e == z[1]
           f == z[2]
<1>1. /\ a \in Int /\ b \in Nat \ {0} /\ c \in Int /\ d \in Nat \ {0}
      /\ e \in Int /\ f \in Nat \ {0}
      /\ Reduced(a, b) = x /\ Reduced(e, f) = z
      /\ Plus(x, y) = Reduced(a * d + c * b, b * d)
      /\ Plus(y, z) = Reduced(c * f + e * d, d * f)
    BY RatParts DEF Plus
<1>. HIDE DEF a, b, c, d, e, f
<1> DEFINE n == a * d + c * b
           m == c * f + e * d
           bd == b * d
           df == d * f
<1>2. n \in Int /\ m \in Int /\ bd \in Nat \ {0} /\ df \in Nat \ {0}
    BY <1>1
<1>3. n * f + e * bd = a * df + m * b /\ bd * f = b * df
    <2>1. (a * d + c * b) * f = a * d * f + c * b * f
        BY <1>1
    <2>2. (c * f + e * d) * b = c * b * f + e * (b * d)
        BY <1>1
    <2>. QED
        BY <1>1, <2>1, <2>2
<1>. HIDE DEF n, m, bd, df
<1>4. Plus(Reduced(n, bd), Reduced(e, f)) = Reduced(n * f + e * bd, bd * f)
    BY <1>1, <1>2, Adds
<1>5. Plus(Reduced(a, b), Reduced(m, df)) = Reduced(a * df + m * b, b * df)
    BY <1>1, <1>2, Adds
<1>. QED
    BY <1>1, <1>3, <1>4, <1>5 DEF n, m, bd, df

LEMMA PlusZero ==
    ASSUME NEW x \in Rat
    PROVE  Plus(Q(0), x) = x /\ Plus(x, Q(0)) = x
<1>1. x[1] \in Int /\ x[2] \in Nat \ {0} /\ Reduced(x[1], x[2]) = x
    BY RatParts
<1>2. Q(0)[1] = 0 /\ Q(0)[2] = 1
    BY DEF Q
<1>3. 0 * x[2] + x[1] * 1 = x[1] /\ 1 * x[2] = x[2]
    BY <1>1
<1>4. Plus(Q(0), x) = x
    BY <1>1, <1>2, <1>3 DEF Plus
<1>. QED
    BY <1>4, WholeRat, PlusSwaps, 0 \in Int

(* Addition and subtraction undo each other. *)
LEMMA MinusUndoes ==
    ASSUME NEW x \in Rat, NEW y \in Rat
    PROVE  Plus(Minus(x, y), y) = x /\ Minus(Plus(x, y), y) = x
<1> DEFINE a == x[1]
           b == x[2]
           c == y[1]
           d == y[2]
<1>1. /\ a \in Int /\ b \in Nat \ {0} /\ c \in Int /\ d \in Nat \ {0}
      /\ Reduced(a, b) = x /\ Reduced(c, d) = y
      /\ Plus(x, y) = Reduced(a * d + c * b, b * d)
      /\ Minus(x, y) = Reduced(a * d - c * b, b * d)
    BY RatParts DEF Plus, Minus
<1>. HIDE DEF a, b, c, d
<1> DEFINE n == a * d + c * b
           m == a * d - c * b
           bd == b * d
<1>2. n \in Int /\ m \in Int /\ bd \in Nat \ {0}
    BY <1>1
<1>3. (m * d + c * bd) * b = a * (bd * d) /\ (n * d - c * bd) * b = a * (bd * d)
    <2>1. (a * d - c * b) * d + c * (b * d) = a * d * d
        BY <1>1
    <2>2. (a * d + c * b) * d - c * (b * d) = a * d * d
        BY <1>1
    <2>3. (a * d * d) * b = a * (b * d * d)
        BY <1>1
    <2>. QED
        BY <1>1, <2>1, <2>2, <2>3
<1>4. /\ m * d + c * bd \in Int /\ n * d - c * bd \in Int /\ bd * d \in Nat \ {0}
    BY <1>1, <1>2
<1>. HIDE DEF n, m, bd
<1>5. Plus(Reduced(m, bd), Reduced(c, d)) = Reduced(m * d + c * bd, bd * d)
    BY <1>1, <1>2, Adds
<1>6. Minus(Reduced(n, bd), Reduced(c, d)) = Reduced(n * d - c * bd, bd * d)
    BY <1>1, <1>2, Adds
<1>7. /\ Reduced(m * d + c * bd, bd * d) = Reduced(a, b)
      /\ Reduced(n * d - c * bd, bd * d) = Reduced(a, b)
    BY <1>1, <1>3, <1>4, ReducedSame
<1>. QED
    BY <1>1, <1>5, <1>6, <1>7 DEF n, m, bd

LEMMA PlusTrades ==
    ASSUME NEW b \in Rat, NEW c \in Rat, NEW d \in Rat
    PROVE  Plus(b, Plus(c, d)) = Plus(c, Plus(b, d))
<1>1. Plus(b, Plus(c, d)) = Plus(Plus(b, c), d)
    BY PlusJoins
<1>2. Plus(b, c) = Plus(c, b)
    BY PlusSwaps
<1>3. Plus(Plus(c, b), d) = Plus(c, Plus(b, d))
    BY PlusJoins
<1>. QED
    BY <1>1, <1>2, <1>3

LEMMA PlusInterchange ==
    ASSUME NEW a \in Rat, NEW b \in Rat, NEW c \in Rat, NEW d \in Rat
    PROVE  Plus(Plus(a, b), Plus(c, d)) = Plus(Plus(a, c), Plus(b, d))
<1>1. Plus(c, d) \in Rat /\ Plus(b, d) \in Rat
    BY RatType, 0 \in Nat, 1 \in Nat \ {0}
<1>2. Plus(Plus(a, b), Plus(c, d)) = Plus(a, Plus(b, Plus(c, d)))
    BY <1>1, PlusJoins
<1>3. Plus(b, Plus(c, d)) = Plus(c, Plus(b, d))
    BY PlusTrades
<1>4. Plus(Plus(a, c), Plus(b, d)) = Plus(a, Plus(c, Plus(b, d)))
    BY <1>1, PlusJoins
<1>. QED
    BY <1>2, <1>3, <1>4

LEMMA MinusInterchange ==
    ASSUME NEW a \in Rat, NEW b \in Rat, NEW c \in Rat, NEW d \in Rat
    PROVE  Minus(Plus(a, c), Plus(b, d)) = Plus(Minus(a, b), Minus(c, d))
<1> DEFINE u == Minus(a, b)
           v == Minus(c, d)
<1>1. u \in Rat /\ v \in Rat /\ Plus(u, v) \in Rat /\ Plus(b, d) \in Rat
    BY RatType, 0 \in Nat, 1 \in Nat \ {0}
<1>2. Plus(u, b) = a /\ Plus(v, d) = c
    BY MinusUndoes
<1>. HIDE DEF u, v
<1>3. Plus(Plus(u, b), Plus(v, d)) = Plus(Plus(u, v), Plus(b, d))
    BY <1>1, PlusInterchange
<1>4. Minus(Plus(Plus(u, v), Plus(b, d)), Plus(b, d)) = Plus(u, v)
    BY <1>1, MinusUndoes
<1>. QED
    BY <1>2, <1>3, <1>4 DEF u, v

(* Shares of one amount add up. *)
LEMMA ShareAdds ==
    ASSUME NEW x \in Rat, NEW t \in Nat, NEW r \in Nat, NEW w \in Nat \ {0}
    PROVE  Plus(Share(x, t, w), Share(x, r, w)) = Share(x, t + r, w)
<1> DEFINE a == x[1]
           d == x[2] * w
<1>1. /\ a \in Int /\ d \in Nat \ {0}
      /\ \A s \in Nat : Share(x, s, w) = Reduced(a * s, d)
    BY RatParts DEF Share
<1>. HIDE DEF a, d
<1>2. /\ Share(x, t, w) = Reduced(a * t, d) /\ Share(x, r, w) = Reduced(a * r, d)
      /\ Share(x, t + r, w) = Reduced(a * (t + r), d)
    BY <1>1
<1> DEFINE n == a * t
           m == a * r
           k == a * (t + r)
<1>3. n \in Int /\ m \in Int /\ k \in Int /\ k = n + m
    BY <1>1
<1>. HIDE DEF n, m, k
<1>4. Plus(Reduced(n, d), Reduced(m, d)) = Reduced(n * d + m * d, d * d)
    BY <1>1, <1>3, Adds
<1>5. (n * d + m * d) * d = k * (d * d) /\ n * d + m * d \in Int /\ d * d \in Nat \ {0}
    <2>1. n * d + m * d = k * d
        BY <1>1, <1>3
    <2>2. (k * d) * d = k * (d * d)
        BY <1>1, <1>3
    <2>. QED
        BY <1>1, <1>3, <2>1, <2>2
<1>6. Reduced(n * d + m * d, d * d) = Reduced(k, d)
    BY <1>1, <1>3, <1>5, ReducedSame
<1>. QED
    BY <1>2, <1>4, <1>6 DEF n, m, k

LEMMA ShareEnds ==
    ASSUME NEW x \in Rat, NEW w \in Nat \ {0}
    PROVE  Share(x, 0, w) = Q(0) /\ Share(x, w, w) = x
<1> DEFINE a == x[1]
           b == x[2]
<1>1. /\ a \in Int /\ b \in Nat \ {0} /\ Reduced(a, b) = x
      /\ Share(x, 0, w) = Reduced(a * 0, b * w) /\ Share(x, w, w) = Reduced(a * w, b * w)
    BY RatParts DEF Share
<1>. HIDE DEF a, b
<1>2. /\ a * 0 = 0 /\ a * w \in Int /\ b * w \in Nat \ {0}
      /\ (a * w) * b = a * (b * w) /\ 0 * 1 = 0 * (b * w)
    BY <1>1
<1>3. Reduced(0, b * w) = Reduced(0, 1)
    BY <1>2, ReducedSame, 0 \in Int, 1 \in Nat \ {0}
<1>4. Reduced(a * w, b * w) = Reduced(a, b)
    BY <1>1, <1>2, ReducedSame
<1>. QED
    BY <1>1, <1>2, <1>3, <1>4, WholeRat, 0 \in Int

(* A share counted at another scale. *)
LEMMA ShareAgain ==
    ASSUME NEW x \in Rat, NEW p \in Nat \ {0}, NEW t \in Nat, NEW w \in Nat \ {0}
    PROVE  Share(Share(x, p, w), t, p) = Share(x, t, w)
<1> DEFINE a == x[1]
           b == x[2]
<1>1. /\ a \in Int /\ b \in Nat \ {0}
      /\ Share(x, p, w) = Reduced(a * p, b * w) /\ Share(x, t, w) = Reduced(a * t, b * w)
    BY RatParts DEF Share
<1>. HIDE DEF a, b
<1> DEFINE n == a * p
           d == b * w
<1>2. n \in Int /\ d \in Nat \ {0} /\ n * t \in Int /\ d * p \in Nat \ {0} /\ a * t \in Int
    BY <1>1
<1>3. (n * t) * d = (a * t) * (d * p)
    <2>1. (a * p * t) * (b * w) = (a * t) * (b * w * p)
        BY <1>1
    <2>. QED
        BY <2>1
<1>. HIDE DEF n, d
<1>4. Share(Reduced(n, d), t, p) = Reduced(n * t, d * p)
    BY <1>2, Shares
<1>5. Reduced(n * t, d * p) = Reduced(a * t, d)
    BY <1>2, <1>3, ReducedSame
<1>. QED
    BY <1>1, <1>4, <1>5 DEF n, d

-----------------------------------------------------------------------------
(* Totals.  A total is what every order of adding gives, so it takes apart *)
(* as its summands do: the facts about sums of naturals, about fractions.  *)

LEMMA PlusLaws ==
    /\ Q(0) \in Rat
    /\ \A x \in Rat : Plus(Q(0), x) = x /\ Plus(x, Q(0)) = x
    /\ \A x, y \in Rat : Plus(x, y) \in Rat /\ Plus(x, y) = Plus(y, x)
    /\ \A x, y, z \in Rat : Plus(Plus(x, y), z) = Plus(x, Plus(y, z))
<1>1. \A x, y \in Rat : Plus(x, y) \in Rat
    BY RatType, 0 \in Nat, 1 \in Nat \ {0}
<1>. QED
    BY <1>1, WholeRat, PlusZero, PlusSwaps, PlusJoins, 0 \in Int

TotalOver(f, S) == FoldFunctionOnSet(Plus, Q(0), f, S)

LEMMA TotalIs ==
    ASSUME NEW f
    PROVE  Total(f) = TotalOver(f, DOMAIN f)
BY Zenon DEF Total, TotalOver, FoldFunction

(* it is what the definition of a total computes on the subsets in D. *)
Totals(it, f, D) ==
    \A s \in D : it[s] = IF s = {} THEN Q(0) ELSE Plus(f[Chosen(s)], it[s \ {Chosen(s)}])

LEMMA TotalOneMore ==
    ASSUME NEW S, IsFiniteSet(S), NEW f, \A x \in S : f[x] \in Rat, NEW n \in Nat,
           NEW it \in [SmallSubsets(S, n) -> Rat], Totals(it, f, SmallSubsets(S, n))
    PROVE  \E jt \in [SmallSubsets(S, n + 1) -> Rat] : Totals(jt, f, SmallSubsets(S, n + 1))
<1> DEFINE D == SmallSubsets(S, n)
           E == SmallSubsets(S, n + 1)
           next(s) == IF s = {} THEN Q(0) ELSE Plus(f[Chosen(s)], it[s \ {Chosen(s)}])
           jt == [s \in E |-> next(s)]
<1>1. ASSUME NEW s \in E, s # {}
      PROVE  /\ Chosen(s) \in s /\ f[Chosen(s)] \in Rat
             /\ s \ {Chosen(s)} \in D /\ s \ {Chosen(s)} \in E
    <2>1. Chosen(s) \in s
        BY <1>1 DEF Chosen
    <2>2. s \in SUBSET S /\ Cardinality(s) <= n + 1 /\ IsFiniteSet(s)
        BY FS_Subset DEF SmallSubsets
    <2>3. Cardinality(s \ {Chosen(s)}) = Cardinality(s) - 1 /\ Cardinality(s) \in Nat
        BY <2>1, <2>2, Removed
    <2>. QED
        BY <2>1, <2>2, <2>3 DEF SmallSubsets
<1>2. ASSUME NEW s \in E PROVE next(s) \in Rat
    <2>1. CASE s = {}
        BY <2>1, PlusLaws
    <2>2. CASE s # {}
        <3>1. f[Chosen(s)] \in Rat /\ it[s \ {Chosen(s)}] \in Rat
            BY <1>1, <2>2
        <3>. QED
            BY <2>2, <3>1, PlusLaws
    <2>. QED
        BY <2>1, <2>2
<1>3. jt \in [E -> Rat]
    BY <1>2
<1>4. ASSUME NEW s \in D PROVE s \in E /\ jt[s] = it[s]
    <2>1. s \in E
        BY FS_Subset, FS_CardinalityType DEF SmallSubsets
    <2>2. it[s] = next(s)
        BY DEF Totals
    <2>. QED
        BY <2>1, <2>2
<1>5. ASSUME NEW s \in E
      PROVE  jt[s] = IF s = {} THEN Q(0) ELSE Plus(f[Chosen(s)], jt[s \ {Chosen(s)}])
    <2>1. jt[s] = next(s)
        OBVIOUS
    <2>2. CASE s = {}
        BY <2>1, <2>2
    <2>3. CASE s # {}
        <3>1. jt[s \ {Chosen(s)}] = it[s \ {Chosen(s)}]
            BY <1>1, <1>4, <2>3
        <3>. QED
            BY <2>1, <2>3, <3>1
    <2>. QED
        BY <2>2, <2>3
<1> HIDE DEF jt
<1>. QED
    BY <1>3, <1>5 DEF Totals

LEMMA TotalsExist ==
    ASSUME NEW S, IsFiniteSet(S), NEW f, \A x \in S : f[x] \in Rat
    PROVE  \E it \in [SUBSET S -> Rat] : Totals(it, f, SUBSET S)
<1> DEFINE N == Cardinality(S)
           T == {n \in 0 .. N : \E it \in [SmallSubsets(S, n) -> Rat] :
                                    Totals(it, f, SmallSubsets(S, n))}
<1>1. N \in Nat
    BY FS_CardinalityType
<1>2. 0 \in T
    <2>1. \A s \in SmallSubsets(S, 0) : s = {}
        BY FS_Subset, FS_EmptySet, FS_CardinalityType DEF SmallSubsets
    <2>2. [s \in SmallSubsets(S, 0) |-> Q(0)] \in [SmallSubsets(S, 0) -> Rat]
        BY PlusLaws
    <2>3. Totals([s \in SmallSubsets(S, 0) |-> Q(0)], f, SmallSubsets(S, 0))
        BY <2>1 DEF Totals
    <2>4. 0 \in 0 .. N
        BY <1>1
    <2>. QED
        BY <2>2, <2>3, <2>4, Zenon
<1>3. ASSUME NEW n \in 0 .. N - 1, n \in T PROVE n + 1 \in T
    <2>1. n \in Nat /\ n + 1 \in 0 .. N
        BY <1>1
    <2>2. PICK it \in [SmallSubsets(S, n) -> Rat] : Totals(it, f, SmallSubsets(S, n))
        BY <1>3
    <2>3. \E jt \in [SmallSubsets(S, n + 1) -> Rat] : Totals(jt, f, SmallSubsets(S, n + 1))
        BY <2>1, <2>2, TotalOneMore
    <2>. QED
        BY <2>1, <2>3
<1> HIDE DEF T, N
<1>4. N \in T
    <2>1. \A i \in 0 .. N : i \in T
        BY <1>1, <1>2, <1>3, CountingUp
    <2>. QED
        BY <1>1, <2>1
<1>5. SmallSubsets(S, N) = SUBSET S
    <2>1. \A s \in SUBSET S : Cardinality(s) <= N
        BY FS_Subset DEF N
    <2>. QED
        BY <2>1 DEF SmallSubsets
<1>. QED
    BY <1>4, <1>5 DEF T

(* The solution is unique, on the subsets that two of them share.          *)
LEMMA TotalsAgree ==
    ASSUME NEW S, IsFiniteSet(S), NEW f, NEW it, NEW jt, NEW D, NEW E,
           Totals(it, f, D), Totals(jt, f, E), SUBSET S \subseteq D, SUBSET S \subseteq E
    PROVE  it[S] = jt[S]
<1> SUFFICES ASSUME it[S] # jt[S] PROVE FALSE
    OBVIOUS
<1> DEFINE bad == {s \in SUBSET S : it[s] # jt[s]}
<1>1. bad \subseteq SUBSET S /\ bad # {}
    OBVIOUS
<1>2. PICK s \in bad : \A t \in bad : Cardinality(s) <= Cardinality(t)
    <2>. HIDE DEF bad
    <2>. QED
        BY <1>1, SmallestSubset
<1>3. s \in SUBSET S /\ it[s] # jt[s] /\ IsFiniteSet(s) /\ s \in D /\ s \in E
    BY <1>2, FS_Subset
<1>4. /\ it[s] = IF s = {} THEN Q(0) ELSE Plus(f[Chosen(s)], it[s \ {Chosen(s)}])
      /\ jt[s] = IF s = {} THEN Q(0) ELSE Plus(f[Chosen(s)], jt[s \ {Chosen(s)}])
    BY <1>3 DEF Totals
<1>5. s # {} /\ it[s \ {Chosen(s)}] # jt[s \ {Chosen(s)}]
    BY <1>3, <1>4
<1>6. Chosen(s) \in s
    BY <1>5 DEF Chosen
<1>7. Cardinality(s \ {Chosen(s)}) = Cardinality(s) - 1 /\ Cardinality(s) \in Nat
    BY <1>3, <1>6, Removed
<1>8. s \ {Chosen(s)} \in bad
    BY <1>3, <1>5
<1>. QED
    BY <1>2, <1>7, <1>8

TotalIterator(f, S) ==
    CHOOSE it : it = [s \in SUBSET S |-> IF s = {} THEN Q(0)
                                         ELSE LET x == CHOOSE x \in s : TRUE
                                              IN  Plus(f[x], it[s \ {x}])]

LEMMA TotalIterates ==
    ASSUME NEW S, IsFiniteSet(S), NEW f, \A x \in S : f[x] \in Rat
    PROVE  /\ Totals(TotalIterator(f, S), f, SUBSET S)
           /\ TotalOver(f, S) = TotalIterator(f, S)[S]
           /\ TotalOver(f, S) \in Rat
<1>1. PICK it \in [SUBSET S -> Rat] : Totals(it, f, SUBSET S)
    BY TotalsExist
<1>2. it = [s \in SUBSET S |-> IF s = {} THEN Q(0)
                               ELSE LET x == CHOOSE x \in s : TRUE
                                    IN  Plus(f[x], it[s \ {x}])]
    BY <1>1 DEF Totals, Chosen
<1>3. TotalIterator(f, S) = [s \in SUBSET S |->
           IF s = {} THEN Q(0) ELSE LET x == CHOOSE x \in s : TRUE
                                 IN  Plus(f[x], TotalIterator(f, S)[s \ {x}])]
    BY <1>2, Zenon DEF TotalIterator
<1>4. Totals(TotalIterator(f, S), f, SUBSET S)
    BY <1>3 DEF Totals, Chosen
<1>5. TotalIterator(f, S)[S] = it[S]
    BY <1>1, <1>4, TotalsAgree
<1>6. TotalOver(f, S) = TotalIterator(f, S)[S]
    BY Zenon DEF TotalOver, FoldFunctionOnSet, MapThenFoldSet, TotalIterator
<1>. QED
    BY <1>1, <1>4, <1>5, <1>6

LEMMA TotalChosen ==
    ASSUME NEW S, IsFiniteSet(S), NEW f, \A x \in S : f[x] \in Rat, S # {}
    PROVE  /\ Chosen(S) \in S
           /\ TotalOver(f, S) = Plus(f[Chosen(S)], TotalOver(f, S \ {Chosen(S)}))
<1> DEFINE R == S \ {Chosen(S)}
<1>1. Chosen(S) \in S
    BY DEF Chosen
<1>2. IsFiniteSet(R) /\ \A x \in R : f[x] \in Rat
    BY <1>1, Removed
<1>3. /\ Totals(TotalIterator(f, S), f, SUBSET S)
      /\ TotalOver(f, S) = TotalIterator(f, S)[S]
    BY TotalIterates
<1>4. /\ Totals(TotalIterator(f, R), f, SUBSET R)
      /\ TotalOver(f, R) = TotalIterator(f, R)[R]
    BY <1>2, TotalIterates
<1>5. TotalIterator(f, S)[S] = Plus(f[Chosen(S)], TotalIterator(f, S)[R])
    BY <1>3 DEF Totals
<1>6. TotalIterator(f, S)[R] = TotalIterator(f, R)[R]
    <2>1. SUBSET R \subseteq SUBSET S
        OBVIOUS
    <2>. QED
        BY <1>2, <1>3, <1>4, <2>1, TotalsAgree
<1>. QED
    BY <1>1, <1>3, <1>4, <1>5, <1>6

(* What a sum is, whatever the order it is taken in. *)
LEMMA TotalType ==
    ASSUME NEW S, IsFiniteSet(S), NEW f, \A x \in S : f[x] \in Rat
    PROVE  TotalOver(f, S) \in Rat
BY TotalIterates

LEMMA TotalEmpty ==
    ASSUME NEW f
    PROVE  TotalOver(f, {}) = Q(0)
<1>1. IsFiniteSet({}) /\ \A x \in {} : f[x] \in Rat
    BY FS_EmptySet
<1>2. Totals(TotalIterator(f, {}), f, SUBSET {}) /\ TotalOver(f, {}) = TotalIterator(f, {})[{}]
    BY <1>1, TotalIterates
<1>. QED
    BY <1>2 DEF Totals

LEMMA TotalTakes ==
    ASSUME NEW S, IsFiniteSet(S), NEW f, \A x \in S : f[x] \in Rat, NEW y \in S
    PROVE  TotalOver(f, S) = Plus(f[y], TotalOver(f, S \ {y}))
<1> DEFINE Sum(s) == TotalOver(f, s)
           bad == {s \in SUBSET S : \E x \in s : Sum(s) # Plus(f[x], Sum(s \ {x}))}
<1> SUFFICES ASSUME bad # {} PROVE FALSE
    OBVIOUS
<1>1. bad \subseteq SUBSET S
    OBVIOUS
<1>2. PICK s \in bad : \A t \in bad : Cardinality(s) <= Cardinality(t)
    <2>. HIDE DEF bad
    <2>. QED
        BY <1>1, SmallestSubset
<1>3. PICK x \in s : Sum(s) # Plus(f[x], Sum(s \ {x}))
    BY <1>2
<1>4. /\ s \in SUBSET S /\ IsFiniteSet(s) /\ s # {}
      /\ \A z \in s : f[z] \in Rat
    BY <1>2, <1>3, FS_Subset
<1> DEFINE c == Chosen(s)
<1>5. c \in s /\ Sum(s) = Plus(f[c], Sum(s \ {c}))
    BY <1>4, TotalChosen
<1> HIDE DEF c
<1>6. x # c
    BY <1>3, <1>5
<1>7. /\ IsFiniteSet(s \ {c}) /\ Cardinality(s \ {c}) = Cardinality(s) - 1
      /\ IsFiniteSet(s \ {x}) /\ Cardinality(s \ {x}) = Cardinality(s) - 1
      /\ Cardinality(s) \in Nat
    BY <1>4, <1>5, Removed
<1>8. s \ {c} \notin bad /\ s \ {x} \notin bad
    <2>. HIDE DEF bad
    <2>. QED
        BY <1>2, <1>7
<1>9. /\ Sum(s \ {c}) = Plus(f[x], Sum((s \ {c}) \ {x}))
      /\ Sum(s \ {x}) = Plus(f[c], Sum((s \ {x}) \ {c}))
    BY <1>4, <1>5, <1>6, <1>8
<1>10. (s \ {c}) \ {x} = (s \ {x}) \ {c}
    OBVIOUS
<1>11. Sum((s \ {c}) \ {x}) \in Rat
    <2>1. IsFiniteSet((s \ {c}) \ {x})
        BY <1>7, FS_Subset
    <2>. QED
        BY <1>4, <2>1, TotalType
<1>12. f[x] \in Rat /\ f[c] \in Rat
    BY <1>3, <1>4, <1>5
<1> DEFINE rest == Sum((s \ {c}) \ {x})
<1>13. rest \in Rat /\ Sum(s) = Plus(f[c], Plus(f[x], rest))
    BY <1>5, <1>9, <1>11
<1>14. Sum(s \ {x}) = Plus(f[c], rest)
    BY <1>9, <1>10
<1> HIDE DEF Sum, rest
<1>15. Plus(f[c], Plus(f[x], rest)) = Plus(f[x], Plus(f[c], rest))
    BY <1>12, <1>13, PlusTrades
<1>. QED
    BY <1>3, <1>13, <1>14, <1>15

LEMMA TotalAdds ==
    ASSUME NEW S, IsFiniteSet(S), NEW f, \A x \in S : f[x] \in Rat,
           NEW y, y \notin S, f[y] \in Rat
    PROVE  TotalOver(f, S \cup {y}) = Plus(f[y], TotalOver(f, S))
<1> DEFINE U == S \cup {y}
<1>1. IsFiniteSet(U) /\ y \in U /\ U \ {y} = S /\ \A x \in U : f[x] \in Rat
    BY FS_AddElement
<1>. HIDE DEF U
<1>2. TotalOver(f, U) = Plus(f[y], TotalOver(f, U \ {y}))
    BY <1>1, TotalTakes
<1>. QED
    BY <1>1, <1>2 DEF U

IsPointwiseTotal(h, f, g, S) ==
    \A x \in S : f[x] \in Rat /\ g[x] \in Rat /\ h[x] = Plus(f[x], g[x])

(* A pointwise sum sums to the sum of the sums. *)
LEMMA TotalPlus ==
    ASSUME NEW S, IsFiniteSet(S), NEW f, NEW g, NEW h, IsPointwiseTotal(h, f, g, S)
    PROVE  TotalOver(h, S) = Plus(TotalOver(f, S), TotalOver(g, S))
<1> DEFINE P == {s \in SUBSET S : TotalOver(h, s)
                                      = Plus(TotalOver(f, s), TotalOver(g, s))}
<1>0. \A x \in S : f[x] \in Rat /\ g[x] \in Rat /\ h[x] = Plus(f[x], g[x])
    BY DEF IsPointwiseTotal
<1>1. {} \in P
    BY TotalEmpty, PlusLaws
<1>2. ASSUME NEW s \in SUBSET S, NEW x \in S \ s, s \in P PROVE s \cup {x} \in P
    <2>1. IsFiniteSet(s) /\ \A z \in S : f[z] \in Rat /\ g[z] \in Rat /\ h[z] \in Rat
        BY <1>0, FS_Subset, PlusLaws
    <2>2. /\ TotalOver(f, s) \in Rat /\ TotalOver(g, s) \in Rat
          /\ TotalOver(f, s \cup {x}) = Plus(f[x], TotalOver(f, s))
          /\ TotalOver(g, s \cup {x}) = Plus(g[x], TotalOver(g, s))
          /\ TotalOver(h, s \cup {x}) = Plus(h[x], TotalOver(h, s))
        BY <2>1, TotalType, TotalAdds
    <2>3. f[x] \in Rat /\ g[x] \in Rat /\ h[x] = Plus(f[x], g[x])
        BY <1>0
    <2>4. TotalOver(h, s) = Plus(TotalOver(f, s), TotalOver(g, s))
        BY <1>2
    <2>6. Plus(h[x], TotalOver(h, s))
              = Plus(Plus(f[x], TotalOver(f, s)), Plus(g[x], TotalOver(g, s)))
        BY <2>2, <2>3, <2>4, PlusInterchange
    <2>5. s \cup {x} \in SUBSET S
        OBVIOUS
    <2>. QED
        BY <2>2, <2>5, <2>6
<1>3. S \in P
    <2>. HIDE DEF P
    <2>. QED
        BY <1>1, <1>2, FiniteInduction
<1>. QED
    BY <1>3

LEMMA TotalSame ==
    ASSUME NEW S, IsFiniteSet(S), NEW f, NEW g, \A x \in S : f[x] \in Rat /\ g[x] = f[x]
    PROVE  TotalOver(g, S) = TotalOver(f, S)
<1> DEFINE P == {s \in SUBSET S : TotalOver(g, s) = TotalOver(f, s)}
<1>1. {} \in P
    BY TotalEmpty
<1>2. ASSUME NEW s \in SUBSET S, NEW x \in S \ s, s \in P PROVE s \cup {x} \in P
    <2>1. IsFiniteSet(s)
        BY FS_Subset
    <2>2. /\ TotalOver(f, s \cup {x}) = Plus(f[x], TotalOver(f, s))
          /\ TotalOver(g, s \cup {x}) = Plus(g[x], TotalOver(g, s))
        BY <2>1, TotalAdds
    <2>3. g[x] = f[x] /\ TotalOver(g, s) = TotalOver(f, s)
        BY <1>2
    <2>. QED
        BY <2>2, <2>3
<1>3. S \in P
    <2>. HIDE DEF P
    <2>. QED
        BY <1>1, <1>2, FiniteInduction
<1>. QED
    BY <1>3

(* A pointwise difference totals to the difference of the totals. *)
LEMMA TotalMinus ==
    ASSUME NEW S, IsFiniteSet(S), NEW f, NEW g, NEW h,
           \A x \in S : f[x] \in Rat /\ g[x] \in Rat /\ h[x] = Minus(f[x], g[x])
    PROVE  TotalOver(h, S) = Minus(TotalOver(f, S), TotalOver(g, S))
<1>1. ASSUME NEW x \in S PROVE h[x] \in Rat /\ g[x] \in Rat /\ f[x] = Plus(h[x], g[x])
    <2>1. Minus(f[x], g[x]) \in Rat
        BY RatType, 0 \in Nat, 1 \in Nat \ {0}
    <2>2. f[x] = Plus(Minus(f[x], g[x]), g[x])
        BY MinusUndoes
    <2>. QED
        BY <2>1, <2>2
<1>2. IsPointwiseTotal(f, h, g, S)
    BY <1>1 DEF IsPointwiseTotal
<1>3. TotalOver(f, S) = Plus(TotalOver(h, S), TotalOver(g, S))
    BY <1>2, TotalPlus
<1>4. TotalOver(h, S) \in Rat /\ TotalOver(g, S) \in Rat
    BY <1>1, TotalType
<1>. QED
    BY <1>3, <1>4, MinusUndoes

LEMMA TotalZero ==
    ASSUME NEW S, IsFiniteSet(S), NEW f, \A x \in S : f[x] = Q(0)
    PROVE  TotalOver(f, S) = Q(0)
<1> DEFINE P == {s \in SUBSET S : TotalOver(f, s) = Q(0)}
<1>1. {} \in P
    BY TotalEmpty
<1>2. ASSUME NEW s \in SUBSET S, NEW x \in S \ s, s \in P PROVE s \cup {x} \in P
    <2>1. IsFiniteSet(s) /\ \A z \in s \cup {x} : f[z] \in Rat
        BY FS_Subset, PlusLaws
    <2>2. TotalOver(f, s \cup {x}) = Plus(f[x], TotalOver(f, s))
        BY <2>1, TotalAdds
    <2>3. f[x] = Q(0) /\ TotalOver(f, s) = Q(0)
        BY <1>2
    <2>. QED
        BY <2>2, <2>3, PlusLaws
<1>3. S \in P
    <2>. HIDE DEF P
    <2>. QED
        BY <1>1, <1>2, FiniteInduction
<1>. QED
    BY <1>3

(* What adds nothing may be left out. *)
LEMMA TotalWithin ==
    ASSUME NEW T, IsFiniteSet(T), NEW S \in SUBSET T, NEW f, NEW g,
           \A x \in S : f[x] \in Rat /\ g[x] = f[x], \A x \in T \ S : g[x] = Q(0)
    PROVE  TotalOver(g, T) = TotalOver(f, S)
<1> DEFINE R == T \ S
           P == {s \in SUBSET R : TotalOver(g, S \cup s) = TotalOver(g, S)}
<1>1. IsFiniteSet(R) /\ IsFiniteSet(S)
    BY FS_Subset
<1>2. {} \in P
    <2>1. S \cup {} = S
        OBVIOUS
    <2>. QED
        BY <2>1
<1>3. ASSUME NEW s \in SUBSET R, NEW x \in R \ s, s \in P PROVE s \cup {x} \in P
    <2> DEFINE V == S \cup s
    <2>1. V \in SUBSET T /\ x \notin V /\ g[x] = Q(0) /\ S \cup (s \cup {x}) = V \cup {x}
        OBVIOUS
    <2>2. IsFiniteSet(V) /\ \A z \in V : g[z] \in Rat
        BY <2>1, FS_Subset, PlusLaws
    <2>3. TotalOver(g, V) = TotalOver(g, S)
        BY <1>3
    <2>. HIDE DEF V
    <2>4. TotalOver(g, V \cup {x}) = Plus(g[x], TotalOver(g, V)) /\ TotalOver(g, V) \in Rat
        BY <2>1, <2>2, PlusLaws, TotalType, TotalAdds
    <2>5. TotalOver(g, V \cup {x}) = TotalOver(g, S)
        BY <2>1, <2>3, <2>4, PlusLaws
    <2>6. s \cup {x} \in SUBSET R
        OBVIOUS
    <2>. QED
        BY <2>1, <2>5, <2>6
<1>4. R \in P
    <2>. HIDE DEF P, R
    <2>. QED
        BY <1>1, <1>2, <1>3, FiniteInduction
<1>5. S \cup R = T
    OBVIOUS
<1>6. TotalOver(g, S) = TotalOver(f, S)
    BY <1>1, TotalSame
<1>. QED
    BY <1>4, <1>5, <1>6

(* One summand that grows makes the total grow as much. *)
LEMMA TotalGrows ==
    ASSUME NEW S, IsFiniteSet(S), NEW f, NEW g, NEW y \in S, NEW z \in Rat,
           \A x \in S : f[x] \in Rat, \A x \in S \ {y} : g[x] = f[x], g[y] = Plus(z, f[y])
    PROVE  TotalOver(g, S) = Plus(z, TotalOver(f, S))
<1> DEFINE R == S \ {y}
<1>1. IsFiniteSet(R) /\ f[y] \in Rat /\ (\A x \in R : f[x] \in Rat)
    BY FS_Subset
<1>2. g[y] \in Rat /\ \A x \in S : g[x] \in Rat
    BY <1>1, PlusLaws
<1>3. TotalOver(f, S) = Plus(f[y], TotalOver(f, R))
    BY TotalTakes
<1>4. TotalOver(g, S) = Plus(g[y], TotalOver(g, R))
    BY <1>2, TotalTakes
<1>5. TotalOver(g, R) = TotalOver(f, R) /\ TotalOver(f, R) \in Rat
    BY <1>1, TotalSame, TotalType
<1>. HIDE DEF R
<1>6. Plus(Plus(z, f[y]), TotalOver(f, R)) = Plus(z, Plus(f[y], TotalOver(f, R)))
    BY <1>1, <1>5, PlusJoins
<1>. QED
    BY <1>3, <1>4, <1>5, <1>6

(* Shares of one amount total to its share of all the units. *)
LEMMA TotalShares ==
    ASSUME NEW S, IsFiniteSet(S), NEW x \in Rat, NEW w \in Nat \ {0}, NEW r,
           \A i \in S : r[i] \in Nat, NEW f, \A i \in S : f[i] = Share(x, r[i], w)
    PROVE  TotalOver(f, S) = Share(x, SumFunctionOnSet(r, S), w)
<1> DEFINE P == {s \in SUBSET S : TotalOver(f, s) = Share(x, SumFunctionOnSet(r, s), w)}
<1>1. {} \in P
    BY TotalEmpty, SumEmpty, ShareEnds
<1>2. ASSUME NEW s \in SUBSET S, NEW i \in S \ s, s \in P PROVE s \cup {i} \in P
    <2>1. IsFiniteSet(s) /\ r[i] \in Nat /\ f[i] = Share(x, r[i], w)
        BY FS_Subset
    <2>2. \A j \in S : f[j] \in Rat
        BY RatType
    <2>3. TotalOver(f, s \cup {i}) = Plus(f[i], TotalOver(f, s))
        BY <2>1, <2>2, TotalAdds
    <2>4. /\ SumFunctionOnSet(r, s \cup {i}) = r[i] + SumFunctionOnSet(r, s)
          /\ SumFunctionOnSet(r, s) \in Nat
        BY <2>1, SumAdds, SumType
    <2>5. TotalOver(f, s) = Share(x, SumFunctionOnSet(r, s), w)
        BY <1>2
    <2>6. Plus(Share(x, r[i], w), Share(x, SumFunctionOnSet(r, s), w))
              = Share(x, r[i] + SumFunctionOnSet(r, s), w)
        BY <2>1, <2>4, ShareAdds
    <2>7. s \cup {i} \in SUBSET S
        OBVIOUS
    <2>. QED
        BY <2>1, <2>3, <2>4, <2>5, <2>6, <2>7
<1>3. S \in P
    <2>. HIDE DEF P
    <2>. QED
        BY <1>1, <1>2, FiniteInduction
<1>. QED
    BY <1>3

(* A total is the total of the totals of its parts. *)
LEMMA TotalParts ==
    ASSUME NEW D, IsFiniteSet(D), NEW A, IsFiniteSet(A), NEW key, \A k \in D : key[k] \in A,
           NEW f, \A k \in D : f[k] \in Rat
    PROVE  TotalOver(f, D) = TotalOver([a \in A |-> TotalOver(f, {k \in D : key[k] = a})], A)
<1> DEFINE Part(s, a) == {k \in s : key[k] = a}
           parts(s) == [a \in A |-> TotalOver(f, Part(s, a))]
           P == {s \in SUBSET D : TotalOver(f, s) = TotalOver(parts(s), A)}
<1>0. ASSUME NEW s \in SUBSET D, NEW a \in A
      PROVE  IsFiniteSet(Part(s, a)) /\ TotalOver(f, Part(s, a)) \in Rat
    <2>1. IsFiniteSet(Part(s, a))
        BY FS_Subset
    <2>2. \A k \in Part(s, a) : f[k] \in Rat
        OBVIOUS
    <2>. HIDE DEF Part
    <2>. QED
        BY <2>1, <2>2, TotalType
<1>1. {} \in P
    <2>1. \A a \in A : Part({}, a) = {}
        OBVIOUS
    <2>2. \A a \in A : parts({})[a] = Q(0)
        BY <2>1, TotalEmpty
    <2>. HIDE DEF parts
    <2>3. TotalOver(parts({}), A) = Q(0)
        BY <2>2, TotalZero
    <2>. QED
        BY <2>3, TotalEmpty
<1>2. ASSUME NEW s \in SUBSET D, NEW x \in D \ s, s \in P PROVE s \cup {x} \in P
    <2> DEFINE y == key[x]
               old == parts(s)
               new == parts(s \cup {x})
    <2>1. IsFiniteSet(s) /\ f[x] \in Rat /\ (\A k \in s : f[k] \in Rat) /\ y \in A
        BY FS_Subset
    <2>2. TotalOver(f, s \cup {x}) = Plus(f[x], TotalOver(f, s))
        BY <2>1, TotalAdds
    <2>3. \A a \in A : old[a] \in Rat /\ old[a] = TotalOver(f, Part(s, a))
        BY <1>0
    <2>4. \A a \in A \ {y} : new[a] = old[a]
        <3>1. \A a \in A \ {y} : Part(s \cup {x}, a) = Part(s, a)
            OBVIOUS
        <3>. QED
            BY <3>1
    <2>5. new[y] = Plus(f[x], old[y])
        <3>1. Part(s \cup {x}, y) = Part(s, y) \cup {x} /\ x \notin Part(s, y)
            OBVIOUS
        <3>2. IsFiniteSet(Part(s, y)) /\ \A k \in Part(s, y) : f[k] \in Rat
            BY <1>0, <2>1
        <3>3. new[y] = TotalOver(f, Part(s \cup {x}, y)) /\ old[y] = TotalOver(f, Part(s, y))
            BY <2>1
        <3>. HIDE DEF Part, y, old, new
        <3>4. TotalOver(f, Part(s, y) \cup {x}) = Plus(f[x], TotalOver(f, Part(s, y)))
            BY <2>1, <3>1, <3>2, TotalAdds
        <3>. QED
            BY <3>1, <3>3, <3>4
    <2>6. TotalOver(f, s) = TotalOver(old, A)
        BY <1>2
    <2>7. s \cup {x} \in SUBSET D
        OBVIOUS
    <2>8. TotalOver(new, A) = Plus(f[x], TotalOver(old, A))
        <3>. HIDE DEF y, old, new
        <3>. QED
            BY <2>1, <2>3, <2>4, <2>5, TotalGrows
    <2>9. TotalOver(f, s \cup {x}) = TotalOver(parts(s \cup {x}), A)
        BY <2>2, <2>6, <2>8
    <2>. QED
        BY <2>7, <2>9
<1>3. D \in P
    <2>. HIDE DEF P
    <2>. QED
        BY <1>1, <1>2, FiniteInduction
<1>. QED
    BY <1>3

(* Totals over lists. *)
Adding(g, s) == TotalOver([i \in DOMAIN s |-> g[s[i]]], DOMAIN s)

LEMMA AddType ==
    ASSUME NEW S, NEW g, \A x \in S : g[x] \in Rat, NEW s \in Seq(S)
    PROVE  Adding(g, s) \in Rat
<1> DEFINE f == [i \in DOMAIN s |-> g[s[i]]]
<1>1. IsFiniteSet(DOMAIN s) /\ \A i \in DOMAIN s : s[i] \in S
    BY Indexes
<1>2. \A i \in DOMAIN s : f[i] \in Rat
    BY <1>1
<1>. HIDE DEF f
<1>3. TotalOver(f, DOMAIN s) \in Rat
    BY <1>1, <1>2, TotalType
<1>. QED
    BY <1>3 DEF Adding, f

LEMMA AddNone ==
    ASSUME NEW g
    PROVE  Adding(g, << >>) = Q(0)
<1>1. DOMAIN << >> = {}
    OBVIOUS
<1>. QED
    BY <1>1, TotalEmpty DEF Adding

LEMMA AddAppend ==
    ASSUME NEW S, NEW g, \A x \in S : g[x] \in Rat, NEW s \in Seq(S), NEW last_one \in S
    PROVE  Adding(g, Append(s, last_one)) = Plus(g[last_one], Adding(g, s))
<1> DEFINE t == Append(s, last_one)
           n == Len(s)
           f == [i \in DOMAIN s |-> g[s[i]]]
           h == [i \in DOMAIN t |-> g[t[i]]]
<1>1. /\ n \in Nat /\ DOMAIN s = 1 .. n /\ IsFiniteSet(1 .. n)
      /\ \A i \in 1 .. n : s[i] \in S
    BY Indexes
<1>2. DOMAIN t = 1 .. n + 1 /\ t[n + 1] = last_one /\ \A i \in 1 .. n : t[i] = s[i]
    BY <1>1
<1> HIDE DEF t
<1>3. \A i \in 1 .. n : f[i] \in Rat /\ h[i] = f[i]
    BY <1>1, <1>2
<1>4. h[n + 1] = g[last_one] /\ g[last_one] \in Rat
    BY <1>1, <1>2
<1>5. 1 .. n + 1 = (1 .. n) \cup {n + 1} /\ n + 1 \notin 1 .. n
    BY <1>1
<1> HIDE DEF f, h, n
<1>6. TotalOver(h, 1 .. n) = TotalOver(f, 1 .. n)
    BY <1>1, <1>3, TotalSame
<1>7. TotalOver(h, (1 .. n) \cup {n + 1}) = Plus(h[n + 1], TotalOver(h, 1 .. n))
    <2>1. \A i \in 1 .. n : h[i] \in Rat
        BY <1>3
    <2>. QED
        BY <1>1, <1>4, <1>5, <2>1, TotalAdds
<1>8. Adding(g, s) = TotalOver(f, 1 .. n)
    BY <1>1 DEF Adding, f
<1>9. Adding(g, t) = TotalOver(h, 1 .. n + 1)
    BY <1>2 DEF Adding, h
<1>. QED
    BY <1>4, <1>5, <1>6, <1>7, <1>8, <1>9 DEF t

-----------------------------------------------------------------------------
(* What a replay keeps besides IInv: amounts in lowest terms; each lot's    *)
(* basis as its part of its cost; and, while every outcome booked has a    *)
(* basis, all that was paid in those bases and in what is held.            *)

Priced == {Unknown} \cup Rat

OrZero(x) == IF x \in Rat THEN x ELSE Q(0)

Sales == [asset : Assets, quantity : Nat, proceeds : Priced, cost_basis : Priced,
          missing_basis : BOOLEAN]

LotExact(lot) ==
    /\ lot.cost_total \in Priced
    /\ lot.cost_remaining = IF lot.cost_total = Unknown THEN Unknown
                            ELSE Share(lot.cost_total, lot.remaining, lot.original)

LotsExact(lots) == \A i \in DOMAIN lots : LotExact(lots[i])

LotCost == [lot \in Lots |-> OrZero(lot.cost_remaining)]
Got == [sale \in Sales |-> OrZero(sale.proceeds)]
Cost == [sale \in Sales |-> OrZero(sale.cost_basis)]

InLowest ==
    /\ \A a \in Assets :
        /\ LotsExact(ledgers[a].lots)
        /\ ledgers[a].lots # << >> => ledgers[a].decimals \in Scales
        /\ pools[a].cost \in Priced
    /\ truth.paid \in Rat /\ truth.got \in Rat
    /\ disposals \in Seq(Sales)

AllBased == \A k \in DOMAIN disposals : disposals[k].cost_basis # Unknown

GotAll == truth.got = Adding(Got, disposals)

LotBases == [a \in Assets |-> Adding(LotCost, ledgers[a].lots)]
PoolCosts == [a \in Assets |-> pools[a].cost]

PaidForLots ==
    method # "acb" /\ AllBased =>
        truth.paid = Plus(Adding(Cost, disposals), TotalOver(LotBases, Assets))

PaidForPools ==
    method = "acb" /\ AllBased =>
        /\ \A a \in Assets :
            pools[a].quantity = 0 => pools[a].cost = Q(0)
        /\ (\A a \in Assets : pools[a].cost # Unknown) =>
               truth.paid = Plus(Adding(Cost, disposals), TotalOver(PoolCosts, Assets))

Exactly == InLowest /\ GotAll /\ PaidForLots /\ PaidForPools

-----------------------------------------------------------------------------
(* The cost of lots. *)

LEMMA PricedOr ==
    ASSUME NEW x \in Priced
    PROVE  /\ OrZero(x) \in Rat /\ (x # Unknown => x \in Rat /\ OrZero(x) = x)
           /\ x = Unknown => OrZero(x) = Q(0)
BY RatParts, PlusLaws DEF Priced, OrZero

LEMMA OrZeroType == \A x : OrZero(x) \in Rat
BY PlusLaws DEF OrZero

LEMMA LotCostIs ==
    ASSUME NEW lot \in Lots, LotExact(lot)
    PROVE  /\ LotCost[lot] \in Rat
           /\ lot.cost_total = Unknown => LotCost[lot] = Q(0)
           /\ lot.cost_total # Unknown =>
                  /\ lot.cost_total \in Rat /\ lot.cost_remaining \in Rat
                  /\ lot.cost_remaining # Unknown
                  /\ LotCost[lot] = lot.cost_remaining
                  /\ LotCost[lot] = Share(lot.cost_total, lot.remaining, lot.original)
           /\ lot.remaining = 0 => LotCost[lot] = Q(0)
<1>1. lot.remaining \in Nat /\ lot.original \in Nat \ {0}
    BY LotsType
<1>2. LotCost[lot] = OrZero(lot.cost_remaining)
    BY DEF LotCost
<1>3. CASE lot.cost_total = Unknown
    <2>1. lot.cost_remaining = Unknown /\ Unknown \in Priced
        BY <1>3 DEF LotExact, Priced
    <2>. QED
        BY <1>2, <1>3, <2>1, PricedOr, PlusLaws
<1>4. CASE lot.cost_total # Unknown
    <2>1. lot.cost_total \in Rat
        BY <1>4 DEF LotExact, Priced
    <2>2. lot.cost_remaining = Share(lot.cost_total, lot.remaining, lot.original)
        BY <1>4 DEF LotExact
    <2>3. lot.cost_remaining \in Rat
        BY <1>1, <2>1, <2>2, RatType
    <2>4. lot.cost_remaining # Unknown
        BY <2>3, RatParts
    <2>5. LotCost[lot] = lot.cost_remaining
        BY <1>2, <2>3 DEF OrZero
    <2>6. lot.remaining = 0 => LotCost[lot] = Q(0)
        BY <1>1, <2>1, <2>2, <2>5, ShareEnds
    <2>. QED
        BY <1>4, <2>1, <2>2, <2>3, <2>4, <2>5, <2>6
<1>. QED
    BY <1>3, <1>4

LEMMA LotCostType == \A lot \in Lots : LotCost[lot] \in Rat
BY OrZeroType DEF LotCost

(* Spent lots cost nothing: so open lots cost what all of them do.         *)
LEMMA OpenLotsCost ==
    ASSUME NEW ledger \in Ledgers, LotsExact(ledger.lots)
    PROVE  /\ LotsExact(OpenLots(ledger))
           /\ Adding(LotCost, OpenLots(ledger)) = Adding(LotCost, ledger.lots)
<1> DEFINE lots == ledger.lots
           open == Opening(lots)
           N == Len(lots)
           first(n) == SubSeq(lots, 1, n)
           T == {n \in 0 .. N : /\ open[n] \in Seq(Lots)
                                /\ LotsExact(open[n])
                                /\ Adding(LotCost, open[n]) = Adding(LotCost, first(n))}
<1>1. lots \in Seq(Lots) /\ N \in Nat
    BY DEF Ledgers
<1>2. OpenLots(ledger) = open[N]
    BY Zenon DEF OpenLots, Opening
<1>9. LotsExact(lots)
    OBVIOUS
<1> HIDE DEF lots
<1>3. Opens(open, lots, N)
    BY <1>1, OpeningOpens
<1> HIDE DEF open
<1>4. 0 \in T
    <2>1. 0 \in 0 .. N
        BY <1>1
    <2>2. open[0] = << >>
        BY <1>3, <2>1 DEF Opens
    <2>3. first(0) = << >>
        BY <1>1
    <2>4. LotsExact(open[0]) /\ open[0] \in Seq(Lots)
        BY <2>2 DEF LotsExact
    <2>. QED
        BY <2>1, <2>2, <2>3, <2>4
<1>5. ASSUME NEW n \in 0 .. N - 1, n \in T PROVE n + 1 \in T
    <2>1. n \in Nat /\ n + 1 \in 0 .. N /\ n + 1 # 0 /\ n + 1 - 1 = n /\ n + 1 <= Len(lots)
        BY <1>1, <1>5
    <2> DEFINE lot == lots[n + 1]
    <2>2. lot \in Lots /\ lot.remaining \in Nat /\ LotExact(lot)
        <3>1. n + 1 \in 1 .. Len(lots) /\ n + 1 \in DOMAIN lots
            BY <1>1, <2>1
        <3>2. lot \in Lots
            BY <1>1, <3>1
        <3>3. LotExact(lot)
            BY <1>9, <3>1 DEF LotsExact
        <3>. QED
            BY <3>2, <3>3, LotsType
    <2>3. open[n + 1] = IF lot.remaining > 0 THEN Append(open[n], lot) ELSE open[n]
        BY <1>3, <2>1 DEF Opens
    <2>4. first(n + 1) = Append(first(n), lot) /\ first(n) \in Seq(Lots)
        BY <1>1, <2>1
    <2>5. /\ open[n] \in Seq(Lots) /\ LotsExact(open[n])
          /\ Adding(LotCost, open[n]) = Adding(LotCost, first(n))
        BY <1>5
    <2> HIDE DEF first, lot
    <2>6. Adding(LotCost, first(n + 1)) = Plus(LotCost[lot], Adding(LotCost, first(n)))
        BY <2>2, <2>4, LotCostType, AddAppend
    <2>7. CASE lot.remaining > 0
        <3>1. open[n + 1] = Append(open[n], lot)
            BY <2>3, <2>7
        <3>2. Adding(LotCost, Append(open[n], lot)) = Plus(LotCost[lot], Adding(LotCost, open[n]))
            BY <2>2, <2>5, LotCostType, AddAppend
        <3>3. LotsExact(Append(open[n], lot)) /\ Append(open[n], lot) \in Seq(Lots)
            BY <2>2, <2>5 DEF LotsExact
        <3>. QED
            BY <2>1, <2>5, <2>6, <3>1, <3>2, <3>3
    <2>8. CASE ~(lot.remaining > 0)
        <3>1. open[n + 1] = open[n] /\ lot.remaining = 0
            BY <2>2, <2>3, <2>8
        <3>2. LotCost[lot] = Q(0)
            BY <2>2, <3>1, LotCostIs
        <3>3. Adding(LotCost, first(n)) \in Rat
            BY <2>4, LotCostType, AddType
        <3>4. Adding(LotCost, first(n + 1)) = Adding(LotCost, first(n))
            BY <2>6, <3>2, <3>3, PlusLaws
        <3>. QED
            BY <2>1, <2>5, <3>1, <3>4
    <2>. QED
        BY <2>7, <2>8
<1> HIDE DEF T
<1>6. N \in T
    <2> HIDE DEF N
    <2>1. \A i \in 0 .. N : i \in T
        BY <1>1, <1>4, <1>5, CountingUp
    <2>. QED
        BY <1>1, <2>1
<1>7. first(N) = lots
    BY <1>1
<1>8. LotsExact(open[N]) /\ Adding(LotCost, open[N]) = Adding(LotCost, first(N))
    BY <1>6 DEF T
<1>. QED
    BY <1>2, <1>7, <1>8 DEF lots

(* A sale takes its portion of a lot's cost, and leaves it exact.          *)
LEMMA DrawnExact ==
    ASSUME NEW lot \in Lots, LotExact(lot), NEW take \in 0 .. lot.remaining
    PROVE  LET left == Drawn(lot, take)
           IN  /\ left \in Lots /\ LotExact(left)
               /\ lot.cost_total = Unknown => LotCost[left] = LotCost[lot]
               /\ lot.cost_total # Unknown =>
                      /\ Portion(lot, take) \in Rat
                      /\ LotCost[lot] = Plus(Portion(lot, take), LotCost[left])
               /\ take = 0 => LotCost[left] = LotCost[lot]
<1> DEFINE left == Drawn(lot, take)
           r == lot.remaining
           o == lot.original
           c == lot.cost_total
<1>1. lot.cost_total = Unknown <=> lot.cost_remaining = Unknown
    BY LotCostIs DEF LotExact
<1>2. /\ left \in Lots /\ left.remaining = r - take /\ left.original = o
      /\ left.cost_total = c /\ (left.cost_total = Unknown <=> left.cost_remaining = Unknown)
    BY <1>1, DrawnLot
<1>3. left.cost_remaining = IF lot.cost_remaining = Unknown THEN Unknown
                            ELSE Minus(lot.cost_remaining, Portion(lot, take))
    BY DEF Drawn, Lots
<1>4. r \in Nat /\ o \in Nat \ {0} /\ take \in Nat /\ r - take \in Nat /\ (r - take) + take = r
    BY LotsType
<1> HIDE DEF left
<1>5. CASE c = Unknown
    <2>1. LotExact(left)
        BY <1>2, <1>5 DEF LotExact, Priced
    <2>2. LotCost[left] = Q(0) /\ LotCost[lot] = Q(0)
        BY <1>2, <1>5, <2>1, LotCostIs
    <2>. QED
        BY <1>2, <1>5, <2>1, <2>2 DEF left
<1>6. CASE c # Unknown
    <2>1. c \in Rat /\ lot.cost_remaining = Share(c, r, o) /\ lot.cost_remaining # Unknown
        BY <1>6, LotCostIs DEF LotExact
    <2>2. Portion(lot, take) = Share(c, take, o)
        BY <1>6 DEF Portion
    <2> DEFINE p == Share(c, take, o)
               q == Share(c, r - take, o)
    <2>3. p \in Rat /\ q \in Rat
        BY <1>4, <2>1, RatType
    <2>4. Plus(q, p) = Share(c, r, o)
        <3>. HIDE DEF c, r, o
        <3>1. Plus(q, p) = Share(c, (r - take) + take, o)
            BY <1>4, <2>1, ShareAdds
        <3>. QED
            BY <1>4, <3>1
    <2>5. left.cost_remaining = Minus(Share(c, r, o), p)
        BY <1>3, <2>1, <2>2
    <2> HIDE DEF p, q
    <2>6. left.cost_remaining = q
        BY <2>3, <2>4, <2>5, MinusUndoes
    <2>7. LotExact(left)
        BY <1>2, <1>6, <2>1, <2>6 DEF LotExact, Priced, q
    <2>8. LotCost[left] = q /\ LotCost[lot] = Share(c, r, o)
        <3>1. LotCost[left] = left.cost_remaining
            BY <1>2, <1>6, <2>7, LotCostIs
        <3>2. LotCost[lot] = Share(c, r, o)
            BY <1>6, LotCostIs
        <3>. QED
            BY <2>6, <3>1, <3>2
    <2>9. LotCost[lot] = Plus(p, LotCost[left])
        BY <2>3, <2>4, <2>8, PlusLaws
    <2>10. take = 0 => LotCost[left] = LotCost[lot]
        <3>1. take = 0 => q = Share(c, r, o)
            BY <1>4 DEF q
        <3>. QED
            BY <2>8, <3>1
    <2>. QED
        BY <1>2, <1>6, <2>2, <2>3, <2>7, <2>9, <2>10 DEF left, p
<1>. QED
    BY <1>5, <1>6

(* A basis is what the plan's portions add up to, and what the lots lose.  *)
LEMMA PlanCosts ==
    ASSUME NEW ledger \in Ledgers, method \in Methods, NEW needed \in Nat,
           LotsExact(ledger.lots)
    PROVE  LET lots == OpenLots(ledger)
               basis == BasisOfLots(lots, Plan(lots, needed))
               left == Left(ledger, needed)
           IN  /\ LotsExact(left) /\ basis \in Priced
               /\ basis # Unknown =>
                      Adding(LotCost, ledger.lots) = Plus(basis, Adding(LotCost, left))
<1> DEFINE lots == OpenLots(ledger)
           plan == Plan(lots, needed)
           left == Left(ledger, needed)
           basis == BasisOfLots(lots, plan)
           D == DOMAIN lots
           taken == {i \in D : plan[i] > 0}
           given == [i \in taken |-> Portion(lots[i], plan[i])]
           loss == [i \in D |-> IF plan[i] > 0 THEN Portion(lots[i], plan[i]) ELSE Q(0)]
           cost == [i \in D |-> LotCost[lots[i]]]
           rest == [i \in D |-> LotCost[left[i]]]
<1>1. /\ lots \in Seq(Lots) /\ LotsExact(lots)
      /\ Adding(LotCost, lots) = Adding(LotCost, ledger.lots)
    BY OpenLotsAre, OpenLotsCost
<1>2. left = [i \in D |-> Drawn(lots[i], plan[i])] /\ DOMAIN left = D
    BY DEF Left
<1>3. IsFiniteSet(D) /\ \A i \in D : lots[i] \in Lots /\ LotExact(lots[i])
    BY <1>1, Indexes DEF LotsExact
<1>4. \A i \in D : plan[i] \in 0 .. lots[i].remaining
    BY <1>1, PlanGives
<1>5. /\ basis = IF \E i \in taken : lots[i].cost_total = Unknown THEN Unknown
                 ELSE TotalOver(given, DOMAIN given)
      /\ DOMAIN given = taken
    BY TotalIs DEF BasisOfLots
<1>6. /\ Adding(LotCost, lots) = TotalOver(cost, D)
      /\ Adding(LotCost, left) = TotalOver(rest, D)
    BY <1>2 DEF Adding
<1> HIDE DEF lots, plan, left, basis
<1>7. ASSUME NEW i \in D
      PROVE  /\ plan[i] \in Nat /\ LotExact(left[i]) /\ left[i] \in Lots
             /\ lots[i].cost_total = Unknown => LotCost[left[i]] = LotCost[lots[i]]
             /\ plan[i] = 0 => LotCost[left[i]] = LotCost[lots[i]]
             /\ lots[i].cost_total # Unknown =>
                    /\ Portion(lots[i], plan[i]) \in Rat
                    /\ LotCost[lots[i]]
                           = Plus(Portion(lots[i], plan[i]), LotCost[left[i]])
    <2>1. left[i] = Drawn(lots[i], plan[i])
        BY <1>2
    <2>2. lots[i] \in Lots /\ LotExact(lots[i]) /\ plan[i] \in 0 .. lots[i].remaining
        BY <1>3, <1>4
    <2>3. plan[i] \in Nat
        BY <2>2, LotsType
    <2>. QED
        BY <2>1, <2>2, <2>3, DrawnExact
<1>8. LotsExact(left)
    BY <1>2, <1>7 DEF LotsExact
<1>9. CASE \E i \in taken : lots[i].cost_total = Unknown
    BY <1>5, <1>8, <1>9 DEF Priced, lots, plan, basis, left
<1>10. CASE ~\E i \in taken : lots[i].cost_total = Unknown
    <2>1. basis = TotalOver(given, taken)
        BY <1>5, <1>10
    <2>2. IsFiniteSet(taken) /\ taken \in SUBSET D
        BY <1>3, FS_Subset
    <2>3. ASSUME NEW i \in taken PROVE given[i] \in Rat /\ loss[i] = given[i]
        <3>1. i \in D /\ plan[i] > 0 /\ lots[i].cost_total # Unknown
            BY <1>10
        <3>2. Portion(lots[i], plan[i]) \in Rat
            BY <1>7, <3>1
        <3>. QED
            BY <3>1, <3>2
    <2>4. \A i \in D \ taken : loss[i] = Q(0)
        OBVIOUS
    <2>5. ASSUME NEW i \in D
          PROVE  loss[i] \in Rat /\ rest[i] \in Rat /\ cost[i] = Plus(loss[i], rest[i])
        <3>1. cost[i] = LotCost[lots[i]] /\ rest[i] = LotCost[left[i]]
            OBVIOUS
        <3>2. rest[i] \in Rat
            BY <1>7, <3>1, LotCostType
        <3>3. CASE plan[i] > 0
            <4>1. loss[i] = Portion(lots[i], plan[i]) /\ lots[i].cost_total # Unknown
                BY <1>10, <3>3
            <4>. QED
                BY <1>7, <3>1, <3>2, <4>1
        <3>4. CASE ~(plan[i] > 0)
            <4>1. loss[i] = Q(0) /\ plan[i] = 0
                BY <1>7, <3>4
            <4>2. cost[i] = rest[i]
                BY <1>7, <3>1, <4>1
            <4>. QED
                BY <3>2, <4>1, <4>2, PlusLaws
        <3>. QED
            BY <3>3, <3>4
    <2>6. IsPointwiseTotal(cost, loss, rest, D)
        BY <2>5 DEF IsPointwiseTotal
    <2> HIDE DEF given, loss, cost, rest, taken, D
    <2>7. TotalOver(given, taken) \in Rat
        BY <2>2, <2>3, TotalType
    <2>8. TotalOver(loss, D) = TotalOver(given, taken)
        BY <1>3, <2>2, <2>3, <2>4, TotalWithin
    <2>9. TotalOver(cost, D) = Plus(TotalOver(loss, D), TotalOver(rest, D))
        BY <1>3, <2>6, TotalPlus
    <2>10. basis \in Rat /\ Adding(LotCost, lots) = Plus(basis, Adding(LotCost, left))
        BY <1>6, <2>1, <2>7, <2>8, <2>9
    <2>. QED
        BY <1>1, <1>8, <2>10 DEF Priced, lots, plan, basis, left
<1>. QED
    BY <1>9, <1>10

(* The money of an event is in lowest terms. *)
LEMMA EventPriced ==
    ASSUME NEW e \in Events
    PROVE  /\ e.money.amount \in Priced /\ (e.money = Unpriced <=> e.money.amount = Unknown)
           /\ e.money = Unpriced => OrZero(e.money.amount) = Q(0)
           /\ e.money # Unpriced => /\ e.money.amount \in Rat
                                    /\ OrZero(e.money.amount) = e.money.amount
<1>1. e.money.amount \in Priced
    <2>1. e.money \in Moneys
        BY DEF Events
    <2>2. CASE e.money = Unpriced
        BY <2>2 DEF Unpriced, Priced
    <2>3. CASE e.money # Unpriced
        <3>1. PICK n \in Amounts : e.money.amount = Q(n)
            BY <2>1, <2>3 DEF Moneys
        <3>2. n \in Int
            BY AmountConstants
        <3>. QED
            BY <3>1, <3>2, WholeRat DEF Priced
    <2>. QED
        BY <2>2, <2>3
<1>2. e.money = Unpriced <=> e.money.amount = Unknown
    BY EventParts
<1>. QED
    BY <1>1, <1>2, PricedOr

LEMMA OpenedCosts ==
    ASSUME NEW ledger \in Ledgers, NEW e \in Events, LotsExact(ledger.lots)
    PROVE  LET new == Opened(ledger, e)
           IN  /\ LotsExact(new.lots) /\ new.decimals \in Scales
               /\ Adding(LotCost, new.lots)
                      = Plus(OrZero(e.money.amount), Adding(LotCost, ledger.lots))
<1> DEFINE seq == ledger.seq
           lot == [id |-> <<e.tx, seq[e.tx]>>, opened_at |-> e.at,
                   original |-> e.quantity, remaining |-> e.quantity,
                   cost_total |-> e.money.amount, cost_remaining |-> e.money.amount]
           new == Opened(ledger, e)
<1>1. ledger.lots \in Seq(Lots) /\ seq \in [Txs -> Nat]
    BY DEF Ledgers
<1>2. /\ e.tx \in Txs /\ e.at \in Nat /\ e.quantity \in Nat \ {0} /\ e.decimals \in Scales
      /\ e.money.amount \in Costs /\ seq[e.tx] \in Nat
    BY <1>1, EventParts
<1>3. lot \in Lots
    BY <1>2 DEF Lots
<1>4. new.lots = Append(ledger.lots, lot) /\ new.decimals = e.decimals
    BY DEF Opened, Ordinal
<1>5. LotExact(lot)
    <2>1. e.money.amount \in Priced
        BY EventPriced
    <2>2. e.money.amount # Unknown =>
              e.money.amount = Share(e.money.amount, e.quantity, e.quantity)
        BY <1>2, <2>1, ShareEnds DEF Priced
    <2>. QED
        BY <2>1, <2>2 DEF LotExact
<1>6. LotCost[lot] = OrZero(e.money.amount)
    <2>1. lot.cost_remaining = e.money.amount
        OBVIOUS
    <2>. HIDE DEF lot
    <2>. QED
        BY <1>3, <2>1 DEF LotCost
<1> HIDE DEF lot, new
<1>7. Adding(LotCost, new.lots) = Plus(LotCost[lot], Adding(LotCost, ledger.lots))
    BY <1>1, <1>3, <1>4, LotCostType, AddAppend
<1>8. LotsExact(new.lots)
    BY <1>1, <1>3, <1>4, <1>5 DEF LotsExact
<1>. QED
    BY <1>2, <1>4, <1>6, <1>7, <1>8 DEF new

-----------------------------------------------------------------------------
(* What the steps do to the amounts. *)

(* The cost of the pools, when those of one asset are sold or bought. *)
PoolsBut(a, cost, quantity) ==
    /\ pools'[a].cost = cost /\ pools'[a].quantity = quantity
    /\ \A c \in Assets \ {a} :
           pools'[c].cost = pools[c].cost /\ pools'[c].quantity = pools[c].quantity

LedgersBut(a) == \A c \in Assets \ {a} : ledgers'[c] = ledgers[c]

(* More that an accepted event may rely on. *)
LEMMA AcceptedMore ==
    ASSUME IInv, NEW e \in Events, Accepted(e)
    PROVE  /\ e.asset \in Assets /\ e.quantity \in Nat \ {0} /\ method' = method
           /\ method \in Methods /\ truth \in Books
           /\ ledgers \in [Assets -> Ledgers] /\ pools \in [Assets -> Pools]
           /\ PoolFor(e) \in Pools /\ PoolAccepts(PoolFor(e), e)
           /\ PoolFor(e).cost = pools[e.asset].cost
           /\ PoolFor(e).quantity = pools[e.asset].quantity
           /\ Retagged(e) \in [Assets -> Pools]
           /\ \A a \in Assets : /\ Retagged(e)[a].cost = pools[a].cost
                                /\ Retagged(e)[a].quantity = pools[a].quantity
           /\ \A a \in Assets : ledgers[a] \in Ledgers /\ pools[a].quantity \in Nat
<1>1. /\ e.asset \in Assets /\ e.quantity \in Nat \ {0} /\ method' = method
      /\ method \in Methods /\ truth \in Books /\ InCurrency(e)
    BY AcceptedEvent
<1>2. Shapes /\ PoolsKept
    BY DEF IInv
<1>3. ledgers \in [Assets -> Ledgers] /\ pools \in [Assets -> Pools]
    BY <1>2 DEF Shapes
<1>4. \A a \in Assets : ledgers[a] \in Ledgers /\ pools[a].quantity \in Nat
    BY <1>3, PoolType
<1>. QED
    BY <1>1, <1>2, <1>3, <1>4, PoolForKept, RetaggedKept

LEMMA AcquireDoes ==
    ASSUME IInv, NEW e \in Events, Acquire(e)
    PROVE  LET b == e.asset
               x == e.money.amount
           IN  /\ ledgers'[b] = Opened(ledgers[b], e) /\ LedgersBut(b)
               /\ disposals' = disposals /\ truth'.got = truth.got
               /\ truth'.paid = IF e.money = Unpriced THEN truth.paid ELSE Plus(truth.paid, x)
               /\ method # "acb" => pools' = pools
               /\ method = "acb" =>
                      PoolsBut(b, IF pools[b].cost = Unknown \/ e.money = Unpriced THEN Unknown
                                  ELSE Plus(pools[b].cost, x),
                               pools[b].quantity + e.quantity)
<1> DEFINE b == e.asset
           pool == PoolFor(e)
           joined == Joined(pool, e)
           cost == IF pools[b].cost = Unknown \/ e.money = Unpriced THEN Unknown
                   ELSE Plus(pools[b].cost, e.money.amount)
<1>1. Accepted(e)
    BY DEF Acquire
<1>2. /\ b \in Assets /\ truth \in Books
      /\ ledgers \in [Assets -> Ledgers] /\ pools \in [Assets -> Pools]
      /\ pool \in Pools /\ PoolAccepts(pool, e)
      /\ pool.cost = pools[b].cost /\ pool.quantity = pools[b].quantity
      /\ Retagged(e) \in [Assets -> Pools]
      /\ \A a \in Assets : /\ Retagged(e)[a].cost = pools[a].cost
                           /\ Retagged(e)[a].quantity = pools[a].quantity
    BY <1>1, AcceptedMore
<1>3. /\ ledgers' = [ledgers EXCEPT ![b] = Opened(ledgers[b], e)]
      /\ pools' = IF method # "acb" THEN pools ELSE [Retagged(e) EXCEPT ![b] = joined]
      /\ disposals' = disposals
    BY <1>2 DEF Acquire
<1>4. joined.cost = cost /\ joined.quantity = pools[b].quantity + e.quantity
    <2>1. joined = [pool EXCEPT !.quantity = pool.quantity + e.quantity,
                                !.cost = IF pool.cost = Unknown \/ e.money = Unpriced THEN Unknown
                                         ELSE Plus(pool.cost, e.money.amount)]
        BY DEF Joined
    <2>2. \A p \in Pools : \A y, z : /\ [p EXCEPT !.quantity = y, !.cost = z].cost = z
                                     /\ [p EXCEPT !.quantity = y, !.cost = z].quantity = y
        BY DEF Pools
    <2>. HIDE DEF pool, joined, b
    <2>3. /\ joined.cost = IF pool.cost = Unknown \/ e.money = Unpriced THEN Unknown
                           ELSE Plus(pool.cost, e.money.amount)
          /\ joined.quantity = pool.quantity + e.quantity
        BY <1>2, <2>1, <2>2
    <2>. QED
        BY <1>2, <2>3
<1>5. /\ truth'.got = truth.got
      /\ truth'.paid = IF e.money = Unpriced THEN truth.paid
                       ELSE Plus(truth.paid, e.money.amount)
    BY <1>2 DEF Acquire, Books
<1> HIDE DEF pool, joined, cost, b
<1>6. ledgers'[b] = Opened(ledgers[b], e) /\ LedgersBut(b)
    BY <1>2, <1>3 DEF LedgersBut
<1>7. method # "acb" => pools' = pools
    BY <1>3
<1>8. method = "acb" => PoolsBut(b, cost, pools[b].quantity + e.quantity)
    BY <1>2, <1>3, <1>4 DEF PoolsBut
<1>. QED
    BY <1>3, <1>5, <1>6, <1>7, <1>8 DEF b, cost

(* The basis a disposal books. *)
Basis(e) ==
    LET lots == OpenLots(ledgers[e.asset])
        pool == PoolFor(e)
    IN  IF method = "acb" THEN Averaged(pool, Min({e.quantity, pool.quantity}))
        ELSE BasisOfLots(lots, Plan(lots, e.quantity))

LEMMA DisposeDoes ==
    ASSUME IInv, NEW e \in Events, Dispose(e)
    PROVE  LET b == e.asset
               held == Lesser(e.quantity, pools[b].quantity)
               c == pools[b].cost
           IN  /\ ledgers'[b].lots = Left(ledgers[b], e.quantity)
               /\ ledgers'[b].decimals = ledgers[b].decimals /\ LedgersBut(b)
               /\ \E missing \in BOOLEAN :
                      disposals' = Append(disposals,
                          [asset |-> b, quantity |-> e.quantity, proceeds |-> e.money.amount,
                           cost_basis |-> Basis(e), missing_basis |-> missing])
               /\ truth'.paid = truth.paid
               /\ truth'.got = IF e.money = Unpriced THEN truth.got
                               ELSE Plus(truth.got, e.money.amount)
               /\ method # "acb" => pools' = pools
               /\ method = "acb" =>
                      /\ Basis(e) = IF c = Unknown THEN Unknown
                                    ELSE IF held = 0 THEN Q(0)
                                    ELSE Share(c, held, pools[b].quantity)
                      /\ PoolsBut(b, IF c = Unknown THEN Unknown ELSE Minus(c, Basis(e)),
                                  pools[b].quantity - held)
<1> DEFINE b == e.asset
           q == e.quantity
           pool == PoolFor(e)
           held == Min({q, pool.quantity})
           shrunk == Shrunk(pool, held)
           left == Left(ledgers[b], q)
           basis == Basis(e)
           sale(missing) == [asset |-> b, quantity |-> q, proceeds |-> e.money.amount,
                             cost_basis |-> basis, missing_basis |-> missing]
<1>1. Accepted(e)
    BY DEF Dispose
<1>2. /\ b \in Assets /\ q \in Nat /\ truth \in Books
      /\ ledgers \in [Assets -> Ledgers] /\ pools \in [Assets -> Pools]
      /\ pool \in Pools /\ pool.cost = pools[b].cost /\ pool.quantity = pools[b].quantity
      /\ pools[b].quantity \in Nat /\ Retagged(e) \in [Assets -> Pools]
      /\ \A a \in Assets : /\ Retagged(e)[a].cost = pools[a].cost
                           /\ Retagged(e)[a].quantity = pools[a].quantity
    BY <1>1, AcceptedMore
<1>3. /\ ledgers' = [ledgers EXCEPT ![b].lots = left]
      /\ pools' = IF method # "acb" THEN pools ELSE [Retagged(e) EXCEPT ![b] = shrunk]
      /\ truth'.paid = truth.paid
      /\ truth'.got = IF e.money = Unpriced THEN truth.got ELSE Plus(truth.got, e.money.amount)
    <2>1. /\ ledgers' = [ledgers EXCEPT ![b].lots = left]
          /\ pools' = IF method # "acb" THEN pools ELSE [Retagged(e) EXCEPT ![b] = shrunk]
        BY DEF Dispose, Left
    <2>2. /\ truth'.paid = truth.paid
          /\ truth'.got = IF e.money = Unpriced THEN truth.got
                          ELSE Plus(truth.got, e.money.amount)
        BY <1>2 DEF Dispose, Books
    <2>. QED
        BY <2>1, <2>2
<1>4. \E missing \in BOOLEAN : disposals' = Append(disposals, sale(missing))
    <2>1. disposals' = Append(disposals, sale(SumFunction(Plan(OpenLots(ledgers[b]), q)) < q))
        BY DEF Dispose, Basis
    <2>2. (SumFunction(Plan(OpenLots(ledgers[b]), q)) < q) \in BOOLEAN
        OBVIOUS
    <2>. HIDE DEF sale
    <2>. QED
        BY <2>1, <2>2
<1>5. held = Lesser(q, pools[b].quantity)
    <2>1. q \in Int /\ pool.quantity \in Int
        BY <1>2
    <2>. HIDE DEF q, pool, b
    <2>. QED
        BY <1>2, <2>1, MinOfTwo DEF Lesser
<1>6. method = "acb" => basis = Averaged(pool, held)
    BY DEF Basis
<1>7. /\ shrunk.quantity = pools[b].quantity - held
      /\ shrunk.cost = IF pools[b].cost = Unknown THEN Unknown
                       ELSE Minus(pools[b].cost, Averaged(pool, held))
    <2>1. shrunk = [pool EXCEPT !.quantity = pool.quantity - held,
                                !.cost = IF pool.cost = Unknown THEN Unknown
                                         ELSE Minus(pool.cost, Averaged(pool, held))]
        BY DEF Shrunk
    <2>2. \A p \in Pools : \A y, z : /\ [p EXCEPT !.quantity = y, !.cost = z].cost = z
                                     /\ [p EXCEPT !.quantity = y, !.cost = z].quantity = y
        BY DEF Pools
    <2>. HIDE DEF pool, shrunk, held, b
    <2>3. /\ shrunk.cost = IF pool.cost = Unknown THEN Unknown
                           ELSE Minus(pool.cost, Averaged(pool, held))
          /\ shrunk.quantity = pool.quantity - held
        BY <1>2, <2>1, <2>2
    <2>. QED
        BY <1>2, <2>3
<1>8. Averaged(pool, held) = IF pools[b].cost = Unknown THEN Unknown
                             ELSE IF held = 0 THEN Q(0)
                             ELSE Share(pools[b].cost, held, pools[b].quantity)
    BY <1>2 DEF Averaged
<1> HIDE DEF pool, held, shrunk, basis, left, q, b
<1>9. /\ ledgers'[b].lots = left /\ ledgers'[b].decimals = ledgers[b].decimals
      /\ LedgersBut(b)
    <2>1. ledgers'[b] = [ledgers[b] EXCEPT !.lots = left] /\ LedgersBut(b)
        BY <1>2, <1>3 DEF LedgersBut
    <2>2. ledgers[b] \in Ledgers
        BY <1>2
    <2>. QED
        BY <2>1, <2>2 DEF Ledgers
<1>10. method = "acb" =>
           PoolsBut(b, IF pools[b].cost = Unknown THEN Unknown ELSE Minus(pools[b].cost, basis),
                    pools[b].quantity - held)
    BY <1>2, <1>3, <1>6, <1>7 DEF PoolsBut
<1>11. method # "acb" => pools' = pools
    BY <1>3
<1>12. method = "acb" => basis = IF pools[b].cost = Unknown THEN Unknown
                                 ELSE IF held = 0 THEN Q(0)
                                 ELSE Share(pools[b].cost, held, pools[b].quantity)
    BY <1>6, <1>8
<1>. QED
    BY <1>3, <1>4, <1>5, <1>9, <1>10, <1>11, <1>12 DEF b, q, left, basis

-----------------------------------------------------------------------------
(* The induction.                                                          *)

LEMMA SalesTyped ==
    /\ \A sale \in Sales : Got[sale] \in Rat /\ Cost[sale] \in Rat
    /\ \A sale \in Sales : /\ Got[sale] = OrZero(sale.proceeds)
                           /\ Cost[sale] = OrZero(sale.cost_basis)
BY OrZeroType DEF Got, Cost

LEMMA StartsExactly == Init => Exactly
<1> SUFFICES ASSUME Init PROVE Exactly
    OBVIOUS
<1>1. /\ ledgers = [a \in Assets |-> EmptyLedger] /\ pools = [a \in Assets |-> NoPool]
      /\ disposals = << >> /\ truth.paid = Q(0) /\ truth.got = Q(0)
    BY DEF Init
<1>2. Q(0) \in Rat
    BY PlusLaws
<1>3. InLowest
    <2>1. \A a \in Assets : ledgers[a].lots = << >> /\ pools[a].cost = Q(0)
        BY <1>1 DEF EmptyLedger, NoPool
    <2>2. << >> \in Seq(Sales)
        OBVIOUS
    <2>. QED
        BY <1>1, <1>2, <2>1, <2>2 DEF InLowest, LotsExact, Priced
<1>4. Adding(Got, disposals) = Q(0) /\ Adding(Cost, disposals) = Q(0)
    BY <1>1, AddNone
<1>5. TotalOver(LotBases, Assets) = Q(0)
    <2>1. \A a \in Assets : LotBases[a] = Q(0)
        BY <1>1, AddNone DEF LotBases, EmptyLedger
    <2>. QED
        BY <2>1, AssetsFinite, TotalZero
<1>6. TotalOver(PoolCosts, Assets) = Q(0)
    <2>1. \A a \in Assets : PoolCosts[a] = Q(0)
        BY <1>1 DEF PoolCosts, NoPool
    <2>. QED
        BY <2>1, AssetsFinite, TotalZero
<1>7. Plus(Q(0), Q(0)) = Q(0)
    BY PlusLaws
<1>8. \A a \in Assets : pools[a].cost = Q(0)
    BY <1>1 DEF NoPool
<1>. QED
    BY <1>1, <1>3, <1>4, <1>5, <1>6, <1>7, <1>8 DEF Exactly, GotAll, PaidForLots, PaidForPools

(* What is kept when no lot, no sale and no pool's cost is touched.        *)
LEMMA ExactlyKept ==
    ASSUME Exactly, method' = method, ledgers' = ledgers, disposals' = disposals,
           truth' = truth,
           \A a \in Assets : /\ pools'[a].cost = pools[a].cost
                             /\ pools'[a].quantity = pools[a].quantity
    PROVE  Exactly'
<1>1. PoolCosts' = PoolCosts /\ LotBases' = LotBases
    BY DEF PoolCosts, LotBases
<1>2. InLowest'
    BY DEF Exactly, InLowest
<1>3. GotAll' /\ PaidForLots'
    BY <1>1 DEF Exactly, GotAll, PaidForLots, AllBased
<1>4. PaidForPools'
    BY <1>1 DEF Exactly, PaidForPools, AllBased
<1>. QED
    BY <1>2, <1>3, <1>4 DEF Exactly

LEMMA CurrencyRefusedExactly ==
    ASSUME IInv, Exactly, NEW e \in Events, RefuseCurrency(e)
    PROVE  Exactly'
BY ExactlyKept DEF RefuseCurrency

LEMMA ScaleRefusedExactly ==
    ASSUME IInv, Exactly, NEW e \in Events, RefuseScale(e)
    PROVE  Exactly'
<1>1. Shapes /\ PoolsKept /\ InCurrency(e) /\ pools' = Retagged(e)
    BY DEF IInv, RefuseScale
<1>2. \A a \in Assets : /\ pools'[a].cost = pools[a].cost
                        /\ pools'[a].quantity = pools[a].quantity
    BY <1>1, RetaggedKept
<1>. QED
    BY <1>2, ExactlyKept DEF RefuseScale

(* The pools of all assets but one cost the same, and that one costs more  *)
(* or less by some amount; and so with lots.                               *)
LEMMA PoolsGrow ==
    ASSUME NEW b \in Assets, NEW z \in Rat,
           \A a \in Assets : pools[a].cost \in Rat,
           \A a \in Assets \ {b} : pools'[a].cost = pools[a].cost,
           pools'[b].cost = Plus(z, pools[b].cost)
    PROVE  TotalOver(PoolCosts', Assets) = Plus(z, TotalOver(PoolCosts, Assets))
<1>1. /\ \A a \in Assets : PoolCosts[a] \in Rat /\ PoolCosts[a] = pools[a].cost
      /\ \A a \in Assets : PoolCosts'[a] = pools'[a].cost
    BY DEF PoolCosts
<1>2. /\ \A a \in Assets : PoolCosts[a] \in Rat
      /\ \A a \in Assets \ {b} : PoolCosts'[a] = PoolCosts[a]
      /\ PoolCosts'[b] = Plus(z, PoolCosts[b])
    BY <1>1
<1>. QED
    BY <1>2, AssetsFinite, TotalGrows

LEMMA PoolsShrink ==
    ASSUME NEW b \in Assets, NEW z \in Rat,
           \A a \in Assets : pools'[a].cost \in Rat,
           \A a \in Assets \ {b} : pools'[a].cost = pools[a].cost,
           pools[b].cost = Plus(z, pools'[b].cost)
    PROVE  TotalOver(PoolCosts, Assets) = Plus(z, TotalOver(PoolCosts', Assets))
<1>1. /\ \A a \in Assets : PoolCosts[a] = pools[a].cost
      /\ \A a \in Assets : PoolCosts'[a] \in Rat /\ PoolCosts'[a] = pools'[a].cost
    BY DEF PoolCosts
<1>2. /\ \A a \in Assets : PoolCosts'[a] \in Rat
      /\ \A a \in Assets \ {b} : PoolCosts[a] = PoolCosts'[a]
      /\ PoolCosts[b] = Plus(z, PoolCosts'[b])
    BY <1>1
<1>. QED
    BY <1>2, AssetsFinite, TotalGrows

LEMMA LotBasesType ==
    ASSUME \A a \in Assets : ledgers[a].lots \in Seq(Lots)
    PROVE  /\ \A a \in Assets : /\ LotBases[a] = Adding(LotCost, ledgers[a].lots)
                                /\ LotBases[a] \in Rat
           /\ TotalOver(LotBases, Assets) \in Rat
<1>1. \A a \in Assets : Adding(LotCost, ledgers[a].lots) \in Rat
    BY LotCostType, AddType
<1>2. \A a \in Assets : /\ LotBases[a] = Adding(LotCost, ledgers[a].lots)
                        /\ LotBases[a] \in Rat
    BY <1>1 DEF LotBases
<1>3. TotalOver(LotBases, Assets) \in Rat
    BY <1>2, AssetsFinite, TotalType
<1>. QED
    BY <1>2, <1>3

LEMMA PoolCostsType ==
    ASSUME \A a \in Assets : pools[a].cost \in Rat
    PROVE  TotalOver(PoolCosts, Assets) \in Rat
<1>1. \A a \in Assets : PoolCosts[a] \in Rat
    BY DEF PoolCosts
<1>. QED
    BY <1>1, AssetsFinite, TotalType

LEMMA LotsGrow ==
    ASSUME NEW b \in Assets, NEW z \in Rat,
           \A a \in Assets : ledgers[a].lots \in Seq(Lots), LedgersBut(b),
           Adding(LotCost, ledgers'[b].lots) = Plus(z, Adding(LotCost, ledgers[b].lots))
    PROVE  TotalOver(LotBases', Assets) = Plus(z, TotalOver(LotBases, Assets))
<1>1. /\ \A a \in Assets : LotBases[a] = Adding(LotCost, ledgers[a].lots)
      /\ \A a \in Assets : LotBases[a] \in Rat
    BY LotBasesType
<1>2. \A a \in Assets : LotBases'[a] = Adding(LotCost, ledgers'[a].lots)
    BY DEF LotBases
<1>3. /\ \A a \in Assets \ {b} : LotBases'[a] = LotBases[a]
      /\ LotBases'[b] = Plus(z, LotBases[b])
    BY <1>1, <1>2 DEF LedgersBut
<1>. QED
    BY <1>1, <1>3, AssetsFinite, TotalGrows

LEMMA LotsShrink ==
    ASSUME NEW b \in Assets, NEW z \in Rat,
           \A a \in Assets : ledgers'[a].lots \in Seq(Lots), LedgersBut(b),
           Adding(LotCost, ledgers[b].lots) = Plus(z, Adding(LotCost, ledgers'[b].lots))
    PROVE  TotalOver(LotBases, Assets) = Plus(z, TotalOver(LotBases', Assets))
<1>1. \A a \in Assets : LotBases'[a] = Adding(LotCost, ledgers'[a].lots)
    BY DEF LotBases
<1>2. \A a \in Assets : LotBases'[a] \in Rat
    BY <1>1, LotCostType, AddType
<1>3. \A a \in Assets : LotBases[a] = Adding(LotCost, ledgers[a].lots)
    BY DEF LotBases
<1>4. /\ \A a \in Assets \ {b} : LotBases[a] = LotBases'[a]
      /\ LotBases[b] = Plus(z, LotBases'[b])
    BY <1>1, <1>3 DEF LedgersBut
<1>. QED
    BY <1>2, <1>4, AssetsFinite, TotalGrows

(* An acquisition is paid for, and its cost goes to its lot or its pool.   *)
LEMMA AcquiredExactly ==
    ASSUME IInv, Exactly, NEW e \in Events, Acquire(e)
    PROVE  Exactly'
<1> DEFINE b == e.asset
           x == e.money.amount
           cost == IF pools[b].cost = Unknown \/ e.money = Unpriced THEN Unknown
                   ELSE Plus(pools[b].cost, x)
<1>1. Accepted(e)
    BY DEF Acquire
<1>2. /\ b \in Assets /\ method' = method /\ method \in Methods /\ e.quantity \in Nat \ {0}
      /\ \A a \in Assets : ledgers[a] \in Ledgers /\ pools[a].quantity \in Nat
    BY <1>1, AcceptedMore
<1>3. \A a \in Assets : ledgers[a].lots \in Seq(Lots)
    BY <1>2 DEF Ledgers
<1>4. /\ ledgers'[b] = Opened(ledgers[b], e) /\ LedgersBut(b)
      /\ disposals' = disposals /\ truth'.got = truth.got
      /\ truth'.paid = IF e.money = Unpriced THEN truth.paid ELSE Plus(truth.paid, x)
      /\ method # "acb" => pools' = pools
      /\ method = "acb" => PoolsBut(b, cost, pools[b].quantity + e.quantity)
    BY AcquireDoes
<1>5. /\ x \in Priced /\ (e.money = Unpriced <=> x = Unknown)
      /\ e.money = Unpriced => OrZero(x) = Q(0)
      /\ e.money # Unpriced => x \in Rat /\ OrZero(x) = x
      /\ OrZero(x) \in Rat
    BY EventPriced, OrZeroType
<1>6. InLowest
    BY DEF Exactly
<1>7. /\ LotsExact(ledgers'[b].lots) /\ ledgers'[b].decimals \in Scales
      /\ Adding(LotCost, ledgers'[b].lots) = Plus(OrZero(x), Adding(LotCost, ledgers[b].lots))
    BY <1>2, <1>4, <1>6, OpenedCosts DEF InLowest
<1> HIDE DEF b, x
<1>8. truth.paid \in Rat /\ truth.got \in Rat /\ disposals \in Seq(Sales)
    BY <1>6 DEF InLowest
<1>9. truth'.paid = Plus(OrZero(x), truth.paid)
    <2>1. e.money = Unpriced => Plus(OrZero(x), truth.paid) = truth.paid
        BY <1>5, <1>8, PlusLaws
    <2>2. e.money # Unpriced => Plus(OrZero(x), truth.paid) = Plus(truth.paid, x)
        BY <1>5, <1>8, PlusLaws
    <2>3. truth'.paid = IF e.money = Unpriced THEN truth.paid ELSE Plus(truth.paid, x)
        BY <1>4
    <2>. QED
        BY <2>1, <2>2, <2>3
<1>10. method = "acb" /\ pools[b].cost \in Rat /\ e.money # Unpriced =>
           cost = Plus(OrZero(x), pools[b].cost)
    BY <1>5, PlusLaws, RatParts
<1>11. cost \in Priced
    <2>1. pools[b].cost \in Priced
        BY <1>2, <1>6 DEF InLowest
    <2>. QED
        BY <1>5, <2>1, PlusLaws DEF Priced
<1>12. cost # Unknown => pools[b].cost # Unknown /\ e.money # Unpriced
    OBVIOUS
<1> HIDE DEF cost
<1>13. InLowest'
    <2>1. ASSUME NEW a \in Assets
          PROVE  /\ LotsExact(ledgers'[a].lots)
                 /\ ledgers'[a].lots # << >> => ledgers'[a].decimals \in Scales
                 /\ pools'[a].cost \in Priced
        <3>1. a # b => ledgers'[a] = ledgers[a]
            BY <1>4 DEF LedgersBut
        <3>2. pools'[a].cost \in Priced
            BY <1>2, <1>4, <1>6, <1>11 DEF InLowest, PoolsBut, Methods
        <3>. QED
            BY <1>6, <1>7, <3>1, <3>2 DEF InLowest
    <2>2. truth'.paid \in Rat
        BY <1>5, <1>8, <1>9, PlusLaws
    <2>. QED
        BY <1>4, <1>8, <2>1, <2>2 DEF InLowest
<1>14. GotAll'
    BY <1>4 DEF Exactly, GotAll
<1>15. AllBased' = AllBased
    BY <1>4 DEF AllBased
<1>16. Adding(Cost, disposals) \in Rat
    BY <1>8, SalesTyped, AddType
<1>17. PaidForLots'
    <2> SUFFICES ASSUME method # "acb", AllBased
                 PROVE  truth'.paid = Plus(Adding(Cost, disposals), TotalOver(LotBases', Assets))
        BY <1>2, <1>4, <1>15 DEF PaidForLots
    <2>1. truth.paid = Plus(Adding(Cost, disposals), TotalOver(LotBases, Assets))
        BY DEF Exactly, PaidForLots
    <2>2. TotalOver(LotBases', Assets) = Plus(OrZero(x), TotalOver(LotBases, Assets))
        BY <1>2, <1>3, <1>4, <1>5, <1>7, LotsGrow
    <2>3. TotalOver(LotBases, Assets) \in Rat
        BY <1>3, LotBasesType
    <2>. QED
        BY <1>5, <1>9, <1>16, <2>1, <2>2, <2>3, PlusTrades
<1>18. PaidForPools'
    <2> SUFFICES ASSUME method = "acb", AllBased
                 PROVE  /\ \A a \in Assets : pools'[a].quantity = 0 => pools'[a].cost = Q(0)
                        /\ (\A a \in Assets : pools'[a].cost # Unknown) =>
                               truth'.paid = Plus(Adding(Cost, disposals),
                                                  TotalOver(PoolCosts', Assets))
        BY <1>2, <1>4, <1>15 DEF PaidForPools
    <2>1. /\ \A a \in Assets : pools[a].quantity = 0 => pools[a].cost = Q(0)
          /\ (\A a \in Assets : pools[a].cost # Unknown) =>
                 truth.paid = Plus(Adding(Cost, disposals), TotalOver(PoolCosts, Assets))
        BY DEF Exactly, PaidForPools
    <2>2. /\ pools'[b].cost = cost /\ pools'[b].quantity = pools[b].quantity + e.quantity
          /\ \A a \in Assets \ {b} : /\ pools'[a].cost = pools[a].cost
                                     /\ pools'[a].quantity = pools[a].quantity
        BY <1>4 DEF PoolsBut
    <2>3. \A a \in Assets : pools'[a].quantity = 0 => pools'[a].cost = Q(0)
        <3>1. pools'[b].quantity # 0
            BY <1>2, <2>2
        <3>. QED
            BY <2>1, <2>2, <3>1
    <2>4. ASSUME \A a \in Assets : pools'[a].cost # Unknown
          PROVE  truth'.paid = Plus(Adding(Cost, disposals), TotalOver(PoolCosts', Assets))
        <3>1. e.money # Unpriced /\ \A a \in Assets : pools[a].cost # Unknown
            BY <1>2, <1>12, <2>2, <2>4
        <3>2. \A a \in Assets : pools[a].cost \in Rat
            BY <1>6, <3>1 DEF InLowest, Priced
        <3>3. pools'[b].cost = Plus(OrZero(x), pools[b].cost)
            BY <1>2, <1>10, <2>2, <3>1, <3>2
        <3>4. TotalOver(PoolCosts', Assets) = Plus(OrZero(x), TotalOver(PoolCosts, Assets))
            BY <1>2, <1>5, <2>2, <3>2, <3>3, PoolsGrow
        <3>5. TotalOver(PoolCosts, Assets) \in Rat
            BY <3>2, PoolCostsType
        <3>. QED
            BY <1>5, <1>9, <1>16, <2>1, <3>1, <3>4, <3>5, PlusTrades
    <2>. QED
        BY <2>3, <2>4
<1>. QED
    BY <1>13, <1>14, <1>17, <1>18 DEF Exactly


LEMMA LeftOfNone ==
    ASSUME NEW ledger \in Ledgers, ledger.lots = << >>, NEW needed
    PROVE  Left(ledger, needed) = << >>
<1> DEFINE lots == OpenLots(ledger)
<1>1. lots \in Seq(Lots) /\ Picks(lots, ledger.lots, Len(ledger.lots))
    BY OpenLotsAre
<1>2. Len(ledger.lots) = 0
    OBVIOUS
<1> HIDE DEF lots
<1>3. [1 .. Len(lots) -> 1 .. 0] # {}
    BY <1>1, <1>2 DEF Picks
<1>4. Len(lots) = 0
    <2>1. PICK f \in [1 .. Len(lots) -> 1 .. 0] : TRUE
        BY <1>3
    <2>2. Len(lots) \in Nat
        BY <1>1
    <2>3. 1 \notin 1 .. Len(lots)
        BY <2>1
    <2>. QED
        BY <2>2, <2>3
<1>5. DOMAIN lots = {}
    BY <1>1, <1>4
<1>6. Left(ledger, needed) = [i \in DOMAIN lots |-> Drawn(lots[i], Plan(lots, needed)[i])]
    BY DEF Left, lots
<1>. QED
    BY <1>5, <1>6

(* The part of a pool that a disposal takes, and what it leaves.           *)
LEMMA PoolCostSplits ==
    ASSUME NEW c \in Priced, NEW q \in Nat, NEW held \in 0 .. q,
           NEW basis, basis = IF c = Unknown THEN Unknown
                              ELSE IF held = 0 THEN Q(0) ELSE Share(c, held, q)
    PROVE  LET left == IF c = Unknown THEN Unknown ELSE Minus(c, basis)
           IN  /\ basis \in Priced /\ left \in Priced
               /\ basis = Unknown <=> c = Unknown
               /\ left = Unknown <=> c = Unknown
               /\ c # Unknown => c = Plus(basis, left)
               /\ c # Unknown /\ held = q /\ (q = 0 => c = Q(0)) => left = Q(0)
<1> DEFINE left == IF c = Unknown THEN Unknown ELSE Minus(c, basis)
<1>1. CASE c = Unknown
    BY <1>1 DEF Priced
<1>2. CASE c # Unknown
    <2>1. c \in Rat /\ left = Minus(c, basis)
        BY <1>2 DEF Priced
    <2>2. basis \in Rat
        BY <1>2, <2>1, RatType, PlusLaws
    <2>3. left \in Rat /\ c = Plus(basis, left)
        <3>1. 0 \in Nat /\ 1 \in Nat \ {0}
            OBVIOUS
        <3>2. Minus(c, basis) \in Rat
            BY <2>1, <2>2, <3>1, RatType
        <3>3. Plus(Minus(c, basis), basis) = c
            BY <2>1, <2>2, MinusUndoes
        <3>. QED
            BY <2>1, <2>2, <3>2, <3>3, PlusLaws
    <2>4. basis # Unknown /\ left # Unknown
        BY <2>2, <2>3, RatParts
    <2>5. held = q /\ (q = 0 => c = Q(0)) => left = Q(0)
        <3> SUFFICES ASSUME held = q, q = 0 => c = Q(0) PROVE left = Q(0)
            OBVIOUS
        <3>1. basis = c
            BY <1>2, <2>1, ShareEnds
        <3>2. Minus(Plus(Q(0), c), c) = Q(0) /\ Plus(Q(0), c) = c
            BY <2>1, MinusUndoes, PlusLaws
        <3>. QED
            BY <2>1, <3>1, <3>2
    <2>. QED
        BY <1>2, <2>2, <2>3, <2>4, <2>5 DEF Priced
<1>. QED
    BY <1>1, <1>2

(* A disposal books the basis that its lots or its pool lose.              *)
LEMMA DisposedExactly ==
    ASSUME IInv, Exactly, NEW e \in Events, Dispose(e)
    PROVE  Exactly'
<1> DEFINE b == e.asset
           x == e.money.amount
           q == pools[b].quantity
           held == Lesser(e.quantity, q)
           c == pools[b].cost
           basis == Basis(e)
           left == IF c = Unknown THEN Unknown ELSE Minus(c, basis)
           lots == Left(ledgers[b], e.quantity)
<1>1. Accepted(e)
    BY DEF Dispose
<1>2. /\ b \in Assets /\ method' = method /\ method \in Methods /\ e.quantity \in Nat \ {0}
      /\ q \in Nat
      /\ \A a \in Assets : ledgers[a] \in Ledgers
    BY <1>1, AcceptedMore
<1>3. \A a \in Assets : ledgers'[a].lots \in Seq(Lots)
    <2>1. IInv'
        BY Disposes
    <2>2. ledgers' \in [Assets -> Ledgers]
        BY <2>1 DEF IInv, Shapes
    <2>. QED
        BY <2>2 DEF Ledgers
<1>4. /\ ledgers'[b].lots = lots /\ ledgers'[b].decimals = ledgers[b].decimals /\ LedgersBut(b)
      /\ \E missing \in BOOLEAN :
             disposals' = Append(disposals,
                 [asset |-> b, quantity |-> e.quantity, proceeds |-> x,
                  cost_basis |-> basis, missing_basis |-> missing])
      /\ truth'.paid = truth.paid
      /\ truth'.got = IF e.money = Unpriced THEN truth.got ELSE Plus(truth.got, x)
      /\ method # "acb" => pools' = pools
      /\ method = "acb" =>
             /\ basis = IF c = Unknown THEN Unknown
                        ELSE IF held = 0 THEN Q(0) ELSE Share(c, held, q)
             /\ PoolsBut(b, left, q - held)
    BY DisposeDoes
<1>5. /\ x \in Priced /\ (e.money = Unpriced <=> x = Unknown)
      /\ e.money = Unpriced => OrZero(x) = Q(0)
      /\ e.money # Unpriced => x \in Rat /\ OrZero(x) = x
      /\ OrZero(x) \in Rat
    BY EventPriced, OrZeroType
<1>6. InLowest
    BY DEF Exactly
<1>7. c \in Priced /\ held \in 0 .. q /\ (held = 0 => q = 0)
    BY <1>2, <1>6 DEF InLowest, Lesser
<1>8. /\ LotsExact(lots)
      /\ method # "acb" => basis \in Priced
      /\ method # "acb" /\ basis # Unknown =>
             Adding(LotCost, ledgers[b].lots) = Plus(basis, Adding(LotCost, lots))
    <2>1. method # "acb" => basis = BasisOfLots(OpenLots(ledgers[b]),
                                               Plan(OpenLots(ledgers[b]), e.quantity))
        BY DEF Basis
    <2>2. ledgers[b] \in Ledgers /\ e.quantity \in Nat /\ LotsExact(ledgers[b].lots)
        BY <1>2, <1>6 DEF InLowest
    <2>. HIDE DEF b, basis
    <2>. QED
        BY <1>2, <2>1, <2>2, PlanCosts
<1>9. lots # << >> => ledgers[b].decimals \in Scales
    <2>1. lots # << >> => ledgers[b].lots # << >>
        BY <1>2, LeftOfNone
    <2>. QED
        BY <1>2, <1>6, <2>1 DEF InLowest
<1>10. method = "acb" =>
           /\ basis \in Priced /\ left \in Priced
           /\ basis = Unknown <=> c = Unknown
           /\ left = Unknown <=> c = Unknown
           /\ c # Unknown => c = Plus(basis, left)
           /\ c # Unknown /\ held = q /\ (q = 0 => c = Q(0)) => left = Q(0)
    <2>1. method = "acb" => basis = IF c = Unknown THEN Unknown
                                    ELSE IF held = 0 THEN Q(0) ELSE Share(c, held, q)
        BY <1>4
    <2>. HIDE DEF b, c, q, held, basis
    <2>. QED
        BY <1>2, <1>7, <2>1, PoolCostSplits
<1>11. basis \in Priced /\ Methods = {"fifo", "lifo", "hifo", "acb"}
    BY <1>8, <1>10 DEF Methods
<1> HIDE DEF b, x, q, held, c, basis, left, lots
<1>12. truth.paid \in Rat /\ truth.got \in Rat /\ disposals \in Seq(Sales)
    BY <1>6 DEF InLowest
<1>13. PICK missing \in BOOLEAN :
           disposals' = Append(disposals,
               [asset |-> b, quantity |-> e.quantity, proceeds |-> x,
                cost_basis |-> basis, missing_basis |-> missing])
    BY <1>4
<1> DEFINE sale == [asset |-> b, quantity |-> e.quantity, proceeds |-> x,
                    cost_basis |-> basis, missing_basis |-> missing]
<1>14. sale \in Sales /\ disposals' = Append(disposals, sale)
    <2>1. e.quantity \in Nat
        BY <1>2
    <2>. QED
        BY <1>2, <1>5, <1>11, <1>13, <2>1 DEF Sales
<1>15. sale.proceeds = x /\ sale.cost_basis = basis
    OBVIOUS
<1> HIDE DEF sale
<1>16. /\ Adding(Got, disposals') = Plus(OrZero(x), Adding(Got, disposals))
       /\ Adding(Cost, disposals') = Plus(OrZero(basis), Adding(Cost, disposals))
       /\ Adding(Got, disposals) \in Rat /\ Adding(Cost, disposals) \in Rat
    BY <1>12, <1>14, <1>15, SalesTyped, AddAppend, AddType
<1>17. truth'.got = Plus(OrZero(x), truth.got)
    <2>1. e.money = Unpriced => Plus(OrZero(x), truth.got) = truth.got
        BY <1>5, <1>12, PlusLaws
    <2>2. e.money # Unpriced => Plus(OrZero(x), truth.got) = Plus(truth.got, x)
        BY <1>5, <1>12, PlusLaws
    <2>. QED
        BY <1>4, <2>1, <2>2
<1>18. InLowest'
    <2>1. ASSUME NEW a \in Assets
          PROVE  /\ LotsExact(ledgers'[a].lots)
                 /\ ledgers'[a].lots # << >> => ledgers'[a].decimals \in Scales
                 /\ pools'[a].cost \in Priced
        <3>1. a # b => ledgers'[a] = ledgers[a]
            BY <1>4 DEF LedgersBut
        <3>2. pools'[a].cost \in Priced
            BY <1>2, <1>4, <1>6, <1>10 DEF InLowest, PoolsBut
        <3>. QED
            BY <1>4, <1>6, <1>8, <1>9, <3>1, <3>2 DEF InLowest
    <2>2. truth'.got \in Rat /\ truth'.paid \in Rat
        BY <1>4, <1>5, <1>12, <1>17, PlusLaws
    <2>3. disposals' \in Seq(Sales)
        BY <1>12, <1>14
    <2>. QED
        BY <2>1, <2>2, <2>3 DEF InLowest
<1>19. GotAll'
    <2>1. truth.got = Adding(Got, disposals)
        BY DEF Exactly, GotAll
    <2>. QED
        BY <1>16, <1>17, <2>1 DEF GotAll
<1>20. AllBased' => AllBased /\ basis # Unknown
    <2>1. /\ DOMAIN disposals \subseteq DOMAIN disposals'
          /\ \A k \in DOMAIN disposals : disposals'[k] = disposals[k]
          /\ Len(disposals) + 1 \in DOMAIN disposals'
          /\ disposals'[Len(disposals) + 1] = sale
        BY <1>12, <1>14
    <2>. QED
        BY <1>15, <2>1 DEF AllBased
<1>21. ASSUME AllBased', NEW T \in Rat,
              truth.paid = Plus(Adding(Cost, disposals), Plus(basis, T))
       PROVE  truth'.paid = Plus(Adding(Cost, disposals'), T)
    <2>1. basis \in Rat /\ OrZero(basis) = basis
        BY <1>11, <1>20, <1>21, PricedOr
    <2>2. Plus(Adding(Cost, disposals), Plus(basis, T))
              = Plus(basis, Plus(Adding(Cost, disposals), T))
        BY <1>16, <1>21, <2>1, PlusTrades
    <2>3. Plus(basis, Plus(Adding(Cost, disposals), T))
              = Plus(Plus(basis, Adding(Cost, disposals)), T)
        BY <1>16, <1>21, <2>1, PlusJoins
    <2>. QED
        BY <1>4, <1>16, <1>21, <2>1, <2>2, <2>3
<1>22. PaidForLots'
    <2> SUFFICES ASSUME method # "acb", AllBased'
                 PROVE  truth'.paid = Plus(Adding(Cost, disposals'), TotalOver(LotBases', Assets))
        BY <1>2 DEF PaidForLots
    <2>1. truth.paid = Plus(Adding(Cost, disposals), TotalOver(LotBases, Assets))
        BY <1>20 DEF Exactly, PaidForLots
    <2>2. basis \in Rat
        BY <1>11, <1>20, PricedOr
    <2>3. Adding(LotCost, ledgers[b].lots) = Plus(basis, Adding(LotCost, ledgers'[b].lots))
        BY <1>4, <1>8, <1>20
    <2>4. TotalOver(LotBases, Assets) = Plus(basis, TotalOver(LotBases', Assets))
        BY <1>2, <1>3, <1>4, <2>2, <2>3, LotsShrink
    <2>5. TotalOver(LotBases', Assets) \in Rat
        <3>1. \A a \in Assets : LotBases'[a] = Adding(LotCost, ledgers'[a].lots)
            BY DEF LotBases
        <3>2. \A a \in Assets : LotBases'[a] \in Rat
            BY <1>3, <3>1, LotCostType, AddType
        <3>. QED
            BY <3>2, AssetsFinite, TotalType
    <2>. QED
        BY <1>21, <2>1, <2>4, <2>5
<1>23. PaidForPools'
    <2> SUFFICES ASSUME method = "acb", AllBased'
                 PROVE  /\ \A a \in Assets : pools'[a].quantity = 0 => pools'[a].cost = Q(0)
                        /\ (\A a \in Assets : pools'[a].cost # Unknown) =>
                               truth'.paid = Plus(Adding(Cost, disposals'),
                                                  TotalOver(PoolCosts', Assets))
        BY <1>2 DEF PaidForPools
    <2>1. /\ \A a \in Assets : pools[a].quantity = 0 => pools[a].cost = Q(0)
          /\ (\A a \in Assets : pools[a].cost # Unknown) =>
                 truth.paid = Plus(Adding(Cost, disposals), TotalOver(PoolCosts, Assets))
        BY <1>20 DEF Exactly, PaidForPools
    <2>2. /\ pools'[b].cost = left /\ pools'[b].quantity = q - held
          /\ \A a \in Assets \ {b} : /\ pools'[a].cost = pools[a].cost
                                     /\ pools'[a].quantity = pools[a].quantity
        BY <1>4 DEF PoolsBut
    <2>3. basis # Unknown /\ c # Unknown /\ basis \in Rat
        BY <1>10, <1>11, <1>20, PricedOr
    <2>4. \A a \in Assets : pools'[a].quantity = 0 => pools'[a].cost = Q(0)
        <3>1. q = 0 => c = Q(0)
            BY <1>2, <2>1 DEF q, c
        <3>2. q - held = 0 => left = Q(0)
            BY <1>2, <1>7, <1>10, <2>3, <3>1
        <3>. QED
            BY <2>1, <2>2, <3>2
    <2>5. ASSUME \A a \in Assets : pools'[a].cost # Unknown
          PROVE  truth'.paid = Plus(Adding(Cost, disposals'), TotalOver(PoolCosts', Assets))
        <3>1. \A a \in Assets : pools'[a].cost \in Rat
            BY <1>18, <2>5 DEF InLowest, Priced
        <3>2. pools[b].cost = Plus(basis, pools'[b].cost)
            BY <1>10, <2>2, <2>3 DEF c
        <3>3. TotalOver(PoolCosts, Assets) = Plus(basis, TotalOver(PoolCosts', Assets))
            BY <1>2, <2>2, <2>3, <3>1, <3>2, PoolsShrink
        <3>4. \A a \in Assets : pools[a].cost # Unknown
            BY <2>2, <2>3, <2>5 DEF c
        <3>5. TotalOver(PoolCosts', Assets) \in Rat
            <4>1. \A a \in Assets : PoolCosts'[a] = pools'[a].cost
                BY DEF PoolCosts
            <4>. QED
                BY <3>1, <4>1, AssetsFinite, TotalType
        <3>. QED
            BY <1>21, <2>1, <3>3, <3>4, <3>5
    <2>. QED
        BY <2>4, <2>5
<1>. QED
    BY <1>18, <1>19, <1>22, <1>23 DEF Exactly


LEMMA StaysExactly == IInv /\ Exactly /\ [Next]_vars => Exactly'
<1> SUFFICES ASSUME IInv, Exactly, [Next]_vars PROVE Exactly'
    OBVIOUS
<1>1. CASE Next
    <2>1. PICK e \in Events : Acquire(e) \/ Dispose(e) \/ RefuseCurrency(e) \/ RefuseScale(e)
        BY <1>1 DEF Next
    <2>. QED
        BY <2>1, AcquiredExactly, DisposedExactly, CurrencyRefusedExactly, ScaleRefusedExactly
<1>2. CASE UNCHANGED vars
    BY <1>2, ExactlyKept DEF vars
<1>. QED
    BY <1>1, <1>2

(* Amounts never drift: every lot keeps its exact part of its cost, and    *)
(* what was paid is to be found in the bases booked and in what is held,   *)
(* as long as every basis is known (process, consume, dispose).            *)
THEOREM ReplaysExactly == Spec => [](IInv /\ Exactly)
<1>1. Init => IInv /\ Exactly
    BY Begins, StartsExactly
<1>2. (IInv /\ Exactly) /\ [Next]_vars => (IInv /\ Exactly)'
    BY Stays, StaysExactly
<1>. QED
    BY <1>1, <1>2, PTL DEF Spec

-----------------------------------------------------------------------------
(* Powers of ten, which a recursive function gives.                        *)

IsPower(g, n) ==
    /\ g \in [0 .. n -> Nat \ {0}]
    /\ \A i \in 0 .. n : g[i] = IF i = 0 THEN 1 ELSE 10 * g[i - 1]

LEMMA PowersExist ==
    ASSUME NEW n \in Nat
    PROVE  \E g : IsPower(g, n)
<1> DEFINE T == {m \in Nat : \E g : IsPower(g, m)}
<1>1. 0 \in T
    <2>1. IsPower([i \in 0 .. 0 |-> 1], 0)
        BY DEF IsPower
    <2>. QED
        BY <2>1
<1>2. ASSUME NEW m \in 0 .. n - 1, m \in T PROVE m + 1 \in T
    <2>1. PICK g : IsPower(g, m)
        BY <1>2
    <2> DEFINE h == [i \in 0 .. m + 1 |-> IF i = m + 1 THEN 10 * g[m] ELSE g[i]]
    <2>2. m \in Nat /\ g \in [0 .. m -> Nat \ {0}]
        BY <2>1 DEF IsPower
    <2>3. h \in [0 .. m + 1 -> Nat \ {0}]
        BY <2>2
    <2>4. ASSUME NEW i \in 0 .. m + 1 PROVE h[i] = IF i = 0 THEN 1 ELSE 10 * h[i - 1]
        <3>1. CASE i = m + 1
            BY <2>2, <3>1
        <3>2. CASE i # m + 1
            <4>1. i \in 0 .. m /\ (i # 0 => i - 1 \in 0 .. m)
                BY <2>2, <3>2
            <4>2. h[i] = g[i] /\ (i # 0 => h[i - 1] = g[i - 1])
                BY <2>2, <4>1
            <4>3. g[i] = IF i = 0 THEN 1 ELSE 10 * g[i - 1]
                BY <2>1, <4>1 DEF IsPower
            <4>. QED
                BY <4>2, <4>3
        <3>. QED
            BY <3>1, <3>2
    <2>5. IsPower(h, m + 1)
        <3>. HIDE DEF h
        <3>. QED
            BY <2>3, <2>4 DEF IsPower
    <2>. QED
        BY <2>2, <2>5
<1> HIDE DEF T
<1>3. \A m \in 0 .. n : m \in T
    BY <1>1, <1>2, CountingUp
<1>4. n \in T
    BY <1>3
<1>. QED
    BY <1>4 DEF T

LEMMA PowersAgree ==
    ASSUME NEW n \in Nat, NEW m \in Nat, NEW g, NEW h, IsPower(g, n), IsPower(h, m), n <= m
    PROVE  \A i \in 0 .. n : g[i] = h[i]
<1> DEFINE T == {i \in 0 .. n : g[i] = h[i]}
<1>1. 0 \in T
    BY DEF IsPower
<1>2. ASSUME NEW i \in 0 .. n - 1, i \in T PROVE i + 1 \in T
    BY <1>2 DEF IsPower
<1> HIDE DEF T
<1>3. \A i \in 0 .. n : i \in T
    BY <1>1, <1>2, CountingUp
<1>. QED
    BY <1>3 DEF T

LEMMA PowersOfTen == \A n \in Nat : PowerOfTen[n] \in Nat \ {0}
<1> DEFINE pow == [n \in Nat |-> (CHOOSE g : IsPower(g, n))[n]]
           IsPow(f) == f = [n \in Nat |-> IF n = 0 THEN 1 ELSE 10 * f[n - 1]]
<1>1. \A n \in Nat : IsPower(CHOOSE g : IsPower(g, n), n)
    BY PowersExist, Zenon
<1>2. ASSUME NEW n \in Nat
      PROVE  pow[n] \in Nat \ {0} /\ pow[n] = IF n = 0 THEN 1 ELSE 10 * pow[n - 1]
    <2> DEFINE g == CHOOSE f : IsPower(f, n)
               h == CHOOSE f : IsPower(f, n - 1)
    <2>1. IsPower(g, n) /\ pow[n] = g[n]
        BY <1>1
    <2>2. n # 0 => n - 1 \in Nat /\ IsPower(h, n - 1) /\ pow[n - 1] = h[n - 1]
        BY <1>1
    <2> HIDE DEF g, h, pow
    <2>3. n # 0 => h[n - 1] = g[n - 1]
        BY <2>1, <2>2, PowersAgree
    <2>4. g[n] \in Nat \ {0} /\ g[n] = IF n = 0 THEN 1 ELSE 10 * g[n - 1]
        BY <2>1 DEF IsPower
    <2>. QED
        BY <2>1, <2>2, <2>3, <2>4
<1>3. IsPow(pow)
    <2>1. pow = [n \in Nat |-> pow[n]]
        OBVIOUS
    <2> HIDE DEF pow
    <2>. QED
        BY <1>2, <2>1
<1>4. PowerOfTen = CHOOSE f : IsPow(f)
    BY Zenon DEF PowerOfTen
<1> HIDE DEF pow, IsPow
<1>5. IsPow(PowerOfTen)
    BY <1>3, <1>4, Zenon
<1>6. \A n \in Nat : PowerOfTen[n] = IF n = 0 THEN 1 ELSE 10 * PowerOfTen[n - 1]
    <2>1. PowerOfTen = [n \in Nat |-> IF n = 0 THEN 1 ELSE 10 * PowerOfTen[n - 1]]
        BY <1>5 DEF IsPow
    <2>. QED
        BY <2>1
<1>7. ASSUME NEW n \in Nat PROVE PowerOfTen[n] \in Nat \ {0}
    <2> DEFINE T == {i \in 0 .. n : PowerOfTen[i] \in Nat \ {0}}
    <2>1. 0 \in T
        BY <1>6
    <2>2. ASSUME NEW i \in 0 .. n - 1, i \in T PROVE i + 1 \in T
        <3>1. i + 1 \in Nat /\ i + 1 # 0 /\ i + 1 - 1 = i /\ i + 1 \in 0 .. n
            OBVIOUS
        <3>2. PowerOfTen[i + 1] = 10 * PowerOfTen[i]
            BY <1>6, <3>1
        <3>. QED
            BY <2>2, <3>1, <3>2
    <2> HIDE DEF T
    <2>3. \A i \in 0 .. n : i \in T
        BY <2>1, <2>2, CountingUp
    <2>4. n \in 0 .. n
        OBVIOUS
    <2>. QED
        BY <2>3, <2>4 DEF T
<1>. QED
    BY <1>7

-----------------------------------------------------------------------------
(* What a report reads. *)

LEMMA WorthType ==
    ASSUME NEW raw \in Nat, NEW decimals \in Nat, NEW mark \in Nat
    PROVE  /\ Worth(raw, decimals, mark) \in Rat /\ Q(mark) \in Rat
           /\ PowerOfTen[decimals] \in Nat \ {0}
<1>1. PowerOfTen[decimals] \in Nat \ {0} /\ Q(mark) \in Rat
    BY PowersOfTen, WholeRat
<1>. QED
    BY <1>1, RatType DEF Worth

LEMMA OpenRows ==
    ASSUME IInv, Exactly, NEW a \in Assets
    PROVE  LET lots == OpenLots(ledgers[a])
           IN  /\ ledgers[a] \in Ledgers /\ lots \in Seq(Lots) /\ LotsExact(lots)
               /\ IsFiniteSet(DOMAIN lots)
               /\ \A i \in DOMAIN lots : /\ lots[i] \in Lots /\ LotExact(lots[i])
                                         /\ lots[i].remaining \in Nat \ {0}
                                         /\ lots[i].original \in Nat \ {0}
               /\ lots = << >> <=> DOMAIN lots = {}
               /\ lots # << >> => ledgers[a].decimals \in Scales
               /\ Held(a) = Units(lots, DOMAIN lots) /\ Held(a) \in Nat
               /\ Held(a) = 0 <=> lots = << >>
               /\ LotBases[a] = Adding(LotCost, lots)
<1> DEFINE lots == OpenLots(ledgers[a])
           all == ledgers[a].lots
           r == [i \in DOMAIN lots |-> lots[i].remaining]
<1>1. ledgers[a] \in Ledgers /\ all \in Seq(Lots)
    BY DEF IInv, Shapes, Ledgers
<1>2. LotsExact(all) /\ (all # << >> => ledgers[a].decimals \in Scales)
    BY DEF Exactly, InLowest
<1>3. /\ lots \in Seq(Lots) /\ LotsExact(lots) /\ Picks(lots, all, Len(all))
      /\ Adding(LotCost, lots) = Adding(LotCost, all)
    BY <1>1, <1>2, OpenLotsAre, OpenLotsCost
<1>4. Held(a) = Units(lots, DOMAIN lots)
    BY DEF Held
<1>5. LotBases[a] = Adding(LotCost, all)
    BY DEF LotBases
<1> HIDE DEF lots, all
<1>6. /\ IsFiniteSet(DOMAIN lots) /\ DOMAIN lots = 1 .. Len(lots)
      /\ \A i \in DOMAIN lots : lots[i] \in Lots
    BY <1>3, Indexes
<1>7. \A i \in DOMAIN lots : lots[i].remaining > 0 /\ (all = << >> => FALSE)
    <2>1. PICK e \in [1 .. Len(lots) -> 1 .. Len(all)] :
              \A k \in 1 .. Len(lots) : lots[k] = all[e[k]] /\ lots[k].remaining > 0
        BY <1>3 DEF Picks
    <2>2. \A i \in DOMAIN lots : e[i] \in 1 .. Len(all)
        BY <1>6, <2>1
    <2>3. all = << >> => 1 .. Len(all) = {}
        OBVIOUS
    <2>. QED
        BY <1>6, <2>1, <2>2, <2>3
<1>8. \A i \in DOMAIN lots : /\ lots[i] \in Lots /\ LotExact(lots[i])
                             /\ lots[i].remaining \in Nat \ {0}
                             /\ lots[i].original \in Nat \ {0}
    BY <1>3, <1>6, <1>7, LotsType DEF LotsExact
<1>9. lots = << >> <=> DOMAIN lots = {}
    BY <1>3, <1>6
<1>10. lots # << >> => ledgers[a].decimals \in Scales
    BY <1>2, <1>7, <1>9
<1>11. \A i \in DOMAIN lots : r[i] \in Nat \ {0}
    BY <1>8
<1>12. Held(a) = SumFunctionOnSet(r, DOMAIN lots)
    BY <1>4 DEF Units
<1> HIDE DEF r
<1>13. Held(a) \in Nat
    BY <1>6, <1>11, <1>12, SumType
<1>14. Held(a) = 0 <=> lots = << >>
    <2>1. CASE DOMAIN lots = {}
        BY <1>9, <1>12, <2>1, SumEmpty
    <2>2. CASE DOMAIN lots # {}
        <3>1. PICK i \in DOMAIN lots : TRUE
            BY <2>2
        <3>2. SumFunctionOnSet(r, DOMAIN lots)
                  = r[i] + SumFunctionOnSet(r, DOMAIN lots \ {i})
            BY <1>6, <1>11, SumTakes
        <3>3. SumFunctionOnSet(r, DOMAIN lots \ {i}) \in Nat
            <4>1. IsFiniteSet(DOMAIN lots \ {i})
                BY <1>6, FS_Subset
            <4>. QED
                BY <1>11, <4>1, SumType
        <3>4. Held(a) # 0
            BY <1>11, <1>12, <3>2, <3>3
        <3>. QED
            BY <1>9, <2>2, <3>4
    <2>. QED
        BY <2>1, <2>2
<1>. QED
    BY <1>1, <1>3, <1>4, <1>5, <1>6, <1>8, <1>9, <1>10, <1>13, <1>14 DEF lots


(* The basis of what is open, when it is known, is what those lots cost.   *)
LEMMA OpenBasisIs ==
    ASSUME IInv, Exactly, NEW a \in Assets
    PROVE  /\ OpenBasis(a) \in Priced
           /\ OpenBasis(a) # Unknown => OpenBasis(a) = LotBases[a]
           /\ OpenLots(ledgers[a]) = << >> => OpenBasis(a) = Q(0)
<1> DEFINE lots == OpenLots(ledgers[a])
           f == [i \in DOMAIN lots |-> lots[i].cost_remaining]
           g == [i \in DOMAIN lots |-> LotCost[lots[i]]]
<1>1. /\ IsFiniteSet(DOMAIN lots) /\ (lots = << >> <=> DOMAIN lots = {})
      /\ \A i \in DOMAIN lots : lots[i] \in Lots /\ LotExact(lots[i])
      /\ LotBases[a] = Adding(LotCost, lots)
    BY OpenRows
<1>2. OpenBasis(a) = IF \E i \in DOMAIN lots : lots[i].cost_remaining = Unknown THEN Unknown
                     ELSE TotalOver(f, DOMAIN f)
    BY TotalIs DEF OpenBasis
<1>3. LotBases[a] = TotalOver(g, DOMAIN lots) /\ DOMAIN f = DOMAIN lots
    BY <1>1 DEF Adding
<1> HIDE DEF lots
<1>4. CASE \E i \in DOMAIN lots : lots[i].cost_remaining = Unknown
    BY <1>1, <1>2, <1>4 DEF Priced, lots
<1>5. CASE ~\E i \in DOMAIN lots : lots[i].cost_remaining = Unknown
    <2>1. ASSUME NEW i \in DOMAIN lots PROVE g[i] \in Rat /\ f[i] = g[i]
        <3>1. lots[i].cost_total # Unknown
            BY <1>1, <1>5 DEF LotExact
        <3>2. LotCost[lots[i]] \in Rat /\ LotCost[lots[i]] = lots[i].cost_remaining
            BY <1>1, <3>1, LotCostIs
        <3>. QED
            BY <3>2
    <2> HIDE DEF f, g
    <2>2. TotalOver(f, DOMAIN lots) = TotalOver(g, DOMAIN lots)
        BY <1>1, <2>1, TotalSame
    <2>3. TotalOver(g, DOMAIN lots) \in Rat
        BY <1>1, <2>1, TotalType
    <2>4. OpenBasis(a) = TotalOver(f, DOMAIN lots)
        BY <1>2, <1>3, <1>5
    <2>5. DOMAIN lots = {} => OpenBasis(a) = Q(0)
        BY <2>4, TotalEmpty
    <2>. QED
        BY <1>1, <1>3, <2>2, <2>3, <2>4, <2>5 DEF Priced, lots
<1>. QED
    BY <1>4, <1>5

LEMMA RemainingBasisType ==
    ASSUME IInv, Exactly, NEW a \in Assets
    PROVE  RemainingBasis(a) \in Priced
BY OpenBasisIs DEF RemainingBasis, Exactly, InLowest

(* What is not held gains nothing, and a known gain is the worth of what   *)
(* is held less its basis.                                                 *)
LEMMA GapIs ==
    ASSUME IInv, Exactly, NEW a \in Assets, NEW S \in SUBSET Assets, NEW marks \in [S -> Marks]
    PROVE  /\ Gap(a, marks) \in Priced
           /\ Held(a) = 0 => Gap(a, marks) = Q(0)
           /\ Gap(a, marks) # Unknown /\ Held(a) # 0 =>
                  /\ a \in S /\ RemainingBasis(a) \in Rat
                  /\ Worth(Held(a), scales[a], marks[a]) \in Rat
                  /\ Gap(a, marks)
                         = Minus(Worth(Held(a), scales[a], marks[a]), RemainingBasis(a))
<1>1. RemainingBasis(a) \in Priced /\ Held(a) \in Nat
    BY RemainingBasisType, OpenRows
<1>2. scales[a] \in Nat
    <2>1. scales \in [Assets -> Scales \cup {0}]
        BY DEF IInv, Shapes
    <2>2. \A n \in Scales \cup {0} : n \in Nat
        BY ScaleConstants
    <2>. QED
        BY <2>1, <2>2
<1>3. DOMAIN marks = S /\ \A b \in S : marks[b] \in Nat
    BY AmountConstants
<1>4. Gap(a, marks) = IF Held(a) = 0 THEN Q(0)
                      ELSE IF a \notin S \/ RemainingBasis(a) = Unknown THEN Unknown
                      ELSE Minus(Worth(Held(a), scales[a], marks[a]), RemainingBasis(a))
    BY <1>3 DEF Gap
<1>5. CASE Held(a) = 0 \/ a \notin S \/ RemainingBasis(a) = Unknown
    BY <1>4, <1>5, PlusLaws DEF Priced
<1>6. CASE ~(Held(a) = 0 \/ a \notin S \/ RemainingBasis(a) = Unknown)
    <2>1. Gap(a, marks) = Minus(Worth(Held(a), scales[a], marks[a]), RemainingBasis(a))
        BY <1>4, <1>6
    <2>2. RemainingBasis(a) \in Rat /\ a \in S
        BY <1>1, <1>6 DEF Priced
    <2>3. Worth(Held(a), scales[a], marks[a]) \in Rat
        BY <1>1, <1>2, <1>3, <2>2, WorthType
    <2>4. 0 \in Nat /\ 1 \in Nat \ {0}
        OBVIOUS
    <2>5. Gap(a, marks) \in Rat
        BY <2>1, <2>2, <2>3, <2>4, RatType
    <2>. QED
        BY <1>6, <2>1, <2>2, <2>3, <2>5 DEF Priced
<1>. QED
    BY <1>5, <1>6

(* A known unrealised outcome adds up known gains. *)
LEMMA UnrealizedIs ==
    ASSUME NEW marks, Unrealized(marks) # Unknown
    PROVE  /\ \A a \in Assets : Gap(a, marks) # Unknown
           /\ Unrealized(marks) = Total([a \in Assets |-> Gap(a, marks)])
           /\ UnrealizedBasis(marks)
                  = Total([a \in {b \in Assets : Held(b) > 0} |-> RemainingBasis(a)])
BY DEF Unrealized, UnrealizedBasis

(* Each asset's realised outcome is a part of the whole one.               *)
LEMMA RealizedParts ==
    ASSUME Exactly
    PROVE  /\ Realized = Total([a \in Assets |-> RealizedOf(a)])
           /\ Realized \in Rat
<1> DEFINE D == {k \in DOMAIN disposals : Known(disposals[k])}
           f == [k \in D |-> Minus(disposals[k].proceeds, disposals[k].cost_basis)]
           key == [k \in D |-> disposals[k].asset]
           of(a) == {k \in D : key[k] = a}
           g(a) == [k \in of(a) |-> Minus(disposals[k].proceeds, disposals[k].cost_basis)]
<1>1. disposals \in Seq(Sales)
    BY DEF Exactly, InLowest
<1>2. IsFiniteSet(D)
    <2>1. IsFiniteSet(DOMAIN disposals)
        BY <1>1, Indexes
    <2>. QED
        BY <2>1, FS_Subset
<1>3. ASSUME NEW k \in D PROVE f[k] \in Rat /\ key[k] \in Assets
    <2>1. disposals[k] \in Sales /\ Known(disposals[k])
        BY <1>1, Indexes
    <2>2. /\ disposals[k].proceeds \in Rat /\ disposals[k].cost_basis \in Rat
          /\ disposals[k].asset \in Assets
        BY <2>1 DEF Known, Sales, Priced
    <2>3. 0 \in Nat /\ 1 \in Nat \ {0}
        OBVIOUS
    <2>4. Minus(disposals[k].proceeds, disposals[k].cost_basis) \in Rat
        BY <2>2, <2>3, RatType
    <2>. QED
        BY <2>2, <2>4
<1>4. Realized = TotalOver(f, D)
    BY TotalIs DEF Realized, Outcomes
<1>5. ASSUME NEW a \in Assets PROVE RealizedOf(a) = TotalOver(f, of(a))
    <2>1. of(a) = {k \in DOMAIN disposals : disposals[k].asset = a /\ Known(disposals[k])}
        OBVIOUS
    <2>2. RealizedOf(a) = Total(g(a))
        BY <2>1 DEF RealizedOf, Outcomes
    <2>3. Total(g(a)) = TotalOver(g(a), of(a))
        BY TotalIs
    <2>4. IsFiniteSet(of(a))
        BY <1>2, FS_Subset
    <2>5. \A k \in of(a) : f[k] \in Rat /\ g(a)[k] = f[k]
        BY <1>3
    <2> HIDE DEF g, f, of
    <2>6. TotalOver(g(a), of(a)) = TotalOver(f, of(a))
        BY <2>4, <2>5, TotalSame
    <2>. QED
        BY <2>2, <2>3, <2>6
<1>6. TotalOver(f, D) = TotalOver([a \in Assets |-> TotalOver(f, of(a))], Assets)
    <2> HIDE DEF f, key, D
    <2>. QED
        BY <1>2, <1>3, AssetsFinite, TotalParts
<1>7. [a \in Assets |-> TotalOver(f, of(a))] = [a \in Assets |-> RealizedOf(a)]
    BY <1>5
<1>8. Total([a \in Assets |-> RealizedOf(a)])
          = TotalOver([a \in Assets |-> RealizedOf(a)], Assets)
    BY TotalIs
<1>9. TotalOver(f, D) \in Rat
    <2> HIDE DEF f, D
    <2>. QED
        BY <1>2, <1>3, TotalType
<1>. QED
    BY <1>4, <1>6, <1>7, <1>8, <1>9


(* The rows of open lots, one for each. *)
LEMMA RowsAre ==
    ASSUME NEW a, NEW marks
    PROVE  LET lots == OpenLots(ledgers[a])
               rows == TaxLots(a, marks)
               power == PowerOfTen[ledgers[a].decimals]
           IN  /\ DOMAIN rows = DOMAIN lots
               /\ rows = << >> <=> DOMAIN lots = {}
               /\ \A i \in DOMAIN lots :
                   /\ rows[i].quantity = lots[i].remaining
                   /\ rows[i].cost_basis = lots[i].cost_remaining
                   /\ rows[i].purchase_price =
                          IF lots[i].cost_total = Unknown THEN Unknown
                          ELSE Share(lots[i].cost_total, power, lots[i].original)
                   /\ rows[i].current_value =
                          IF a \notin DOMAIN marks THEN Unknown
                          ELSE Worth(lots[i].remaining, ledgers[a].decimals, marks[a])
               /\ OpenLotsBasis(rows) = OpenBasis(a)
<1> DEFINE lots == OpenLots(ledgers[a])
           rows == TaxLots(a, marks)
           power == PowerOfTen[ledgers[a].decimals]
           price(i) == IF lots[i].cost_total = Unknown THEN Unknown
                       ELSE Share(lots[i].cost_total, power, lots[i].original)
           value(i) == IF a \notin DOMAIN marks THEN Unknown
                       ELSE Worth(lots[i].remaining, ledgers[a].decimals, marks[a])
<1>1. rows = [i \in DOMAIN lots |->
                 [institution_lot_id |-> lots[i].id,
                  original_purchase_datetime |-> lots[i].opened_at,
                  quantity |-> lots[i].remaining, purchase_price |-> price(i),
                  cost_basis |-> lots[i].cost_remaining, current_value |-> value(i)]]
    BY DEF TaxLots
<1>2. OpenBasis(a) = IF \E i \in DOMAIN lots : lots[i].cost_remaining = Unknown THEN Unknown
                     ELSE Total([i \in DOMAIN lots |-> lots[i].cost_remaining])
    BY DEF OpenBasis
<1> HIDE DEF lots, rows, price, value
<1>3. /\ DOMAIN rows = DOMAIN lots
      /\ \A i \in DOMAIN lots :
          /\ rows[i].quantity = lots[i].remaining
          /\ rows[i].cost_basis = lots[i].cost_remaining
          /\ rows[i].purchase_price = price(i)
          /\ rows[i].current_value = value(i)
    BY <1>1
<1>4. rows = << >> <=> DOMAIN lots = {}
    <2>1. DOMAIN << >> = {}
        OBVIOUS
    <2>2. DOMAIN lots = {} => rows = << >>
        BY <1>1
    <2>. QED
        BY <1>3, <2>1, <2>2
<1>5. OpenLotsBasis(rows) = OpenBasis(a)
    <2>1. [i \in DOMAIN rows |-> rows[i].cost_basis]
              = [i \in DOMAIN lots |-> lots[i].cost_remaining]
        BY <1>3
    <2>. QED
        BY <1>2, <1>3, <2>1 DEF OpenLotsBasis
<1>. QED
    BY <1>3, <1>4, <1>5 DEF lots, rows, price, value

(* A row's basis is its units at its price. *)
LEMMA RowsPriced ==
    ASSUME IInv, Exactly, NEW a \in Assets, NEW marks, NEW i \in DOMAIN TaxLots(a, marks),
           TaxLots(a, marks)[i].cost_basis # Unknown
    PROVE  TaxLots(a, marks)[i].cost_basis
               = Share(TaxLots(a, marks)[i].purchase_price, TaxLots(a, marks)[i].quantity,
                       PowerOfTen[ledgers[a].decimals])
<1> DEFINE lots == OpenLots(ledgers[a])
           rows == TaxLots(a, marks)
           power == PowerOfTen[ledgers[a].decimals]
<1>1. i \in DOMAIN lots
    BY RowsAre
<1>2. /\ rows[i].quantity = lots[i].remaining
      /\ rows[i].cost_basis = lots[i].cost_remaining
      /\ rows[i].purchase_price = IF lots[i].cost_total = Unknown THEN Unknown
                                  ELSE Share(lots[i].cost_total, power, lots[i].original)
    BY <1>1, RowsAre
<1>3. /\ lots # << >> => ledgers[a].decimals \in Scales
      /\ lots = << >> <=> DOMAIN lots = {}
      /\ LotExact(lots[i]) /\ lots[i].remaining \in Nat \ {0} /\ lots[i].original \in Nat \ {0}
    BY <1>1, OpenRows
<1>4. power \in Nat \ {0}
    BY <1>1, <1>3, ScaleConstants, PowersOfTen
<1> HIDE DEF lots, rows, power
<1>5. rows[i].cost_basis # Unknown
    BY DEF rows
<1>6. /\ lots[i].cost_total \in Rat /\ lots[i].cost_total # Unknown
      /\ lots[i].cost_remaining = Share(lots[i].cost_total, lots[i].remaining, lots[i].original)
    BY <1>2, <1>3, <1>5 DEF LotExact, Priced
<1>7. Share(Share(lots[i].cost_total, power, lots[i].original), lots[i].remaining, power)
          = Share(lots[i].cost_total, lots[i].remaining, lots[i].original)
    BY <1>3, <1>4, <1>6, ShareAgain
<1>8. rows[i].cost_basis = Share(rows[i].purchase_price, rows[i].quantity, power)
    BY <1>2, <1>6, <1>7
<1>. QED
    BY <1>8 DEF rows, power

(* What an asset's rows are worth is what its units are worth, when the    *)
(* report has its scale right.                                             *)
LEMMA RowsWorth ==
    ASSUME IInv, Exactly, NEW a \in Assets, NEW S \in SUBSET Assets, NEW marks \in [S -> Marks],
           a \in S, Held(a) # 0, ledgers[a].decimals \in {NoScale, scales[a]}
    PROVE  LET rows == TaxLots(a, marks)
           IN  Total([i \in DOMAIN rows |-> rows[i].current_value])
                   = Worth(Held(a), scales[a], marks[a])
<1> DEFINE lots == OpenLots(ledgers[a])
           rows == TaxLots(a, marks)
           f == [i \in DOMAIN rows |-> rows[i].current_value]
           r == [i \in DOMAIN lots |-> lots[i].remaining]
           D == DOMAIN lots
           mark == marks[a]
           scale == scales[a]
           power == PowerOfTen[scale]
<1>1. /\ IsFiniteSet(D) /\ ledgers[a].decimals \in Scales
      /\ \A i \in D : r[i] \in Nat
      /\ Held(a) = SumFunctionOnSet(r, D)
    BY OpenRows DEF Units
<1>2. ledgers[a].decimals = scale /\ scale \in Nat
    BY <1>1, ScaleConstants
<1>3. DOMAIN marks = S /\ mark \in Nat
    BY AmountConstants
<1>4. Q(mark) \in Rat /\ power \in Nat \ {0}
    BY <1>2, <1>3, WorthType
<1>5. DOMAIN rows = D /\ \A i \in D : rows[i].current_value
                                          = Worth(lots[i].remaining, ledgers[a].decimals, mark)
    BY <1>3, RowsAre
<1>6. DOMAIN f = D /\ \A i \in D : f[i] = Share(Q(mark), r[i], power)
    BY <1>2, <1>5 DEF Worth
<1>7. Total(f) = TotalOver(f, D)
    BY <1>6, TotalIs
<1> HIDE DEF f, r, power, D
<1>8. TotalOver(f, D) = Share(Q(mark), SumFunctionOnSet(r, D), power)
    BY <1>1, <1>4, <1>6, TotalShares
<1>9. Total(f) = Worth(Held(a), scale, mark)
    BY <1>1, <1>7, <1>8 DEF Worth, power
<1>. QED
    BY <1>9 DEF f


LEMMA RowsGain ==
    ASSUME IInv, Exactly, NEW a \in Assets, NEW S \in SUBSET Assets, NEW marks \in [S -> Marks],
           method # "acb", Gap(a, marks) # Unknown, ledgers[a].decimals \in {NoScale, scales[a]}
    PROVE  LET rows == TaxLots(a, marks)
               value == Total([i \in DOMAIN rows |-> rows[i].current_value])
           IN  Gap(a, marks) = IF rows = << >> THEN Q(0)
                               ELSE Minus(value, OpenLotsBasis(rows))
<1> DEFINE rows == TaxLots(a, marks)
           value == Total([i \in DOMAIN rows |-> rows[i].current_value])
<1>1. Held(a) = 0 <=> rows = << >>
    <2>1. Held(a) = 0 <=> DOMAIN OpenLots(ledgers[a]) = {}
        BY OpenRows
    <2>2. rows = << >> <=> DOMAIN OpenLots(ledgers[a]) = {}
        BY RowsAre
    <2>. QED
        BY <2>1, <2>2
<1>2. OpenLotsBasis(rows) = RemainingBasis(a)
    <2>1. OpenLotsBasis(rows) = OpenBasis(a)
        BY RowsAre
    <2>. QED
        BY <2>1 DEF RemainingBasis
<1>3. /\ Held(a) = 0 => Gap(a, marks) = Q(0)
      /\ Held(a) # 0 =>
             /\ a \in S
             /\ Gap(a, marks) = Minus(Worth(Held(a), scales[a], marks[a]), RemainingBasis(a))
    BY GapIs
<1>4. Held(a) # 0 => value = Worth(Held(a), scales[a], marks[a])
    BY <1>3, RowsWorth
<1> HIDE DEF rows, value
<1>5. Gap(a, marks) = IF rows = << >> THEN Q(0) ELSE Minus(value, OpenLotsBasis(rows))
    BY <1>1, <1>2, <1>3, <1>4
<1>. QED
    BY <1>5 DEF rows, value

(* The basis subtracted is that of the rows. *)
LEMMA RowsBasis ==
    ASSUME IInv, Exactly, NEW S \in SUBSET Assets, NEW marks \in [S -> Marks],
           method # "acb", Unrealized(marks) # Unknown
    PROVE  UnrealizedBasis(marks) = Total([a \in Assets |-> OpenLotsBasis(TaxLots(a, marks))])
<1> DEFINE holds == {b \in Assets : Held(b) > 0}
           f == [a \in holds |-> RemainingBasis(a)]
           g == [a \in Assets |-> OpenLotsBasis(TaxLots(a, marks))]
<1>1. UnrealizedBasis(marks) = TotalOver(f, holds)
    BY UnrealizedIs, TotalIs
<1>2. Total(g) = TotalOver(g, Assets)
    BY TotalIs
<1>3. ASSUME NEW a \in Assets
      PROVE  /\ Held(a) \in Nat /\ g[a] = OpenBasis(a) /\ RemainingBasis(a) = OpenBasis(a)
             /\ Held(a) # 0 => RemainingBasis(a) \in Rat
             /\ Held(a) = 0 => OpenBasis(a) = Q(0)
    <2>1. Gap(a, marks) # Unknown
        BY UnrealizedIs
    <2>2. Held(a) \in Nat /\ (Held(a) = 0 => OpenLots(ledgers[a]) = << >>)
        BY OpenRows
    <2>3. g[a] = OpenBasis(a)
        BY RowsAre
    <2>4. Held(a) # 0 => RemainingBasis(a) \in Rat
        BY <2>1, GapIs
    <2>5. Held(a) = 0 => OpenBasis(a) = Q(0)
        BY <2>2, OpenBasisIs
    <2>. QED
        BY <2>2, <2>3, <2>4, <2>5 DEF RemainingBasis
<1>4. holds \in SUBSET Assets /\ \A a \in holds : f[a] \in Rat /\ g[a] = f[a]
    BY <1>3
<1>5. \A a \in Assets \ holds : g[a] = Q(0)
    BY <1>3
<1> HIDE DEF holds, f, g
<1>6. TotalOver(g, Assets) = TotalOver(f, holds)
    BY <1>4, <1>5, AssetsFinite, TotalWithin
<1>. QED
    BY <1>1, <1>2, <1>6 DEF g

LEMMA LotBasisIsExact == Exactly => LotBasisExact
BY DEF Exactly, InLowest, LotsExact, LotExact, LotBasisExact

LEMMA RowsDoAddUp ==
    ASSUME IInv, Exactly, NEW S \in SUBSET Assets, NEW marks \in [S -> Marks]
    PROVE  RowsAddUp(marks)
<1> DEFINE said == Report(marks)
           Right(a) == ledgers[a].decimals \in {NoScale, scales[a]}
           Slice(a) == said.per_asset[a]
           Rows(a) == said.open_lots[a]
           Value(a) == Total([i \in DOMAIN Rows(a) |-> Rows(a)[i].current_value])
<1>1. /\ said.realized = Realized /\ said.unrealized = Unrealized(marks)
      /\ said.unrealized_basis = UnrealizedBasis(marks)
      /\ said.per_asset = [a \in Assets |-> AssetPnL(a, marks)]
      /\ said.open_lots = [a \in Assets |-> TaxLots(a, marks)]
    BY DEF Report
<1> HIDE DEF said
<1>2. \A a \in Assets : /\ Slice(a).realized = RealizedOf(a)
                        /\ Slice(a).unrealized = Gap(a, marks)
                        /\ Rows(a) = TaxLots(a, marks)
    BY <1>1 DEF AssetPnL
<1> HIDE DEF Slice, Rows
<1>3. said.realized = Total([a \in Assets |-> Slice(a).realized])
    <2>1. [a \in Assets |-> Slice(a).realized] = [a \in Assets |-> RealizedOf(a)]
        BY <1>2
    <2>. QED
        BY <1>1, <2>1, RealizedParts
<1>4. said.unrealized # Unknown =>
          said.unrealized = Total([a \in Assets |-> Slice(a).unrealized])
    <2>1. [a \in Assets |-> Slice(a).unrealized] = [a \in Assets |-> Gap(a, marks)]
        BY <1>2
    <2>. QED
        BY <1>1, <2>1, UnrealizedIs
<1>5. ASSUME NEW a \in Assets, NEW i \in DOMAIN Rows(a), Rows(a)[i].cost_basis # Unknown
      PROVE  Rows(a)[i].cost_basis = Share(Rows(a)[i].purchase_price, Rows(a)[i].quantity,
                                           PowerOfTen[ledgers[a].decimals])
    BY <1>2, <1>5, RowsPriced
<1>6. method # "acb" /\ said.unrealized # Unknown =>
          said.unrealized_basis = Total([a \in Assets |-> OpenLotsBasis(Rows(a))])
    <2>1. [a \in Assets |-> OpenLotsBasis(Rows(a))]
              = [a \in Assets |-> OpenLotsBasis(TaxLots(a, marks))]
        BY <1>2
    <2>. QED
        BY <1>1, <2>1, RowsBasis
<1>7. ASSUME method # "acb", NEW a \in Assets, Right(a), Slice(a).unrealized # Unknown
      PROVE  Slice(a).unrealized = IF Rows(a) = << >> THEN Q(0)
                                   ELSE Minus(Value(a), OpenLotsBasis(Rows(a)))
    <2>1. Gap(a, marks) # Unknown /\ ledgers[a].decimals \in {NoScale, scales[a]}
        BY <1>2, <1>7
    <2>2. Rows(a) = TaxLots(a, marks) /\ Slice(a).unrealized = Gap(a, marks)
        BY <1>2
    <2>. QED
        BY <1>7, <2>1, <2>2, RowsGain
<1>. QED
    BY <1>3, <1>4, <1>5, <1>6, <1>7 DEF RowsAddUp, said, Slice, Rows

(* The rows of a report always bear out its totals: realised and           *)
(* unrealised figures are the sums of the assets', each lot's basis is its *)
(* units at its price however often it was drawn on, and but for the       *)
(* average cost an asset's gain is what its rows are worth less what they  *)
(* cost (report, _tax_lot, consume).                                       *)
THEOREM ReportsAlwaysAddUp == Spec => []ReportsAddUp
<1>1. IInv /\ Exactly => ReportsAddUp
    BY LotBasisIsExact, RowsDoAddUp DEF ReportsAddUp
<1>. QED
    BY <1>1, ReplaysExactly, PTL


-----------------------------------------------------------------------------
(* What is paid and got. *)

(* What is held cost, by the method's own account of it.                   *)
HeldCosts == IF method = "acb" THEN PoolCosts ELSE LotBases

AllGapsKnown(marks) == \A a \in Assets : Gap(a, marks) # Unknown

LEMMA HeldCostsAre ==
    ASSUME IInv, Exactly, AllBased, NEW S \in SUBSET Assets, NEW marks \in [S -> Marks],
           AllGapsKnown(marks)
    PROVE  /\ \A a \in Assets : /\ HeldCosts[a] \in Rat
                                /\ Held(a) = 0 => HeldCosts[a] = Q(0)
                                /\ Held(a) # 0 => HeldCosts[a] = RemainingBasis(a)
           /\ truth.paid = Plus(Adding(Cost, disposals), TotalOver(HeldCosts, Assets))
<1>1. \A a \in Assets : /\ Held(a) # 0 => RemainingBasis(a) \in Rat
                        /\ Held(a) = 0 => LotBases[a] = Q(0)
    <2>1. ASSUME NEW a \in Assets, Held(a) # 0 PROVE RemainingBasis(a) \in Rat
        BY <2>1, GapIs DEF AllGapsKnown
    <2>2. ASSUME NEW a \in Assets, Held(a) = 0 PROVE LotBases[a] = Q(0)
        BY <2>2, OpenRows, AddNone
    <2>. QED
        BY <2>1, <2>2
<1>2. CASE method = "acb"
    <2>1. HeldCosts = PoolCosts /\ \A a \in Assets : PoolCosts[a] = pools[a].cost
        BY <1>2 DEF HeldCosts, PoolCosts
    <2>2. \A a \in Assets : RemainingBasis(a) = pools[a].cost
        BY <1>2 DEF RemainingBasis
    <2>3. /\ \A a \in Assets : pools[a].quantity = 0 => pools[a].cost = Q(0)
          /\ (\A a \in Assets : pools[a].cost # Unknown) =>
                 truth.paid = Plus(Adding(Cost, disposals), TotalOver(PoolCosts, Assets))
        BY <1>2 DEF Exactly, PaidForPools
    <2>4. \A a \in Assets : Held(a) = pools[a].quantity
        BY <1>2, CountsAgree DEF BooksAgree
    <2>5. \A a \in Assets : /\ pools[a].cost \in Rat
                            /\ Held(a) = 0 => pools[a].cost = Q(0)
        BY <1>1, <2>2, <2>3, <2>4, PlusLaws
    <2>6. \A a \in Assets : pools[a].cost # Unknown
        BY <2>5, RatParts
    <2>. QED
        BY <2>1, <2>2, <2>3, <2>5, <2>6
<1>3. CASE method # "acb"
    <2>1. HeldCosts = LotBases
        BY <1>3 DEF HeldCosts
    <2>2. ASSUME NEW a \in Assets, Held(a) # 0
          PROVE  LotBases[a] = RemainingBasis(a)
        <3>1. RemainingBasis(a) = OpenBasis(a)
            BY <1>3 DEF RemainingBasis
        <3>2. OpenBasis(a) # Unknown
            BY <1>1, <2>2, <3>1, RatParts
        <3>. QED
            BY <3>1, <3>2, OpenBasisIs
    <2>3. \A a \in Assets : LotBases[a] \in Rat
        BY <1>1, <2>2, PlusLaws
    <2>4. truth.paid = Plus(Adding(Cost, disposals), TotalOver(LotBases, Assets))
        BY <1>3 DEF Exactly, PaidForLots
    <2>. QED
        BY <1>1, <2>1, <2>2, <2>3, <2>4
<1>. QED
    BY <1>2, <1>3

(* When every outcome booked is known, the realised one is what was got    *)
(* less the bases booked.                                                  *)
LEMMA RealizedIs ==
    ASSUME Exactly, MissingRealized = {}
    PROVE  /\ AllBased
           /\ Realized = Minus(truth.got, Adding(Cost, disposals))
           /\ truth.got \in Rat /\ Adding(Cost, disposals) \in Rat
<1> DEFINE D == DOMAIN disposals
           h == [k \in D |-> Minus(disposals[k].proceeds, disposals[k].cost_basis)]
           f == [k \in D |-> Got[disposals[k]]]
           g == [k \in D |-> Cost[disposals[k]]]
<1>1. disposals \in Seq(Sales) /\ truth.got = Adding(Got, disposals) /\ truth.got \in Rat
    BY DEF Exactly, InLowest, GotAll
<1>2. \A k \in D : Known(disposals[k])
    BY DEF MissingRealized
<1>3. IsFiniteSet(D) /\ \A k \in D : disposals[k] \in Sales
    BY <1>1, Indexes
<1>4. ASSUME NEW k \in D
      PROVE  f[k] \in Rat /\ g[k] \in Rat /\ h[k] = Minus(f[k], g[k])
    <2>1. /\ disposals[k].proceeds \in Priced /\ disposals[k].cost_basis \in Priced
          /\ disposals[k].proceeds # Unknown /\ disposals[k].cost_basis # Unknown
        BY <1>2, <1>3 DEF Known, Sales
    <2>2. Got[disposals[k]] = disposals[k].proceeds /\ Cost[disposals[k]] = disposals[k].cost_basis
        BY <1>3, <2>1, SalesTyped, PricedOr
    <2>. QED
        BY <2>1, <2>2 DEF Priced
<1>5. AllBased
    BY <1>2 DEF AllBased, Known
<1>6. Realized = TotalOver(h, D)
    <2>1. {k \in D : Known(disposals[k])} = D
        BY <1>2
    <2>2. Realized = Total(h)
        BY <2>1 DEF Realized, Outcomes
    <2>. QED
        BY <2>2, TotalIs
<1>7. Adding(Got, disposals) = TotalOver(f, D) /\ Adding(Cost, disposals) = TotalOver(g, D)
    BY DEF Adding
<1>8. Adding(Cost, disposals) \in Rat
    BY <1>1, SalesTyped, AddType
<1> HIDE DEF f, g, h, D
<1>9. TotalOver(h, D) = Minus(TotalOver(f, D), TotalOver(g, D))
    BY <1>3, <1>4, TotalMinus
<1>. QED
    BY <1>1, <1>5, <1>6, <1>7, <1>8, <1>9

(* A known unrealised outcome is the worth of what is held less its cost.  *)
LEMMA GainIs ==
    ASSUME IInv, Exactly, AllBased, NEW S \in SUBSET Assets, NEW marks \in [S -> Marks],
           Unrealized(marks) # Unknown,
           \A a \in Assets : ledgers[a].decimals \in {NoScale, scales[a]}
    PROVE  LET worth == Total([a \in {b \in S : truth.units[b] > 0} |->
                                  Worth(truth.units[a], ledgers[a].decimals, marks[a])])
           IN  /\ Unrealized(marks) = Minus(worth, TotalOver(HeldCosts, Assets))
               /\ worth \in Rat /\ TotalOver(HeldCosts, Assets) \in Rat
<1> DEFINE holds == {b \in S : truth.units[b] > 0}
           f == [a \in holds |-> Worth(truth.units[a], ledgers[a].decimals, marks[a])]
           w == [a \in Assets |-> IF Held(a) = 0 THEN Q(0)
                                  ELSE Worth(Held(a), scales[a], marks[a])]
           h == [a \in Assets |-> Gap(a, marks)]
<1>1. AllGapsKnown(marks) /\ Unrealized(marks) = TotalOver(h, Assets)
    BY UnrealizedIs, TotalIs DEF AllGapsKnown
<1>2. \A a \in Assets : /\ HeldCosts[a] \in Rat
                        /\ Held(a) = 0 => HeldCosts[a] = Q(0)
                        /\ Held(a) # 0 => HeldCosts[a] = RemainingBasis(a)
    BY <1>1, HeldCostsAre
<1>3. ASSUME NEW a \in Assets
      PROVE  w[a] \in Rat /\ HeldCosts[a] \in Rat /\ h[a] = Minus(w[a], HeldCosts[a])
    <2>1. CASE Held(a) = 0
        <3>1. w[a] = Q(0) /\ HeldCosts[a] = Q(0) /\ h[a] = Q(0)
            BY <1>2, <2>1, GapIs
        <3>2. Minus(Plus(Q(0), Q(0)), Q(0)) = Q(0) /\ Plus(Q(0), Q(0)) = Q(0)
            BY PlusLaws, MinusUndoes
        <3>. QED
            BY <3>1, <3>2, PlusLaws
    <2>2. CASE Held(a) # 0
        <3>1. /\ Worth(Held(a), scales[a], marks[a]) \in Rat
              /\ h[a] = Minus(Worth(Held(a), scales[a], marks[a]), RemainingBasis(a))
            BY <1>1, <2>2, GapIs DEF AllGapsKnown
        <3>. QED
            BY <1>2, <2>2, <3>1
    <2>. QED
        BY <2>1, <2>2
<1>4. ASSUME NEW a \in Assets
      PROVE  /\ Held(a) = truth.units[a] /\ Held(a) \in Nat
             /\ Held(a) # 0 => a \in S /\ ledgers[a].decimals = scales[a]
    <2>1. Held(a) = truth.units[a] /\ Held(a) \in Nat
        BY CountsAgree, OpenRows DEF BooksAgree
    <2>2. Held(a) # 0 => a \in S
        BY <1>1, GapIs DEF AllGapsKnown
    <2>3. Held(a) # 0 => ledgers[a].decimals \in Scales
        BY OpenRows
    <2>. QED
        BY <2>1, <2>2, <2>3, ScaleConstants
<1>5. holds \in SUBSET Assets
    OBVIOUS
<1>6. \A a \in holds : f[a] \in Rat /\ w[a] = f[a]
    <2>1. ASSUME NEW a \in holds PROVE f[a] \in Rat /\ w[a] = f[a]
        <3>1. a \in Assets /\ Held(a) # 0 /\ truth.units[a] = Held(a)
            BY <1>4
        <3>2. ledgers[a].decimals = scales[a]
            BY <1>4, <3>1
        <3>3. w[a] = f[a]
            BY <3>1, <3>2
        <3>. QED
            BY <1>3, <3>1, <3>3
    <2>. QED
        BY <2>1
<1>7. \A a \in Assets \ holds : w[a] = Q(0)
    BY <1>4
<1>8. Total(f) = TotalOver(f, holds)
    BY TotalIs
<1> HIDE DEF holds, f, w, h
<1>9. TotalOver(w, Assets) = TotalOver(f, holds)
    BY <1>5, <1>6, <1>7, AssetsFinite, TotalWithin
<1>10. TotalOver(h, Assets) = Minus(TotalOver(w, Assets), TotalOver(HeldCosts, Assets))
    BY <1>3, AssetsFinite, TotalMinus
<1>11. TotalOver(w, Assets) \in Rat /\ TotalOver(HeldCosts, Assets) \in Rat
    BY <1>3, AssetsFinite, TotalType
<1>. QED
    BY <1>1, <1>8, <1>9, <1>10, <1>11 DEF f, holds

(* No method makes money: over any stream of which a report knows all,     *)
(* realised and unrealised outcomes add up to what was got, plus what is   *)
(* held at the marks, less what was paid (report, and the basis that       *)
(* consume and dispose take).                                              *)
THEOREM NoMethodMakesMoney == Spec => []MethodMakesNoMoney
<1>1. ASSUME IInv, Exactly PROVE MethodMakesNoMoney
    <2> SUFFICES ASSUME NEW S \in SUBSET Assets, NEW marks \in [S -> Marks],
                        MissingRealized = {}, Unrealized(marks) # Unknown,
                        \A a \in Assets : ledgers[a].decimals \in {NoScale, scales[a]}
                 PROVE  LET worth == Total([a \in {b \in S : truth.units[b] > 0} |->
                                        Worth(truth.units[a], ledgers[a].decimals, marks[a])])
                        IN  Plus(Realized, Unrealized(marks))
                                = Minus(Plus(truth.got, worth), truth.paid)
        BY DEF MethodMakesNoMoney
    <2> DEFINE worth == Total([a \in {b \in S : truth.units[b] > 0} |->
                                  Worth(truth.units[a], ledgers[a].decimals, marks[a])])
               bases == Adding(Cost, disposals)
               costs == TotalOver(HeldCosts, Assets)
    <2>1. /\ AllBased /\ Realized = Minus(truth.got, bases)
          /\ truth.got \in Rat /\ bases \in Rat
        BY <1>1, RealizedIs
    <2>2. /\ Unrealized(marks) = Minus(worth, costs)
          /\ worth \in Rat /\ costs \in Rat
        BY <1>1, <2>1, GainIs
    <2>3. truth.paid = Plus(bases, costs)
        <3>1. AllGapsKnown(marks)
            BY UnrealizedIs DEF AllGapsKnown
        <3>. QED
            BY <1>1, <2>1, <3>1, HeldCostsAre
    <2> HIDE DEF worth, bases, costs
    <2>4. Plus(Realized, Unrealized(marks)) = Minus(Plus(truth.got, worth), truth.paid)
        BY <2>1, <2>2, <2>3, MinusInterchange
    <2>. QED
        BY <2>4 DEF worth
<1>. QED
    BY <1>1, ReplaysExactly, PTL


-----------------------------------------------------------------------------
(* Dearest first.                                                          *)

(* The sign of a fraction, and what it says of two. *)
Gains(x) == x[1] >= 0

LEMMA SignIs ==
    ASSUME NEW n \in Int, NEW d \in Nat \ {0}
    PROVE  /\ n >= 0 <=> Gains(Reduced(n, d))
           /\ Reduced(n, d) \in Rat
<1> DEFINE x == Reduced(n, d)[1]
           y == Reduced(n, d)[2]
<1>1. Reduced(n, d) \in Rat /\ x * d = n * y
    BY ReducedRat
<1>2. x \in Int /\ y \in Nat \ {0}
    BY <1>1, RatParts
<1> HIDE DEF x, y
<1>3. n >= 0 <=> n * y >= 0
    BY <1>2
<1>4. x >= 0 <=> x * d >= 0
    BY <1>2
<1>. QED
    BY <1>1, <1>3, <1>4 DEF x, Gains

LEMMA GainsAdd ==
    ASSUME NEW x \in Rat, NEW y \in Rat, Gains(x), Gains(y)
    PROVE  Gains(Plus(x, y))
<1>1. x[1] \in Int /\ x[2] \in Nat \ {0} /\ y[1] \in Int /\ y[2] \in Nat \ {0}
    BY RatParts
<1>2. x[1] * y[2] >= 0 /\ y[1] * x[2] >= 0
    BY <1>1 DEF Gains
<1>3. /\ x[1] * y[2] + y[1] * x[2] \in Int /\ x[2] * y[2] \in Nat \ {0}
      /\ x[1] * y[2] + y[1] * x[2] >= 0
    BY <1>1, <1>2
<1>. QED
    BY <1>3, SignIs DEF Plus

LEMMA Compares ==
    ASSUME NEW x \in Rat, NEW y \in Rat
    PROVE  Gains(Minus(x, y)) <=> ~Exceeds(y, x)
<1>1. x[1] \in Int /\ x[2] \in Nat \ {0} /\ y[1] \in Int /\ y[2] \in Nat \ {0}
    BY RatParts
<1>2. x[1] * y[2] - y[1] * x[2] \in Int /\ x[2] * y[2] \in Nat \ {0}
    BY <1>1
<1>3. Gains(Minus(x, y)) <=> x[1] * y[2] - y[1] * x[2] >= 0
    BY <1>2, SignIs DEF Minus
<1>. QED
    BY <1>1, <1>3 DEF Exceeds

LEMMA TotalGains ==
    ASSUME NEW S, IsFiniteSet(S), NEW f, \A i \in S : f[i] \in Rat /\ Gains(f[i])
    PROVE  Gains(TotalOver(f, S))
<1> DEFINE P == {s \in SUBSET S : Gains(TotalOver(f, s))}
<1>1. {} \in P
    <2>1. TotalOver(f, {}) = Q(0)
        BY TotalEmpty
    <2>. QED
        BY <2>1 DEF Gains, Q
<1>2. ASSUME NEW s \in SUBSET S, NEW x \in S \ s, s \in P PROVE s \cup {x} \in P
    <2>1. IsFiniteSet(s) /\ (\A i \in s : f[i] \in Rat)
        BY FS_Subset
    <2>2. f[x] \in Rat /\ Gains(f[x]) /\ Gains(TotalOver(f, s))
        BY <1>2
    <2>3. TotalOver(f, s) \in Rat
        BY <2>1, TotalType
    <2>4. TotalOver(f, s \cup {x}) = Plus(f[x], TotalOver(f, s))
        BY <2>1, <2>2, TotalAdds
    <2>. QED
        BY <2>2, <2>3, <2>4, GainsAdd
<1> HIDE DEF P
<1>3. S \in P
    BY <1>1, <1>2, FiniteInduction
<1>. QED
    BY <1>3 DEF P

(* Taking p units at u rather than c at u, and c rather than p at m, gains *)
(* when there are more of the dearer.                                      *)
TradesUp(u, m, p, c) ==
    \/ u = m
    \/ ~Exceeds(m, u) /\ p >= c
    \/ ~Exceeds(u, m) /\ p <= c
LEMMA TradeGains ==
    ASSUME NEW u \in Rat, NEW m \in Rat, NEW p \in Nat, NEW c \in Nat, TradesUp(u, m, p, c)
    PROVE  LET gain == Minus(Plus(Share(u, p, 1), Share(m, c, 1)),
                             Plus(Share(u, c, 1), Share(m, p, 1)))
           IN  gain \in Rat /\ Gains(gain)
<1> DEFINE a == u[1]
           b == u[2]
           d == m[1]
           e == m[2]
           x == (a * p) * e + (d * c) * b
           y == (a * c) * e + (d * p) * b
           w == b * e
<1>1. a \in Int /\ b \in Nat \ {0} /\ d \in Int /\ e \in Nat \ {0}
    BY RatParts
<1>2. u = m => a * e = d * b
    OBVIOUS
<1>3. /\ ~Exceeds(m, u) => a * e >= d * b
      /\ ~Exceeds(u, m) => a * e <= d * b
    BY <1>1 DEF Exceeds
<1>4. /\ Share(u, p, 1) = Reduced(a * p, b) /\ Share(u, c, 1) = Reduced(a * c, b)
      /\ Share(m, p, 1) = Reduced(d * p, e) /\ Share(m, c, 1) = Reduced(d * c, e)
    BY <1>1 DEF Share
<1> HIDE DEF a, b, d, e
<1>5. a * p \in Int /\ a * c \in Int /\ d * p \in Int /\ d * c \in Int
    BY <1>1
<1>6. /\ Plus(Share(u, p, 1), Share(m, c, 1)) = Reduced(x, w)
      /\ Plus(Share(u, c, 1), Share(m, p, 1)) = Reduced(y, w)
    <2> DEFINE ap == a * p
               ac == a * c
               dp == d * p
               dc == d * c
    <2>1. ap \in Int /\ ac \in Int /\ dp \in Int /\ dc \in Int
        BY <1>5
    <2> HIDE DEF ap, ac, dp, dc
    <2>2. /\ Plus(Reduced(ap, b), Reduced(dc, e)) = Reduced(ap * e + dc * b, b * e)
          /\ Plus(Reduced(ac, b), Reduced(dp, e)) = Reduced(ac * e + dp * b, b * e)
        BY <1>1, <2>1, Adds
    <2>. QED
        BY <1>4, <2>2 DEF ap, ac, dp, dc
<1>7. x \in Int /\ y \in Int /\ w \in Nat \ {0}
    BY <1>1, <1>5
<1>8. x >= y
    <2> DEFINE g == a * e - d * b
               t == p - c
    <2>1. x - y = g * t
        <3>1. x = p * (a * e) + c * (d * b) /\ y = c * (a * e) + p * (d * b)
            BY <1>1
        <3> DEFINE r == a * e
                   s == d * b
        <3>2. r \in Int /\ s \in Int
            BY <1>1
        <3> HIDE DEF r, s
        <3>3. (p * r + c * s) - (c * r + p * s) = (r - s) * (p - c)
            BY <3>2
        <3>. QED
            BY <3>1, <3>3 DEF r, s
    <2>2. g \in Int /\ t \in Int
        BY <1>1
    <2>3. (g = 0) \/ (g >= 0 /\ t >= 0) \/ (g <= 0 /\ t <= 0)
        BY <1>1, <1>2, <1>3 DEF TradesUp
    <2> HIDE DEF g, t, x, y
    <2>4. g * t >= 0
        BY <2>2, <2>3
    <2>. QED
        BY <1>7, <2>1, <2>4
<1> HIDE DEF x, y, w
<1>9. Minus(Reduced(x, w), Reduced(y, w)) = Reduced(x * w - y * w, w * w)
    BY <1>7, Adds
<1>10. x * w - y * w \in Int /\ w * w \in Nat \ {0} /\ x * w - y * w >= 0
    <2>1. x * w - y * w = (x - y) * w
        BY <1>7
    <2>2. x - y \in Nat /\ (x - y) * w >= 0
        BY <1>7, <1>8
    <2>. QED
        BY <1>7, <2>1, <2>2
<1>. QED
    BY <1>6, <1>9, <1>10, SignIs


AllTradeUp(D, u, m, p, c) ==
    \A i \in D : u[i] \in Rat /\ p[i] \in Nat /\ c[i] \in Nat /\ TradesUp(u[i], m, p[i], c[i])

CostsAt(f, u, p, D) == \A i \in D : f[i] = Share(u[i], p[i], 1)

(* Of two ways to take as many units, that which takes the dearest first   *)
(* costs no less: `u` are unit costs, and where `p` takes more than `c`    *)
(* they are at least m, and where it takes less at most m.                 *)
LEMMA DearestCostMost ==
    ASSUME NEW D, IsFiniteSet(D), NEW u, NEW p, NEW c, NEW m \in Rat,
           AllTradeUp(D, u, m, p, c), SumFunctionOnSet(p, D) = SumFunctionOnSet(c, D),
           NEW f, CostsAt(f, u, p, D), NEW g, CostsAt(g, u, c, D)
    PROVE  ~Exceeds(TotalOver(g, D), TotalOver(f, D))
<1> DEFINE a == [i \in D |-> Share(m, c[i], 1)]
           b == [i \in D |-> Share(m, p[i], 1)]
           x == [i \in D |-> Plus(f[i], a[i])]
           y == [i \in D |-> Plus(g[i], b[i])]
           h == [i \in D |-> Minus(x[i], y[i])]
           F == TotalOver(f, D)
           G == TotalOver(g, D)
           T == TotalOver(a, D)
<1>1. ASSUME NEW i \in D
      PROVE  /\ f[i] \in Rat /\ g[i] \in Rat /\ a[i] \in Rat /\ b[i] \in Rat
             /\ x[i] \in Rat /\ y[i] \in Rat
             /\ h[i] \in Rat /\ Gains(h[i])
    <2>1. u[i] \in Rat /\ p[i] \in Nat /\ c[i] \in Nat /\ 1 \in Nat \ {0}
        BY DEF AllTradeUp
    <2>2. f[i] = Share(u[i], p[i], 1) /\ g[i] = Share(u[i], c[i], 1)
        BY DEF CostsAt
    <2>3. f[i] \in Rat /\ g[i] \in Rat /\ a[i] \in Rat /\ b[i] \in Rat
        BY <2>1, <2>2, RatType
    <2>4. x[i] \in Rat /\ y[i] \in Rat
        BY <2>3, PlusLaws
    <2>5. h[i] = Minus(Plus(Share(u[i], p[i], 1), Share(m, c[i], 1)),
                       Plus(Share(u[i], c[i], 1), Share(m, p[i], 1)))
        BY <2>2
    <2>6. TradesUp(u[i], m, p[i], c[i])
        BY DEF AllTradeUp
    <2>7. h[i] \in Rat /\ Gains(h[i])
        <3>. HIDE DEF h
        <3>. QED
            BY <2>1, <2>5, <2>6, TradeGains
    <2>. QED
        BY <2>3, <2>4, <2>7
<1>2. \A i \in D : h[i] = Minus(x[i], y[i])
    OBVIOUS
<1>3. IsPointwiseTotal(x, f, a, D) /\ IsPointwiseTotal(y, g, b, D)
    BY <1>1 DEF IsPointwiseTotal
<1>4. \A i \in D : a[i] = Share(m, c[i], 1) /\ b[i] = Share(m, p[i], 1)
    OBVIOUS
<1> HIDE DEF a, b, x, y, h
<1>5. TotalOver(h, D) = Minus(TotalOver(x, D), TotalOver(y, D)) /\ Gains(TotalOver(h, D))
    BY <1>1, <1>2, TotalMinus, TotalGains
<1>6. /\ TotalOver(x, D) = Plus(F, T)
      /\ TotalOver(y, D) = Plus(G, TotalOver(b, D))
    BY <1>3, TotalPlus
<1>7. F \in Rat /\ G \in Rat /\ T \in Rat
    BY <1>1, TotalType
<1>8. TotalOver(b, D) = T
    <2>1. 1 \in Nat \ {0} /\ (\A i \in D : c[i] \in Nat) /\ (\A i \in D : p[i] \in Nat)
        BY DEF AllTradeUp
    <2>2. T = Share(m, SumFunctionOnSet(c, D), 1)
        BY <1>4, <2>1, TotalShares
    <2>3. TotalOver(b, D) = Share(m, SumFunctionOnSet(p, D), 1)
        BY <1>4, <2>1, TotalShares
    <2>. QED
        BY <2>2, <2>3
<1>9. Minus(Plus(F, T), Plus(G, T)) = Minus(F, G)
    <2> HIDE DEF F, G, T
    <2>1. Minus(Plus(F, T), Plus(G, T)) = Plus(Minus(F, G), Minus(T, T))
        BY <1>7, MinusInterchange
    <2>2. Minus(T, T) = Q(0)
        <3>1. Minus(Plus(Q(0), T), T) = Q(0) /\ Plus(Q(0), T) = T
            BY <1>7, MinusUndoes, PlusLaws
        <3>. QED
            BY <3>1
    <2>3. Minus(F, G) \in Rat
        <3>1. 0 \in Nat /\ 1 \in Nat \ {0}
            OBVIOUS
        <3>. QED
            BY <1>7, <3>1, RatType
    <2>. QED
        BY <2>1, <2>2, <2>3, PlusLaws
<1> HIDE DEF F, G, T
<1>10. Gains(Minus(F, G))
    BY <1>5, <1>6, <1>8, <1>9
<1>. QED
    BY <1>7, <1>10, Compares DEF F, G


(* Unit costs of lots; what is unpriced is given one, as none of it goes.  *)
UnitCosts(lots, m) ==
    [i \in DOMAIN lots |-> IF lots[i].cost_total = Unknown THEN m ELSE UnitCost(lots[i])]

LEMMA UnitCostRat ==
    ASSUME NEW lot \in Lots, LotExact(lot), lot.cost_total # Unknown
    PROVE  UnitCost(lot) \in Rat
<1>1. lot.cost_total \in Rat /\ lot.original \in Nat \ {0} /\ 1 \in Nat
    BY LotsType DEF LotExact, Priced
<1>. QED
    BY <1>1, RatType DEF UnitCost

LEMMA BasisByUnit ==
    ASSUME NEW lots \in Seq(Lots), LotsExact(lots), NEW m \in Rat,
           NEW p, \A i \in DOMAIN lots : p[i] \in Nat, BasisOfLots(lots, p) # Unknown,
           NEW f, \A i \in DOMAIN lots : f[i] = Share(UnitCosts(lots, m)[i], p[i], 1)
    PROVE  /\ \A i \in DOMAIN lots : p[i] > 0 => lots[i].cost_total # Unknown
           /\ BasisOfLots(lots, p) = TotalOver(f, DOMAIN lots)
<1> DEFINE D == DOMAIN lots
           taken == {i \in D : p[i] > 0}
           given == [i \in taken |-> Portion(lots[i], p[i])]
           u == UnitCosts(lots, m)
<1>1. /\ ~\E i \in taken : lots[i].cost_total = Unknown
      /\ BasisOfLots(lots, p) = TotalOver(given, taken)
    BY TotalIs DEF BasisOfLots
<1>2. IsFiniteSet(D) /\ taken \in SUBSET D
    BY Indexes
<1>3. \A i \in taken : lots[i].cost_total # Unknown
    BY <1>1
<1>4. ASSUME NEW i \in D
      PROVE  /\ i \in taken => given[i] \in Rat /\ f[i] = given[i]
             /\ i \notin taken => f[i] = Q(0)
    <2>1. lots[i] \in Lots /\ LotExact(lots[i]) /\ p[i] \in Nat /\ 1 \in Nat \ {0}
        BY Indexes DEF LotsExact
    <2>2. lots[i].original \in Nat \ {0}
        BY <2>1, LotsType
    <2>3. u[i] = IF lots[i].cost_total = Unknown THEN m ELSE UnitCost(lots[i])
        BY DEF UnitCosts
    <2>4. f[i] = Share(u[i], p[i], 1)
        OBVIOUS
    <2>5. ASSUME i \in taken PROVE given[i] \in Rat /\ f[i] = given[i]
        <3>1. lots[i].cost_total \in Rat /\ lots[i].cost_total # Unknown
            BY <1>3, <2>1, <2>5 DEF LotExact, Priced
        <3>2. given[i] = Share(lots[i].cost_total, p[i], lots[i].original)
            BY <2>5, <3>1 DEF Portion
        <3>3. f[i] = Share(Share(lots[i].cost_total, 1, lots[i].original), p[i], 1)
            BY <2>3, <2>4, <3>1 DEF UnitCost
        <3>4. f[i] = Share(lots[i].cost_total, p[i], lots[i].original)
            BY <2>1, <2>2, <3>1, <3>3, ShareAgain
        <3>5. Share(lots[i].cost_total, p[i], lots[i].original) \in Rat
            BY <2>1, <2>2, <3>1, RatType
        <3>. QED
            BY <3>2, <3>4, <3>5
    <2>6. ASSUME i \notin taken PROVE f[i] = Q(0)
        <3>1. p[i] = 0
            BY <2>1, <2>6
        <3>2. u[i] \in Rat
            BY <2>1, <2>3, UnitCostRat
        <3>. HIDE DEF u
        <3>. QED
            BY <2>1, <2>4, <3>1, <3>2, ShareEnds
    <2>. QED
        BY <2>5, <2>6
<1> HIDE DEF D, taken, given, u
<1>5. TotalOver(f, D) = TotalOver(given, taken)
    BY <1>2, <1>4, TotalWithin
<1>. QED
    BY <1>1, <1>3, <1>5 DEF D, taken

(* The last lot that gives divides the dearer, which give all they have,   *)
(* from the cheaper, which give nothing.                                   *)
LEMMA DearestTrades ==
    ASSUME method = "hifo", NEW lots \in Seq(Lots), LotsExact(lots), NEW needed \in Nat,
           NEW k \in DOMAIN lots, Plan(lots, needed)[k] > 0,
           \A j \in DOMAIN lots :
               Plan(lots, needed)[j] > 0 /\ j # k => Goes("hifo", lots, j, k),
           NEW i \in DOMAIN lots, NEW c \in 0 .. lots[i].remaining,
           lots[k].cost_total # Unknown, lots[i].cost_total # Unknown
    PROVE  TradesUp(UnitCost(lots[i]), UnitCost(lots[k]), Plan(lots, needed)[i], c)
<1> DEFINE p == Plan(lots, needed)
           u == UnitCost(lots[i])
           m == UnitCost(lots[k])
<1>1. /\ p[i] \in 0 .. lots[i].remaining /\ p[k] \in 0 .. lots[k].remaining
      /\ lots[i].remaining \in Nat /\ lots[i] \in Lots /\ lots[k] \in Lots
    BY Indexes, LotsType, PlanGives DEF Methods
<1>2. u \in Amount /\ m \in Amount
    BY <1>1, UnitCostIsAmount
<1>3. ASSUME NEW x \in DOMAIN lots, NEW y \in DOMAIN lots, Goes("hifo", lots, x, y),
             lots[x].cost_total # Unknown, lots[y].cost_total # Unknown
      PROVE  ~Exceeds(UnitCost(lots[y]), UnitCost(lots[x]))
    <2>1. ~Pricier(lots, y, x)
        BY <1>3, PricierOrders DEF Goes
    <2>. QED
        BY <1>3, <2>1 DEF Pricier
<1>4. i # k /\ p[i] < lots[i].remaining => ~Goes("hifo", lots, i, k)
    <2>1. "hifo" \in Methods
        BY DEF Methods
    <2>2. Goes("hifo", lots, i, k) => Precedes(lots, i, k)
        BY <2>1, GoesFirst
    <2>. QED
        BY <1>1, <2>1, <2>2, LaterWait
<1> HIDE DEF p, u, m
<1>5. CASE i = k
    BY <1>5 DEF TradesUp, u, m, p
<1>6. CASE i # k /\ p[i] > 0
    <2>1. Goes("hifo", lots, i, k)
        BY <1>6 DEF p
    <2>2. ~Exceeds(m, u)
        BY <1>3, <2>1 DEF u, m
    <2>3. p[i] >= c
        BY <1>1, <1>4, <1>6, <2>1
    <2>. QED
        BY <2>2, <2>3 DEF TradesUp, u, m, p
<1>7. CASE i # k /\ ~(p[i] > 0) /\ c = 0
    <2>1. p[i] = c
        BY <1>1, <1>7
    <2>2. ~Exceeds(m, u) \/ ~Exceeds(u, m)
        BY <1>2, Dearer
    <2>. QED
        BY <1>1, <2>1, <2>2 DEF TradesUp, u, m, p
<1>8. CASE i # k /\ ~(p[i] > 0) /\ c # 0
    <2>1. p[i] = 0 /\ p[i] <= c /\ p[i] < lots[i].remaining
        BY <1>1, <1>8
    <2>2. "hifo" \in Methods
        BY DEF Methods
    <2>3. Goes("hifo", lots, k, i)
        BY <1>4, <1>8, <2>1, <2>2, GoesOrders
    <2>4. ~Exceeds(u, m)
        BY <1>3, <2>3 DEF u, m
    <2>. QED
        BY <2>1, <2>4 DEF TradesUp, u, m, p
<1>. QED
    BY <1>5, <1>6, <1>7, <1>8


LEMMA SumZero ==
    ASSUME NEW S, IsFiniteSet(S), NEW f, \A i \in S : f[i] = 0
    PROVE  SumFunctionOnSet(f, S) = 0
<1> DEFINE P == {s \in SUBSET S : SumFunctionOnSet(f, s) = 0}
<1>1. {} \in P
    BY SumEmpty
<1>2. ASSUME NEW s \in SUBSET S, NEW x \in S \ s, s \in P PROVE s \cup {x} \in P
    <2>1. IsFiniteSet(s) /\ \A i \in s : f[i] \in Nat
        BY FS_Subset
    <2>2. f[x] = 0 /\ x \notin s /\ SumFunctionOnSet(f, s) = 0
        BY <1>2
    <2>3. SumFunctionOnSet(f, s \cup {x}) = f[x] + SumFunctionOnSet(f, s)
        BY <2>1, <2>2, SumAdds
    <2>. QED
        BY <2>2, <2>3
<1> HIDE DEF P
<1>3. S \in P
    BY <1>1, <1>2, FiniteInduction
<1>. QED
    BY <1>3 DEF P

(* No other choice of as many units costs more than the plan of HIFO.      *)
LEMMA PlanCostsMost ==
    ASSUME method = "hifo", NEW lots \in Seq(Lots), LotsExact(lots), NEW needed \in Nat,
           BasisOfLots(lots, Plan(lots, needed)) # Unknown,
           NEW c, DOMAIN c = DOMAIN lots,
           \A i \in DOMAIN lots : c[i] \in 0 .. lots[i].remaining,
           SumFunction(c) = SumFunction(Plan(lots, needed)),
           BasisOfLots(lots, c) # Unknown
    PROVE  ~Exceeds(BasisOfLots(lots, c), BasisOfLots(lots, Plan(lots, needed)))
<1> DEFINE D == DOMAIN lots
           p == Plan(lots, needed)
           E == {i \in D : p[i] > 0}
<1>1. /\ IsFiniteSet(D) /\ DOMAIN p = D /\ "hifo" \in Methods
      /\ \A i \in D : /\ lots[i] \in Lots /\ LotExact(lots[i])
                      /\ p[i] \in 0 .. lots[i].remaining /\ lots[i].remaining \in Nat
    BY Indexes, LotsType, PlanGives DEF Methods, LotsExact
<1>2. \A i \in D : p[i] \in Nat /\ c[i] \in Nat
    BY <1>1
<1>3. SumFunctionOnSet(p, D) = SumFunctionOnSet(c, D)
    BY <1>1 DEF SumFunction
<1>4. ASSUME NEW m \in Rat,
             \A i \in D : lots[i].cost_total # Unknown =>
                              TradesUp(UnitCost(lots[i]), m, p[i], c[i])
      PROVE  ~Exceeds(BasisOfLots(lots, c), BasisOfLots(lots, p))
    <2> DEFINE u == UnitCosts(lots, m)
               f == [i \in D |-> Share(u[i], p[i], 1)]
               g == [i \in D |-> Share(u[i], c[i], 1)]
    <2>1. \A i \in D : f[i] = Share(UnitCosts(lots, m)[i], p[i], 1)
        OBVIOUS
    <2>2. \A i \in D : g[i] = Share(UnitCosts(lots, m)[i], c[i], 1)
        OBVIOUS
    <2>3. \A i \in D : u[i] = IF lots[i].cost_total = Unknown THEN m ELSE UnitCost(lots[i])
        BY DEF UnitCosts
    <2>4. \A i \in D : u[i] \in Rat
        BY <1>1, <2>3, UnitCostRat
    <2>5. \A i \in D : TradesUp(u[i], m, p[i], c[i])
        BY <1>4, <2>3 DEF TradesUp
    <2>6. CostsAt(f, u, p, D) /\ CostsAt(g, u, c, D) /\ AllTradeUp(D, u, m, p, c)
        BY <1>2, <2>4, <2>5 DEF CostsAt, AllTradeUp
    <2> HIDE DEF f, g, u, D, p
    <2>7. BasisOfLots(lots, p) = TotalOver(f, D)
        BY <1>2, <2>1, BasisByUnit DEF D, p
    <2>8. BasisOfLots(lots, c) = TotalOver(g, D)
        BY <1>2, <2>2, BasisByUnit DEF D
    <2>9. ~Exceeds(TotalOver(g, D), TotalOver(f, D))
        BY <1>1, <1>3, <2>6, DearestCostMost
    <2>. QED
        BY <2>7, <2>8, <2>9
<1>5. CASE E = {}
    <2>1. \A i \in D : p[i] = 0
        BY <1>2, <1>5
    <2>2. ASSUME NEW i \in D PROVE c[i] = 0
        <3> HIDE DEF D, p
        <3>1. SumFunctionOnSet(p, D) = 0
            BY <1>1, <2>1, SumZero
        <3>2. SumFunctionOnSet(c, D) = c[i] + SumFunctionOnSet(c, D \ {i})
            <4>1. \A j \in D : c[j] \in Int
                BY <1>2
            <4>. QED
                BY <1>1, <4>1, SumTakes
        <3>3. SumFunctionOnSet(c, D \ {i}) \in Nat
            <4>1. IsFiniteSet(D \ {i})
                BY <1>1, FS_Subset
            <4>. QED
                BY <1>2, <4>1, SumType
        <3>4. c[i] \in Nat /\ 0 = c[i] + SumFunctionOnSet(c, D \ {i})
            BY <1>2, <1>3, <3>1, <3>2
        <3>. QED
            BY <3>3, <3>4
    <2>3. Q(0) \in Rat
        BY PlusLaws
    <2>4. ASSUME NEW i \in D, lots[i].cost_total # Unknown
          PROVE  TradesUp(UnitCost(lots[i]), Q(0), p[i], c[i])
        <3>1. UnitCost(lots[i]) \in Amount /\ Q(0) \in Amount
            BY <1>1, <2>3, <2>4, UnitCostIsAmount, RatParts
        <3>2. ~Exceeds(Q(0), UnitCost(lots[i])) \/ ~Exceeds(UnitCost(lots[i]), Q(0))
            BY <3>1, Dearer
        <3>. QED
            BY <2>1, <2>2, <3>2 DEF TradesUp
    <2>. QED
        BY <1>4, <2>3, <2>4
<1>6. CASE E # {}
    <2>1. IsOrder(Order("hifo", lots), D)
        BY <1>1, Orders
    <2>2. PICK k \in E : \A j \in E \ {k} : j \in Order("hifo", lots)[k]
        <3>1. E \in SUBSET D /\ IsFiniteSet(E)
            BY <1>1, FS_Subset
        <3>. HIDE DEF E, D
        <3>. QED
            BY <1>6, <2>1, <3>1, LastOne
    <2>3. \A j \in D : p[j] > 0 /\ j # k => Goes("hifo", lots, j, k)
        BY <2>2 DEF Order
    <2>4. lots[k].cost_total # Unknown
        <3>1. ~\E i \in E : lots[i].cost_total = Unknown
            BY DEF BasisOfLots
        <3>. QED
            BY <3>1
    <2>5. UnitCost(lots[k]) \in Rat
        BY <1>1, <2>4, UnitCostRat
    <2>6. ASSUME NEW i \in D, lots[i].cost_total # Unknown
          PROVE  TradesUp(UnitCost(lots[i]), UnitCost(lots[k]), p[i], c[i])
        BY <2>3, <2>4, <2>6, DearestTrades
    <2>. QED
        BY <1>4, <2>5, <2>6
<1>. QED
    BY <1>5, <1>6


(* The best basis a sale of HIFO could have had, at one step.              *)
CostsMost ==
    LET sale == disposals'[Len(disposals')]
        lots == OpenLots(ledgers[sale.asset])
        sold == Min({sale.quantity, Held(sale.asset)})
        choices == {p \in [DOMAIN lots -> 0..sold] :
                        /\ \A i \in DOMAIN lots : p[i] <= lots[i].remaining
                        /\ SumFunction(p) = sold}
    IN  sale.cost_basis # Unknown =>
            \A p \in choices : BasisOfLots(lots, p) # Unknown =>
                ~Exceeds(BasisOfLots(lots, p), sale.cost_basis)

LEMMA SaleCostsMost ==
    ASSUME IInv, Exactly, method = "hifo", NEW e \in Events, Dispose(e)
    PROVE  CostsMost
<1> DEFINE b == e.asset
           sale == disposals'[Len(disposals')]
           lots == OpenLots(ledgers[b])
           plan == Plan(lots, e.quantity)
           basis == BasisOfLots(lots, plan)
           sold == Min({e.quantity, Held(b)})
<1>1. Accepted(e)
    BY DEF Dispose
<1>2. /\ b \in Assets /\ e.quantity \in Nat /\ method \in Methods
      /\ \A a \in Assets : ledgers[a] \in Ledgers
    BY <1>1, AcceptedMore
<1>3. sale.asset = b /\ sale.quantity = e.quantity /\ sale.cost_basis = basis
    <2>1. PICK missing \in BOOLEAN :
              disposals' = Append(disposals,
                  [asset |-> b, quantity |-> e.quantity, proceeds |-> e.money.amount,
                   cost_basis |-> Basis(e), missing_basis |-> missing])
        BY DisposeDoes
    <2>2. disposals \in Seq(Sales)
        BY DEF Exactly, InLowest
    <2>3. Basis(e) = basis
        BY DEF Basis
    <2>4. sale = [asset |-> b, quantity |-> e.quantity, proceeds |-> e.money.amount,
                  cost_basis |-> Basis(e), missing_basis |-> missing]
        BY <2>1, <2>2
    <2>. QED
        BY <2>3, <2>4
<1>4. /\ lots \in Seq(Lots) /\ LotsExact(lots) /\ Held(b) \in Nat
      /\ \A i \in DOMAIN lots : lots[i].remaining \in Nat
    BY <1>2, OpenRows
<1>5. SumFunction(plan) = sold /\ sold \in Nat
    <2>1. Held(b) = Weighs(AllUnits, lots)
        <3>1. Held(b) = truth.units[b]
            BY <1>2, CountsAgree DEF BooksAgree
        <3>2. Weighs(AllUnits, ledgers[b].lots) = truth.units[b]
            BY <1>2 DEF IInv, Counted
        <3>3. Weighs(AllUnits, lots) = Weighs(AllUnits, ledgers[b].lots)
            BY <1>2, OpenLotsAre, WeightsAre
        <3>. QED
            BY <3>1, <3>2, <3>3
    <2>2. SumFunction(plan) = Lesser(e.quantity, Weighs(AllUnits, lots))
        BY <1>2, <1>4, PlanGives
    <2>3. sold = Lesser(e.quantity, Held(b))
        BY <1>2, <1>4, MinOfTwo DEF Lesser
    <2>. QED
        BY <1>2, <1>4, <2>1, <2>2, <2>3 DEF Lesser
<1> HIDE DEF b, sale, lots, plan, basis, sold
<1>6. ASSUME basis # Unknown, NEW p \in [DOMAIN lots -> 0..sold],
             \A i \in DOMAIN lots : p[i] <= lots[i].remaining, SumFunction(p) = sold,
             BasisOfLots(lots, p) # Unknown
      PROVE  ~Exceeds(BasisOfLots(lots, p), basis)
    <2>1. DOMAIN p = DOMAIN lots /\ \A i \in DOMAIN lots : p[i] \in 0 .. lots[i].remaining
        BY <1>4, <1>5, <1>6
    <2>2. SumFunction(p) = SumFunction(Plan(lots, e.quantity))
        BY <1>5, <1>6 DEF plan
    <2>3. BasisOfLots(lots, Plan(lots, e.quantity)) # Unknown
        BY <1>6 DEF basis, plan
    <2>4. ~Exceeds(BasisOfLots(lots, p), BasisOfLots(lots, Plan(lots, e.quantity)))
        BY <1>2, <1>4, <1>6, <2>1, <2>2, <2>3, PlanCostsMost
    <2>. QED
        BY <2>4 DEF basis, plan
<1>7. /\ OpenLots(ledgers[sale.asset]) = lots
      /\ Min({sale.quantity, Held(sale.asset)}) = sold
    BY <1>3 DEF lots, sold
<1>. QED
    BY <1>3, <1>6, <1>7 DEF CostsMost, sale

(* Under HIFO no sale could have had a higher known basis by taking other  *)
(* units, at any point of any stream of events (hifo.select, _walk).       *)
THEOREM DearestAlwaysFirst == Spec => HifoCostsMost
<1>1. ASSUME IInv, Exactly, [Next]_vars
      PROVE  [(method = "hifo" /\ Len(disposals') > Len(disposals)) => CostsMost]_disposals
    <2>1. CASE Next
        <3>1. PICK e \in Events :
                  Acquire(e) \/ Dispose(e) \/ RefuseCurrency(e) \/ RefuseScale(e)
            BY <2>1 DEF Next
        <3>2. CASE Dispose(e)
            BY <1>1, <3>2, SaleCostsMost
        <3>3. CASE Acquire(e) \/ RefuseCurrency(e) \/ RefuseScale(e)
            BY <3>3 DEF Acquire, RefuseCurrency, RefuseScale
        <3>. QED
            BY <3>1, <3>2, <3>3
    <2>2. CASE UNCHANGED vars
        BY <2>2 DEF vars
    <2>. QED
        BY <1>1, <2>1, <2>2
<1>2. HifoCostsMost
          <=> [][(method = "hifo" /\ Len(disposals') > Len(disposals)) => CostsMost]_disposals
    BY DEF HifoCostsMost, CostsMost
<1>. QED
    BY <1>1, <1>2, ReplaysExactly, PTL DEF Spec

=============================================================================
