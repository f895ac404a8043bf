--------------------------- MODULE DispatchProofs ---------------------------
(***************************************************************************)
(* Proofs about Dispatch, for any connections, host threads, budget and    *)
(* interval.                                                               *)
(***************************************************************************)
EXTENDS Dispatch, Lemmas

(* A running tick, as TypeOK has it, but as a set of records. *)
Runs ==
    [running : {TRUE}, pairs : Seq(Connections), visited : Nat,
     remaining : 0..Budget, rows : Seq(Reports)]

Probing == [running : {TRUE}, connection : Connections, probed : BOOLEAN]

(* Only what may be connected is stored. *)
Storable == \A t \in Tenants : \A k \in DOMAIN records[t] : <<t, records[t][k]>> \in Connections

(* A tick visits a connection at most once, and a visit has one row. *)
OncePerTick ==
    tick # Resting =>
        /\ tick \in Runs
        /\ IsInjective(tick.pairs)
        /\ tick.visited <= Len(tick.pairs)
        /\ Len(tick.rows) = tick.visited

(* A no-op row is of a connection that is still inside its interval (the  *)
(* others only come nearer to it while the tick runs), and as long as      *)
(* there are no others the budget is whole.                                *)
QuietSoFar ==
    tick # Resting =>
        /\ \A k \in 1..tick.visited : tick.rows[k].no_op => Throttled(tick.pairs[k])
        /\ (\A k \in 1..tick.visited : tick.rows[k].no_op) => tick.remaining = Budget

Remaining == IF tick = Resting THEN 0 ELSE tick.remaining

(* A visit that fails after `made` requests is charged one, so n units of  *)
(* budget pay for n + (n - 1) + ... + 1 requests, and for no more.         *)
WorstCase == 2 * requests + Remaining * (Remaining + 1) <= Budget * (Budget + 1)

(* As long as nothing fails, what was asked for was paid for. *)
PaidInFull ==
    tick # Resting =>
        \/ \E k \in 1..tick.visited : tick.rows[k].failed
        \/ requests = Budget - tick.remaining

IInv == TypeOK /\ Storable /\ OncePerTick /\ QuietSoFar /\ WorstCase /\ PaidInFull

(* The timer's tick leaves no connection out. *)
EverybodyInvited ==
    [][Begin => \A c \in Connections :
           Known(c) => \E k \in DOMAIN tick'.pairs : tick'.pairs[k] = c]_vars

-----------------------------------------------------------------------------
(* Connections and their pairs. *)

LEMMA TenantsAndAddresses ==
    ASSUME NEW c \in Connections
    PROVE  c[1] \in Tenants /\ c[2] \in Addresses /\ c = <<c[1], c[2]>>
BY Pairings DEF Tenants, Addresses

LEMMA PairsOfTyped ==
    ASSUME TypeOK, Storable, NEW t \in Tenants
    PROVE  /\ PairsOf(t) \in Seq(Connections)
           /\ Len(PairsOf(t)) = Len(records[t])
           /\ \A k \in 1 .. Len(records[t]) : PairsOf(t)[k] = <<t, records[t][k]>>
           /\ IsInjective(PairsOf(t))
<1>1. records[t] \in Seq(Addresses) /\ IsInjective(records[t])
    BY DEF TypeOK
<1>2. DOMAIN records[t] = 1 .. Len(records[t]) /\ Len(records[t]) \in Nat
    BY <1>1
<1>3. \A k \in 1 .. Len(records[t]) : <<t, records[t][k]>> \in Connections
    BY <1>2 DEF Storable
<1> DEFINE p == PairsOf(t)
<1>4. p = [k \in 1 .. Len(records[t]) |-> <<t, records[t][k]>>]
    BY <1>2 DEF PairsOf
<1>. HIDE DEF p
<1>5. p \in Seq(Connections) /\ Len(p) = Len(records[t])
    <2>1. p \in [1 .. Len(records[t]) -> Connections]
        BY <1>3, <1>4
    <2>. QED
        BY <1>2, <2>1
<1>6. \A k \in 1 .. Len(records[t]) : p[k] = <<t, records[t][k]>>
    BY <1>4
<1>7. ASSUME NEW i \in DOMAIN p, NEW j \in DOMAIN p, p[i] = p[j] PROVE i = j
    <2>1. i \in 1 .. Len(records[t]) /\ j \in 1 .. Len(records[t])
        BY <1>4
    <2>2. records[t][i] = records[t][j]
        BY <1>6, <1>7, <2>1
    <2>. QED
        BY <1>1, <1>2, <2>1, <2>2 DEF IsInjective
<1>. QED
    BY <1>5, <1>6, <1>7 DEF IsInjective, p

(* What the store has for everybody, as a list of lists. *)
ByTenant == [k \in DOMAIN tenants |-> PairsOf(tenants[k])]

LEMMA ByTenantTyped ==
    ASSUME TypeOK, Storable
    PROVE  /\ ByTenant \in Seq(Seq(Connections))
           /\ Len(ByTenant) = Len(tenants)
           /\ \A k \in 1 .. Len(tenants) : tenants[k] \in Tenants /\ ByTenant[k] = PairsOf(tenants[k])
<1>1. tenants \in Seq(Tenants)
    BY DEF TypeOK
<1>2. DOMAIN tenants = 1 .. Len(tenants) /\ Len(tenants) \in Nat
    BY <1>1
<1>3. \A k \in 1 .. Len(tenants) : tenants[k] \in Tenants
    BY <1>1
<1>4. \A k \in 1 .. Len(tenants) : PairsOf(tenants[k]) \in Seq(Connections)
    BY <1>3, PairsOfTyped
<1>5. ByTenant = [k \in 1 .. Len(tenants) |-> PairsOf(tenants[k])]
    BY <1>2 DEF ByTenant
<1>. HIDE DEF ByTenant
<1>6. ByTenant \in Seq(Seq(Connections)) /\ Len(ByTenant) = Len(tenants)
    BY <1>2, <1>4, <1>5
<1>. QED
    BY <1>3, <1>5, <1>6

LEMMA PairsTyped ==
    ASSUME TypeOK, Storable
    PROVE  Pairs \in Seq(Connections) /\ IsInjective(Pairs)
<1>1. /\ ByTenant \in Seq(Seq(Connections))
      /\ Len(ByTenant) = Len(tenants)
      /\ \A k \in 1 .. Len(tenants) : tenants[k] \in Tenants /\ ByTenant[k] = PairsOf(tenants[k])
    BY ByTenantTyped
<1>2. Pairs = FlattenSeq(ByTenant)
    BY DEF Pairs, ByTenant
<1>3. Pairs \in Seq(Connections)
    BY <1>1, <1>2, FlattenTyped
<1>4. \A k \in 1 .. Len(ByTenant) : IsInjective(ByTenant[k])
    BY <1>1, PairsOfTyped
<1>5. ASSUME NEW k \in 1 .. Len(ByTenant), NEW l \in 1 .. Len(ByTenant), k # l,
             NEW i \in 1 .. Len(ByTenant[k]), NEW j \in 1 .. Len(ByTenant[l])
      PROVE  ByTenant[k][i] # ByTenant[l][j]
    <2>1. tenants[k] # tenants[l]
        <3>1. IsInjective(tenants) /\ tenants \in Seq(Tenants)
            BY DEF TypeOK
        <3>2. k \in DOMAIN tenants /\ l \in DOMAIN tenants
            BY <1>1, <3>1
        <3>. QED
            BY <1>5, <3>1, <3>2 DEF IsInjective
    <2>2. ByTenant[k][i][1] = tenants[k]
        <3>1. tenants[k] \in Tenants /\ ByTenant[k] = PairsOf(tenants[k])
            BY <1>1
        <3>2. ByTenant[k][i] = <<tenants[k], records[tenants[k]][i]>>
            BY <3>1, PairsOfTyped
        <3>. QED
            BY <3>2
    <2>3. ByTenant[l][j][1] = tenants[l]
        <3>1. tenants[l] \in Tenants /\ ByTenant[l] = PairsOf(tenants[l])
            BY <1>1
        <3>2. ByTenant[l][j] = <<tenants[l], records[tenants[l]][j]>>
            BY <3>1, PairsOfTyped
        <3>. QED
            BY <3>2
    <2>. QED
        BY <2>1, <2>2, <2>3
<1>6. IsInjective(FlattenSeq(ByTenant))
    BY <1>1, <1>4, <1>5, FlattenInjective
<1>. QED
    BY <1>2, <1>3, <1>6

LEMMA PairsCover ==
    ASSUME TypeOK, Storable, NEW c \in Connections, Known(c)
    PROVE  \E k \in DOMAIN Pairs : Pairs[k] = c
<1>1. c[1] \in Tenants /\ c = <<c[1], c[2]>>
    BY TenantsAndAddresses
<1>2. records[c[1]] \in Seq(Addresses) /\ tenants \in Seq(Tenants)
    BY <1>1 DEF TypeOK
<1>3. PICK j \in 1 .. Len(records[c[1]]) : records[c[1]][j] = c[2]
    BY <1>2 DEF Known, ToSet
<1>4. records[c[1]] # << >>
    BY <1>2, <1>3
<1>5. PICK k \in 1 .. Len(tenants) : tenants[k] = c[1]
    <2>1. c[1] \in ToSet(tenants)
        BY <1>1, <1>4 DEF TypeOK
    <2>. QED
        BY <1>2, <2>1 DEF ToSet
<1>6. ByTenant \in Seq(Seq(Connections)) /\ k \in 1 .. Len(ByTenant) /\ ByTenant[k] = PairsOf(c[1])
    BY <1>5, ByTenantTyped
<1>7. j \in 1 .. Len(ByTenant[k]) /\ ByTenant[k][j] = c
    BY <1>1, <1>3, <1>6, PairsOfTyped
<1>8. Pairs = FlattenSeq(ByTenant)
    BY DEF Pairs, ByTenant
<1>9. PICK i \in 1 .. Len(Pairs) : Pairs[i] = c
    BY <1>6, <1>7, <1>8, FlattenCovers
<1>10. DOMAIN Pairs = 1 .. Len(Pairs)
    BY PairsTyped
<1>. QED
    BY <1>9, <1>10

-----------------------------------------------------------------------------
(* The invariant in two halves: the store's, which a tick only reads, and  *)
(* the tick's, which a connect leaves alone.                               *)

StoreInv ==
    /\ tenants \in Seq(Tenants) /\ IsInjective(tenants)
    /\ records \in [Tenants -> Seq(Addresses)]
    /\ \A t \in Tenants :
           IsInjective(records[t]) /\ (records[t] # << >> <=> t \in ToSet(tenants))
    /\ connecting \in [Hosts -> {Resting} \cup Probing]
    /\ Storable

TypeRun ==
    /\ broken \subseteq Connections
    /\ age \in [Connections -> 0..Interval]
    /\ requests \in Nat
    /\ quiet \in BOOLEAN
    /\ mishaps \in 0..MaxMishaps

TickInv == TypeRun /\ OncePerTick /\ QuietSoFar /\ WorstCase /\ PaidInFull

LEMMA Halves == IInv <=> StoreInv /\ TickInv
<1>1. ASSUME OncePerTick
      PROVE  tick = Resting \/
                /\ tick.running
                /\ tick.pairs \in Seq(Connections)
                /\ tick.visited \in 0..Len(tick.pairs)
                /\ tick.remaining \in 0..Budget
                /\ tick.rows \in Seq(Reports)
    <2>1. CASE tick = Resting
        BY <2>1
    <2>2. CASE tick # Resting
        <3>1. tick \in Runs /\ tick.visited <= Len(tick.pairs)
            BY <1>1, <2>2 DEF OncePerTick
        <3>2. /\ tick.running /\ tick.pairs \in Seq(Connections) /\ tick.visited \in Nat
              /\ tick.remaining \in 0..Budget /\ tick.rows \in Seq(Reports)
            BY <3>1 DEF Runs
        <3>3. tick.visited \in 0..Len(tick.pairs)
            BY <3>1, <3>2
        <3>. QED
            BY <3>2, <3>3
    <2>. QED
        BY <2>1, <2>2
<1>. QED
    BY <1>1 DEF IInv, TypeOK, StoreInv, TickInv, TypeRun, Probing

LEMMA InitHolds == Init => StoreInv /\ TickInv
<1> SUFFICES ASSUME Init PROVE StoreInv /\ TickInv
    OBVIOUS
<1> USE Sizes DEF Init
<1>1. tenants \in Seq(Tenants) /\ IsInjective(tenants) /\ ToSet(tenants) = {}
    BY DEF IsInjective, ToSet
<1>2. \A t \in Tenants : records[t] = << >>
    OBVIOUS
<1>3. \A t \in Tenants : records[t] \in Seq(Addresses) /\ IsInjective(records[t])
    BY <1>2 DEF IsInjective
<1>4. records \in [Tenants -> Seq(Addresses)]
    BY <1>3
<1>5. connecting \in [Hosts -> {Resting} \cup Probing]
    OBVIOUS
<1>6. Storable
    BY <1>2 DEF Storable
<1>7. TypeRun
    <2>1. broken \subseteq Connections /\ requests \in Nat /\ quiet \in BOOLEAN
        OBVIOUS
    <2>2. Interval \in 0..Interval /\ 0 \in 0..MaxMishaps
        BY MishapBound
    <2>. QED
        BY <2>1, <2>2 DEF TypeRun
<1>8. OncePerTick /\ QuietSoFar /\ PaidInFull
    BY DEF OncePerTick, QuietSoFar, PaidInFull
<1>9. WorstCase
    <2>1. Remaining = 0 /\ requests = 0
        BY DEF Remaining
    <2>2. Budget \in Nat /\ Budget * (Budget + 1) >= 0
        OBVIOUS
    <2>. QED
        BY <2>1, <2>2 DEF WorstCase
<1>. QED
    BY <1>1, <1>2, <1>3, <1>4, <1>5, <1>6, <1>7, <1>8, <1>9 DEF StoreInv, TickInv

-----------------------------------------------------------------------------
(* connect_address: what is stored stays without repetitions, whatever     *)
(* registered while this thread probed.                                    *)

LEMMA RegisterAdds ==
    ASSUME NEW S, NEW list \in Seq(S), IsInjective(list), NEW a \in S
    PROVE  /\ Register(list, a) \in Seq(S)
           /\ IsInjective(Register(list, a))
           /\ Register(list, a) # << >>
           /\ ToSet(Register(list, a)) = ToSet(list) \cup {a}
<1>1. CASE a \in ToSet(list)
    BY <1>1 DEF Register, ToSet
<1>2. CASE a \notin ToSet(list)
    <2> DEFINE r == Append(list, a)
    <2>1. Register(list, a) = r
        BY <1>2 DEF Register
    <2>2. /\ r \in Seq(S) /\ Len(r) = Len(list) + 1 /\ Len(list) \in Nat
          /\ DOMAIN list = 1 .. Len(list) /\ DOMAIN r = 1 .. Len(list) + 1
          /\ r[Len(list) + 1] = a
          /\ \A k \in 1 .. Len(list) : r[k] = list[k]
        OBVIOUS
    <2> HIDE DEF r
    <2>3. \A k \in 1 .. Len(list) : list[k] # a
        BY <1>2, <2>2 DEF ToSet
    <2>4. ASSUME NEW i \in DOMAIN r, NEW j \in DOMAIN r, r[i] = r[j] PROVE i = j
        <3>1. CASE i \in 1 .. Len(list) /\ j \in 1 .. Len(list)
            BY <2>2, <2>4, <3>1 DEF IsInjective
        <3>2. CASE i = Len(list) + 1 \/ j = Len(list) + 1
            BY <2>2, <2>3, <2>4, <3>2
        <3>. QED
            BY <2>2, <3>1, <3>2
    <2>5. ToSet(r) = ToSet(list) \cup {a}
        <3>1. ASSUME NEW x \in ToSet(r) PROVE x \in ToSet(list) \cup {a}
            BY <2>2, <3>1 DEF ToSet
        <3>2. ASSUME NEW x \in ToSet(list) PROVE x \in ToSet(r)
            <4>1. PICK k \in 1 .. Len(list) : x = list[k]
                BY <2>2 DEF ToSet
            <4>2. k \in DOMAIN r /\ r[k] = x
                BY <2>2, <4>1
            <4>. QED
                BY <4>2 DEF ToSet
        <3>3. a \in ToSet(r)
            <4>1. Len(list) + 1 \in DOMAIN r
                BY <2>2
            <4>. QED
                BY <2>2, <4>1 DEF ToSet
        <3>. QED
            BY <3>1, <3>2, <3>3
    <2>6. r # << >>
        BY <2>2
    <2>. QED
        BY <2>1, <2>2, <2>4, <2>5, <2>6 DEF IsInjective
<1>. QED
    BY <1>1, <1>2

LEMMA ProbeKeeps ==
    ASSUME StoreInv, NEW h \in Hosts, Probe(h) \/ \E c \in Connections : Connect(h, c)
    PROVE  StoreInv'
<1>1. connecting' \in [Hosts -> {Resting} \cup Probing]
    <2>1. ASSUME NEW c \in Connections, Connect(h, c)
          PROVE  connecting' \in [Hosts -> {Resting} \cup Probing]
        <3>1. [running |-> TRUE, connection |-> c, probed |-> FALSE] \in Probing
            BY DEF Probing
        <3>. QED
            BY <2>1, <3>1 DEF Connect, StoreInv
    <2>2. ASSUME Probe(h) PROVE connecting' \in [Hosts -> {Resting} \cup Probing]
        <3>1. connecting[h] \in Probing
            BY <2>2 DEF Probe, StoreInv
        <3>2. \A x \in Probing : [x EXCEPT !.probed = TRUE] \in Probing
            BY DEF Probing
        <3>3. PICK raises \in BOOLEAN :
                  connecting' = [connecting EXCEPT
                      ![h] = IF raises THEN Resting ELSE [@ EXCEPT !.probed = TRUE]]
            BY <2>2 DEF Probe
        <3> DEFINE new == IF raises THEN Resting ELSE [connecting[h] EXCEPT !.probed = TRUE]
        <3>4. new \in {Resting} \cup Probing
            BY <3>1, <3>2
        <3>5. connecting' = [connecting EXCEPT ![h] = new]
            BY <3>3
        <3> HIDE DEF new
        <3>. QED
            BY <3>4, <3>5 DEF StoreInv
    <2>. QED
        BY <2>1, <2>2
<1>2. UNCHANGED <<tenants, records>>
    BY DEF Probe, Connect
<1>. QED
    BY <1>1, <1>2 DEF StoreInv, Storable

LEMMA AddKeeps ==
    ASSUME StoreInv, NEW h \in Hosts, AddConnection(h)
    PROVE  StoreInv'
<1> DEFINE c == connecting[h].connection
<1>1. connecting[h] \in Probing
    BY DEF AddConnection, StoreInv
<1>2. c \in Connections
    BY <1>1 DEF Probing
<1> HIDE DEF c
<1>3. c[1] \in Tenants /\ c[2] \in Addresses /\ c = <<c[1], c[2]>>
    BY <1>2, TenantsAndAddresses
<1>4. /\ records' = [records EXCEPT ![c[1]] = Register(records[c[1]], c[2])]
      /\ tenants' = Register(tenants, c[1])
      /\ connecting' = [connecting EXCEPT ![h] = Resting]
    BY DEF AddConnection, c, Register
<1>5. /\ Register(records[c[1]], c[2]) \in Seq(Addresses)
      /\ IsInjective(Register(records[c[1]], c[2]))
      /\ Register(records[c[1]], c[2]) # << >>
      /\ ToSet(Register(records[c[1]], c[2])) = ToSet(records[c[1]]) \cup {c[2]}
    <2>1. records[c[1]] \in Seq(Addresses) /\ IsInjective(records[c[1]])
        BY <1>3 DEF StoreInv
    <2>. QED
        BY <1>3, <2>1, RegisterAdds
<1>6. /\ tenants' \in Seq(Tenants) /\ IsInjective(tenants')
      /\ ToSet(tenants') = ToSet(tenants) \cup {c[1]}
    <2>1. tenants \in Seq(Tenants) /\ IsInjective(tenants)
        BY DEF StoreInv
    <2> DEFINE new == Register(tenants, c[1])
    <2>2. /\ new \in Seq(Tenants) /\ IsInjective(new)
          /\ ToSet(new) = ToSet(tenants) \cup {c[1]}
        BY <1>3, <2>1, RegisterAdds
    <2>3. tenants' = new
        BY <1>4
    <2> HIDE DEF new
    <2>4. IsInjective(tenants') /\ ToSet(tenants') = ToSet(new)
        BY <2>2, <2>3 DEF IsInjective, ToSet
    <2>. QED
        BY <2>2, <2>3, <2>4
<1>7. /\ records' \in [Tenants -> Seq(Addresses)]
      /\ records'[c[1]] = Register(records[c[1]], c[2])
      /\ \A t \in Tenants : t # c[1] => records'[t] = records[t]
    BY <1>3, <1>4, <1>5 DEF StoreInv
<1>8. \A t \in Tenants :
          IsInjective(records'[t]) /\ (records'[t] # << >> <=> t \in ToSet(tenants'))
    BY <1>3, <1>5, <1>6, <1>7 DEF StoreInv
<1>9. connecting' \in [Hosts -> {Resting} \cup Probing]
    BY <1>4 DEF StoreInv
<1>10. ASSUME NEW t \in Tenants, NEW k \in DOMAIN records'[t]
       PROVE  <<t, records'[t][k]>> \in Connections
    <2>1. CASE t # c[1]
        BY <1>7, <1>10, <2>1 DEF StoreInv, Storable
    <2>2. CASE t = c[1]
        <3>1. records'[t][k] \in ToSet(records'[t])
            BY <1>10 DEF ToSet
        <3>2. records'[t][k] \in ToSet(records[t]) \cup {c[2]}
            BY <1>5, <1>7, <2>2, <3>1
        <3>3. ASSUME records'[t][k] \in ToSet(records[t])
              PROVE  <<t, records'[t][k]>> \in Connections
            BY <3>3 DEF StoreInv, Storable, ToSet
        <3>. QED
            BY <1>2, <1>3, <2>2, <3>2, <3>3
    <2>. QED
        BY <2>1, <2>2
<1>. QED
    BY <1>6, <1>7, <1>8, <1>9, <1>10 DEF StoreInv, Storable

-----------------------------------------------------------------------------
(* The arithmetic of the worst case, B standing for Budget * (Budget + 1). *)

LEMMA PaidVisit ==
    ASSUME NEW q \in Nat, NEW r \in Nat, NEW p \in 1..r, NEW B \in Nat,
           2 * q + r * (r + 1) <= B
    PROVE  2 * (q + p) + (r - p) * (r - p + 1) <= B
<1> DEFINE rr == r * r
           rp == r * p
           pp == p * p
<1>1. rr \in Nat /\ rp \in Nat /\ pp \in Nat /\ p \in Nat
    OBVIOUS
<1>2. r * (r + 1) = rr + r
    OBVIOUS
<1>3. (r - p) * (r - p + 1) = rr - 2 * rp + pp + r - p
    OBVIOUS
<1>4. pp <= rp /\ p <= rp
    <2>1. rp = p * r
        OBVIOUS
    <2>2. p * (r - p) >= 0 /\ p * (r - p) = p * r - pp
        OBVIOUS
    <2>3. p * (r - 1) >= 0 /\ p * (r - 1) = p * r - p
        OBVIOUS
    <2>. QED
        BY <2>1, <2>2, <2>3
<1>. HIDE DEF rr, rp, pp
<1>. QED
    BY <1>1, <1>2, <1>3, <1>4

LEMMA AtMost ==
    ASSUME NEW a \in Int, NEW left \in Int, NEW B \in Int, left >= 0, a + left <= B
    PROVE  a <= B
OBVIOUS

LEMMA NothingLeft ==
    ASSUME NEW a \in Int, NEW left, left = 0, NEW B \in Int, a <= B
    PROVE  a + left <= B
OBVIOUS

LEMMA FailedVisit ==
    ASSUME NEW q \in Nat, NEW r \in Nat, NEW p \in 1..r, NEW B \in Nat,
           2 * q + r * (r + 1) <= B
    PROVE  2 * (q + p) + (r - 1) * r <= B /\ (r - 1) * r >= 0
<1> DEFINE rr == r * r
<1>1. rr \in Nat /\ r * (r + 1) = rr + r /\ (r - 1) * r = rr - r
    OBVIOUS
<1>2. (r - 1) * r >= 0
    OBVIOUS
<1>. HIDE DEF rr
<1>. QED
    BY <1>1, <1>2

-----------------------------------------------------------------------------
(* A tick that begins. *)

LEMMA Whole == Budget \in Nat /\ Budget > 0 /\ Budget * (Budget + 1) \in Nat
BY Sizes

LEMMA StartKeeps ==
    ASSUME TickInv, NEW pairs \in Seq(Connections), IsInjective(pairs), StartTick(pairs),
           age' \in [Connections -> 0..Interval]
    PROVE  TickInv'
<1> DEFINE new == [running |-> TRUE, pairs |-> pairs, visited |-> 0,
                   remaining |-> Budget, rows |-> << >>]
<1>1. tick' = new /\ requests' = 0 /\ UNCHANGED <<broken, quiet, mishaps>>
    BY DEF StartTick
<1>2. new \in Runs /\ new # Resting
    BY Whole DEF Runs, Resting
<1>3. new.pairs = pairs /\ new.visited = 0 /\ new.remaining = Budget /\ new.rows = << >>
    OBVIOUS
<1>. HIDE DEF new
<1>4. TypeRun'
    BY <1>1 DEF TickInv, TypeRun
<1>5. OncePerTick'
    <2>1. IsInjective(tick'.pairs)
        BY <1>1, <1>3 DEF IsInjective
    <2>2. tick' \in Runs /\ tick'.visited <= Len(tick'.pairs) /\ Len(tick'.rows) = tick'.visited
        BY <1>1, <1>2, <1>3
    <2>. QED
        BY <2>1, <2>2 DEF OncePerTick
<1>6. QuietSoFar' /\ PaidInFull'
    BY <1>1, <1>3, Whole DEF QuietSoFar, PaidInFull
<1>7. WorstCase'
    <2>1. Remaining' = Budget /\ requests' = 0
        BY <1>1, <1>2, <1>3 DEF Remaining
    <2>. QED
        BY <2>1, Whole DEF WorstCase
<1>. QED
    BY <1>4, <1>5, <1>6, <1>7 DEF TickInv

LEMMA BeginKeeps ==
    ASSUME IInv, Begin \/ \E t \in Tenants : BeginUser(t)
    PROVE  StoreInv' /\ TickInv'
<1>1. StoreInv /\ TickInv /\ TypeOK /\ Storable
    BY Halves DEF IInv
<1>2. StoreInv'
    BY <1>1 DEF Begin, BeginUser, StartTick, storeVars, StoreInv, Storable
<1>3. CASE Begin
    <2>1. Pairs \in Seq(Connections) /\ IsInjective(Pairs)
        BY <1>1, PairsTyped
    <2>2. age' \in [Connections -> 0..Interval]
        BY <1>1, <1>3, Sizes DEF Begin, Smaller, TickInv, TypeRun
    <2>3. StartTick(Pairs)
        BY <1>3 DEF Begin
    <2>. QED
        BY <1>1, <1>2, <2>1, <2>2, <2>3, StartKeeps
<1>4. ASSUME NEW t \in Tenants, BeginUser(t) PROVE TickInv'
    <2>1. PairsOf(t) \in Seq(Connections) /\ IsInjective(PairsOf(t))
        BY <1>1, PairsOfTyped
    <2>2. age' \in [Connections -> 0..Interval]
        BY <1>1, <1>4 DEF BeginUser, TickInv, TypeRun
    <2>3. StartTick(PairsOf(t))
        BY <1>4 DEF BeginUser
    <2>. QED
        BY <1>1, <2>1, <2>2, <2>3, StartKeeps
<1>. QED
    BY <1>2, <1>3, <1>4

-----------------------------------------------------------------------------
(* A visit. *)

LEMMA VisitRuns ==
    ASSUME TickInv, NEW c \in Connections, Visiting(c)
    PROVE  /\ tick \in Runs /\ tick.visited < Len(tick.pairs)
           /\ tick.remaining \in 1..Budget
           /\ c = tick.pairs[tick.visited + 1]
           /\ Remaining = tick.remaining
           /\ requests \in Nat
<1>1. tick \in Runs /\ tick.remaining > 0
    BY DEF TickInv, OncePerTick, Visiting
<1>2. tick.remaining \in 1..Budget
    BY <1>1, Whole DEF Runs
<1>. QED
    BY <1>1, <1>2 DEF TickInv, TypeRun, Visiting, Remaining

LEMMA ChargeAdds ==
    ASSUME TickInv, NEW c \in Connections, Visiting(c),
           NEW row \in Reports, NEW cost \in 0..tick.remaining, Charge(<<row>>, cost)
    PROVE  /\ tick' \in Runs /\ tick' # Resting
           /\ tick'.pairs = tick.pairs
           /\ tick'.visited = tick.visited + 1
           /\ tick'.remaining = tick.remaining - cost
           /\ tick'.rows \in Seq(Reports)
           /\ Len(tick'.rows) = tick.visited + 1
           /\ tick'.rows[tick.visited + 1] = row
           /\ \A k \in 1..tick.visited : tick'.rows[k] = tick.rows[k]
<1>1. tick \in Runs /\ tick.remaining \in 1..Budget /\ Len(tick.rows) = tick.visited
    BY VisitRuns DEF TickInv, OncePerTick, Visiting
<1>2. /\ tick.visited \in Nat /\ tick.rows \in Seq(Reports) /\ tick.remaining \in 0..Budget
      /\ tick.pairs \in Seq(Connections)
    BY <1>1 DEF Runs
<1> DEFINE v == tick.visited + 1
           m == tick.remaining - cost
           s == tick.rows \o <<row>>
<1>3. v \in Nat /\ m \in 0..Budget
    BY <1>1, <1>2, Whole
<1>4. /\ s \in Seq(Reports) /\ Len(s) = tick.visited + 1 /\ s[tick.visited + 1] = row
      /\ \A k \in 1..tick.visited : s[k] = tick.rows[k]
    BY <1>1, <1>2
<1>5. tick' = [tick EXCEPT !.visited = v, !.remaining = m, !.rows = s]
    BY DEF Charge
<1>. HIDE DEF v, m, s
<1>6. tick' \in Runs
    <2>1. \A x \in Runs, i \in Nat, j \in 0..Budget, z \in Seq(Reports) :
              [x EXCEPT !.visited = i, !.remaining = j, !.rows = z] \in Runs
        BY DEF Runs
    <2>. QED
        BY <1>1, <1>3, <1>4, <1>5, <2>1
<1>7. tick'.pairs = tick.pairs /\ tick'.visited = v /\ tick'.remaining = m /\ tick'.rows = s
    BY <1>1, <1>5 DEF Runs
<1>8. tick' # Resting
    BY <1>6 DEF Runs, Resting
<1>. QED
    BY <1>4, <1>6, <1>7, <1>8 DEF v, m

LEMMA VisitCounts ==
    ASSUME TickInv, NEW c \in Connections, Visiting(c),
           NEW row \in Reports, NEW cost \in 0..tick.remaining, Charge(<<row>>, cost),
           \A x \in Connections : age'[x] <= age[x], age' \in [Connections -> 0..Interval],
           row.no_op => Throttled(c) /\ cost = 0
    PROVE  OncePerTick' /\ QuietSoFar'
<1>1. /\ tick' \in Runs /\ tick' # Resting
      /\ tick'.pairs = tick.pairs
      /\ tick'.visited = tick.visited + 1
      /\ tick'.remaining = tick.remaining - cost
      /\ tick'.rows \in Seq(Reports)
      /\ Len(tick'.rows) = tick.visited + 1
      /\ tick'.rows[tick.visited + 1] = row
      /\ \A k \in 1..tick.visited : tick'.rows[k] = tick.rows[k]
    BY ChargeAdds
<1>2. /\ tick \in Runs /\ tick.visited < Len(tick.pairs)
      /\ c = tick.pairs[tick.visited + 1]
    BY VisitRuns
<1>3. /\ tick.visited \in Nat /\ tick.pairs \in Seq(Connections)
      /\ tick.remaining \in 0..Budget
    BY <1>2 DEF Runs
<1>4. OncePerTick'
    <2>1. IsInjective(tick.pairs)
        BY DEF TickInv, OncePerTick, Visiting
    <2>2. IsInjective(tick'.pairs)
        BY <1>1, <2>1 DEF IsInjective
    <2>3. tick'.visited <= Len(tick'.pairs) /\ Len(tick'.rows) = tick'.visited
        BY <1>1, <1>2, <1>3
    <2>. QED
        BY <1>1, <2>2, <2>3 DEF OncePerTick
<1>5. ASSUME NEW k \in 1..tick'.visited, tick'.rows[k].no_op
      PROVE  age'[tick'.pairs[k]] < Interval
    <2>1. CASE k \in 1..tick.visited
        <3>1. age[tick.pairs[k]] < Interval
            BY <1>1, <1>5, <2>1 DEF TickInv, QuietSoFar, Throttled, Visiting
        <3>2. tick.pairs[k] \in Connections
            BY <1>2, <1>3, <2>1
        <3>3. age[tick.pairs[k]] \in Int /\ age'[tick.pairs[k]] \in Int /\ Interval \in Int
            BY <3>2, Sizes DEF TickInv, TypeRun
        <3>. QED
            BY <1>1, <3>1, <3>2, <3>3
    <2>2. CASE k = tick.visited + 1
        <3>1. age[c] < Interval
            BY <1>1, <1>5, <2>2 DEF Throttled
        <3>2. age[c] \in Int /\ age'[c] \in Int /\ Interval \in Int
            BY Sizes DEF TickInv, TypeRun
        <3>. QED
            BY <1>1, <1>2, <2>2, <3>1, <3>2
    <2>. QED
        BY <1>1, <1>3, <2>1, <2>2
<1>6. ASSUME \A k \in 1..tick'.visited : tick'.rows[k].no_op
      PROVE  tick'.remaining = Budget
    <2>1. ASSUME NEW k \in 1..tick.visited PROVE tick.rows[k].no_op
        <3>1. k \in 1..tick'.visited /\ tick'.rows[k] = tick.rows[k]
            BY <1>1, <1>3
        <3>. QED
            BY <1>6, <3>1
    <2>2. tick.remaining = Budget
        BY <2>1 DEF TickInv, QuietSoFar, Visiting
    <2>3. tick.visited + 1 \in 1..tick'.visited
        BY <1>1, <1>3
    <2>4. cost = 0
        BY <1>1, <1>6, <2>3
    <2>. QED
        BY <1>1, <2>2, <2>4, Whole
<1>. QED
    BY <1>4, <1>5, <1>6 DEF QuietSoFar, Throttled

(* The rows of the visits. *)

NoOpRow(c) == [connection |-> c, no_op |-> TRUE, failed |-> FALSE, pages |-> 0]

SyncedRow(c, pages) == [connection |-> c, no_op |-> FALSE, failed |-> FALSE, pages |-> pages]

FailedRow(c) == [connection |-> c, no_op |-> FALSE, failed |-> TRUE, pages |-> 0]

LEMMA RowsTyped ==
    ASSUME NEW c \in Connections, NEW pages \in 0..Budget
    PROVE  /\ NoOpRow(c) \in Reports /\ NoOpRow(c).no_op /\ ~NoOpRow(c).failed
           /\ SyncedRow(c, pages) \in Reports /\ ~SyncedRow(c, pages).no_op
           /\ FailedRow(c) \in Reports /\ ~FailedRow(c).no_op /\ FailedRow(c).failed
BY Whole DEF NoOpRow, SyncedRow, FailedRow, Reports, Coherent

LEMMA ThrottleKeeps ==
    ASSUME TickInv, NEW c \in Connections, Throttle(c)
    PROVE  TickInv'
<1>1. /\ NoOpRow(c) \in Reports /\ NoOpRow(c).no_op
    BY RowsTyped, Whole
<1>2. Visiting(c) /\ Throttled(c) /\ Charge(<<NoOpRow(c)>>, 0)
    BY DEF Throttle, NoOpRow
<1>3. UNCHANGED <<broken, age, requests, quiet, mishaps>>
    BY DEF Throttle
<1>4. /\ tick \in Runs /\ tick.remaining \in 1..Budget /\ 0 \in 0..tick.remaining
      /\ Remaining = tick.remaining
    BY <1>2, VisitRuns
<1>5. OncePerTick' /\ QuietSoFar'
    <2>1. age' \in [Connections -> 0..Interval] /\ \A x \in Connections : age'[x] <= age[x]
        BY <1>3, Sizes DEF TickInv, TypeRun
    <2>. QED
        BY <1>1, <1>2, <1>4, <2>1, VisitCounts
<1>6. /\ tick' \in Runs /\ tick' # Resting
      /\ tick'.visited = tick.visited + 1
      /\ tick'.remaining = tick.remaining - 0
      /\ \A k \in 1..tick.visited : tick'.rows[k] = tick.rows[k]
    BY <1>1, <1>2, <1>4, ChargeAdds
<1>7. tick'.remaining = tick.remaining /\ tick.visited \in Nat
    BY <1>4, <1>6 DEF Runs
<1>8. WorstCase'
    <2>1. Remaining' = Remaining
        BY <1>4, <1>6, <1>7 DEF Remaining
    <2>. QED
        BY <1>3, <2>1 DEF TickInv, WorstCase
<1>9. PaidInFull'
    BY <1>3, <1>6, <1>7, <1>2 DEF TickInv, PaidInFull, Visiting
<1>10. TypeRun'
    BY <1>3 DEF TickInv, TypeRun
<1>. QED
    BY <1>5, <1>8, <1>9, <1>10 DEF TickInv

LEMMA SyncedKeeps ==
    ASSUME TickInv, NEW c \in Connections, Synced(c)
    PROVE  TickInv'
<1>1. /\ tick \in Runs /\ tick.remaining \in 1..Budget /\ Remaining = tick.remaining
      /\ requests \in Nat
    BY VisitRuns DEF Synced
<1>2. PICK pages \in 1..tick.remaining :
          Charge(<<SyncedRow(c, pages)>>, pages) /\ requests' = requests + pages
    BY DEF Synced, SyncedRow
<1>3. /\ Visiting(c) /\ age' = [age EXCEPT ![c] = 0]
      /\ UNCHANGED <<broken, quiet, mishaps>>
    BY DEF Synced
<1>4. pages \in 0..tick.remaining /\ pages \in 0..Budget /\ pages \in Nat
    BY <1>1, Whole
<1>5. SyncedRow(c, pages) \in Reports /\ ~SyncedRow(c, pages).no_op
    BY <1>4, RowsTyped
<1>6. age' \in [Connections -> 0..Interval] /\ \A x \in Connections : age'[x] <= age[x]
    BY <1>3, Sizes DEF TickInv, TypeRun
<1>7. OncePerTick' /\ QuietSoFar'
    BY <1>2, <1>3, <1>4, <1>5, <1>6, VisitCounts
<1>8. /\ tick' \in Runs /\ tick' # Resting
      /\ tick'.visited = tick.visited + 1
      /\ tick'.remaining = tick.remaining - pages
      /\ \A k \in 1..tick.visited : tick'.rows[k] = tick.rows[k]
    BY <1>2, <1>3, <1>4, <1>5, ChargeAdds
<1>9. WorstCase'
    <2>1. Remaining' = tick.remaining - pages
        BY <1>8 DEF Remaining
    <2>2. 2 * requests + tick.remaining * (tick.remaining + 1) <= Budget * (Budget + 1)
        BY <1>1 DEF TickInv, WorstCase
    <2>3. tick.remaining \in Nat
        BY <1>1
    <2>4. 2 * (requests + pages) + (tick.remaining - pages) * (tick.remaining - pages + 1)
              <= Budget * (Budget + 1)
        BY <1>1, <1>2, <2>2, <2>3, Whole, PaidVisit
    <2>. QED
        BY <1>2, <2>1, <2>4 DEF WorstCase
<1>10. PaidInFull'
    <2>1. CASE \E k \in 1..tick.visited : tick.rows[k].failed
        <3>1. PICK k \in 1..tick.visited : tick.rows[k].failed
            BY <2>1
        <3>2. k \in 1..tick'.visited /\ tick'.rows[k].failed
            BY <1>1, <1>8, <3>1 DEF Runs
        <3>. QED
            BY <3>2 DEF PaidInFull
    <2>2. CASE requests = Budget - tick.remaining
        <3>1. requests' = Budget - tick'.remaining
            BY <1>1, <1>2, <1>4, <1>8, <2>2, Whole
        <3>. QED
            BY <3>1 DEF PaidInFull
    <2>. QED
        BY <1>3, <2>1, <2>2 DEF TickInv, PaidInFull, Visiting
<1>11. TypeRun'
    BY <1>1, <1>2, <1>3, <1>4, <1>6 DEF TickInv, TypeRun
<1>. QED
    BY <1>7, <1>9, <1>10, <1>11 DEF TickInv

(* Both ways a visit can break ask for as many requests as were left.      *)
LEMMA BreaksAsk ==
    ASSUME TickInv, NEW c \in Connections, Breaks(c)
    PROVE  /\ Visiting(c)
           /\ \E made \in 1..tick.remaining : requests' = requests + made
           /\ requests' \in Nat
           /\ age' \in [Connections -> 0..Interval] /\ \A x \in Connections : age'[x] <= age[x]
           /\ broken' = broken
           /\ 2 * requests' + (tick.remaining - 1) * tick.remaining <= Budget * (Budget + 1)
           /\ (tick.remaining - 1) * tick.remaining >= 0
<1>1. /\ tick \in Runs /\ tick.remaining \in 1..Budget /\ Remaining = tick.remaining
      /\ requests \in Nat
    BY VisitRuns DEF Breaks
<1>2. PICK made \in 1..tick.remaining :
          /\ requests' = requests + made
          /\ age' = IF made > 1 THEN [age EXCEPT ![c] = 0] ELSE age
    BY DEF Breaks
<1>3. age' \in [Connections -> 0..Interval] /\ \A x \in Connections : age'[x] <= age[x]
    BY <1>2, Sizes DEF TickInv, TypeRun
<1>4. 2 * requests + tick.remaining * (tick.remaining + 1) <= Budget * (Budget + 1)
    BY <1>1 DEF TickInv, WorstCase
<1>5. tick.remaining \in Nat /\ made \in Nat
    BY <1>1
<1>6. /\ 2 * (requests + made) + (tick.remaining - 1) * tick.remaining <= Budget * (Budget + 1)
      /\ (tick.remaining - 1) * tick.remaining >= 0
    BY <1>1, <1>4, <1>5, Whole, FailedVisit
<1>7. Visiting(c) /\ broken' = broken
    BY DEF Breaks
<1>8. requests' \in Nat
    BY <1>1, <1>2, <1>5
<1>. QED
    BY <1>2, <1>3, <1>6, <1>7, <1>8

LEMMA MishapTyped ==
    ASSUME TickInv, Mishap \/ UNCHANGED mishaps
    PROVE  mishaps' \in 0..MaxMishaps
BY MishapBound DEF TickInv, TypeRun, Mishap

LEMMA RaisesKeeps ==
    ASSUME TickInv, NEW c \in Connections, Raises(c)
    PROVE  TickInv'
<1>1. Breaks(c) /\ UNCHANGED quiet /\ mishaps' \in 0..MaxMishaps
    BY MishapTyped DEF Raises
<1>2. /\ Visiting(c)
      /\ requests' \in Nat
      /\ age' \in [Connections -> 0..Interval] /\ \A x \in Connections : age'[x] <= age[x]
      /\ broken' = broken
      /\ 2 * requests' + (tick.remaining - 1) * tick.remaining <= Budget * (Budget + 1)
    BY <1>1, BreaksAsk
<1>3. Charge(<<FailedRow(c)>>, 1)
    BY DEF Raises, FailureRows, FailureCost, FailedRow
<1>4. tick \in Runs /\ tick.remaining \in 1..Budget /\ 1 \in 0..tick.remaining
    BY <1>2, VisitRuns
<1>5. FailedRow(c) \in Reports /\ ~FailedRow(c).no_op /\ FailedRow(c).failed
    BY RowsTyped, Whole
<1>6. OncePerTick' /\ QuietSoFar'
    BY <1>2, <1>3, <1>4, <1>5, VisitCounts
<1>7. /\ tick' \in Runs /\ tick' # Resting
      /\ tick'.visited = tick.visited + 1
      /\ tick'.remaining = tick.remaining - 1
      /\ tick'.rows[tick.visited + 1] = FailedRow(c)
    BY <1>2, <1>3, <1>4, <1>5, ChargeAdds
<1>8. WorstCase'
    <2>1. Remaining' = tick.remaining - 1
        BY <1>7 DEF Remaining
    <2>2. tick.remaining - 1 + 1 = tick.remaining
        BY <1>4
    <2>. QED
        BY <1>2, <2>1, <2>2 DEF WorstCase
<1>9. PaidInFull'
    <2>1. tick.visited + 1 \in 1..tick'.visited
        BY <1>4, <1>7 DEF Runs
    <2>. QED
        BY <1>5, <1>7, <2>1 DEF PaidInFull
<1>10. TypeRun'
    BY <1>1, <1>2 DEF TickInv, TypeRun
<1>. QED
    BY <1>6, <1>8, <1>9, <1>10 DEF TickInv

LEMMA RestKeeps ==
    ASSUME TickInv, tick' = Resting, TypeRun', 2 * requests' <= Budget * (Budget + 1)
    PROVE  TickInv'
<1>1. WorstCase'
    <2>1. Remaining' = 0
        BY DEF Remaining
    <2>2. Remaining' * (Remaining' + 1) = 0 /\ requests' \in Nat
        BY <2>1 DEF TypeRun
    <2> DEFINE B == Budget * (Budget + 1)
               left == Remaining' * (Remaining' + 1)
    <2>3. 2 * requests' + left <= B
        <3>1. 2 * requests' \in Int /\ B \in Int
            BY <2>2, Whole
        <3>2. left = 0 /\ 2 * requests' <= B
            BY <2>2
        <3>. HIDE DEF left, B
        <3>. QED
            BY <3>1, <3>2, NothingLeft
    <2>. QED
        BY <2>3 DEF WorstCase
<1>. QED
    BY <1>1 DEF TickInv, OncePerTick, QuietSoFar, PaidInFull

LEMMA PropagatesKeeps ==
    ASSUME TickInv, NEW c \in Connections, Propagates(c)
    PROVE  TickInv'
<1>1. Breaks(c) /\ tick' = Resting /\ quiet' = FALSE /\ mishaps' \in 0..MaxMishaps
    BY MishapTyped DEF Propagates
<1>2. /\ Visiting(c)
      /\ requests' \in Nat
      /\ age' \in [Connections -> 0..Interval]
      /\ broken' = broken
      /\ 2 * requests' + (tick.remaining - 1) * tick.remaining <= Budget * (Budget + 1)
      /\ (tick.remaining - 1) * tick.remaining >= 0
    BY <1>1, BreaksAsk
<1>3. TypeRun'
    BY <1>1, <1>2 DEF TickInv, TypeRun
<1>4. tick.remaining \in Int
    BY <1>2, VisitRuns
<1>5. 2 * requests' <= Budget * (Budget + 1)
    <2> DEFINE left == (tick.remaining - 1) * tick.remaining
               B == Budget * (Budget + 1)
    <2>1. left \in Int /\ B \in Int /\ 2 * requests' \in Int
        BY <1>2, <1>4, Whole
    <2>2. 2 * requests' + left <= B /\ left >= 0
        BY <1>2
    <2>3. 2 * requests' <= B
        <3>. HIDE DEF left, B
        <3>. QED
            BY <2>1, <2>2, AtMost
    <2>. QED
        BY <2>3
<1>. QED
    BY <1>1, <1>3, <1>5, RestKeeps

LEMMA EndKeeps ==
    ASSUME TickInv, End
    PROVE  TickInv'
<1>1. tick # Resting /\ tick' = Resting /\ UNCHANGED <<broken, age, requests, mishaps>>
    BY DEF End
<1>2. quiet' \in BOOLEAN
    BY DEF End
<1>3. TypeRun'
    BY <1>1, <1>2 DEF TickInv, TypeRun
<1>4. 2 * requests <= Budget * (Budget + 1)
    <2>1. tick.remaining \in 0..Budget /\ requests \in Nat
        BY <1>1 DEF TickInv, TypeRun, OncePerTick, Runs
    <2> DEFINE left == tick.remaining * (tick.remaining + 1)
    <2>2. left \in Nat
        BY <2>1, Whole
    <2>3. 2 * requests + left <= Budget * (Budget + 1)
        BY <1>1 DEF TickInv, WorstCase, Remaining
    <2>. HIDE DEF left
    <2>. QED
        BY <2>1, <2>2, <2>3, Whole
<1>. QED
    BY <1>1, <1>3, <1>4, RestKeeps

-----------------------------------------------------------------------------
(* The theorems. *)

LEMMA StepKeeps == IInv /\ [Next]_vars => StoreInv' /\ TickInv'
<1> SUFFICES ASSUME IInv, [Next]_vars PROVE StoreInv' /\ TickInv'
    OBVIOUS
<1>1. StoreInv /\ TickInv
    BY Halves
<1>2. CASE UNCHANGED vars
    BY <1>1, <1>2 DEF vars, StoreInv, Storable, TickInv, TypeRun, OncePerTick, QuietSoFar,
                      WorstCase, PaidInFull, Remaining, Throttled
<1>3. ASSUME NEW h \in Hosts, Probe(h) \/ AddConnection(h) \/ \E c \in Connections : Connect(h, c)
      PROVE  StoreInv' /\ TickInv'
    <2>1. StoreInv'
        BY <1>1, <1>3, ProbeKeeps, AddKeeps
    <2>2. UNCHANGED <<broken, age, tick, requests, quiet, mishaps>>
        BY <1>3 DEF Probe, AddConnection, Connect
    <2>3. TickInv'
        BY <1>1, <2>2 DEF TickInv, TypeRun, OncePerTick, QuietSoFar, WorstCase, PaidInFull,
                          Remaining, Throttled
    <2>. QED
        BY <2>1, <2>3
<1>4. CASE Begin \/ \E t \in Tenants : BeginUser(t)
    BY <1>4, BeginKeeps
<1>5. ASSUME End \/ \E c \in Connections : Visit(c)
      PROVE  StoreInv' /\ TickInv'
    <2>1. UNCHANGED storeVars
        BY <1>5 DEF End, Visit, Throttle, Synced, Raises, Propagates, Breaks
    <2>2. StoreInv'
        BY <1>1, <2>1 DEF storeVars, StoreInv, Storable
    <2>3. TickInv'
        BY <1>1, <1>5, EndKeeps, ThrottleKeeps, SyncedKeeps, RaisesKeeps, PropagatesKeeps DEF Visit
    <2>. QED
        BY <2>2, <2>3
<1>. QED
    BY <1>2, <1>3, <1>4, <1>5 DEF Next, Ticks, Connects

(* The invariant: what is stored is stored once, a tick has a row for each *)
(* of its visits and visits nobody twice, and its account of no-ops, of    *)
(* failures and of requests is the true one (embed/dispatch.py, run_sync). *)
THEOREM Dispatches == Spec => []IInv
<1>1. Init => IInv
    BY InitHolds, Halves
<1>2. IInv /\ [Next]_vars => IInv'
    <2>1. IInv /\ [Next]_vars => StoreInv' /\ TickInv'
        BY StepKeeps
    <2>2. (IInv <=> StoreInv /\ TickInv)'
        BY Halves, PTL
    <2>. QED
        BY <2>1, <2>2
<1>. QED
    BY <1>1, <1>2, PTL DEF Spec

(* Every variable has its type; the store knows a tenant, and a tenant an  *)
(* address, once, whichever connects overlap (StateStore.add_connection).  *)
THEOREM TypeCorrect == Spec => []TypeOK
<1>1. IInv => TypeOK
    BY DEF IInv
<1>. QED
    BY <1>1, Dispatches, PTL

(* A report that says no_op left nothing undone: its tick came to every    *)
(* connection it began with, and found each inside its interval            *)
(* (SyncReport.no_op).                                                     *)
THEOREM QuietIsThrottled == Spec => QuietMeansAllThrottled
<1>1. ASSUME IInv, Next, tick # Resting, tick' = Resting, quiet'
      PROVE  /\ tick.visited = Len(tick.pairs)
             /\ \A k \in DOMAIN tick.pairs : Throttled(tick.pairs[k])
    <2>1. End
        <3>1. ~\E h \in Hosts : Probe(h) \/ AddConnection(h) \/ \E c \in Connections : Connect(h, c)
            BY <1>1 DEF Probe, AddConnection, Connect
        <3>2. ~(Begin \/ \E t \in Tenants : BeginUser(t))
            BY <1>1 DEF Begin, BeginUser, StartTick
        <3>3. ASSUME NEW c \in Connections PROVE ~Visit(c)
            <4>1. TickInv
                BY <1>1, Halves
            <4>2. ASSUME NEW row \in Reports, NEW cost \in 0..tick.remaining, Visiting(c),
                         Charge(<<row>>, cost)
                  PROVE  FALSE
                BY <1>1, <4>1, <4>2, ChargeAdds
            <4>3. ~Throttle(c)
                <5>1. 0 \in 0..tick.remaining \/ ~Visiting(c)
                    BY <4>1, VisitRuns
                <5>. QED
                    BY <4>2, <5>1, RowsTyped, Whole DEF Throttle, NoOpRow
            <4>4. ~Synced(c)
                <5>1. ASSUME Visiting(c), NEW pages \in 1..tick.remaining
                      PROVE  pages \in 0..tick.remaining /\ pages \in 0..Budget
                    BY <4>1, <5>1, VisitRuns, Whole
                <5>. QED
                    BY <4>2, <5>1, RowsTyped DEF Synced, SyncedRow
            <4>5. ~Raises(c)
                <5>1. 1 \in 0..tick.remaining \/ ~Visiting(c)
                    BY <4>1, VisitRuns
                <5>. QED
                    BY <4>2, <5>1, RowsTyped, Whole
                       DEF Raises, Breaks, FailureRows, FailureCost, FailedRow
            <4>6. ~Propagates(c)
                BY <1>1 DEF Propagates
            <4>. QED
                BY <4>3, <4>4, <4>5, <4>6 DEF Visit
        <3>. QED
            BY <1>1, <3>1, <3>2, <3>3 DEF Next, Ticks, Connects
    <2>2. /\ tick \in Runs /\ Len(tick.rows) = tick.visited
          /\ \A k \in 1..tick.visited : tick.rows[k].no_op => Throttled(tick.pairs[k])
          /\ (\A k \in 1..tick.visited : tick.rows[k].no_op) => tick.remaining = Budget
        BY <1>1 DEF IInv, OncePerTick, QuietSoFar
    <2>3. DOMAIN tick.rows = 1..tick.visited /\ DOMAIN tick.pairs = 1..Len(tick.pairs)
        BY <2>2 DEF Runs
    <2>4. \A k \in 1..tick.visited : tick.rows[k].no_op
        BY <1>1, <2>1, <2>3 DEF End
    <2>5. tick.visited = Len(tick.pairs)
        BY <2>1, <2>2, <2>4, Whole DEF End
    <2>. QED
        BY <2>2, <2>3, <2>4, <2>5
<1>2. IInv /\ [Next]_vars =>
          [(tick # Resting /\ tick' = Resting /\ quiet') =>
              /\ tick.visited = Len(tick.pairs)
              /\ \A k \in DOMAIN tick.pairs : Throttled(tick.pairs[k])]_vars
    BY <1>1
<1>. QED
    BY <1>2, Dispatches, PTL DEF Spec, QuietMeansAllThrottled

(* The timer's tick has every connection in it that the store knows, of    *)
(* whichever user (Auradefi.sync).                                         *)
THEOREM EverybodyIsInvited == Spec => EverybodyInvited
<1>1. ASSUME IInv, Begin, NEW c \in Connections, Known(c)
      PROVE  \E k \in DOMAIN tick'.pairs : tick'.pairs[k] = c
    <2>1. PICK k \in DOMAIN Pairs : Pairs[k] = c
        BY <1>1, PairsCover DEF IInv
    <2>2. tick'.pairs = Pairs
        BY <1>1 DEF Begin, StartTick
    <2>. QED
        BY <2>1, <2>2
<1>2. IInv /\ [Next]_vars =>
          [Begin => \A c \in Connections :
              Known(c) => \E k \in DOMAIN tick'.pairs : tick'.pairs[k] = c]_vars
    BY <1>1
<1>. QED
    BY <1>2, Dispatches, PTL DEF Spec, EverybodyInvited

(* What a budget of n can cost: n + (n - 1) + ... + 1 requests, for a      *)
(* connection that fails is charged one whatever it had asked for; and no  *)
(* more than n while nothing fails (run_sync in embed/dispatch.py).        *)
RequestsBounded ==
    /\ 2 * requests <= Budget * (Budget + 1)
    /\ (tick # Resting /\ \A k \in DOMAIN tick.rows : ~tick.rows[k].failed) => TickWithinBudget

THEOREM RequestsAreBounded == Spec => []RequestsBounded
<1>1. ASSUME IInv PROVE RequestsBounded
    <2>1. 2 * requests <= Budget * (Budget + 1)
        <3> DEFINE B == Budget * (Budget + 1)
                   left == Remaining * (Remaining + 1)
        <3>1. requests \in Nat /\ Remaining \in Nat
            BY <1>1, Whole DEF IInv, TypeOK, OncePerTick, Runs, Remaining
        <3>2. left >= 0 /\ left \in Int /\ B \in Int
            BY <3>1, Whole
        <3>3. 2 * requests + left <= B
            BY <1>1 DEF IInv, WorstCase
        <3>4. 2 * requests <= B
            <4>. HIDE DEF left, B
            <4>. QED
                BY <3>1, <3>2, <3>3
        <3>. QED
            BY <3>4
    <2>2. ASSUME tick # Resting, \A k \in DOMAIN tick.rows : ~tick.rows[k].failed
          PROVE  requests <= Budget
        <3>1. tick \in Runs /\ Len(tick.rows) = tick.visited
            BY <1>1, <2>2 DEF IInv, OncePerTick
        <3>2. DOMAIN tick.rows = 1..tick.visited /\ tick.remaining \in 0..Budget
            BY <3>1 DEF Runs
        <3>3. requests = Budget - tick.remaining
            BY <1>1, <2>2, <3>2 DEF IInv, PaidInFull
        <3>. QED
            BY <3>2, <3>3, Whole
    <2>. QED
        BY <2>1, <2>2 DEF RequestsBounded, TickWithinBudget
<1>. QED
    BY <1>1, Dispatches, PTL

=============================================================================
