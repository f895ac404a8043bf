---------------------------- MODULE LedgerProofs ----------------------------
(***************************************************************************)
(* Proofs about Ledger: sequence numbers order the feed, a mirror is wrong *)
(* only above its cursor, events match changes, a fresh reorg is exact,    *)
(* and the ledger implements ChangeFeed.  And about Snapshots: for any     *)
(* ledger, page limit and writers between two pages, what was collected of *)
(* an account is exact for every transaction that nobody wrote meanwhile,  *)
(* and so are its metrics.                                                 *)
(***************************************************************************)
EXTENDS Snapshots, Lemmas

(* A store and its counter, typed, with distinct numbers up to the counter. *)
StoreOK(store, n) ==
    /\ DOMAIN store \subseteq Ids
    /\ store \in [DOMAIN store -> Row]
    /\ n \in Nat
    /\ \A i \in DOMAIN store : store[i].seq <= n
    /\ \A i, j \in DOMAIN store : store[i].seq = store[j].seq => i = j

(* The ids a list of rows writes at the positions P. *)
Written(list, P) == {list[k].id : k \in P}

(* From store s with counter n to store t with counter m, writing the ids W. *)
StoreStep(s, n, t, m, W) ==
    /\ StoreOK(t, m)
    /\ m >= n
    /\ DOMAIN t = DOMAIN s \cup W
    /\ \A i \in W : t[i].seq > n
    /\ \A i \in DOMAIN s \ W : t[i] = s[i]

(* Such a step that emits an event for exactly what it changes. *)
EventStep(s, n, t, m, W) ==
    /\ StoreStep(s, n, t, m, W)
    /\ \A i \in W : View(t, i) # View(s, i)

(* Positions of a list of length m. *)
Positions(P, m) == P \subseteq 1..m

Lines == [id : Ids, payload : Payloads, removed : BOOLEAN]

-----------------------------------------------------------------------------
(* Positions are numbered 1, 2, ... in their order. *)
LEMMA RankFacts ==
    ASSUME NEW m \in Nat, NEW P, Positions(P, m)
    PROVE  /\ IsFiniteSet(P)
           /\ Cardinality(P) \in Nat
           /\ \A k \in P : Rank(P, k) \in 1..Cardinality(P)
           /\ \A j, k \in P : j < k => Rank(P, j) < Rank(P, k)
<1> DEFINE Upto(k) == {j \in P : j <= k}
<1>1. IsFiniteSet(P) /\ Cardinality(P) \in Nat
    <2>1. IsFiniteSet(1..m)
        BY FS_Interval
    <2>2. IsFiniteSet(P)
        BY <2>1, FS_Subset DEF Positions
    <2>. QED
        BY <2>2, FS_CardinalityType
<1>2. ASSUME NEW k \in P PROVE Rank(P, k) \in 1..Cardinality(P)
    <2>1. Upto(k) \subseteq P /\ k \in Upto(k)
        BY DEF Positions
    <2>2. IsFiniteSet(Upto(k)) /\ Cardinality(Upto(k)) <= Cardinality(P)
        BY <1>1, <2>1, FS_Subset
    <2>3. Cardinality(Upto(k)) \in Nat /\ Cardinality(Upto(k)) # 0
        BY <2>1, <2>2, FS_CardinalityType, FS_EmptySet
    <2>. QED
        BY <1>1, <2>2, <2>3 DEF Rank
<1>3. ASSUME NEW j \in P, NEW k \in P, j < k PROVE Rank(P, j) < Rank(P, k)
    <2>1. P \subseteq Int
        BY DEF Positions
    <2>2. /\ \A p \in Upto(j) : p \in Upto(k)
          /\ k \in Upto(k)
          /\ k \notin Upto(j)
        BY <1>3, <2>1
    <2>3. IsFiniteSet(Upto(k)) /\ IsFiniteSet(Upto(j))
        BY <1>1, FS_Subset
    <2>4. Cardinality(Upto(k)) \in Nat /\ Cardinality(Upto(j)) \in Nat
        BY <2>3, FS_CardinalityType
    <2>5. Cardinality(Upto(j)) <= Cardinality(Upto(k)) /\ Upto(j) # Upto(k)
        BY <2>2, <2>3, FS_Subset
    <2>6. Cardinality(Upto(j)) # Cardinality(Upto(k))
        BY <2>2, <2>3, <2>5, FS_Subset
    <2>. QED
        BY <2>4, <2>5, <2>6 DEF Rank
<1>. QED
    BY <1>1, <1>2, <1>3

(* Stamping writes the rows at the positions and leaves the others alone. *)
LEMMA StampedNew ==
    ASSUME NEW store, NEW n, NEW list, NEW P, NEW k \in P,
           \A j \in P : list[j].id = list[k].id => j = k
    PROVE  Stamped(store, n, list, P)[list[k].id] =
                NumberedRow(list[k], n + Rank(P, k))
<1>1. (CHOOSE q \in P : list[q].id = list[k].id) = k
    OBVIOUS
<1>2. list[k].id \in DOMAIN store \cup {list[q].id : q \in P}
    OBVIOUS
<1>. QED
    BY <1>1, <1>2 DEF Stamped

(* Stamping leaves every row it does not write as it was: _next_seq        *)
(* renumbers written rows only.                                            *)
LEMMA StampedOld ==
    ASSUME NEW store, NEW n, NEW list, NEW P,
           NEW i \in DOMAIN store \ Written(list, P)
    PROVE  Stamped(store, n, list, P)[i] = store[i]
<1>1. ~ \E k \in P : list[k].id = i
    BY DEF Written
<1>. QED
    BY <1>1 DEF Stamped

(* A stamped store is a store again, its counter moved by the number of    *)
(* rows written, and every written row is above the old counter.           *)
LEMMA StampedOK ==
    ASSUME NEW store, NEW n, StoreOK(store, n), NEW m \in Nat,
           NEW list \in [1..m -> Lines], NEW P, Positions(P, m),
           \A j, k \in P : list[j].id = list[k].id => j = k
    PROVE  StoreStep(store, n, Stamped(store, n, list, P), n + Cardinality(P),
                     Written(list, P))
<1> DEFINE new == Stamped(store, n, list, P)
           W == Written(list, P)
<1>. HIDE DEF new, W
<1>1. /\ DOMAIN new = DOMAIN store \cup W
      /\ \A k \in P : new[list[k].id] =
            NumberedRow(list[k], n + Rank(P, k))
      /\ \A i \in DOMAIN store \ W : new[i] = store[i]
    <2>1. DOMAIN new = DOMAIN store \cup W
        BY DEF Stamped, Written, new, W
    <2>2. ASSUME NEW k \in P
          PROVE  new[list[k].id] =
                    NumberedRow(list[k], n + Rank(P, k))
        <3>1. \A j \in P : list[j].id = list[k].id => j = k
            OBVIOUS
        <3>. QED
            BY <3>1, StampedNew DEF new
    <2>3. ASSUME NEW i \in DOMAIN store \ W PROVE new[i] = store[i]
        BY StampedOld DEF new, W
    <2>. QED
        BY <2>1, <2>2, <2>3
<1>2. /\ Cardinality(P) \in Nat
      /\ \A k \in P : Rank(P, k) \in 1..Cardinality(P)
      /\ \A j, k \in P : j < k => Rank(P, j) < Rank(P, k)
    BY RankFacts
<1>3. n \in Nat /\ DOMAIN store \subseteq Ids /\ W \subseteq Ids
    BY DEF StoreOK, Written, Lines, W, Positions
<1>4. \A i \in W : \E k \in P : i = list[k].id /\ new[i].seq = n + Rank(P, k)
                                /\ new[i] \in Row
    <2> SUFFICES ASSUME NEW k \in P
                 PROVE  LET i == list[k].id IN
                        new[i].seq = n + Rank(P, k) /\ new[i] \in Row
        BY DEF Written, W
    <2>1. n + Rank(P, k) \in Nat \ {0}
        BY <1>2, <1>3
    <2>2. k \in 1..m /\ list[k] \in Lines
        BY DEF Positions
    <2>3. list[k].payload \in Payloads /\ list[k].removed \in BOOLEAN
        BY <2>2 DEF Lines
    <2>4. new[list[k].id] = NumberedRow(list[k], n + Rank(P, k))
        BY <1>1
    <2>. QED
        BY <2>1, <2>3, <2>4 DEF Row, NumberedRow
<1>5. \A i \in W : new[i].seq > n /\ new[i].seq <= n + Cardinality(P)
    BY <1>2, <1>3, <1>4
<1>6. \A i \in DOMAIN new : new[i] \in Row
    BY <1>1, <1>4 DEF StoreOK
<1>7. \A i \in DOMAIN new : new[i].seq <= n + Cardinality(P)
    <2> TAKE i \in DOMAIN new
    <2>1. CASE i \in W
        BY <1>5, <2>1
    <2>2. CASE i \notin W
        BY <1>1, <1>2, <1>3, <2>2 DEF StoreOK, Row
    <2>. QED
        BY <2>1, <2>2
<1>8. ASSUME NEW i \in DOMAIN new, NEW j \in DOMAIN new, new[i].seq = new[j].seq
      PROVE  i = j
    <2>1. CASE i \in W /\ j \in W
        <3>1. PICK p \in P : i = list[p].id /\ new[i].seq = n + Rank(P, p)
            BY <1>4, <2>1
        <3>2. PICK q \in P : j = list[q].id /\ new[j].seq = n + Rank(P, q)
            BY <1>4, <2>1
        <3>3. Rank(P, p) \in Int /\ Rank(P, q) \in Int
            BY <1>2
        <3>4. Rank(P, p) = Rank(P, q)
            BY <1>3, <1>8, <3>1, <3>2, <3>3
        <3>5. p \in Int /\ q \in Int
            BY DEF Positions
        <3>6. p = q
            BY <1>2, <3>3, <3>4, <3>5
        <3>. QED
            BY <3>1, <3>2, <3>6
    <2>2. CASE i \in W /\ j \notin W
        BY <1>1, <1>3, <1>5, <1>8, <2>2 DEF StoreOK, Row
    <2>3. CASE i \notin W /\ j \in W
        BY <1>1, <1>3, <1>5, <1>8, <2>3 DEF StoreOK, Row
    <2>4. CASE i \notin W /\ j \notin W
        BY <1>1, <1>8, <2>4 DEF StoreOK
    <2>. QED
        BY <2>1, <2>2, <2>3, <2>4
<1>9. new \in [DOMAIN new -> Row]
    BY <1>6 DEF Stamped, new
<1>. QED
    BY <1>1, <1>2, <1>3, <1>5, <1>7, <1>8, <1>9 DEF StoreOK, StoreStep, new, W

-----------------------------------------------------------------------------
(* The two writes, and their composition in a reorg. *)

(* An upsert of any positions of a batch without duplicate ids writes      *)
(* exactly rows whose view it changes, and leaves each position it was     *)
(* asked for live with its payload (upsert).                               *)
LEMMA UpsertStep ==
    ASSUME NEW store, NEW n, StoreOK(store, n), NEW batch \in Batches(Txns),
           UniqueIds(batch), NEW E, E \subseteq DOMAIN batch,
           NEW P, P = UpsertPositions(store, batch, E)
    PROVE  /\ EventStep(store, n, Stamped(store, n, Live(batch), P),
                        n + Cardinality(P), Written(Live(batch), P))
           /\ \A k \in P : View(Stamped(store, n, Live(batch), P), batch[k].id)
                            = batch[k].payload
<1> DEFINE list == Live(batch)
           new == Stamped(store, n, list, P)
<1>1. PICK m \in 1..MaxBatch : batch \in [1..m -> Txns]
    BY DEF Batches
<1>2. m \in Nat /\ list \in [1..m -> Lines]
    BY <1>1, Bounds DEF Live, Lines, Txns
<1>3. Positions(P, m) /\ P \subseteq E
    BY <1>1 DEF Positions, UpsertPositions
<1>4. \A k \in P : list[k].id = batch[k].id /\ list[k].payload = batch[k].payload
                    /\ list[k].removed = FALSE
    BY <1>3 DEF Live
<1>5. \A j, k \in P : list[j].id = list[k].id => j = k
    BY <1>3, <1>4 DEF UniqueIds
<1>6. StoreStep(store, n, new, n + Cardinality(P), Written(list, P))
    BY <1>2, <1>3, <1>5, StampedOK
<1>7. ASSUME NEW k \in P PROVE View(new, batch[k].id) = batch[k].payload
    <2>1. new[list[k].id] = NumberedRow(list[k], n + Rank(P, k))
        BY <1>5, StampedNew
    <2>2. batch[k].id \in DOMAIN new
        BY <1>4, <1>6 DEF StoreStep, Written
    <2>. QED
        BY <1>4, <2>1, <2>2 DEF View, NumberedRow
<1>8. ASSUME NEW k \in P PROVE View(store, batch[k].id) # batch[k].payload
    <2>1. Writes(store, batch[k])
        BY DEF UpsertPositions
    <2>2. batch[k].payload \in Payloads
        BY <1>1, <1>3 DEF Positions, Txns
    <2>. QED
        BY <2>1, <2>2, GoneIsNoPayload DEF Writes, View
<1>9. \A i \in Written(list, P) : View(new, i) # View(store, i)
    BY <1>4, <1>7, <1>8 DEF Written
<1>. QED
    BY <1>6, <1>7, <1>9 DEF EventStep

(* Marking stored ids removed writes exactly rows whose view it changes,   *)
(* and leaves every id of the call without a live payload (mark_removed).  *)
LEMMA RemoveStep ==
    ASSUME NEW store, NEW n, StoreOK(store, n), NEW ids \in Seq(Ids),
           AllStored(store, ids), NEW P, P = RemovePositions(store, ids)
    PROVE  /\ EventStep(store, n, Stamped(store, n, Dead(store, ids), P),
                        n + Cardinality(P), Written(Dead(store, ids), P))
           /\ Written(Dead(store, ids), P) \subseteq {ids[k] : k \in DOMAIN ids}
           /\ \A k \in DOMAIN ids :
                View(Stamped(store, n, Dead(store, ids), P), ids[k]) = Gone
<1> DEFINE list == Dead(store, ids)
           new == Stamped(store, n, list, P)
<1>1. PICK m \in Nat : DOMAIN ids = 1..m /\ \A k \in 1..m : ids[k] \in Ids
    <2>1. Len(ids) \in Nat
        OBVIOUS
    <2>2. DOMAIN ids = 1..Len(ids)
        OBVIOUS
    <2>3. \A k \in 1..Len(ids) : ids[k] \in Ids
        OBVIOUS
    <2>. QED
        BY <2>1, <2>2, <2>3
<1>2. \A k \in 1..m : store[ids[k]] \in Row
    BY <1>1 DEF AllStored, StoreOK
<1>3. list \in [1..m -> Lines]
    BY <1>1, <1>2 DEF Dead, Lines, Row
<1>4. Positions(P, m)
    BY <1>1 DEF Positions, RemovePositions
<1>5. \A k \in P : list[k].id = ids[k] /\ list[k].removed = TRUE /\ k \in DOMAIN ids
    BY DEF Dead, RemovePositions
<1>6. \A j, k \in P : list[j].id = list[k].id => j = k
    <2> SUFFICES ASSUME NEW j \in P, NEW k \in P, ids[j] = ids[k] PROVE j = k
        BY <1>5
    <2>1. j <= k /\ k <= j
        BY <1>5 DEF RemovePositions
    <2>2. j \in Int /\ k \in Int
        BY <1>4 DEF Positions
    <2>. QED
        BY <2>1, <2>2
<1>7. StoreStep(store, n, new, n + Cardinality(P), Written(list, P))
    BY <1>1, <1>3, <1>4, <1>6, StampedOK
<1>8. ASSUME NEW k \in P PROVE View(new, ids[k]) = Gone /\ View(store, ids[k]) # Gone
    <2>1. new[list[k].id] = NumberedRow(list[k], n + Rank(P, k))
        BY <1>6, StampedNew
    <2>2. View(new, ids[k]) = Gone
        BY <1>5, <2>1 DEF View, NumberedRow
    <2>3. ids[k] \in DOMAIN store /\ ~store[ids[k]].removed
        BY <1>5 DEF AllStored, RemovePositions
    <2>4. store[ids[k]].payload \in Payloads
        BY <1>1, <1>2, <1>5 DEF Row
    <2>. QED
        BY <2>2, <2>3, <2>4, GoneIsNoPayload DEF View
<1>9. Written(list, P) \subseteq {ids[k] : k \in DOMAIN ids}
    BY <1>5 DEF Written
<1>10. \A i \in Written(list, P) : View(new, i) # View(store, i)
    BY <1>5, <1>8 DEF Written
<1>11. ASSUME NEW k \in DOMAIN ids PROVE View(new, ids[k]) = Gone
    <2>1. CASE ids[k] \in Written(list, P)
        BY <1>5, <1>8, <2>1 DEF Written
    <2>2. CASE ids[k] \notin Written(list, P)
        <3>1. new[ids[k]] = store[ids[k]] /\ ids[k] \in DOMAIN store
            BY <1>7, <2>2 DEF StoreStep, AllStored
        <3>2. store[ids[k]].removed
            <4> SUFFICES ASSUME ~store[ids[k]].removed PROVE FALSE
                OBVIOUS
            <4> DEFINE Mention == {j \in DOMAIN ids : ids[j] = ids[k]}
            <4>1. Mention \subseteq Nat /\ Mention # {}
                BY <1>1
            <4>2. PICK j \in Mention : \A q \in Mention : j <= q
                BY <4>1, LeastNatural
            <4>3. j \in P
                BY <4>2 DEF RemovePositions
            <4>. QED
                BY <1>5, <2>2, <4>2, <4>3 DEF Written
        <3>. QED
            BY <3>1, <3>2 DEF View
    <2>. QED
        BY <2>1, <2>2
<1>. QED
    BY <1>7, <1>9, <1>10, <1>11 DEF EventStep

(* Two event steps that write disjoint ids are one event step: mark_removed*)
(* followed by upsert inside apply_reorg.                                  *)
LEMMA ComposeSteps ==
    ASSUME NEW s, NEW n, StoreOK(s, n), NEW t, NEW m, NEW u, NEW p, NEW V, NEW W,
           EventStep(s, n, t, m, V), EventStep(t, m, u, p, W), V \cap W = {}
    PROVE  EventStep(s, n, u, p, V \cup W)
<1>1. n \in Nat /\ m \in Nat /\ p \in Nat /\ m >= n /\ p >= m
    BY DEF EventStep, StoreStep, StoreOK
<1>2. DOMAIN t = DOMAIN s \cup V /\ DOMAIN u = DOMAIN s \cup (V \cup W)
    BY DEF EventStep, StoreStep
<1>3. \A i \in V : u[i] = t[i] /\ u[i].seq > n /\ View(u, i) # View(s, i)
    BY <1>2 DEF EventStep, StoreStep, View
<1>4. ASSUME NEW i \in W
      PROVE  u[i].seq > n /\ View(u, i) # View(s, i)
    <2>1. u[i] \in Row /\ u[i].seq > m /\ u[i].seq \in Nat
        BY <1>2 DEF EventStep, StoreStep, StoreOK, Row
    <2>2. View(t, i) = View(s, i)
        BY <1>2 DEF EventStep, StoreStep, View
    <2>. QED
        BY <1>1, <2>1, <2>2 DEF EventStep
<1>5. \A i \in DOMAIN s \ (V \cup W) : u[i] = s[i]
    BY <1>2 DEF EventStep, StoreStep
<1>. QED
    BY <1>1, <1>2, <1>3, <1>4, <1>5 DEF EventStep, StoreStep

(* A step that does not write an id leaves its view alone.                 *)
LEMMA UntouchedView ==
    ASSUME NEW s, NEW n, NEW t, NEW m, NEW W, StoreStep(s, n, t, m, W), NEW i, i \notin W
    PROVE  /\ View(t, i) = View(s, i)
           /\ i \in DOMAIN t <=> i \in DOMAIN s
           /\ i \in DOMAIN s => t[i] = s[i]
BY DEF StoreStep, View

-----------------------------------------------------------------------------
(* Paging: what the cursor has passed is what the page held. *)

(* A page and its next cursor split what was above the old cursor: the page*)
(* is what the new cursor has passed, and when has_more is false nothing is*)
(* left above it (MemoryLedger.sync).                                      *)
LEMMA PageFacts ==
    ASSUME NEW store, NEW n, StoreOK(store, n), NEW since \in Nat, since <= n,
           NEW limit \in Nat, NEW next, IsNextCursor(store, since, limit, next)
    PROVE  /\ next \in Nat /\ next >= since /\ next <= n
           /\ Page(store, since, limit) \subseteq Fresh(store, since)
           /\ Fresh(store, next) = Fresh(store, since) \ Page(store, since, limit)
           /\ ~HasMore(store, since, limit) =>
                    Page(store, since, limit) = Fresh(store, since)
<1> DEFINE fresh == Fresh(store, since)
           page == Page(store, since, limit)
           Before(i) == {j \in fresh : store[j].seq < store[i].seq}
<1>. HIDE DEF fresh, page, Before
<1>1. /\ n \in Nat
      /\ \A i \in DOMAIN store : store[i].seq \in Nat /\ store[i].seq <= n
      /\ \A i, j \in DOMAIN store : store[i].seq = store[j].seq => i = j
    BY DEF StoreOK, Row
<1>2. /\ page \subseteq fresh
      /\ \A i \in fresh : i \in DOMAIN store /\ store[i].seq > since
    BY DEF Page, Fresh, fresh, page
<1>3. IsFiniteSet(fresh)
    BY <1>2, IdsFinite, FS_Subset DEF StoreOK
<1>4. ASSUME NEW i \in fresh
      PROVE  IsFiniteSet(Before(i)) /\ Cardinality(Before(i)) \in Nat
    <2>1. Before(i) \subseteq fresh
        BY DEF Before
    <2>. QED
        BY <1>3, <2>1, FS_Subset, FS_CardinalityType
<1>5. ASSUME NEW i \in fresh
      PROVE  i \in page <=> Cardinality(Before(i)) < limit
    BY DEF Page, fresh, page, Before
<1>6. next \in Nat /\ next >= since /\ next <= n
    <2>1. CASE page = {}
        BY <2>1 DEF IsNextCursor, page
    <2>2. CASE page # {}
        <3>1. PICK i \in page : store[i].seq = next
            BY <2>2 DEF IsNextCursor, page
        <3>. QED
            BY <1>1, <1>2, <3>1
    <2>. QED
        BY <2>1, <2>2
<1>7. ASSUME NEW i \in fresh, i \notin page PROVE store[i].seq > next
    <2>1. CASE page = {}
        BY <1>2, <2>1 DEF IsNextCursor, page
    <2>2. CASE page # {}
        <3>1. PICK j \in page : store[j].seq = next
            BY <2>2 DEF IsNextCursor, page
        <3>2. j \in fresh /\ j # i /\ store[j].seq \in Nat /\ store[i].seq \in Nat
            BY <1>1, <1>2, <1>7
        <3>3. SUFFICES ASSUME store[i].seq < store[j].seq PROVE FALSE
            BY <1>1, <1>2, <3>1, <3>2
        <3>4. \A q \in fresh : store[q].seq \in Nat
            BY <1>1, <1>2
        <3>5. Before(i) \subseteq Before(j)
            BY <3>2, <3>3, <3>4 DEF Before
        <3>6. /\ IsFiniteSet(Before(j))
              /\ Cardinality(Before(j)) \in Nat
              /\ Cardinality(Before(i)) \in Nat
              /\ Cardinality(Before(j)) < limit
            <4>1. j \in fresh /\ j \in page
                BY <3>1, <3>2
            <4>2. IsFiniteSet(Before(j)) /\ Cardinality(Before(j)) \in Nat
                BY <1>4, <4>1
            <4>3. Cardinality(Before(j)) < limit
                BY <1>5, <4>1
            <4>4. Cardinality(Before(i)) \in Nat
                BY <1>4
            <4>. QED
                BY <4>2, <4>3, <4>4
        <3>7. Cardinality(Before(i)) <= Cardinality(Before(j))
            BY <3>5, <3>6, FS_Subset
        <3>8. Cardinality(Before(i)) < limit
            BY <3>6, <3>7
        <3>. QED
            BY <1>5, <1>7, <3>8
    <2>. QED
        BY <2>1, <2>2
<1>8. ASSUME NEW i \in page PROVE store[i].seq <= next
    BY <1>8 DEF IsNextCursor, page
<1>9. Fresh(store, next) = fresh \ page
    <2>1. ASSUME NEW i \in Fresh(store, next) PROVE i \in fresh \ page
        <3>1. i \in DOMAIN store /\ store[i].seq > next /\ store[i].seq \in Nat
            BY <1>1, <2>1 DEF Fresh
        <3>2. i \in fresh
            BY <1>6, <3>1 DEF Fresh, fresh
        <3>. QED
            BY <1>6, <1>8, <3>1, <3>2
    <2>2. ASSUME NEW i \in fresh \ page PROVE i \in Fresh(store, next)
        BY <1>2, <1>7, <2>2 DEF Fresh, fresh
    <2>. QED
        BY <2>1, <2>2
<1>10. ASSUME ~HasMore(store, since, limit), NEW i \in fresh PROVE i \in page
    <2>1. Cardinality(fresh) <= limit /\ Cardinality(fresh) \in Nat
        BY <1>3, <1>10, FS_CardinalityType DEF HasMore, fresh
    <2>2. Before(i) \subseteq fresh /\ i \notin Before(i)
        BY <1>1, <1>2 DEF Before
    <2>3. Before(i) # fresh
        BY <2>2
    <2>4. Cardinality(Before(i)) <= Cardinality(fresh)
          /\ (Cardinality(Before(i)) = Cardinality(fresh) => Before(i) = fresh)
        BY <1>3, <2>2, FS_Subset
    <2>5. Cardinality(Before(i)) \in Nat
        BY <1>4
    <2>6. Cardinality(Before(i)) < limit
        BY <2>1, <2>3, <2>4, <2>5
    <2>. QED
        BY <1>5, <2>6
<1>. QED
    BY <1>2, <1>6, <1>9, <1>10 DEF fresh, page

-----------------------------------------------------------------------------
(* The inductive invariant. *)

CursorInv ==
    \A c \in Clients : persisted[c] <= cursor[c] /\ cursor[c] <= seq

(* A plan removes nothing it also adds; while it is fresh it is the plan   *)
(* that would be made now.                                                 *)
PlanInv ==
    plan # NoPlan =>
        /\ plan.add \subseteq DOMAIN plan.canonical
        /\ \A k \in DOMAIN plan.remove, j \in DOMAIN plan.canonical :
                plan.remove[k] # plan.canonical[j].id
        /\ plan.fresh =>
            /\ {plan.remove[k] : k \in DOMAIN plan.remove} =
                    Orphans(rows, plan.canonical, plan.from)
            /\ plan.add = UpsertPositions(rows, plan.canonical, DOMAIN plan.canonical)

IInv == TypeOK /\ SeqInv /\ CursorInv /\ MirrorFaithful /\ PlanInv

(* The invariant makes the ledger's rows and counter a store.              *)
LEMMA InvStoreOK ==
    ASSUME IInv
    PROVE  StoreOK(rows, seq)
BY DEF IInv, TypeOK, SeqInv, StoreOK

(* Writing nothing is an event step: a silent redelivery.                  *)
LEMMA NothingWritten ==
    ASSUME NEW s, NEW n, StoreOK(s, n)
    PROVE  EventStep(s, n, s, n, {})
BY DEF EventStep, StoreStep, StoreOK

(* apply_reorg of a plan that removes nothing it adds. *)
LEMMA ReorgStep ==
    ASSUME NEW store, NEW n, StoreOK(store, n), NEW ids \in Seq(Ids),
           AllStored(store, ids), NEW batch \in Batches(Txns), UniqueIds(batch),
           NEW E, E \subseteq DOMAIN batch,
           \A k \in DOMAIN ids, j \in DOMAIN batch : ids[k] # batch[j].id,
           NEW P, P = RemovePositions(store, ids),
           NEW cut, cut = Stamped(store, n, Dead(store, ids), P),
           NEW Q, Q = UpsertPositions(cut, batch, E),
           NEW new, new = Stamped(cut, n + Cardinality(P), Live(batch), Q)
    PROVE  /\ \E W : EventStep(store, n, new, n + Cardinality(P) + Cardinality(Q), W)
           /\ \A k \in DOMAIN ids : View(new, ids[k]) = Gone
           /\ \A k \in Q : View(new, batch[k].id) = batch[k].payload
           /\ \A i : (\A k \in DOMAIN ids : ids[k] # i) /\ (\A k \in Q : batch[k].id # i)
                => View(new, i) = View(store, i)
<1> DEFINE V == Written(Dead(store, ids), P)
           W == Written(Live(batch), Q)
           m == n + Cardinality(P)
<1>1. /\ EventStep(store, n, cut, m, V)
      /\ V \subseteq {ids[k] : k \in DOMAIN ids}
      /\ \A k \in DOMAIN ids : View(cut, ids[k]) = Gone
    BY RemoveStep
<1>2. StoreOK(cut, m)
    BY <1>1 DEF EventStep, StoreStep
<1>3. /\ EventStep(cut, m, new, m + Cardinality(Q), W)
      /\ \A k \in Q : View(new, batch[k].id) = batch[k].payload
    BY <1>2, UpsertStep
<1>4. Q \subseteq DOMAIN batch
    BY DEF UpsertPositions
<1>5. W = {batch[k].id : k \in Q}
    BY <1>4 DEF Written, Live
<1>6. \A k \in DOMAIN ids : ids[k] \notin W
    BY <1>4, <1>5
<1>7. V \cap W = {}
    BY <1>1, <1>6
<1>8. EventStep(store, n, new, m + Cardinality(Q), V \cup W)
    BY <1>1, <1>3, <1>7, ComposeSteps
<1>9. \A k \in DOMAIN ids : View(new, ids[k]) = Gone
    BY <1>1, <1>3, <1>6, UntouchedView DEF EventStep
<1>10. ASSUME NEW i, \A k \in DOMAIN ids : ids[k] # i, \A k \in Q : batch[k].id # i
       PROVE  View(new, i) = View(store, i)
    <2>1. i \notin V /\ i \notin W
        BY <1>1, <1>5, <1>10
    <2>. QED
        BY <1>1, <1>3, <2>1, UntouchedView DEF EventStep
<1>. QED
    BY <1>3, <1>8, <1>9, <1>10

(* Every write of the ledger is an event step, and touches no client. *)
LEMMA WriteMoves ==
    ASSUME IInv, Write
    PROVE  /\ \E W : EventStep(rows, seq, rows', seq', W)
           /\ UNCHANGED clientVars
<1>1. StoreOK(rows, seq)
    BY InvStoreOK
<1>2. ASSUME NEW batch \in Batches(Txns), Upsert(batch)
      PROVE  (\E W : EventStep(rows, seq, rows', seq', W)) /\ UNCHANGED clientVars
    <2> DEFINE P == UpsertPositions(rows, batch, DOMAIN batch)
    <2>1. EventStep(rows, seq, rows', seq', Written(Live(batch), P))
        BY <1>1, <1>2, UpsertStep DEF Upsert
    <2>. QED
        BY <1>2, <2>1 DEF Upsert
<1>3. ASSUME NEW ids \in Batches(Ids), MarkRemoved(ids)
      PROVE  (\E W : EventStep(rows, seq, rows', seq', W)) /\ UNCHANGED clientVars
    <2> DEFINE P == RemovePositions(rows, ids)
    <2>1. ids \in Seq(Ids)
        BY Bounds DEF Batches
    <2>2. EventStep(rows, seq, rows', seq', Written(Dead(rows, ids), P))
        BY <1>1, <1>3, <2>1, RemoveStep DEF MarkRemoved
    <2>. QED
        BY <1>3, <2>2 DEF MarkRemoved
<1>4. ASSUME NEW canonical \in Batches(Txns), NEW from \in Blocks, PlanReorg(canonical, from)
      PROVE  (\E W : EventStep(rows, seq, rows', seq', W)) /\ UNCHANGED clientVars
    <2>1. rows' = rows /\ seq' = seq
        BY <1>4 DEF PlanReorg, ledgerVars
    <2>. QED
        BY <1>1, <1>4, <2>1, NothingWritten DEF PlanReorg
<1>5. ASSUME ApplyReorg
      PROVE  (\E W : EventStep(rows, seq, rows', seq', W)) /\ UNCHANGED clientVars
    <2>1. /\ plan.remove \in Seq(Ids)
          /\ plan.canonical \in Batches(Txns)
          /\ plan.add \subseteq DOMAIN plan.canonical
          /\ \A k \in DOMAIN plan.remove, j \in DOMAIN plan.canonical :
                plan.remove[k] # plan.canonical[j].id
        BY <1>5 DEF IInv, PlanInv, TypeOK, Plans, ApplyReorg
    <2> DEFINE P == RemovePositions(rows, plan.remove)
               cut == Stamped(rows, seq, Dead(rows, plan.remove), P)
               Q == UpsertPositions(cut, plan.canonical, plan.add)
    <2>2. /\ AllStored(rows, plan.remove) /\ UniqueIds(plan.canonical)
          /\ rows' = Stamped(cut, seq + Cardinality(P), Live(plan.canonical), Q)
          /\ seq' = seq + Cardinality(P) + Cardinality(Q)
          /\ UNCHANGED clientVars
        BY <1>5 DEF ApplyReorg
    <2>3. \E W : EventStep(rows, seq, rows', seq + Cardinality(P) + Cardinality(Q), W)
        BY <1>1, <2>1, <2>2, ReorgStep
    <2>. QED
        BY <2>2, <2>3
<1>. QED
    BY <1>2, <1>3, <1>4, <1>5 DEF Write

-----------------------------------------------------------------------------
(* The invariant is preserved. *)

(* An empty ledger with clients at cursor zero satisfies the invariant.    *)
LEMMA InitInv == Init => IInv
<1> SUFFICES ASSUME Init PROVE IInv
    OBVIOUS
<1>1. DOMAIN rows = {} /\ rows \in [DOMAIN rows -> Row]
    BY DEF Init
<1>2. TypeOK
    BY <1>1 DEF Init, TypeOK
<1>3. SeqInv
    BY <1>1 DEF SeqInv
<1>4. CursorInv
    BY DEF Init, CursorInv
<1>5. MirrorFaithful
    BY <1>1 DEF Init, MirrorFaithful, View
<1>6. PlanInv
    BY DEF Init, PlanInv
<1>. QED
    BY <1>2, <1>3, <1>4, <1>5, <1>6 DEF IInv

(* Every write leaves the held plan a plan or none.                        *)
LEMMA PlanTyped ==
    ASSUME IInv, Write
    PROVE  plan' \in Plans \cup {NoPlan}
<1>1. plan \in Plans \cup {NoPlan}
    BY DEF IInv, TypeOK
<1>2. CASE PlanAges
    BY <1>1, <1>2 DEF PlanAges, Plans
<1>3. CASE ApplyReorg
    BY <1>3 DEF ApplyReorg
<1>4. ASSUME NEW canonical \in Batches(Txns), NEW from \in Blocks, PlanReorg(canonical, from)
      PROVE  plan' \in Plans \cup {NoPlan}
    <2> DEFINE orphans == Orphans(rows, canonical, from)
    <2>1. orphans \subseteq Ids
        BY DEF IInv, TypeOK, Orphans
    <2>2. Cardinality(orphans) \in Nat
        BY <2>1, IdsFinite, FS_Subset, FS_CardinalityType
    <2>3. UpsertPositions(rows, canonical, DOMAIN canonical) \in SUBSET Nat
        <3>1. DOMAIN canonical \subseteq Nat
            BY Bounds DEF Batches
        <3>. QED
            BY <3>1 DEF UpsertPositions
    <2>4. PICK order \in [1..Cardinality(orphans) -> orphans] :
            plan' = [kind |-> "plan", canonical |-> canonical, from |-> from,
                     remove |-> order,
                     add |-> UpsertPositions(rows, canonical, DOMAIN canonical),
                     fresh |-> TRUE]
        BY <1>4 DEF PlanReorg
    <2>5. order \in Seq(Ids)
        BY <2>1, <2>2
    <2>. QED
        BY <2>3, <2>4, <2>5 DEF Plans
<1>. QED
    BY <1>2, <1>3, <1>4 DEF Write, Upsert, MarkRemoved

(* A write keeps the types, the numbering, the cursors and the mirrors     *)
(* faithful: whatever it changes it lifts above every cursor.              *)
LEMMA WriteInv ==
    ASSUME IInv, Write
    PROVE  TypeOK' /\ SeqInv' /\ CursorInv' /\ MirrorFaithful'
<1>1. PICK W : EventStep(rows, seq, rows', seq', W)
    BY WriteMoves
<1>2. cursor' = cursor /\ persisted' = persisted /\ mirror' = mirror
    BY WriteMoves DEF clientVars
<1>3. StoreOK(rows', seq') /\ seq' >= seq /\ seq \in Nat
    BY <1>1 DEF EventStep, StoreStep, IInv, TypeOK
<1>4. TypeOK'
    BY <1>2, <1>3, PlanTyped DEF IInv, TypeOK, StoreOK
<1>5. SeqInv'
    BY <1>3 DEF SeqInv, StoreOK
<1>6. \A c \in Clients : cursor[c] \in Nat /\ persisted[c] \in Nat
    BY DEF IInv, TypeOK
<1>7. CursorInv'
    BY <1>2, <1>3, <1>6 DEF IInv, CursorInv, StoreOK
<1>8. ASSUME NEW c \in Clients, NEW i \in Ids \ Fresh(rows', cursor[c])
      PROVE  mirror[c][i] = View(rows', i)
    <2>1. i \notin W
        <3>1. \A j \in W : j \in DOMAIN rows' /\ rows'[j].seq > seq /\ rows'[j].seq \in Nat
            BY <1>1 DEF EventStep, StoreStep, StoreOK, Row
        <3>2. cursor[c] <= seq
            BY DEF IInv, CursorInv
        <3>. QED
            BY <1>3, <1>6, <1>8, <3>1, <3>2 DEF Fresh
    <2>2. /\ View(rows', i) = View(rows, i)
          /\ i \in DOMAIN rows' <=> i \in DOMAIN rows
          /\ i \in DOMAIN rows => rows'[i] = rows[i]
        BY <1>1, <2>1, UntouchedView DEF EventStep
    <2>3. i \notin Fresh(rows, cursor[c])
        BY <1>8, <2>2 DEF Fresh
    <2>. QED
        BY <2>2, <2>3 DEF IInv, MirrorFaithful
<1>9. MirrorFaithful'
    BY <1>2, <1>8 DEF MirrorFaithful
<1>. QED
    BY <1>4, <1>5, <1>7, <1>9

(* A write keeps what the held plan promises: it stays disjoint, and a     *)
(* fresh plan still agrees with the rows (plan_reorg).                     *)
LEMMA WritePlanInv ==
    ASSUME IInv, Write
    PROVE  PlanInv'
<1>1. CASE PlanAges
    <2>1. CASE plan = NoPlan
        BY <1>1, <2>1 DEF PlanAges, PlanInv
    <2>2. CASE plan # NoPlan /\ rows' # rows
        <3>1. plan \in Plans
            BY <2>2 DEF IInv, TypeOK
        <3>2. /\ plan'.add = plan.add /\ plan'.canonical = plan.canonical
              /\ plan'.remove = plan.remove /\ plan'.fresh = FALSE
            BY <1>1, <2>2, <3>1 DEF PlanAges, Plans
        <3>. QED
            BY <2>2, <3>2 DEF IInv, PlanInv
    <2>3. CASE rows' = rows
        BY <1>1, <2>3 DEF PlanAges, IInv, PlanInv
    <2>. QED
        BY <2>1, <2>2, <2>3
<1>2. CASE ApplyReorg
    BY <1>2 DEF ApplyReorg, PlanInv
<1>3. ASSUME NEW canonical \in Batches(Txns), NEW from \in Blocks, PlanReorg(canonical, from)
      PROVE  PlanInv'
    <2> DEFINE orphans == Orphans(rows, canonical, from)
               n == Cardinality(orphans)
    <2>1. IsFiniteSet(orphans) /\ n \in Nat
        <3>1. orphans \subseteq Ids
            BY DEF IInv, TypeOK, Orphans
        <3>. QED
            BY <3>1, IdsFinite, FS_Subset, FS_CardinalityType
    <2>2. PICK order \in [1..n -> orphans] :
            /\ \A j, k \in DOMAIN order : order[j] = order[k] => j = k
            /\ plan' = [kind |-> "plan", canonical |-> canonical, from |-> from,
                        remove |-> order,
                        add |-> UpsertPositions(rows, canonical, DOMAIN canonical),
                        fresh |-> TRUE]
        BY <1>3 DEF PlanReorg
    <2>3. {order[k] : k \in DOMAIN order} = orphans
        <3>1. order \in Injection(1..n, orphans)
            BY <2>2 DEF Injection, IsInjective
        <3>2. IsFiniteSet(1..n) /\ Cardinality(1..n) = n
            BY <2>1, FS_Interval
        <3>3. order \in Surjection(1..n, orphans)
            BY <2>1, <3>1, <3>2, FS_Injection
        <3>. QED
            BY <3>3 DEF Surjection
    <2>4. \A k \in DOMAIN order, j \in DOMAIN canonical : order[k] # canonical[j].id
        BY <2>2 DEF Orphans
    <2>5. rows' = rows
        BY <1>3 DEF PlanReorg, ledgerVars
    <2>6. UpsertPositions(rows, canonical, DOMAIN canonical) \subseteq DOMAIN canonical
        BY DEF UpsertPositions
    <2>. QED
        BY <2>2, <2>3, <2>4, <2>5, <2>6 DEF PlanInv
<1>. QED
    BY <1>1, <1>2, <1>3 DEF Write, Upsert, MarkRemoved

(* What one Pull does to the client that takes it, and to no other. *)
LEMMA PullMoves ==
    ASSUME IInv, NEW c \in Clients, NEW limit \in 1..MaxLimit, Pull(c, limit),
           NEW page, page = Page(rows, cursor[c], limit)
    PROVE  /\ rows' = rows /\ seq' = seq /\ plan' = plan
           /\ \E next \in Nat :
                /\ cursor[c] <= next /\ next <= seq
                /\ cursor' = [cursor EXCEPT ![c] = next]
                /\ persisted' \in {persisted, [persisted EXCEPT ![c] = next]}
                /\ persisted' # persisted => page = Fresh(rows, cursor[c])
                /\ Fresh(rows, next) = Fresh(rows, cursor[c]) \ page
           /\ page \subseteq Fresh(rows, cursor[c])
           /\ mirror' = [mirror EXCEPT ![c] =
                [i \in Ids |-> IF i \in page THEN View(rows, i) ELSE mirror[c][i]]]
<1>1. StoreOK(rows, seq) /\ cursor[c] \in Nat /\ cursor[c] <= seq /\ limit \in Nat
    BY InvStoreOK, Bounds DEF IInv, TypeOK, CursorInv
<1>2. PICK next : /\ IsNextCursor(rows, cursor[c], limit, next)
                  /\ cursor' = [cursor EXCEPT ![c] = next]
                  /\ persisted' = IF HasMore(rows, cursor[c], limit) THEN persisted
                                  ELSE [persisted EXCEPT ![c] = next]
    BY DEF Pull
<1>3. /\ next \in Nat /\ next >= cursor[c] /\ next <= seq
      /\ page \subseteq Fresh(rows, cursor[c])
      /\ Fresh(rows, next) = Fresh(rows, cursor[c]) \ page
      /\ ~HasMore(rows, cursor[c], limit) => page = Fresh(rows, cursor[c])
    BY <1>1, <1>2, PageFacts
<1>4. rows' = rows /\ seq' = seq /\ plan' = plan
    BY DEF Pull, ledgerVars
<1>5. mirror' = [mirror EXCEPT ![c] =
                [i \in Ids |-> IF i \in page THEN View(rows, i) ELSE mirror[c][i]]]
    BY DEF Pull, IInv, TypeOK
<1>. QED
    BY <1>2, <1>3, <1>4, <1>5

(* A client's page keeps the invariant: what the cursor passes is what the *)
(* client was shown.                                                       *)
LEMMA PullInv ==
    ASSUME IInv, NEW c \in Clients, NEW limit \in 1..MaxLimit, Pull(c, limit)
    PROVE  IInv'
<1> DEFINE page == Page(rows, cursor[c], limit)
<1>1. /\ rows' = rows /\ seq' = seq /\ plan' = plan
      /\ page \subseteq Fresh(rows, cursor[c])
      /\ mirror' = [mirror EXCEPT ![c] =
                [i \in Ids |-> IF i \in page THEN View(rows, i) ELSE mirror[c][i]]]
    BY PullMoves
<1>2. PICK next \in Nat :
                /\ cursor[c] <= next /\ next <= seq
                /\ cursor' = [cursor EXCEPT ![c] = next]
                /\ persisted' \in {persisted, [persisted EXCEPT ![c] = next]}
                /\ Fresh(rows, next) = Fresh(rows, cursor[c]) \ page
    BY PullMoves
<1>. HIDE DEF page
<1>3. \A i \in Ids : View(rows, i) \in Payloads \cup {Gone}
    BY DEF IInv, TypeOK, View, Row
<1>4. TypeOK'
    <2>1. mirror' \in [Clients -> [Ids -> Payloads \cup {Gone}]]
        BY <1>1, <1>3 DEF IInv, TypeOK
    <2>. QED
        BY <1>1, <1>2, <2>1 DEF IInv, TypeOK
<1>5. SeqInv'
    BY <1>1 DEF IInv, SeqInv
<1>6. CursorInv'
    BY <1>1, <1>2 DEF IInv, CursorInv, TypeOK
<1>7. ASSUME NEW d \in Clients, NEW i \in Ids \ Fresh(rows, cursor'[d])
      PROVE  mirror'[d][i] = View(rows, i)
    <2>1. CASE d = c
        <3>1. cursor'[c] = next
            BY <1>2 DEF IInv, TypeOK
        <3>2. i \in page \/ i \notin Fresh(rows, cursor[c])
            BY <1>2, <1>7, <2>1, <3>1
        <3>3. mirror'[c][i] = IF i \in page THEN View(rows, i) ELSE mirror[c][i]
            BY <1>1 DEF IInv, TypeOK
        <3>. QED
            BY <2>1, <3>2, <3>3 DEF IInv, MirrorFaithful
    <2>2. CASE d # c
        <3>1. cursor'[d] = cursor[d] /\ mirror'[d] = mirror[d]
            BY <1>1, <1>2, <2>2 DEF IInv, TypeOK
        <3>. QED
            BY <1>7, <3>1 DEF IInv, MirrorFaithful
    <2>. QED
        BY <2>1, <2>2
<1>8. MirrorFaithful'
    BY <1>1, <1>7 DEF MirrorFaithful
<1>9. PlanInv'
    BY <1>1 DEF IInv, PlanInv
<1>. QED
    BY <1>4, <1>5, <1>6, <1>8, <1>9 DEF IInv

(* A crash of a client keeps the invariant, and only puts more rows above  *)
(* its cursor.                                                             *)
LEMMA CrashMoves ==
    ASSUME IInv, NEW c \in Clients, CrashClient(c)
    PROVE  /\ IInv'
           /\ Fresh(rows, cursor[c]) \subseteq Fresh(rows, cursor'[c])
<1>1. /\ cursor' = [cursor EXCEPT ![c] = persisted[c]]
      /\ rows' = rows /\ seq' = seq
      /\ plan' = plan /\ persisted' = persisted /\ mirror' = mirror
    BY DEF CrashClient, ledgerVars
<1>2. cursor[c] \in Nat /\ persisted[c] \in Nat /\ persisted[c] <= cursor[c] /\ seq \in Nat
    BY DEF IInv, TypeOK, CursorInv
<1>3. \A d \in Clients : Fresh(rows, cursor[d]) \subseteq Fresh(rows, cursor'[d])
    <2> TAKE d \in Clients
    <2>1. /\ cursor'[d] \in Nat /\ cursor[d] \in Nat /\ cursor'[d] <= cursor[d]
        BY <1>1, <1>2 DEF IInv, TypeOK
    <2>2. \A i \in DOMAIN rows : rows[i].seq \in Nat
        BY DEF IInv, TypeOK, Row
    <2>. QED
        BY <2>1, <2>2 DEF Fresh
<1>4. TypeOK' /\ SeqInv' /\ PlanInv'
    BY <1>1, <1>2 DEF IInv, TypeOK, SeqInv, PlanInv
<1>5. CursorInv'
    BY <1>1, <1>2 DEF IInv, CursorInv, TypeOK
<1>6. MirrorFaithful'
    BY <1>1, <1>3 DEF IInv, MirrorFaithful
<1>. QED
    BY <1>3, <1>4, <1>5, <1>6 DEF IInv

(* Every step of the ledger and its clients keeps the invariant.           *)
LEMMA NextInv ==
    ASSUME IInv, [Next]_vars
    PROVE  IInv'
<1>1. CASE Write
    BY <1>1, WriteInv, WritePlanInv DEF IInv
<1>2. CASE Read
    BY <1>2, PullInv DEF Read
<1>3. CASE \E c \in Clients : CrashClient(c)
    BY <1>3, CrashMoves
<1>4. CASE UNCHANGED vars
    BY <1>4 DEF vars, ledgerVars, clientVars, IInv, TypeOK, SeqInv, CursorInv,
                MirrorFaithful, PlanInv
<1>. QED
    BY <1>1, <1>2, <1>3, <1>4 DEF Next

-----------------------------------------------------------------------------
(* Safety. *)

(* Every reachable state of any ledger, whatever its transactions, batches *)
(* and clients, satisfies the inductive invariant.                         *)
THEOREM InvariantHolds == Spec => []IInv
<1>1. Init => IInv
    BY InitInv
<1>2. IInv /\ [Next]_vars => IInv'
    BY NextInv
<1>. QED
    BY <1>1, <1>2, PTL DEF Spec

(* The state stays typed, in particular every stored row keeps a positive  *)
(* sequence number.                                                        *)
THEOREM TypeCorrect == Spec => []TypeOK
<1>1. IInv => TypeOK
    BY DEF IInv
<1>. QED
    BY <1>1, InvariantHolds, PTL

(* _next_seq never gives two rows one number, nor a row one above the      *)
(* tenant's counter, in any order of upserts, removals and reorgs.         *)
THEOREM SequenceIsOrder == Spec => []SeqInv
<1>1. IInv => SeqInv
    BY DEF IInv
<1>. QED
    BY <1>1, InvariantHolds, PTL

(* A client paging with any limits between any writes holds the ledger's   *)
(* present view of everything at or below its cursor.                      *)
THEOREM MirrorsAreFaithful == Spec => []MirrorFaithful
<1>1. IInv => MirrorFaithful
    BY DEF IInv
<1>. QED
    BY <1>1, InvariantHolds, PTL

-----------------------------------------------------------------------------
(* What a step may never do. *)

(* No reader changes the ledger or the plan.                               *)
LEMMA ReadKeepsLedger ==
    ASSUME IInv, Read \/ \E c \in Clients : CrashClient(c)
    PROVE  rows' = rows /\ seq' = seq /\ plan' = plan
<1>1. CASE Read
    BY <1>1 DEF Read, Pull, ledgerVars
<1>2. CASE \E c \in Clients : CrashClient(c)
    BY <1>2 DEF CrashClient, ledgerVars
<1>. QED
    BY <1>1, <1>2

(* Whatever the writers do, an event is emitted exactly for the ids whose  *)
(* live payload changes.                                                   *)
THEOREM EventsAreChanges == Spec => EventsMatchChanges
<1> DEFINE Event(i) == i \in DOMAIN rows' /\ (i \notin DOMAIN rows \/ rows'[i].seq # rows[i].seq)
           Exact == \A i \in Ids : Event(i) <=> View(rows', i) # View(rows, i)
<1>1. ASSUME IInv, [Next]_vars PROVE [Exact]_rows
    <2>1. CASE Write
        <3>1. PICK W : EventStep(rows, seq, rows', seq', W)
            BY <1>1, <2>1, WriteMoves
        <3>2. ASSUME NEW i \in Ids, i \in W
              PROVE  Event(i) /\ View(rows', i) # View(rows, i)
            <4>1. i \in DOMAIN rows' /\ rows'[i].seq > seq /\ View(rows', i) # View(rows, i)
                BY <3>1, <3>2 DEF EventStep, StoreStep
            <4>2. i \in DOMAIN rows => rows[i].seq <= seq /\ rows[i].seq \in Nat
                BY <1>1 DEF IInv, TypeOK, SeqInv, Row
            <4>3. rows'[i].seq \in Nat /\ seq \in Nat
                BY <1>1, <3>1, <4>1 DEF EventStep, StoreStep, StoreOK, Row, IInv, TypeOK
            <4>. QED
                BY <4>1, <4>2, <4>3
        <3>3. ASSUME NEW i \in Ids, i \notin W
              PROVE  ~Event(i) /\ View(rows', i) = View(rows, i)
            BY <3>1, <3>3, UntouchedView DEF EventStep
        <3>. QED
            BY <3>2, <3>3
    <2>2. CASE Read \/ \E c \in Clients : CrashClient(c)
        BY <1>1, <2>2, ReadKeepsLedger
    <2>3. CASE UNCHANGED vars
        BY <2>3 DEF vars, ledgerVars
    <2>. QED
        BY <1>1, <2>1, <2>2, <2>3 DEF Next
<1>. QED
    BY <1>1, InvariantHolds, PTL DEF Spec, EventsMatchChanges

(* A client persists a cursor only when it holds exactly the ledger.       *)
THEOREM PersistedIsExact == Spec => PersistsOnlyWhenExact
<1> DEFINE Exact == \A c \in Clients : persisted'[c] # persisted[c] =>
                        \A i \in Ids : mirror'[c][i] = View(rows', i)
<1>1. ASSUME IInv, [Next]_vars PROVE Exact
    <2>1. CASE Write
        BY <1>1, <2>1, WriteMoves DEF clientVars
    <2>2. ASSUME NEW c \in Clients, NEW limit \in 1..MaxLimit, Pull(c, limit)
          PROVE  Exact
        <3> DEFINE page == Page(rows, cursor[c], limit)
        <3> SUFFICES ASSUME NEW d \in Clients, persisted'[d] # persisted[d], NEW i \in Ids
                     PROVE  mirror'[d][i] = View(rows', i)
            OBVIOUS
        <3>1. /\ rows' = rows
              /\ mirror' = [mirror EXCEPT ![c] =
                    [j \in Ids |-> IF j \in page THEN View(rows, j) ELSE mirror[c][j]]]
            BY <1>1, <2>2, PullMoves
        <3>2. PICK next \in Nat :
                    /\ persisted' \in {persisted, [persisted EXCEPT ![c] = next]}
                    /\ persisted' # persisted => page = Fresh(rows, cursor[c])
            BY <1>1, <2>2, PullMoves
        <3>. HIDE DEF page
        <3>3. d = c /\ page = Fresh(rows, cursor[c])
            BY <1>1, <3>2 DEF IInv, TypeOK
        <3>4. mirror'[c][i] = IF i \in page THEN View(rows, i) ELSE mirror[c][i]
            BY <1>1, <3>1 DEF IInv, TypeOK
        <3>. QED
            BY <1>1, <3>1, <3>3, <3>4 DEF IInv, MirrorFaithful
    <2>3. CASE \E c \in Clients : CrashClient(c)
        BY <2>3 DEF CrashClient
    <2>4. CASE UNCHANGED vars
        BY <2>4 DEF vars, clientVars
    <2>. QED
        BY <1>1, <2>1, <2>2, <2>3, <2>4 DEF Next, Read
<1>. QED
    BY <1>1, InvariantHolds, PTL DEF Spec, PersistsOnlyWhenExact

(* Applying a plan made from the present view leaves exactly the canonical *)
(* chain from the fork on, whatever the canonical transactions.            *)
THEOREM FreshReorgsAreExact == Spec => FreshReorgIsExact
<1> DEFINE Canonical(i) == \E k \in DOMAIN plan.canonical : plan.canonical[k].id = i
           Orphaned(i) == /\ i \in DOMAIN rows
                          /\ rows[i].payload.block \in Blocks
                          /\ rows[i].payload.block >= plan.from
           Exact == (plan # NoPlan /\ plan.fresh /\ plan' = NoPlan) =>
                        \A i \in Ids : View(rows', i) = AfterReorg(i)
<1>1. ASSUME IInv, ApplyReorg PROVE Exact
    <2> SUFFICES ASSUME plan.fresh, NEW i \in Ids
                 PROVE  View(rows', i) = AfterReorg(i)
        OBVIOUS
    <2> DEFINE P == RemovePositions(rows, plan.remove)
               cut == Stamped(rows, seq, Dead(rows, plan.remove), P)
               Q == UpsertPositions(cut, plan.canonical, plan.add)
    <2>1. /\ plan.remove \in Seq(Ids)
          /\ plan.canonical \in Batches(Txns)
          /\ plan.add = UpsertPositions(rows, plan.canonical, DOMAIN plan.canonical)
          /\ plan.add \subseteq DOMAIN plan.canonical
          /\ {plan.remove[k] : k \in DOMAIN plan.remove}
                = Orphans(rows, plan.canonical, plan.from)
          /\ \A k \in DOMAIN plan.remove, j \in DOMAIN plan.canonical :
                plan.remove[k] # plan.canonical[j].id
        BY <1>1 DEF IInv, PlanInv, TypeOK, Plans, ApplyReorg
    <2>2. /\ AllStored(rows, plan.remove) /\ UniqueIds(plan.canonical)
          /\ rows' = Stamped(cut, seq + Cardinality(P), Live(plan.canonical), Q)
        BY <1>1 DEF ApplyReorg
    <2>3. StoreOK(rows, seq)
        BY <1>1, InvStoreOK
    <2>4. /\ \A k \in DOMAIN plan.remove : View(rows', plan.remove[k]) = Gone
          /\ \A k \in Q : View(rows', plan.canonical[k].id) = plan.canonical[k].payload
          /\ \A j : (\A k \in DOMAIN plan.remove : plan.remove[k] # j)
                        /\ (\A k \in Q : plan.canonical[k].id # j)
                    => View(rows', j) = View(rows, j)
        BY <2>1, <2>2, <2>3, ReorgStep
    <2>5. Q \subseteq DOMAIN plan.canonical /\ Q \subseteq plan.add
        BY <2>1 DEF UpsertPositions
    <2>6. CASE Canonical(i)
        <3>1. PICK k \in DOMAIN plan.canonical : plan.canonical[k].id = i
            BY <2>6
        <3>2. (CHOOSE j \in DOMAIN plan.canonical : plan.canonical[j].id = i) = k
            BY <2>2, <3>1 DEF UniqueIds
        <3>3. CASE k \in Q
            BY <2>4, <2>6, <3>1, <3>2, <3>3 DEF AfterReorg
        <3>4. CASE k \notin Q
            <4>1. View(rows', i) = View(rows, i)
                BY <2>1, <2>2, <2>4, <2>5, <3>1, <3>4 DEF UniqueIds
            <4>2. ~Writes(rows, plan.canonical[k])
                <5>1. RemovePositions(rows, plan.remove) \subseteq DOMAIN plan.remove
                    BY DEF RemovePositions
                <5>2. i \notin Written(Dead(rows, plan.remove), P)
                    BY <2>1, <3>1, <5>1 DEF Written, Dead
                <5>3. cut[i] = rows[i] \/ i \notin DOMAIN rows
                    BY <5>2, StampedOld
                <5>4. DOMAIN cut = DOMAIN rows \cup Written(Dead(rows, plan.remove), P)
                    BY DEF Stamped, Written
                <5>5. Writes(rows, plan.canonical[k]) => Writes(cut, plan.canonical[k])
                    BY <3>1, <5>2, <5>3, <5>4 DEF Writes
                <5>. QED
                    BY <2>1, <3>1, <3>4, <5>5 DEF UpsertPositions
            <4>3. View(rows, i) = plan.canonical[k].payload
                BY <3>1, <4>2 DEF Writes, View
            <4>. QED
                BY <2>6, <3>2, <4>1, <4>3 DEF AfterReorg
        <3>. QED
            BY <3>3, <3>4
    <2>7. CASE ~Canonical(i) /\ Orphaned(i)
        <3>1. i \in Orphans(rows, plan.canonical, plan.from)
            BY <2>7, BlocksAreNumbers DEF Orphans
        <3>. QED
            BY <2>1, <2>4, <2>7, <3>1 DEF AfterReorg
    <2>8. CASE ~Canonical(i) /\ ~Orphaned(i)
        <3>1. i \notin Orphans(rows, plan.canonical, plan.from)
            BY <1>1, <2>8 DEF Orphans, IInv, TypeOK, Row, Payloads
        <3>. QED
            BY <2>1, <2>4, <2>5, <2>8, <3>1 DEF AfterReorg
    <2>. QED
        BY <2>6, <2>7, <2>8
<1>2. ASSUME IInv, [Next]_vars, ~ApplyReorg PROVE Exact
    <2> SUFFICES ASSUME plan # NoPlan, plan' = NoPlan PROVE FALSE
        OBVIOUS
    <2>1. plan \in Plans
        BY <1>2 DEF IInv, TypeOK
    <2>2. plan' \in {plan, [plan EXCEPT !.fresh = FALSE]}
        BY <1>2, ReadKeepsLedger
            DEF Next, Write, Upsert, MarkRemoved, PlanReorg, PlanAges, vars
    <2>3. plan'.kind = "plan"
        BY <2>1, <2>2 DEF Plans
    <2>4. NoPlan.kind = "none"
        BY DEF NoPlan
    <2>. QED
        BY <2>3, <2>4
<1>3. IInv /\ [Next]_vars => Exact
    BY <1>1, <1>2
<1>. QED
    BY <1>3, InvariantHolds, PTL DEF Spec, FreshReorgIsExact

-----------------------------------------------------------------------------
(* Refinement. *)

view == [i \in Ids |-> View(rows, i)]
owed == [c \in Clients |-> Fresh(rows, cursor[c])]

(* The view the feed is told of is a payload or Gone for every id.         *)
LEMMA ViewTyped ==
    ASSUME IInv
    PROVE  view \in [Ids -> Payloads \cup {Gone}]
BY DEF view, View, IInv, TypeOK, Row

(* A write owes every client exactly the ids whose view it changed. *)
LEMMA WriteRefines ==
    ASSUME IInv, IInv', Write
    PROVE  /\ view' \in [Ids -> Payloads \cup {Gone}]
           /\ owed' = [c \in Clients |-> owed[c] \cup {i \in Ids : view'[i] # view[i]}]
           /\ mirror' = mirror
<1>1. PICK W : EventStep(rows, seq, rows', seq', W)
    BY WriteMoves
<1>2. cursor' = cursor /\ mirror' = mirror
    BY WriteMoves DEF clientVars
<1>3. view' \in [Ids -> Payloads \cup {Gone}]
    BY DEF view, View, IInv, TypeOK, Row
<1>4. W \subseteq Ids /\ \A i \in Ids : i \in W <=> view'[i] # view[i]
    <2>1. W \subseteq Ids
        BY <1>1 DEF EventStep, StoreStep, StoreOK
    <2>2. ASSUME NEW i \in Ids PROVE i \in W <=> View(rows', i) # View(rows, i)
        BY <1>1, UntouchedView DEF EventStep
    <2>. QED
        BY <2>1, <2>2 DEF view
<1>5. ASSUME NEW c \in Clients PROVE Fresh(rows', cursor[c]) = Fresh(rows, cursor[c]) \cup W
    <2>1. cursor[c] \in Nat /\ cursor[c] <= seq /\ seq \in Nat
        BY DEF IInv, TypeOK, CursorInv
    <2>2. ASSUME NEW i \in W PROVE i \in Fresh(rows', cursor[c])
        <3>1. i \in DOMAIN rows' /\ rows'[i].seq > seq /\ rows'[i].seq \in Nat
            BY <1>1 DEF EventStep, StoreStep, StoreOK, Row
        <3>. QED
            BY <2>1, <3>1 DEF Fresh
    <2>3. ASSUME NEW i, i \notin W
          PROVE  i \in Fresh(rows', cursor[c]) <=> i \in Fresh(rows, cursor[c])
        <3>1. (i \in DOMAIN rows' <=> i \in DOMAIN rows)
                    /\ (i \in DOMAIN rows => rows'[i] = rows[i])
            BY <1>1, <2>3, UntouchedView DEF EventStep
        <3>. QED
            BY <3>1 DEF Fresh
    <2>. QED
        BY <2>2, <2>3
<1>6. {i \in Ids : view'[i] # view[i]} = W
    BY <1>4
<1>7. owed' = [c \in Clients |-> owed[c] \cup W]
    BY <1>2, <1>5 DEF owed
<1>. QED
    BY <1>2, <1>3, <1>6, <1>7

(* A page delivers to the client some of what it is owed.                  *)
LEMMA PullRefines ==
    ASSUME IInv, NEW c \in Clients, NEW limit \in 1..MaxLimit, Pull(c, limit)
    PROVE  Feed!Deliver(c)
<1> DEFINE page == Page(rows, cursor[c], limit)
<1>1. /\ rows' = rows
      /\ page \subseteq Fresh(rows, cursor[c])
      /\ mirror' = [mirror EXCEPT ![c] =
                [i \in Ids |-> IF i \in page THEN View(rows, i) ELSE mirror[c][i]]]
    BY PullMoves
<1>2. PICK next \in Nat :
                /\ cursor' = [cursor EXCEPT ![c] = next]
                /\ Fresh(rows, next) = Fresh(rows, cursor[c]) \ page
    BY PullMoves
<1>. HIDE DEF page
<1>3. view' = view
    BY <1>1 DEF view
<1>4. owed' = [owed EXCEPT ![c] = owed[c] \ page]
    <2>1. ASSUME NEW d \in Clients
          PROVE  Fresh(rows, cursor'[d]) =
                    IF d = c THEN Fresh(rows, cursor[c]) \ page ELSE Fresh(rows, cursor[d])
        BY <1>2 DEF IInv, TypeOK
    <2>. QED
        BY <1>1, <2>1 DEF owed
<1>5. mirror' = [mirror EXCEPT ![c] =
                [i \in Ids |-> IF i \in page THEN view[i] ELSE mirror[c][i]]]
    BY <1>1 DEF view
<1>6. page \in SUBSET owed[c]
    BY <1>1 DEF owed
<1>. QED
    BY <1>3, <1>4, <1>5, <1>6 DEF Feed!Deliver, view, owed

(* A crash of a client is the feed owing it some ids again.                *)
LEMMA CrashRefines ==
    ASSUME IInv, NEW c \in Clients, CrashClient(c)
    PROVE  Feed!Rewind(c)
<1>1. /\ cursor' = [cursor EXCEPT ![c] = persisted[c]]
      /\ rows' = rows /\ mirror' = mirror
    BY DEF CrashClient, ledgerVars
<1>2. cursor'[c] = persisted[c]
    BY <1>1 DEF IInv, TypeOK
<1>3. Fresh(rows, persisted[c]) = Fresh(rows, cursor[c]) \cup Fresh(rows, persisted[c])
    BY <1>2, CrashMoves
<1>4. owed' = [owed EXCEPT ![c] = owed[c] \cup Fresh(rows, persisted[c])]
    <2>1. ASSUME NEW d \in Clients
          PROVE  Fresh(rows, cursor'[d]) =
                    IF d = c THEN Fresh(rows, cursor[c]) \cup Fresh(rows, persisted[c])
                    ELSE Fresh(rows, cursor[d])
        BY <1>1, <1>3 DEF IInv, TypeOK
    <2>. QED
        BY <1>1, <2>1 DEF owed
<1>5. Fresh(rows, persisted[c]) \in SUBSET Ids
    BY DEF Fresh, IInv, TypeOK
<1>6. view' = view
    BY <1>1 DEF view
<1>. QED
    BY <1>1, <1>4, <1>5, <1>6 DEF Feed!Rewind, view, owed

(* The ledger with its clients implements the change feed: every write     *)
(* owes each client what it changed, every page delivers some of what is   *)
(* owed, and a crash of a client only makes it owed more (port.py).        *)
THEOREM LedgerImplementsFeed == Spec => ImplementsFeed
<1>1. Init => Feed!Init
    <2> SUFFICES ASSUME Init PROVE Feed!Init
        OBVIOUS
    <2>1. rows = [i \in {} |-> Gone]
        BY DEF Init
    <2>2. \A i \in Ids : View(rows, i) = Gone
        BY <2>1 DEF View
    <2>3. \A c \in Clients : Fresh(rows, cursor[c]) = {}
        BY <2>1 DEF Fresh
    <2>. QED
        BY <2>2, <2>3 DEF Init, Feed!Init
<1>2. ASSUME IInv, IInv', [Next]_vars PROVE [Feed!Next]_(Feed!feedVars)
    <2>1. CASE Write
        BY <1>2, <2>1, WriteRefines DEF Feed!Next, Feed!Change, view, owed
    <2>2. CASE Read
        BY <1>2, <2>2, PullRefines DEF Read, Feed!Next
    <2>3. CASE \E c \in Clients : CrashClient(c)
        BY <1>2, <2>3, CrashRefines DEF Feed!Next
    <2>4. CASE UNCHANGED vars
        BY <2>4 DEF vars, ledgerVars, clientVars, Feed!feedVars
    <2>. QED
        BY <1>2, <2>1, <2>2, <2>3, <2>4 DEF Next
<1>. QED
    BY <1>1, <1>2, InvariantHolds, PTL DEF Spec, ImplementsFeed, Feed!Spec

-----------------------------------------------------------------------------
(* An account collected page by page (SnapshotSpec). *)

Items == [id : Ids, payload : Payloads]

PlacesIn(found, i) == {k \in DOMAIN found : found[k].id = i}

(* What a page adds, for the rows of it that are kept. *)
ItemsOf(S) ==
    [k \in DOMAIN Ordered(S) |->
        [id |-> Ordered(S)[k], payload |-> rows[Ordered(S)[k]].payload]]

(* A live row at or below the cursor is found once, and nothing else is. *)
Collected(store, since, found, i) ==
    IF View(store, i) = Gone \/ i \in Fresh(store, since)
    THEN PlacesIn(found, i) = {}
    ELSE \E k \in DOMAIN found : /\ PlacesIn(found, i) = {k}
                                 /\ found[k].payload = View(store, i)

SnapshotTyped ==
    /\ snapshot \in [stage : {"idle", "paging", "done"}, since : Nat, found : Seq(Items)]
    /\ snapshot.since <= seq

SnapshotInv ==
    /\ SnapshotTyped
    /\ snapshot.stage = "idle" =>
           snapshot.since = 0 /\ snapshot.found = << >> /\ touched = {}
    /\ snapshot.stage = "done" => Fresh(rows, snapshot.since) \cap Account \subseteq touched
    /\ \A k \in DOMAIN snapshot.found : snapshot.found[k].id \in Account
    /\ \A i \in Account \ touched : Collected(rows, snapshot.since, snapshot.found, i)

-----------------------------------------------------------------------------
(* A page in the order of the feed. *)

(* Rows are distinct in their numbers, so that a set of them has an order. *)
LEMMA OrderExists ==
    ASSUME NEW n, StoreOK(rows, n), NEW S, S \subseteq DOMAIN rows
    PROVE  \E list \in SetToSeqs(S) :
               \A j, k \in DOMAIN list : j < k => rows[list[j]].seq < rows[list[k]].seq
<1> DEFINE g == [i \in S |-> rows[i].seq]
           N == {rows[i].seq : i \in S}
           C == Cardinality(S)
           r == [i \in S |-> Rank(N, rows[i].seq)]
<1>1. /\ n \in Nat
      /\ \A i \in S : rows[i].seq \in 1..n
      /\ \A i, j \in S : rows[i].seq = rows[j].seq => i = j
    BY DEF StoreOK, Row
<1>2. IsFiniteSet(S) /\ C \in Nat
    BY IdsFinite, FS_Subset, FS_CardinalityType DEF StoreOK
<1>3. Positions(N, n)
    BY <1>1 DEF Positions
<1>4. /\ IsFiniteSet(N)
      /\ \A k \in N : Rank(N, k) \in 1..Cardinality(N)
      /\ \A j, k \in N : j < k => Rank(N, j) < Rank(N, k)
    BY <1>1, <1>3, RankFacts
<1>5. Cardinality(N) = C
    <2>1. g \in Bijection(S, N)
        <3>1. g \in [S -> N] /\ \A i \in S : g[i] = rows[i].seq
            OBVIOUS
        <3>2. \A q \in N : \E i \in S : g[i] = q
            BY <3>1
        <3>3. \A i, j \in S : g[i] = g[j] => i = j
            BY <1>1, <3>1
        <3>. HIDE DEF g, N
        <3>4. g \in Injection(S, N)
            BY <3>1, <3>3 DEF Injection, IsInjective
        <3>5. g \in Surjection(S, N)
            BY <3>1, <3>2 DEF Surjection
        <3>. QED
            BY <3>4, <3>5 DEF Bijection
    <2>. QED
        BY <1>2, <2>1, FS_Bijection DEF ExistsBijection
<1>6. /\ \A i \in S : r[i] \in 1..C
      /\ \A i, j \in S : rows[i].seq < rows[j].seq => r[i] < r[j]
    BY <1>1, <1>4, <1>5
<1>. HIDE DEF r
<1>7. r \in Surjection(S, 1..C)
    <2>1. ASSUME NEW i \in S, NEW j \in S, r[i] = r[j] PROVE i = j
        <3>1. /\ r[i] \in 1..C /\ r[j] \in 1..C
              /\ rows[i].seq \in 1..n /\ rows[j].seq \in 1..n
            BY <1>1, <1>6
        <3>2. ~(rows[i].seq < rows[j].seq) /\ ~(rows[j].seq < rows[i].seq)
            BY <1>2, <1>6, <2>1, <3>1
        <3>. QED
            BY <1>1, <3>1, <3>2
    <2>2. r \in [S -> 1..C]
        BY <1>6 DEF r
    <2>3. r \in Injection(S, 1..C)
        BY <2>1, <2>2 DEF Injection, IsInjective
    <2>4. IsFiniteSet(1..C) /\ Cardinality(1..C) = C
        BY <1>2, FS_Interval
    <2>. QED
        BY <2>3, <2>4, FS_Injection
<1>8. \A k \in 1..C : \E i \in S : r[i] = k
    BY <1>7 DEF Surjection
<1>. HIDE DEF C
<1> DEFINE list == [k \in 1..C |-> CHOOSE i \in S : r[i] = k]
<1>9. \A k \in 1..C : list[k] \in S /\ r[list[k]] = k
    BY <1>8
<1>10. list \in SetToSeqs(S)
    <2>1. list \in [1..C -> S]
        BY <1>9
    <2>2. \A j, k \in 1..C : j # k => list[j] # list[k]
        BY <1>9
    <2>. QED
        BY <2>1, <2>2 DEF SetToSeqs, C
<1>11. ASSUME NEW j \in 1..C, NEW k \in 1..C, j < k
       PROVE  rows[list[j]].seq < rows[list[k]].seq
    <2> DEFINE x == list[j]
               y == list[k]
    <2>1. x \in S /\ y \in S /\ r[x] = j /\ r[y] = k
        BY <1>9
    <2>. HIDE DEF x, y
    <2>2. /\ rows[x].seq \in Int /\ rows[y].seq \in Int /\ j \in Int /\ k \in Int
          /\ x # y
        BY <1>1, <1>2, <1>11, <2>1
    <2>3. ~(rows[y].seq < rows[x].seq)
        BY <1>6, <1>11, <2>1, <2>2
    <2>4. rows[x].seq # rows[y].seq
        BY <1>1, <2>1, <2>2
    <2>. QED
        BY <2>2, <2>3, <2>4 DEF x, y
<1>12. DOMAIN list = 1..C
    OBVIOUS
<1>. QED
    BY <1>10, <1>11, <1>12

(* So a page is a sequence of its rows, each once. *)
LEMMA OrderedLists ==
    ASSUME NEW n, StoreOK(rows, n), NEW S, S \subseteq DOMAIN rows
    PROVE  /\ Ordered(S) \in Seq(S)
           /\ \A j, k \in DOMAIN Ordered(S) : Ordered(S)[j] = Ordered(S)[k] => j = k
           /\ \A i \in S : \E k \in DOMAIN Ordered(S) : Ordered(S)[k] = i
<1> DEFINE list == Ordered(S)
           C == Cardinality(S)
<1>1. list \in SetToSeqs(S)
    BY OrderExists DEF Ordered
<1>2. IsFiniteSet(S) /\ C \in Nat
    BY IdsFinite, FS_Subset, FS_CardinalityType DEF StoreOK
<1>3. list \in [1..C -> S] /\ \A j, k \in 1..C : j # k => list[j] # list[k]
    BY <1>1 DEF SetToSeqs
<1>. HIDE DEF list
<1>4. list \in Surjection(1..C, S)
    <2>1. list \in Injection(1..C, S)
        BY <1>3 DEF Injection, IsInjective
    <2>2. Cardinality(1..C) = C
        BY <1>2, FS_Interval
    <2>. QED
        BY <1>2, <2>1, <2>2, FS_Injection DEF C
<1>5. list \in Seq(S)
    BY <1>2, <1>3
<1>6. \A i \in S : \E k \in DOMAIN list : list[k] = i
    BY <1>3, <1>4 DEF Surjection
<1>. QED
    BY <1>3, <1>5, <1>6 DEF list

-----------------------------------------------------------------------------
(* What a page adds to the collection. *)

(* A found id is where it was, or where the page has it. *)
LEMMA PlacesAppend ==
    ASSUME NEW f \in Seq(Items), NEW g \in Seq(Items), NEW i
    PROVE  /\ f \o g \in Seq(Items)
           /\ \A k \in DOMAIN f : (f \o g)[k] = f[k]
           /\ \A k \in DOMAIN g : (f \o g)[Len(f) + k] = g[k]
           /\ PlacesIn(f \o g, i) = PlacesIn(f, i) \cup {Len(f) + k : k \in PlacesIn(g, i)}
<1>1. /\ f \o g \in Seq(Items) /\ Len(f \o g) = Len(f) + Len(g)
      /\ Len(f) \in Nat /\ Len(g) \in Nat
      /\ DOMAIN f = 1..Len(f) /\ DOMAIN g = 1..Len(g) /\ DOMAIN (f \o g) = 1..Len(f) + Len(g)
    OBVIOUS
<1>2. \A k \in 1..Len(f) : (f \o g)[k] = f[k]
    OBVIOUS
<1>3. \A k \in 1..Len(g) : (f \o g)[Len(f) + k] = g[k]
    OBVIOUS
<1> DEFINE h == f \o g
<1>. HIDE DEF h
<1>4. ASSUME NEW k \in 1..Len(f) + Len(g), k \notin 1..Len(f)
      PROVE  k - Len(f) \in 1..Len(g) /\ k = Len(f) + (k - Len(f))
    BY <1>1, <1>4
<1>5. PlacesIn(h, i) \subseteq PlacesIn(f, i) \cup {Len(f) + k : k \in PlacesIn(g, i)}
    <2> SUFFICES ASSUME NEW k \in PlacesIn(h, i), k \notin PlacesIn(f, i)
                 PROVE  \E m \in PlacesIn(g, i) : k = Len(f) + m
        OBVIOUS
    <2>1. k \in 1..Len(f) + Len(g) /\ h[k].id = i
        BY <1>1 DEF PlacesIn, h
    <2>2. k \notin 1..Len(f)
        BY <1>1, <1>2, <2>1 DEF PlacesIn, h
    <2> DEFINE m == k - Len(f)
    <2>3. m \in 1..Len(g) /\ k = Len(f) + m
        BY <1>4, <2>1, <2>2
    <2>. HIDE DEF m
    <2>4. g[m].id = i
        BY <1>3, <2>1, <2>3 DEF h
    <2>. QED
        BY <1>1, <2>3, <2>4 DEF PlacesIn
<1>6. PlacesIn(f, i) \subseteq PlacesIn(h, i)
    BY <1>1, <1>2 DEF PlacesIn, h
<1>7. \A k \in PlacesIn(g, i) : Len(f) + k \in PlacesIn(h, i)
    <2> SUFFICES ASSUME NEW k \in PlacesIn(g, i) PROVE Len(f) + k \in PlacesIn(h, i)
        OBVIOUS
    <2>1. k \in 1..Len(g) /\ g[k].id = i
        BY <1>1 DEF PlacesIn
    <2>2. Len(f) + k \in 1..Len(f) + Len(g)
        BY <1>1, <2>1
    <2>3. h[Len(f) + k] = g[k]
        BY <1>3, <2>1 DEF h
    <2>. QED
        BY <1>1, <2>1, <2>2, <2>3 DEF PlacesIn, h
<1>8. PlacesIn(h, i) = PlacesIn(f, i) \cup {Len(f) + k : k \in PlacesIn(g, i)}
    BY <1>5, <1>6, <1>7
<1>. QED
    BY <1>1, <1>2, <1>3, <1>8 DEF h

(* What an account's page has of the ids in it: each once, as it is.       *)
LEMMA PageItems ==
    ASSUME NEW n, StoreOK(rows, n), NEW S, S \subseteq DOMAIN rows
    PROVE  /\ ItemsOf(S) \in Seq(Items)
           /\ \A k \in DOMAIN ItemsOf(S) : ItemsOf(S)[k].id \in S
           /\ \A i \in S : \E k \in DOMAIN ItemsOf(S) :
                  /\ PlacesIn(ItemsOf(S), i) = {k}
                  /\ ItemsOf(S)[k].payload = rows[i].payload
           /\ \A i : i \notin S => PlacesIn(ItemsOf(S), i) = {}
<1> DEFINE list == Ordered(S)
           g == ItemsOf(S)
<1>1. /\ list \in Seq(S)
      /\ \A j, k \in DOMAIN list : list[j] = list[k] => j = k
      /\ \A i \in S : \E k \in DOMAIN list : list[k] = i
    BY OrderedLists
<1>2. /\ DOMAIN g = DOMAIN list /\ g = [k \in DOMAIN list |-> g[k]]
      /\ \A k \in DOMAIN list : g[k] = [id |-> list[k], payload |-> rows[list[k]].payload]
    BY DEF ItemsOf
<1>. HIDE DEF list, g
<1>3. Len(list) \in Nat /\ DOMAIN list = 1..Len(list) /\ \A k \in DOMAIN list : list[k] \in S
    BY <1>1
<1>4. ASSUME NEW k \in DOMAIN list
      PROVE  /\ g[k] \in Items /\ g[k].id = list[k] /\ g[k].payload = rows[list[k]].payload
             /\ list[k] \in S
    <2>1. list[k] \in Ids /\ rows[list[k]].payload \in Payloads /\ list[k] \in S
        BY <1>3 DEF StoreOK, Row
    <2>. QED
        BY <1>2, <2>1 DEF Items
<1>5. g \in Seq(Items)
    <2>1. g \in [1..Len(list) -> Items]
        BY <1>2, <1>3, <1>4
    <2>. QED
        BY <1>3, <2>1
<1>6. ASSUME NEW i \in S
      PROVE  \E k \in DOMAIN g : PlacesIn(g, i) = {k} /\ g[k].payload = rows[i].payload
    <2>1. PICK k \in DOMAIN list : list[k] = i
        BY <1>1
    <2>2. PlacesIn(g, i) = {k}
        BY <1>1, <1>2, <1>4, <2>1 DEF PlacesIn
    <2>. QED
        BY <1>2, <1>4, <2>1, <2>2
<1>7. ASSUME NEW i, i \notin S PROVE PlacesIn(g, i) = {}
    BY <1>2, <1>4, <1>7 DEF PlacesIn
<1>. QED
    BY <1>2, <1>4, <1>5, <1>6, <1>7 DEF g

(* A row that stays what it was stays as well collected as it was.         *)
LEMMA CollectedStays ==
    ASSUME NEW store, NEW since, NEW found, NEW i, Collected(rows, since, found, i),
           i \in DOMAIN store <=> i \in DOMAIN rows,
           i \in DOMAIN rows => store[i] = rows[i]
    PROVE  Collected(store, since, found, i)
<1>1. View(store, i) = View(rows, i)
    BY DEF View
<1>2. i \in Fresh(store, since) <=> i \in Fresh(rows, since)
    BY DEF Fresh
<1>. QED
    BY <1>1, <1>2 DEF Collected

(* Whatever the writers and the clients do, rows keep their numbers or get *)
(* one above all of them, and none is forgotten.                           *)
LEMMA FeedMoves ==
    ASSUME IInv, FeedNext
    PROVE  \E W : StoreStep(rows, seq, rows', seq', W)
<1>1. CASE Write
    BY <1>1, WriteMoves DEF EventStep
<1>2. CASE Read
    BY <1>2, InvStoreOK, NothingWritten, ReadKeepsLedger DEF EventStep
<1>. QED
    BY <1>1, <1>2 DEF FeedNext, Write

-----------------------------------------------------------------------------
(* The steps of the reader and of everybody else. *)

LEMMA FeedStepKeeps ==
    ASSUME IInv, SnapshotInv, FeedStep
    PROVE  SnapshotInv'
<1> DEFINE since == snapshot.since
           found == snapshot.found
<1>1. PICK W : StoreStep(rows, seq, rows', seq', W)
    BY FeedMoves DEF FeedStep
<1>2. /\ StoreOK(rows, seq) /\ StoreOK(rows', seq')
      /\ seq \in Nat /\ seq' \in Nat /\ seq' >= seq
      /\ DOMAIN rows \subseteq DOMAIN rows'
    BY <1>1, InvStoreOK DEF StoreStep, StoreOK
<1>3. /\ snapshot' = snapshot
      /\ touched' = IF snapshot.stage # "idle" THEN touched \cup Rewritten ELSE touched
    BY DEF FeedStep
<1>4. SnapshotTyped'
    BY <1>2, <1>3 DEF SnapshotInv, SnapshotTyped
<1>5. CASE snapshot.stage = "idle"
    <2>1. since = 0 /\ found = << >> /\ touched = {} /\ touched' = {}
        BY <1>3, <1>5 DEF SnapshotInv
    <2>2. ASSUME NEW i \in Account PROVE Collected(rows', 0, << >>, i)
        <3>1. i \in DOMAIN rows' => i \in Fresh(rows', 0)
            BY <1>2 DEF StoreOK, Row, Fresh
        <3>2. i \notin DOMAIN rows' => View(rows', i) = Gone
            BY DEF View
        <3>3. PlacesIn(<< >>, i) = {}
            BY DEF PlacesIn
        <3>. QED
            BY <3>1, <3>2, <3>3 DEF Collected
    <2>. QED
        BY <1>3, <1>4, <1>5, <2>1, <2>2 DEF SnapshotInv
<1>6. CASE snapshot.stage # "idle"
    <2>1. touched' = touched \cup Rewritten
        BY <1>3, <1>6
    <2>2. ASSUME NEW i \in Account \ touched'
          PROVE  /\ i \in Account \ touched
                 /\ i \in DOMAIN rows' <=> i \in DOMAIN rows
                 /\ i \in DOMAIN rows => rows'[i] = rows[i]
        BY <1>2, <2>1 DEF Rewritten
    <2>3. ASSUME NEW i \in Account \ touched' PROVE Collected(rows', since, found, i)
        <3>1. Collected(rows, since, found, i)
            BY <2>2 DEF SnapshotInv
        <3>. QED
            BY <2>2, <3>1, CollectedStays
    <2>4. snapshot.stage = "done" => Fresh(rows', since) \cap Account \subseteq touched'
        BY <2>1, <2>2 DEF SnapshotInv, Fresh
    <2>. QED
        BY <1>3, <1>4, <1>6, <2>3, <2>4 DEF SnapshotInv
<1>. QED
    BY <1>5, <1>6

LEMMA SnapshotPageKeeps ==
    ASSUME IInv, SnapshotInv, SnapshotPage
    PROVE  SnapshotInv'
<1> DEFINE since == snapshot.since
           found == snapshot.found
           page == Page(rows, since, PageLimit)
           S == {i \in page : Kept(i)}
           g == ItemsOf(S)
           more == HasMore(rows, since, PageLimit)
<1>1. PICK next : /\ IsNextCursor(rows, since, PageLimit, next)
                  /\ snapshot' = [stage |-> IF more THEN "paging" ELSE "done",
                                  since |-> next, found |-> found \o g]
    BY DEF SnapshotPage, ItemsOf
<1>2. UNCHANGED <<vars, touched>> /\ snapshot.stage = "paging"
    BY DEF SnapshotPage
<1>3. StoreOK(rows, seq) /\ since \in Nat /\ since <= seq /\ found \in Seq(Items)
    BY InvStoreOK DEF SnapshotInv, SnapshotTyped
<1>4. /\ next \in Nat /\ next <= seq
      /\ page \subseteq Fresh(rows, since)
      /\ Fresh(rows, next) = Fresh(rows, since) \ page
      /\ ~more => page = Fresh(rows, since)
    BY <1>1, <1>3, PageLimitPositive, PageFacts
<1>5. page \subseteq DOMAIN rows /\ S \subseteq DOMAIN rows
    BY <1>4 DEF Fresh
<1>6. /\ g \in Seq(Items)
      /\ \A k \in DOMAIN g : g[k].id \in S
      /\ \A i \in S : \E k \in DOMAIN g : PlacesIn(g, i) = {k}
                                          /\ g[k].payload = rows[i].payload
      /\ \A i : i \notin S => PlacesIn(g, i) = {}
    BY <1>3, <1>5, PageItems
<1>7. \A i : i \in S <=> i \in page /\ i \in Account /\ View(rows, i) # Gone
    <2>1. \A i \in DOMAIN rows : rows[i].payload # Gone
        BY <1>3, GoneIsNoPayload DEF StoreOK, Row
    <2>. QED
        BY <1>5, <2>1 DEF Kept, View
<1>8. \A i \in S : View(rows, i) = rows[i].payload
    BY <1>5, <1>7 DEF View
<1>. HIDE DEF g, S, page, more
<1>9. found \o g \in Seq(Items)
    BY <1>3, <1>6, PlacesAppend
<1>10. \A k \in DOMAIN (found \o g) : (found \o g)[k].id \in Account
    <2> SUFFICES ASSUME NEW k \in DOMAIN (found \o g), NEW i, i = (found \o g)[k].id
                 PROVE  i \in Account
        OBVIOUS
    <2>1. k \in PlacesIn(found \o g, i)
        BY DEF PlacesIn
    <2>2. PlacesIn(found \o g, i) = PlacesIn(found, i) \cup {Len(found) + m : m \in PlacesIn(g, i)}
        BY <1>3, <1>6, PlacesAppend
    <2>3. PlacesIn(found, i) # {} => i \in Account
        BY DEF PlacesIn, SnapshotInv
    <2>4. PlacesIn(g, i) # {} => i \in Account
        BY <1>6, <1>7
    <2>. QED
        BY <2>1, <2>2, <2>3, <2>4
<1>11. ASSUME NEW i \in Account \ touched PROVE Collected(rows, next, found \o g, i)
    <2>1. Collected(rows, since, found, i)
        BY DEF SnapshotInv
    <2>2. /\ PlacesIn(found \o g, i) = PlacesIn(found, i) \cup {Len(found) + m : m \in PlacesIn(g, i)}
          /\ \A k \in DOMAIN found : k \in DOMAIN (found \o g) /\ (found \o g)[k] = found[k]
          /\ \A k \in DOMAIN g : /\ Len(found) + k \in DOMAIN (found \o g)
                                 /\ (found \o g)[Len(found) + k] = g[k]
        <3>1. /\ Len(found) \in Nat /\ Len(g) \in Nat /\ DOMAIN found = 1..Len(found)
              /\ DOMAIN g = 1..Len(g) /\ DOMAIN (found \o g) = 1..Len(found) + Len(g)
            BY <1>3, <1>6
        <3>. QED
            BY <1>3, <1>6, <3>1, PlacesAppend
    <2> DEFINE h == found \o g
    <2>. HIDE DEF h
    <2>3. CASE View(rows, i) = Gone
        <3>1. PlacesIn(found, i) = {} /\ PlacesIn(g, i) = {}
            BY <1>6, <1>7, <2>1, <2>3 DEF Collected
        <3>. QED
            BY <2>2, <2>3, <3>1 DEF Collected
    <2>4. CASE View(rows, i) # Gone /\ i \in Fresh(rows, next)
        <3>1. PlacesIn(found, i) = {} /\ PlacesIn(g, i) = {}
            BY <1>4, <1>6, <1>7, <2>1, <2>4 DEF Collected
        <3>. QED
            BY <2>2, <2>4, <3>1 DEF Collected
    <2>5. CASE View(rows, i) # Gone /\ i \in page
        <3>1. i \in S /\ i \in Fresh(rows, since) /\ i \notin Fresh(rows, next)
            BY <1>4, <1>7, <2>5
        <3>2. PlacesIn(found, i) = {}
            BY <2>1, <3>1 DEF Collected
        <3>3. PICK k \in DOMAIN g : PlacesIn(g, i) = {k} /\ g[k].payload = rows[i].payload
            BY <1>6, <3>1
        <3>4. PlacesIn(h, i) = {Len(found) + k}
            BY <2>2, <3>2, <3>3 DEF h
        <3>5. /\ Len(found) + k \in DOMAIN h /\ h[Len(found) + k] = g[k]
              /\ View(rows, i) = rows[i].payload
            BY <1>8, <2>2, <3>1 DEF h
        <3>6. Collected(rows, next, h, i)
            BY <2>5, <3>1, <3>3, <3>4, <3>5 DEF Collected
        <3>. QED
            BY <3>6 DEF h
    <2>6. CASE View(rows, i) # Gone /\ i \notin Fresh(rows, next) /\ i \notin page
        <3>1. i \notin Fresh(rows, since) /\ i \notin S
            BY <1>4, <1>7, <2>6
        <3>2. PICK k \in DOMAIN found : /\ PlacesIn(found, i) = {k}
                                        /\ found[k].payload = View(rows, i)
            BY <2>1, <2>6, <3>1 DEF Collected
        <3>3. PlacesIn(g, i) = {}
            BY <1>6, <3>1
        <3>4. PlacesIn(h, i) = {k} /\ k \in DOMAIN h /\ h[k] = found[k]
            BY <2>2, <3>2, <3>3 DEF h
        <3>5. Collected(rows, next, h, i)
            BY <2>6, <3>2, <3>4 DEF Collected
        <3>. QED
            BY <3>5 DEF h
    <2>. QED
        BY <2>3, <2>4, <2>5, <2>6
<1> DEFINE h == found \o g
<1>. HIDE DEF h
<1>12. /\ snapshot'.stage = IF more THEN "paging" ELSE "done"
       /\ snapshot'.since = next /\ snapshot'.found = h
       /\ snapshot' \in [stage : {"idle", "paging", "done"}, since : Nat, found : Seq(Items)]
       /\ rows' = rows /\ seq' = seq /\ touched' = touched
    BY <1>1, <1>2, <1>4, <1>9 DEF h, vars, ledgerVars
<1>13. SnapshotTyped'
    BY <1>4, <1>12 DEF SnapshotTyped
<1>14. snapshot'.stage = "done" => Fresh(rows, next) = {}
    BY <1>4, <1>12
<1>. QED
    BY <1>10, <1>11, <1>12, <1>13, <1>14 DEF SnapshotInv, h

(* What the reader has at its cursor is exact in every reachable state.    *)
THEOREM SnapshotsKept == SnapshotSpec => [](IInv /\ SnapshotInv)
<1>1. Init /\ SnapshotInit => IInv /\ SnapshotInv
    <2> SUFFICES ASSUME Init, SnapshotInit PROVE IInv /\ SnapshotInv
        OBVIOUS
    <2>1. IInv
        BY InitInv
    <2>2. /\ snapshot = [stage |-> "idle", since |-> 0, found |-> << >>]
          /\ touched = {} /\ seq = 0 /\ DOMAIN rows = {}
        BY DEF SnapshotInit, Init
    <2>3. snapshot.stage = "idle" /\ snapshot.since = 0 /\ snapshot.found = << >>
        BY <2>2
    <2>4. SnapshotTyped
        BY <2>2, <2>3 DEF SnapshotTyped
    <2>5. \A i : Collected(rows, 0, << >>, i)
        BY <2>2 DEF Collected, View, PlacesIn
    <2>. QED
        BY <2>1, <2>2, <2>3, <2>4, <2>5 DEF SnapshotInv
<1>2. IInv /\ SnapshotInv /\ [SnapshotNext]_allVars => (IInv /\ SnapshotInv)'
    <2> SUFFICES ASSUME IInv, SnapshotInv, [SnapshotNext]_allVars
                 PROVE  IInv' /\ SnapshotInv'
        OBVIOUS
    <2>1. CASE FeedStep
        <3>1. Next
            BY <2>1 DEF FeedStep, FeedNext, Next, Write
        <3>. QED
            BY <2>1, <3>1, NextInv, FeedStepKeeps
    <2>2. CASE BeginSnapshot
        <3>1. UNCHANGED <<vars, touched>> /\ snapshot.stage = "idle"
              /\ snapshot' = [snapshot EXCEPT !.stage = "paging"]
            BY <2>2 DEF BeginSnapshot
        <3>2. IInv'
            BY <3>1, NextInv
        <3>3. /\ snapshot'.stage = "paging" /\ snapshot'.since = snapshot.since
              /\ snapshot'.found = snapshot.found
              /\ snapshot' \in [stage : {"idle", "paging", "done"}, since : Nat, found : Seq(Items)]
            BY <3>1 DEF SnapshotInv, SnapshotTyped
        <3>4. rows' = rows /\ seq' = seq /\ touched' = touched
            BY <3>1 DEF vars, ledgerVars
        <3>. QED
            BY <3>2, <3>3, <3>4 DEF SnapshotInv, SnapshotTyped
    <2>3. CASE SnapshotPage
        <3>1. UNCHANGED vars
            BY <2>3 DEF SnapshotPage
        <3>. QED
            BY <2>3, <3>1, NextInv, SnapshotPageKeeps
    <2>4. CASE UNCHANGED allVars
        <3>1. UNCHANGED vars /\ UNCHANGED snapshotVars
            BY <2>4 DEF allVars
        <3>2. IInv'
            BY <3>1, NextInv
        <3>3. rows' = rows /\ seq' = seq /\ touched' = touched /\ snapshot' = snapshot
            BY <3>1 DEF vars, ledgerVars, snapshotVars
        <3>. QED
            BY <3>2, <3>3 DEF SnapshotInv, SnapshotTyped
    <2>. QED
        BY <2>1, <2>2, <2>3, <2>4 DEF SnapshotNext
<1>. QED
    BY <1>1, <1>2, PTL DEF SnapshotSpec

-----------------------------------------------------------------------------
(* The hours of a day part the days. *)

(* scalar_metrics' hour of a time is the one some day has it in. *)
LEMMA HourOfDay ==
    ASSUME NEW at \in Nat, NEW h \in 0 .. HoursPerDay - 1
    PROVE  Hour(at) = h <=>
               \E day \in 0 .. at :
                   at \in (day * HoursPerDay + h) * HourLength ..
                          (day * HoursPerDay + h) * HourLength + HourLength - 1
<1> DEFINE q == at \div HourLength
           d == q \div HoursPerDay
<1>1. HourLength \in Nat \ {0} /\ HoursPerDay \in Nat \ {0}
    BY Hourly
<1>2. /\ q \in Nat /\ at % HourLength \in 0 .. HourLength - 1
      /\ at = q * HourLength + (at % HourLength) /\ q <= at
    BY <1>1, Divides
<1>3. /\ d \in Nat /\ q % HoursPerDay \in 0 .. HoursPerDay - 1
      /\ q = d * HoursPerDay + (q % HoursPerDay) /\ d <= q
    <2>. HIDE DEF q
    <2>. QED
        BY <1>1, <1>2, Divides
<1>4. Hour(at) = q % HoursPerDay
    BY DEF Hour
<1>. HIDE DEF q, d
<1>5. ASSUME Hour(at) = h
      PROVE  \E day \in 0 .. at :
                 at \in (day * HoursPerDay + h) * HourLength ..
                        (day * HoursPerDay + h) * HourLength + HourLength - 1
    <2>1. d * HoursPerDay + h = q
        BY <1>3, <1>4, <1>5
    <2>2. at \in q * HourLength .. q * HourLength + HourLength - 1
        BY <1>1, <1>2
    <2>3. d \in 0 .. at
        BY <1>2, <1>3
    <2>. QED
        BY <2>1, <2>2, <2>3
<1>6. ASSUME NEW day \in 0 .. at,
             at \in (day * HoursPerDay + h) * HourLength ..
                    (day * HoursPerDay + h) * HourLength + HourLength - 1
      PROVE  Hour(at) = h
    <2> DEFINE s == day * HoursPerDay + h
               r == at - s * HourLength
    <2>1. s \in Nat /\ s * HourLength \in Nat
        BY <1>1
    <2>2. r \in 0 .. HourLength - 1 /\ at = s * HourLength + r
        <3>. HIDE DEF s
        <3>1. at \in s * HourLength .. s * HourLength + HourLength - 1
            BY <1>6 DEF s
        <3>. QED
            BY <1>1, <2>1, <3>1
    <2>3. s = q
        <3>. HIDE DEF s, r
        <3>. QED
            BY <1>1, <1>2, <2>1, <2>2, OneDivision
    <2>4. q = day * HoursPerDay + h
        BY <2>3
    <2>5. h = q % HoursPerDay
        <3> DEFINE t == q % HoursPerDay
        <3>1. /\ day \in Nat /\ t \in 0 .. HoursPerDay - 1
              /\ day * HoursPerDay + h = d * HoursPerDay + t
            BY <1>3, <2>4
        <3>. HIDE DEF t
        <3>2. h = t
            BY <1>1, <1>3, <3>1, OneDivision
        <3>. QED
            BY <3>2 DEF t
    <2>. QED
        BY <1>4, <2>5
<1>. QED
    BY <1>5, <1>6

(* What is laid out once and whole has as many places as things.           *)
LEMMA CountedOnce ==
    ASSUME NEW D, IsFiniteSet(D), NEW L, NEW f \in [D -> L],
           \A j, k \in D : f[j] = f[k] => j = k,
           \A i \in L : \E k \in D : f[k] = i,
           NEW T, T \subseteq L
    PROVE  Cardinality({k \in D : f[k] \in T}) = Cardinality(T)
<1> DEFINE E == {k \in D : f[k] \in T}
           g == [k \in E |-> f[k]]
<1>1. E \subseteq D /\ IsFiniteSet(E)
    BY FS_Subset
<1>2. g \in [E -> T] /\ \A k \in E : g[k] = f[k]
    OBVIOUS
<1>3. \A i \in T : \E k \in E : f[k] = i
    OBVIOUS
<1>. HIDE DEF g, E
<1>4. g \in Injection(E, T)
    BY <1>1, <1>2 DEF Injection, IsInjective
<1>5. g \in Surjection(E, T)
    BY <1>2, <1>3 DEF Surjection
<1>. QED
    BY <1>1, <1>4, <1>5, FS_Bijection DEF Bijection, ExistsBijection, E

LEMMA PlacesCounted ==
    ASSUME NEW S, NEW s \in Seq(S)
    PROVE  IsFiniteSet(DOMAIN s) /\ Cardinality(DOMAIN s) = Len(s)
<1>1. Len(s) \in Nat /\ DOMAIN s = 1 .. Len(s)
    OBVIOUS
<1> DEFINE n == Len(s)
<1>. HIDE DEF n
<1>2. n \in Nat
    BY <1>1 DEF n
<1>3. IsFiniteSet(1 .. n) /\ Cardinality(1 .. n) = n
    BY <1>2, FS_Interval
<1>. QED
    BY <1>1, <1>3 DEF n

-----------------------------------------------------------------------------
(* What is collected when the last page is in. *)

LEMMA MetricsFollow ==
    ASSUME IInv, SnapshotInv, snapshot.stage = "done"
    PROVE  MetricsExact
<1> SUFFICES ASSUME touched = {} PROVE MetricsExact
    BY DEF MetricsExact
<1> DEFINE found == snapshot.found
           D == DOMAIN found
           live == {i \in Account : View(rows, i) # Gone}
           f == [k \in D |-> found[k].id]
           During(h) == {i \in live : \E day \in 0 .. InitiatedAt[i] :
                           InitiatedAt[i] \in (day * HoursPerDay + h) * HourLength ..
                               (day * HoursPerDay + h) * HourLength + HourLength - 1}
<1>1. /\ found \in Seq(Items) /\ \A k \in D : found[k].id \in Account
      /\ \A i \in Account : Collected(rows, snapshot.since, found, i)
      /\ \A i \in Account : i \notin Fresh(rows, snapshot.since)
    BY DEF SnapshotInv, SnapshotTyped
<1>2. IsFiniteSet(D) /\ Cardinality(D) = Len(found)
    BY <1>1, PlacesCounted
<1>. HIDE DEF found, D
<1>3. ASSUME NEW i \in Account
      PROVE  IF View(rows, i) = Gone THEN PlacesIn(found, i) = {}
             ELSE \E k \in D : PlacesIn(found, i) = {k}
    BY <1>1 DEF Collected, D
<1>4. ASSUME NEW k \in D
      PROVE  found[k].id \in live
    <2>1. k \in PlacesIn(found, found[k].id)
        BY DEF PlacesIn, D
    <2>. QED
        BY <1>1, <1>3, <2>1
<1>5. f \in [D -> live] /\ \A k \in D : f[k] = found[k].id
    BY <1>4
<1>. HIDE DEF f
<1>6. \A j, k \in D : f[j] = f[k] => j = k
    <2> SUFFICES ASSUME NEW j \in D, NEW k \in D, f[j] = f[k] PROVE j = k
        OBVIOUS
    <2>1. j \in PlacesIn(found, f[j]) /\ k \in PlacesIn(found, f[j])
        BY <1>5 DEF PlacesIn, D
    <2>2. f[j] \in Account /\ View(rows, f[j]) # Gone
        BY <1>5
    <2>. QED
        BY <1>3, <2>1, <2>2
<1>7. \A i \in live : \E k \in D : f[k] = i
    <2> SUFFICES ASSUME NEW i \in live PROVE \E k \in D : f[k] = i
        OBVIOUS
    <2>1. PICK k \in D : PlacesIn(found, i) = {k}
        BY <1>3
    <2>2. found[k].id = i
        BY <2>1 DEF PlacesIn, D
    <2>. QED
        BY <1>5, <2>2
<1>. HIDE DEF live
<1>8. ASSUME NEW T, T \subseteq live
      PROVE  Cardinality({k \in D : f[k] \in T}) = Cardinality(T)
    <2>1. IsFiniteSet(D) /\ f \in [D -> live]
        BY <1>2, <1>5
    <2>2. /\ \A j, k \in D : f[j] = f[k] => j = k
          /\ \A i \in live : \E k \in D : f[k] = i
        BY <1>6, <1>7
    <2>. QED
        BY <2>1, <2>2, <1>8, CountedOnce
<1>9. Len(found) = Cardinality(live)
    <2>1. {k \in D : f[k] \in live} = D
        BY <1>5
    <2>. QED
        BY <1>2, <1>8, <2>1
<1>10. ASSUME NEW h \in 0 .. HoursPerDay - 1
       PROVE  Cardinality({k \in D : Hour(InitiatedAt[found[k].id]) = h}) = Cardinality(During(h))
    <2>1. \A i \in live : InitiatedAt[i] \in Nat
        BY Hourly, AccountHolds DEF live
    <2>2. \A i \in live : Hour(InitiatedAt[i]) = h <=> i \in During(h)
        BY <2>1, HourOfDay
    <2>3. During(h) \subseteq live
        OBVIOUS
    <2>. HIDE DEF During
    <2>4. {k \in D : Hour(InitiatedAt[found[k].id]) = h} = {k \in D : f[k] \in During(h)}
        BY <1>5, <2>2
    <2>. QED
        BY <1>8, <2>3, <2>4
<1>. QED
    BY <1>9, <1>10 DEF MetricsExact, ScalarMetrics, found, D, live, During

(* Auradefi._account_transactions collects an account exactly, however the *)
(* tenant's rows move between its pages, and scalar_metrics counts the     *)
(* transactions of every hour right when nobody writes one meanwhile.      *)
THEOREM SnapshotsAreExact == SnapshotSpec => []SnapshotExact
<1>1. IInv /\ SnapshotInv => SnapshotExact
    <2> SUFFICES ASSUME IInv, SnapshotInv, snapshot.stage = "done"
                 PROVE  /\ \A k \in DOMAIN snapshot.found : snapshot.found[k].id \in Account
                        /\ \A i \in Account \ touched :
                               IF View(rows, i) = Gone THEN Places(i) = {}
                               ELSE \E k \in Places(i) :
                                       /\ Places(i) = {k}
                                       /\ snapshot.found[k].payload = View(rows, i)
                        /\ MetricsExact
        BY DEF SnapshotExact
    <2>1. \A i \in Account \ touched :
              /\ Collected(rows, snapshot.since, snapshot.found, i)
              /\ i \notin Fresh(rows, snapshot.since)
        BY DEF SnapshotInv
    <2>2. \A i : Places(i) = PlacesIn(snapshot.found, i)
        BY DEF Places, PlacesIn
    <2>3. ASSUME NEW i \in Account \ touched
          PROVE  IF View(rows, i) = Gone THEN Places(i) = {}
                 ELSE \E k \in Places(i) : /\ Places(i) = {k}
                                           /\ snapshot.found[k].payload = View(rows, i)
        BY <2>1, <2>2 DEF Collected
    <2>. QED
        BY <2>3, MetricsFollow DEF SnapshotInv
<1>. QED
    BY <1>1, SnapshotsKept, PTL

=============================================================================
