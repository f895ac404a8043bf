-------------------------- MODULE SyncEngineProofs --------------------------
(***************************************************************************)
(* Proofs about SyncEngine: for any number of overlapping callers, any     *)
(* page size, budget and chain, no cursor claims a transaction that the    *)
(* ledger does not have.                                                   *)
(*                                                                         *)
(* The invariant is stated of a chain `s`, what the ledger has of it       *)
(* (`held`), and cursors or a run, so that its parts can be carried from   *)
(* one state to the next.                                                  *)
(***************************************************************************)
EXTENDS SyncEngine, Lemmas

Sorted(s) ==
    /\ s \in Seq(Nat \ {0})
    /\ \A p, q \in 1..Len(s) : p <= q => s[p] <= s[q]

Top(s) == IF s = << >> THEN 0 ELSE s[Len(s)]

Count(s, b) == Cardinality({p \in DOMAIN s : s[p] <= b})

(* t is s with more blocks on top. *)
Grown(s, t) ==
    /\ Sorted(s) /\ Sorted(t)
    /\ Len(s) <= Len(t)
    /\ \A p \in 1..Len(s) : t[p] = s[p]
    /\ \A p \in Len(s) + 1 .. Len(t) : t[p] > Top(s)

(* The cursors are typed, never above the chain, and cover it: Covers.     *)
Covered(s, held, c) ==
    \A p \in DOMAIN s :
        \/ s[p] > c.live_cursor
        \/ p \in held
        \/ /\ ~c.backfill_complete
           /\ p <= Count(s, c.backfill_end) - c.backfill_page * PageSize

CursorsOK(s, held, c) ==
    /\ c \in SyncState
    /\ c.live_cursor <= Top(s)
    /\ c.backfill_end # None => c.backfill_end <= Top(s)
    /\ c.backfill_cursor # None =>
           /\ ~c.backfill_complete => c.backfill_end # None
           /\ Covered(s, held, c)

(* Where the live phase's present page begins, and what lies before it.    *)
LiveLow(s, r) == Count(s, r.cursors.live_cursor) + (r.page - 1) * PageSize

LiveOK(s, held, r) ==
    /\ r.page # 0
    /\ LiveLow(s, r) <= Len(s)
    /\ r.highest # None => r.highest <= Top(s)
    /\ \A p \in DOMAIN s :
           s[p] > r.cursors.live_cursor /\ p <= LiveLow(s, r) => p \in held

(* What is above everything the live phase has seen. *)
Newer(s, r, p) ==
    /\ \A q \in r.rows : s[p] > s[q]
    /\ r.highest # None => s[p] > r.highest

AnchorPage(s, r) ==
    \A q \in DOMAIN s :
        \/ q \in r.rows
        \/ \A p \in r.rows : s[q] > s[p]
        \/ ~Short(r.rows) /\ \A p \in r.rows : s[q] <= s[p]

LivePage(s, r) ==
    /\ \A p \in DOMAIN s :
           p > LiveLow(s, r) =>
               \/ p \in r.rows
               \/ Short(r.rows) /\ Newer(s, r, p)
               \/ ~Short(r.rows) /\ p > LiveLow(s, r) + PageSize
    /\ ~Short(r.rows) => LiveLow(s, r) + PageSize <= Len(s)

BackfillHigh(s, r) ==
    Count(s, r.cursors.backfill_end) - r.cursors.backfill_page * PageSize

BackfillPage(s, r) ==
    /\ \A p \in DOMAIN s :
           p <= BackfillHigh(s, r) /\ p > BackfillHigh(s, r) - PageSize => p \in r.rows
    /\ Short(r.rows) => BackfillHigh(s, r) - PageSize <= 0

(* The page in hand holds what its window had when it was fetched. *)
PageOK(s, r) ==
    /\ r.rows \subseteq DOMAIN s
    /\ r.phase = "anchor" => AnchorPage(s, r)
    /\ r.phase = "live" => LivePage(s, r)
    /\ r.phase = "backfill" => BackfillPage(s, r)

RunOK(s, held, r) ==
    /\ r \in Runs
    /\ r.step = "fetch" => r.remaining # 0
    /\ CursorsOK(s, held, r.cursors)
    /\ r.phase # "anchor" => r.cursors.backfill_cursor # None
    /\ r.phase = "live" => LiveOK(s, held, r)
    /\ r.phase = "backfill" => r.cursors.backfill_end # None
    /\ r.step # "fetch" => PageOK(s, r)
    /\ r.step = "persist" => r.rows \subseteq held

IInv ==
    /\ TypeOK
    /\ Sorted(chain)
    /\ CursorsOK(chain, ingested, stored)
    /\ \A w \in Workers : run[w] # Idle => RunOK(chain, ingested, run[w])

-----------------------------------------------------------------------------
(* Sets of naturals and pages. *)

(* Lowest and Highest of the blocks of a page, which are bounded.          *)
LEMMA Extremes ==
    ASSUME NEW n \in Nat, NEW S, S \subseteq 0..n, S # {}
    PROVE  /\ Highest(S) \in S /\ \A c \in S : c <= Highest(S)
           /\ Lowest(S) \in S /\ \A c \in S : Lowest(S) <= c
<1>1. \E b \in S : \A c \in S : b <= c
    <2>1. S \subseteq Nat
        OBVIOUS
    <2>. QED
        BY <2>1, LeastNatural
<1>2. \E b \in S : \A c \in S : c <= b
    <2> DEFINE T == {n - c : c \in S}
    <2>0. \A c \in S : c \in 0..n /\ n - c \in T
        OBVIOUS
    <2>1. T \subseteq Nat /\ T # {}
        <3>1. ASSUME NEW y \in T PROVE y \in Nat
            <4>1. PICK c \in S : y = n - c
                BY <3>1
            <4>. QED
                BY <4>1, <2>0
        <3>2. T # {}
            BY <2>0
        <3>. QED
            BY <3>1, <3>2
    <2>2. PICK x \in T : \A y \in T : x <= y
        BY <2>1, LeastNatural
    <2>3. PICK b \in S : x = n - b
        OBVIOUS
    <2>4. ASSUME NEW c \in S PROVE c <= b
        <3>1. n - b <= n - c
            BY <2>0, <2>2, <2>3
        <3>. QED
            BY <2>0, <3>1
    <2>. QED
        BY <2>4
<1>. QED
    BY <1>1, <1>2 DEF Highest, Lowest

(* Transactions up to a block are the first ones: UpTo counts a prefix.    *)
LEMMA CountIsPrefix ==
    ASSUME NEW s, Sorted(s), NEW b \in Int
    PROVE  /\ Count(s, b) \in 0..Len(s)
           /\ \A p \in DOMAIN s : s[p] <= b <=> p <= Count(s, b)
<1> DEFINE S == {p \in DOMAIN s : s[p] <= b}
           T == {q \in Nat : q # 0 /\ q \notin S}
<1>1. /\ Len(s) \in Nat /\ DOMAIN s = 1..Len(s)
      /\ \A p \in 1..Len(s) : s[p] \in Nat
    BY DEF Sorted
<1>2. Len(s) + 1 \in T
    BY <1>1
<1>3. PICK q \in T : \A p \in T : q <= p
    <2>1. T \subseteq Nat /\ T # {}
        BY <1>2
    <2>. QED
        BY <2>1, LeastNatural
<1>4. q \in 1 .. Len(s) + 1
    BY <1>1, <1>2, <1>3
<1>5. S = 1..(q - 1)
    <2>1. ASSUME NEW p \in 1..(q - 1) PROVE p \in S
        BY <1>3, <1>4
    <2>2. ASSUME NEW p \in S PROVE p \in 1..(q - 1)
        <3>1. SUFFICES ASSUME p >= q PROVE FALSE
            BY <1>1, <1>4
        <3>2. s[q] <= s[p] /\ s[p] <= b /\ q \in 1..Len(s)
            BY <1>1, <1>4, <3>1 DEF Sorted
        <3>3. s[q] <= b
            BY <1>1, <3>2
        <3>. QED
            BY <1>1, <1>3, <3>2, <3>3
    <2>. QED
        BY <2>1, <2>2
<1>6. Count(s, b) = q - 1
    <2>1. Cardinality(1..(q - 1)) = IF 1 > q - 1 THEN 0 ELSE (q - 1) - 1 + 1
        BY <1>1, <1>4, FS_Interval
    <2>2. Count(s, b) = Cardinality(S)
        BY DEF Count
    <2>3. Count(s, b) = Cardinality(1..(q - 1))
        BY <1>5, <2>2
    <2> HIDE DEF S, T
    <2>. QED
        BY <1>1, <1>4, <2>1, <2>3
<1>. QED
    BY <1>1, <1>4, <1>5, <1>6

(* No transaction is in a block above the top of a sorted chain.           *)
LEMMA TopIsHighest ==
    ASSUME NEW s, Sorted(s)
    PROVE  /\ Top(s) \in Nat /\ DOMAIN s = 1..Len(s) /\ Len(s) \in Nat
           /\ \A p \in DOMAIN s : s[p] \in Nat /\ s[p] # 0 /\ s[p] <= Top(s)
<1>1. /\ Len(s) \in Nat /\ DOMAIN s = 1..Len(s)
      /\ \A p \in 1..Len(s) : s[p] \in Nat /\ s[p] # 0
    BY DEF Sorted
<1>2. CASE s = << >>
    BY <1>1, <1>2 DEF Top
<1>3. CASE s # << >>
    <2>1. Len(s) # 0
        BY <1>1, <1>3 DEF Sorted
    <2>2. Len(s) \in 1..Len(s)
        BY <1>1, <2>1
    <2>. QED
        BY <1>1, <1>3, <2>2 DEF Top, Sorted
<1>. QED
    BY <1>2, <1>3

(* What a longer chain leaves alone: its old blocks, and every count of    *)
(* transactions up to one of them.                                         *)
LEMMA Extended ==
    ASSUME NEW s, NEW t, Grown(s, t)
    PROVE  /\ Top(s) <= Top(t)
           /\ \A b \in 0..Top(s) : Count(t, b) = Count(s, b)
<1>1. /\ Sorted(s) /\ Sorted(t)
      /\ Len(s) \in Nat /\ DOMAIN s = 1..Len(s)
      /\ Len(t) \in Nat /\ DOMAIN t = 1..Len(t)
      /\ Top(s) \in Nat /\ Top(t) \in Nat
      /\ \A p \in 1..Len(s) : s[p] \in Nat /\ s[p] <= Top(s)
      /\ \A p \in 1..Len(t) : t[p] \in Nat /\ t[p] <= Top(t)
    BY TopIsHighest DEF Grown
<1>2. Top(s) <= Top(t)
    <2>1. CASE s = << >>
        BY <1>1, <2>1 DEF Top
    <2>2. CASE s # << >>
        <3>1. Len(s) \in 1..Len(s)
            BY <1>1, <2>2 DEF Sorted
        <3>2. Len(s) \in 1..Len(t) /\ t[Len(s)] = Top(s)
            BY <1>1, <2>2, <3>1 DEF Grown, Top
        <3>. QED
            BY <1>1, <3>2
    <2>. QED
        BY <2>1, <2>2
<1>3. ASSUME NEW b \in 0..Top(s) PROVE Count(t, b) = Count(s, b)
    <2>1. ASSUME NEW p \in 1..Len(t), t[p] <= b PROVE p \in 1..Len(s) /\ s[p] <= b
        BY <1>1, <2>1 DEF Grown
    <2>2. ASSUME NEW p \in 1..Len(s), s[p] <= b PROVE p \in 1..Len(t) /\ t[p] <= b
        BY <1>1, <2>2 DEF Grown
    <2>3. {p \in DOMAIN t : t[p] <= b} = {p \in DOMAIN s : s[p] <= b}
        BY <1>1, <2>1, <2>2
    <2>. QED
        BY <2>3 DEF Count
<1>. QED
    BY <1>2, <1>3

(* Cursors stay true of a chain that grew and a ledger that gained rows:   *)
(* new blocks are above every live cursor.                                 *)
LEMMA CursorsGrow ==
    ASSUME NEW s, NEW t, Grown(s, t), NEW held, NEW more, held \subseteq more,
           NEW c, CursorsOK(s, held, c)
    PROVE  CursorsOK(t, more, c)
<1>1. /\ Sorted(s) /\ Sorted(t)
      /\ Len(s) \in Nat /\ DOMAIN s = 1..Len(s)
      /\ Len(t) \in Nat /\ DOMAIN t = 1..Len(t)
      /\ Top(s) \in Nat /\ Top(t) \in Nat
      /\ \A p \in 1..Len(t) : t[p] \in Nat
    BY TopIsHighest DEF Grown
<1>2. c \in SyncState /\ c.live_cursor \in Nat
    BY DEF CursorsOK, SyncState
<1>3. Top(s) <= Top(t)
    BY Extended
<1>4. c.live_cursor <= Top(t) /\ (c.backfill_end # None => c.backfill_end <= Top(t))
    BY <1>1, <1>2, <1>3 DEF CursorsOK, SyncState
<1>5. ASSUME c.backfill_cursor # None PROVE Covered(t, more, c)
    <2>1. SUFFICES ASSUME NEW p \in DOMAIN t, ~(t[p] > c.live_cursor), p \notin more
                   PROVE  /\ ~c.backfill_complete
                          /\ p <= Count(t, c.backfill_end) - c.backfill_page * PageSize
        BY DEF Covered
    <2>2. p \in DOMAIN s /\ s[p] = t[p]
        BY <1>1, <1>2, <2>1 DEF Grown, CursorsOK
    <2>3. /\ ~c.backfill_complete
          /\ p <= Count(s, c.backfill_end) - c.backfill_page * PageSize
        BY <1>5, <2>1, <2>2 DEF CursorsOK, Covered
    <2>4. c.backfill_end \in 0..Top(s)
        BY <1>1, <1>2, <1>5, <2>3 DEF CursorsOK, SyncState
    <2>. QED
        BY <2>3, <2>4, Extended
<1>. QED
    BY <1>2, <1>4, <1>5 DEF CursorsOK

(* Whole pages are a natural number of transactions, and one page more is  *)
(* PageSize more.                                                          *)
LEMMA Pages ==
    ASSUME NEW k \in Nat
    PROVE  k * PageSize \in Nat /\ (k + 1) * PageSize = k * PageSize + PageSize
BY PositiveSizes

(* The live page of a run begins at some position.                         *)
LEMMA LiveLowType ==
    ASSUME NEW s, Sorted(s), NEW r \in Runs
    PROVE  LiveLow(s, r) \in Int
<1>1. r.page \in Nat /\ r.cursors.live_cursor \in Int
    BY DEF Runs, SyncState
<1>2. Count(s, r.cursors.live_cursor) \in 0..Len(s) /\ Len(s) \in Nat
    BY <1>1, CountIsPrefix, TopIsHighest
<1>3. Count(s, r.cursors.live_cursor) \in Int
    BY <1>2
<1>4. (r.page - 1) * PageSize \in Int
    BY <1>1, PositiveSizes
<1>. QED
    BY <1>3, <1>4 DEF LiveLow

(* A run's progress, and the page it has in hand, stay true when blocks    *)
(* are mined and when any caller ingests.                                  *)
LEMMA RunGrows ==
    ASSUME NEW s, NEW t, Grown(s, t), NEW held, NEW more, held \subseteq more,
           NEW r, RunOK(s, held, r)
    PROVE  RunOK(t, more, r)
<1>1. /\ Sorted(s) /\ Sorted(t)
      /\ Len(s) \in Nat /\ DOMAIN s = 1..Len(s)
      /\ Len(t) \in Nat /\ DOMAIN t = 1..Len(t)
      /\ Top(s) \in Nat /\ Top(t) \in Nat /\ Top(s) <= Top(t)
      /\ \A p \in 1..Len(s) : s[p] \in Nat /\ s[p] <= Top(s)
      /\ \A p \in 1..Len(t) : t[p] \in Nat
    BY TopIsHighest, Extended DEF Grown
<1>2. /\ Len(s) <= Len(t)
      /\ \A p \in 1..Len(s) : t[p] = s[p]
      /\ \A p \in Len(s) + 1 .. Len(t) : t[p] > Top(s)
    BY DEF Grown
<1>3. /\ r \in Runs /\ r.cursors \in SyncState /\ r.cursors.live_cursor \in 0..Top(s)
      /\ r.cursors.backfill_end # None => r.cursors.backfill_end \in 0..Top(s)
      /\ r.highest # None => r.highest \in Nat
      /\ r.page \in Nat /\ r.cursors.backfill_page \in Nat
    BY <1>1 DEF RunOK, CursorsOK, Runs, SyncState
<1>4. CursorsOK(t, more, r.cursors)
    BY CursorsGrow DEF RunOK
<1>5. LiveLow(t, r) = LiveLow(s, r)
    BY <1>3, Extended DEF LiveLow
<1>6. r.cursors.backfill_end # None =>
          /\ BackfillHigh(t, r) = BackfillHigh(s, r)
          /\ BackfillHigh(s, r) \in Int /\ BackfillHigh(s, r) <= Len(s)
    <2>1. SUFFICES ASSUME r.cursors.backfill_end # None
                   PROVE  /\ BackfillHigh(t, r) = BackfillHigh(s, r)
                          /\ BackfillHigh(s, r) \in Int /\ BackfillHigh(s, r) <= Len(s)
        OBVIOUS
    <2>2. r.cursors.backfill_page * PageSize \in Nat
        BY <1>3, Pages
    <2>3. Count(s, r.cursors.backfill_end) \in 0..Len(s)
        <3>1. r.cursors.backfill_end \in Int
            BY <1>1, <1>3, <2>1
        <3>. QED
            BY <1>1, <3>1, CountIsPrefix
    <2>. QED
        BY <1>1, <1>3, <2>1, <2>2, <2>3, Extended DEF BackfillHigh
<1>7. ASSUME LiveOK(s, held, r) PROVE LiveOK(t, more, r)
    <2>1. LiveLow(t, r) <= Len(t)
        <3>1. LiveLow(s, r) \in Int
            BY <1>1, <1>3, LiveLowType
        <3>. QED
            BY <1>1, <1>2, <1>5, <1>7, <3>1 DEF LiveOK
    <2>2. ASSUME NEW p \in DOMAIN t, t[p] > r.cursors.live_cursor, p <= LiveLow(t, r)
          PROVE  p \in more
        <3>1. LiveLow(s, r) \in Int
            BY <1>1, <1>3, LiveLowType
        <3>2. p \in 1..Len(s)
            BY <1>1, <1>5, <1>7, <2>2, <3>1 DEF LiveOK
        <3>. QED
            BY <1>1, <1>2, <1>5, <1>7, <2>2, <3>2 DEF LiveOK
    <2>. QED
        BY <1>1, <1>3, <1>7, <2>1, <2>2 DEF LiveOK
<1>8. ASSUME r.rows \subseteq DOMAIN s, AnchorPage(s, r) PROVE AnchorPage(t, r)
    <2>1. SUFFICES ASSUME NEW q \in DOMAIN t
                   PROVE  \/ q \in r.rows
                          \/ \A p \in r.rows : t[q] > t[p]
                          \/ ~Short(r.rows) /\ \A p \in r.rows : t[q] <= t[p]
        BY DEF AnchorPage
    <2>2. \A p \in r.rows : p \in 1..Len(s) /\ t[p] = s[p] /\ s[p] \in Nat /\ s[p] <= Top(s)
        BY <1>1, <1>2, <1>8
    <2>3. CASE q \in 1..Len(s)
        BY <1>1, <1>2, <1>8, <2>2, <2>3 DEF AnchorPage
    <2>4. CASE q \in Len(s) + 1 .. Len(t)
        BY <1>1, <1>2, <2>1, <2>2, <2>4
    <2>. QED
        BY <1>1, <2>1, <2>3, <2>4
<1>9. ASSUME r.rows \subseteq DOMAIN s, LiveOK(s, held, r), LivePage(s, r)
      PROVE  LivePage(t, r)
    <2>1. LiveLow(s, r) \in Int
        BY <1>1, <1>3, LiveLowType
    <2>2. ~Short(r.rows) => LiveLow(s, r) + PageSize <= Len(s)
        BY <1>9 DEF LivePage
    <2>3. \A p \in r.rows : p \in 1..Len(s) /\ t[p] = s[p] /\ s[p] \in Nat /\ s[p] <= Top(s)
        BY <1>1, <1>2, <1>9
    <2>4. ASSUME NEW p \in DOMAIN t, p > LiveLow(s, r)
          PROVE  \/ p \in r.rows
                 \/ Short(r.rows) /\ Newer(t, r, p)
                 \/ ~Short(r.rows) /\ p > LiveLow(s, r) + PageSize
        <3>1. CASE p \in 1..Len(s)
            <4>1. Newer(s, r, p) => Newer(t, r, p)
                BY <1>2, <2>3, <3>1 DEF Newer
            <4>. QED
                BY <1>1, <1>9, <2>4, <3>1, <4>1 DEF LivePage
        <3>2. CASE p \in Len(s) + 1 .. Len(t)
            <4>1. t[p] > Top(s) /\ t[p] \in Nat
                BY <1>1, <1>2, <3>2
            <4>2. Newer(t, r, p)
                BY <1>1, <1>3, <1>9, <2>3, <4>1 DEF Newer, LiveOK
            <4>3. ~Short(r.rows) => p > LiveLow(s, r) + PageSize
                BY <1>1, <2>1, <2>2, <3>2, PositiveSizes
            <4>. QED
                BY <4>2, <4>3
        <3>. QED
            BY <1>1, <3>1, <3>2
    <2>5. ~Short(r.rows) => LiveLow(s, r) + PageSize <= Len(t)
        BY <1>1, <1>2, <2>1, <2>2, PositiveSizes
    <2>. QED
        BY <1>5, <2>4, <2>5 DEF LivePage
<1>10. ASSUME r.cursors.backfill_end # None, BackfillPage(s, r) PROVE BackfillPage(t, r)
    <2>1. ASSUME NEW p \in DOMAIN t, p <= BackfillHigh(s, r), p > BackfillHigh(s, r) - PageSize
          PROVE  p \in r.rows
        <3>1. p \in DOMAIN s
            BY <1>1, <1>6, <1>10, <2>1
        <3>. QED
            BY <1>10, <2>1, <3>1 DEF BackfillPage
    <2>2. Short(r.rows) => BackfillHigh(s, r) - PageSize <= 0
        BY <1>10 DEF BackfillPage
    <2>. QED
        BY <1>6, <1>10, <2>1, <2>2 DEF BackfillPage
<1>11. ASSUME r.step # "fetch" PROVE PageOK(t, r)
    <2>1. PageOK(s, r)
        BY <1>11 DEF RunOK
    <2>2. r.rows \subseteq DOMAIN t
        BY <1>1, <1>2, <2>1 DEF PageOK
    <2>. QED
        BY <1>8, <1>9, <1>10, <2>1, <2>2 DEF PageOK, RunOK
<1>. QED
    BY <1>4, <1>7, <1>11 DEF RunOK

-----------------------------------------------------------------------------
(* What a page does to the cursors. *)

(* The blocks of a page have a lowest and a highest, both on the chain.    *)
LEMMA BlockExtremes ==
    ASSUME Sorted(chain), NEW rows, rows \subseteq DOMAIN chain, rows # {}
    PROVE  /\ Highest(BlocksOf(rows)) \in 0..Top(chain)
           /\ Lowest(BlocksOf(rows)) \in 0..Top(chain)
           /\ \A p \in rows : /\ chain[p] <= Highest(BlocksOf(rows))
                              /\ Lowest(BlocksOf(rows)) <= chain[p]
           /\ \E p \in rows : chain[p] = Highest(BlocksOf(rows))
           /\ \E p \in rows : chain[p] = Lowest(BlocksOf(rows))
<1>1. /\ Top(chain) \in Nat
      /\ \A p \in rows : chain[p] \in 0..Top(chain) /\ chain[p] \in BlocksOf(rows)
    BY TopIsHighest DEF BlocksOf
<1>2. BlocksOf(rows) \subseteq 0..Top(chain) /\ BlocksOf(rows) # {}
    BY <1>1 DEF BlocksOf
<1>3. LET S == BlocksOf(rows) IN
      /\ Highest(S) \in S /\ \A c \in S : c <= Highest(S)
      /\ Lowest(S) \in S /\ \A c \in S : Lowest(S) <= c
    BY <1>1, <1>2, Extremes
<1>4. \A b \in BlocksOf(rows) : \E p \in rows : chain[p] = b
    BY DEF BlocksOf
<1>. QED
    BY <1>1, <1>2, <1>3, <1>4

(* The highest block the live phase has seen is on the chain, and what is  *)
(* newer than the page and than the pages before it is above it.           *)
LEMMA SeenIsHighest ==
    ASSUME Sorted(chain), NEW r \in Runs, r.rows \subseteq DOMAIN chain,
           r.highest # None => r.highest <= Top(chain)
    PROVE  /\ Seen(r) \in Nat \cup {None}
           /\ Seen(r) # None => Seen(r) <= Top(chain)
           /\ Seen(r) = None => r.rows = {}
           /\ \A p \in DOMAIN chain :
                  Seen(r) # None /\ Newer(chain, r, p) => chain[p] > Seen(r)
<1>1. r.highest \in Nat \cup {None} /\ None \notin Nat /\ Top(chain) \in Nat
    BY NoneIsNoBlock, TopIsHighest DEF Runs
<1>2. CASE r.rows = {}
    BY <1>1, <1>2 DEF Seen, Newer
<1>3. CASE r.rows # {}
    <2> DEFINE S == BlocksOf(r.rows) \cup ({r.highest} \ {None})
    <2>1. /\ \A p \in r.rows : chain[p] \in 0..Top(chain)
          /\ r.highest # None => r.highest \in 0..Top(chain)
        BY <1>1, TopIsHighest
    <2>2. S \subseteq 0..Top(chain) /\ S # {}
        BY <1>3, <2>1 DEF BlocksOf
    <2>3. Highest(S) \in S
        BY <1>1, <2>2, Extremes
    <2>4. Seen(r) = Highest(S)
        BY <1>3 DEF Seen
    <2>5. Seen(r) \in 0..Top(chain)
        BY <2>2, <2>3, <2>4
    <2>6. ASSUME NEW p \in DOMAIN chain, Newer(chain, r, p) PROVE chain[p] > Seen(r)
        <3>1. CASE Seen(r) \in BlocksOf(r.rows)
            BY <2>6, <3>1 DEF Newer, BlocksOf
        <3>2. CASE Seen(r) = r.highest /\ r.highest # None
            BY <2>6, <3>2 DEF Newer
        <3>. QED
            BY <2>3, <2>4, <3>1, <3>2
    <2>. QED
        BY <1>1, <1>3, <2>5, <2>6
<1>. QED
    BY <1>2, <1>3

(* The anchor page covers itself: what is newer is above the live cursor,  *)
(* what is older is ahead of the backfill, the cut block included.         *)
LEMMA AnchoredOK ==
    ASSUME Sorted(chain), NEW r, RunOK(chain, ingested, r),
           r.step = "persist", r.phase = "anchor"
    PROVE  /\ CursorsOK(chain, ingested, Anchored(r.cursors, r.rows))
           /\ Anchored(r.cursors, r.rows).backfill_cursor # None
<1> DEFINE c == Anchored(r.cursors, r.rows)
<1>1. /\ r.rows \subseteq DOMAIN chain /\ AnchorPage(chain, r) /\ r.rows \subseteq ingested
      /\ r.cursors \in SyncState
      /\ r.cursors.backfill_end # None => r.cursors.backfill_end <= Top(chain)
    BY DEF RunOK, PageOK, CursorsOK
<1>2. /\ Top(chain) \in Nat /\ DOMAIN chain = 1..Len(chain) /\ Len(chain) \in Nat
      /\ \A p \in DOMAIN chain : chain[p] \in Nat /\ chain[p] # 0
    BY TopIsHighest
<1>3. CASE r.rows = {}
    <2>1. Short(r.rows)
        BY <1>3, FS_EmptySet, PositiveSizes DEF Short
    <2>2. c = [live_cursor |-> 0, backfill_cursor |-> 0, backfill_complete |-> TRUE,
               backfill_end |-> r.cursors.backfill_end,
               backfill_page |-> r.cursors.backfill_page]
        BY <1>3, <2>1 DEF Anchored
    <2>3. c \in SyncState /\ c.live_cursor <= Top(chain)
        BY <1>1, <1>2, <2>2 DEF SyncState
    <2>4. Covered(chain, ingested, c)
        BY <1>2, <2>2 DEF Covered
    <2>. QED
        BY <1>1, <2>2, <2>3, <2>4, NoneIsNoBlock DEF CursorsOK
<1>4. CASE r.rows # {}
    <2> DEFINE high == Highest(BlocksOf(r.rows))
               low == Lowest(BlocksOf(r.rows))
    <2>1. /\ high \in 0..Top(chain) /\ low \in 0..Top(chain)
          /\ \A p \in r.rows : chain[p] <= high /\ low <= chain[p]
        BY <1>1, <1>4, BlockExtremes
    <2>2. c = [live_cursor |-> high, backfill_cursor |-> low,
               backfill_complete |-> Short(r.rows),
               backfill_end |-> IF Short(r.rows) THEN r.cursors.backfill_end ELSE low,
               backfill_page |-> IF Short(r.rows) THEN r.cursors.backfill_page ELSE 0]
        BY <1>4 DEF Anchored
    <2>3. \E p \in r.rows : chain[p] = high
        BY <1>1, <1>4, BlockExtremes
    <2>4. \E p \in r.rows : chain[p] = low
        BY <1>1, <1>4, BlockExtremes
    <2> HIDE DEF high, low, c
    <2>5. Short(r.rows) \in BOOLEAN
        BY DEF Short
    <2>6. c \in SyncState /\ c.live_cursor <= Top(chain)
        BY <1>1, <1>2, <2>1, <2>2, <2>5 DEF SyncState
    <2>7. ASSUME NEW q \in DOMAIN chain, ~(chain[q] > high), q \notin ingested
          PROVE  ~Short(r.rows) /\ q <= Count(chain, low) - 0 * PageSize
        <3>1. ~\A p \in r.rows : chain[q] > chain[p]
            BY <2>3, <2>7
        <3>2. ~Short(r.rows) /\ \A p \in r.rows : chain[q] <= chain[p]
            BY <1>1, <2>7, <3>1 DEF AnchorPage
        <3>3. chain[q] <= low
            BY <2>4, <3>2
        <3>4. q <= Count(chain, low) /\ Count(chain, low) \in Nat
            <4>1. low \in Int
                BY <1>2, <2>1
            <4>. QED
                BY <1>2, <2>7, <3>3, <4>1, CountIsPrefix
        <3>. QED
            BY <3>2, <3>4, PositiveSizes
    <2>8. Covered(chain, ingested, c)
        BY <2>2, <2>7 DEF Covered
    <2>. QED
        <3>1. /\ c.backfill_cursor # None
              /\ c.backfill_end # None => c.backfill_end <= Top(chain)
              /\ ~c.backfill_complete => c.backfill_end # None
            BY <1>1, <1>2, <2>1, <2>2, NoneIsNoBlock
        <3>2. CursorsOK(chain, ingested, c)
            BY <2>6, <2>8, <3>1 DEF CursorsOK
        <3>. QED
            BY <3>1, <3>2 DEF c
<1>. QED
    BY <1>3, <1>4

(* A drained live window leaves nothing behind the new live cursor: rows   *)
(* are held, and what was mined after the page is newer than all of them.  *)
LEMMA LivedOK ==
    ASSUME Sorted(chain), NEW r, RunOK(chain, ingested, r),
           r.step = "persist", r.phase = "live"
    PROVE  /\ CursorsOK(chain, ingested, Lived(r))
           /\ Lived(r).backfill_cursor # None
<1> DEFINE old == r.cursors
           c == Lived(r)
<1>1. /\ r \in Runs /\ r.rows \subseteq DOMAIN chain /\ r.rows \subseteq ingested
      /\ LivePage(chain, r) /\ LiveOK(chain, ingested, r)
      /\ CursorsOK(chain, ingested, old) /\ old.backfill_cursor # None
    BY DEF RunOK, PageOK
<1>2. old \in SyncState
    BY <1>1 DEF CursorsOK
<1>3. CASE ~(Short(r.rows) /\ Seen(r) # None)
    BY <1>1, <1>3 DEF Lived
<1>4. CASE Short(r.rows) /\ Seen(r) # None
    <2>1. c = [old EXCEPT !.live_cursor = Seen(r)]
        BY <1>4 DEF Lived
    <2>2. /\ Seen(r) \in Nat /\ Seen(r) <= Top(chain)
          /\ \A p \in DOMAIN chain : Newer(chain, r, p) => chain[p] > Seen(r)
        BY <1>1, <1>4, SeenIsHighest DEF LiveOK
    <2>3. /\ c \in SyncState /\ c.live_cursor = Seen(r)
          /\ c.backfill_cursor = old.backfill_cursor /\ c.backfill_end = old.backfill_end
          /\ c.backfill_complete = old.backfill_complete
          /\ c.backfill_page = old.backfill_page
        BY <1>2, <2>1, <2>2 DEF SyncState
    <2>4. ASSUME NEW p \in DOMAIN chain, ~(chain[p] > Seen(r)), p \notin ingested
          PROVE  /\ ~old.backfill_complete
                 /\ p <= Count(chain, old.backfill_end) - old.backfill_page * PageSize
        <3>1. CASE chain[p] > old.live_cursor
            <4>1. p > LiveLow(chain, r)
                <5>1. ~(p <= LiveLow(chain, r))
                    BY <1>1, <2>4, <3>1 DEF LiveOK
                <5>. QED
                    BY <1>1, <5>1, LiveLowType, TopIsHighest
            <4>2. Newer(chain, r, p)
                BY <1>1, <1>4, <2>4, <4>1 DEF LivePage
            <4>. QED
                BY <2>2, <2>4, <4>2
        <3>2. CASE ~(chain[p] > old.live_cursor)
            BY <1>1, <2>4, <3>2 DEF CursorsOK, Covered
        <3>. QED
            BY <3>1, <3>2
    <2>5. Covered(chain, ingested, c)
        BY <2>3, <2>4 DEF Covered
    <2>. HIDE DEF c
    <2>6. CursorsOK(chain, ingested, c) /\ c.backfill_cursor # None
        BY <1>1, <2>2, <2>3, <2>5 DEF CursorsOK
    <2>. QED
        BY <2>6 DEF c
<1>. QED
    BY <1>3, <1>4

(* A backfill page takes the top off what is ahead of the backfill, and a  *)
(* short one leaves nothing ahead.                                         *)
LEMMA BackfilledOK ==
    ASSUME Sorted(chain), NEW r, RunOK(chain, ingested, r),
           r.step = "persist", r.phase = "backfill"
    PROVE  /\ CursorsOK(chain, ingested, Backfilled(r))
           /\ Backfilled(r).backfill_cursor # None
<1> DEFINE old == r.cursors
           c == Backfilled(r)
<1>1. /\ r \in Runs /\ r.rows \subseteq DOMAIN chain /\ r.rows \subseteq ingested
      /\ BackfillPage(chain, r) /\ old.backfill_end # None
      /\ CursorsOK(chain, ingested, old) /\ old.backfill_cursor # None
    BY DEF RunOK, PageOK
<1>2. /\ old \in SyncState /\ old.backfill_page \in Nat /\ old.backfill_end \in Int
      /\ old.live_cursor <= Top(chain) /\ old.backfill_end <= Top(chain)
    BY <1>1 DEF CursorsOK, SyncState
<1>3. r.rows # {} => Lowest(BlocksOf(r.rows)) \in Nat
    BY <1>1, BlockExtremes, TopIsHighest
<1>4. Short(r.rows) \in BOOLEAN
    BY DEF Short
<1>5. /\ c \in SyncState /\ c.live_cursor = old.live_cursor
      /\ c.backfill_end = old.backfill_end /\ c.backfill_complete = Short(r.rows)
      /\ c.backfill_page = old.backfill_page + 1
      /\ c.backfill_cursor # None
    <2> DEFINE low == IF r.rows = {} THEN old.backfill_cursor
                      ELSE Lowest(BlocksOf(r.rows))
    <2>1. c = [old EXCEPT !.backfill_page = old.backfill_page + 1,
                          !.backfill_cursor = low,
                          !.backfill_complete = Short(r.rows)]
        BY <1>2 DEF Backfilled, SyncState
    <2>2. low \in Nat
        BY <1>1, <1>2, <1>3 DEF SyncState
    <2>. HIDE DEF low, c
    <2>3. /\ c.live_cursor = old.live_cursor /\ c.backfill_cursor = low
          /\ c.backfill_end = old.backfill_end /\ c.backfill_complete = Short(r.rows)
          /\ c.backfill_page = old.backfill_page + 1
        BY <1>2, <2>1 DEF SyncState
    <2>4. c \in SyncState
        <3>1. \A st \in SyncState, k \in Nat, b \in Nat, d \in BOOLEAN :
                  [st EXCEPT !.backfill_page = k, !.backfill_cursor = b,
                             !.backfill_complete = d] \in SyncState
            BY DEF SyncState
        <3>2. old.backfill_page + 1 \in Nat
            BY <1>2
        <3>. HIDE DEF old
        <3>. QED
            BY <1>2, <1>4, <2>1, <2>2, <3>1, <3>2
    <2>. QED
        BY <2>2, <2>3, <2>4, NoneIsNoBlock
<1>6. ASSUME NEW p \in DOMAIN chain, ~(chain[p] > old.live_cursor), p \notin ingested
      PROVE  /\ ~Short(r.rows)
             /\ p <= Count(chain, old.backfill_end) - (old.backfill_page + 1) * PageSize
    <2>1. p \in Nat /\ p > 0
        BY TopIsHighest
    <2>2. p <= BackfillHigh(chain, r)
        BY <1>1, <1>6 DEF CursorsOK, Covered, BackfillHigh
    <2>3. /\ old.backfill_page * PageSize \in Nat
          /\ (old.backfill_page + 1) * PageSize = old.backfill_page * PageSize + PageSize
        BY <1>2, Pages
    <2>4. Count(chain, old.backfill_end) \in 0..Len(chain) /\ Len(chain) \in Nat
        BY <1>2, CountIsPrefix, TopIsHighest
    <2>5. BackfillHigh(chain, r) \in Int
        BY <2>3, <2>4 DEF BackfillHigh
    <2>6. ~(p > BackfillHigh(chain, r) - PageSize)
        BY <1>1, <1>6, <2>2 DEF BackfillPage
    <2>7. p <= BackfillHigh(chain, r) - PageSize
        BY <2>1, <2>5, <2>6, PositiveSizes
    <2>8. ~Short(r.rows)
        BY <1>1, <2>1, <2>5, <2>7, PositiveSizes DEF BackfillPage
    <2>9. BackfillHigh(chain, r) - PageSize
              = Count(chain, old.backfill_end) - (old.backfill_page + 1) * PageSize
        BY <2>3, <2>4, PositiveSizes DEF BackfillHigh
    <2>. QED
        BY <2>7, <2>8, <2>9
<1>7. Covered(chain, ingested, c)
    BY <1>5, <1>6 DEF Covered
<1>. HIDE DEF c
<1>8. CursorsOK(chain, ingested, c) /\ c.backfill_cursor # None
    BY <1>1, <1>2, <1>5, <1>7 DEF CursorsOK
<1>. QED
    BY <1>8 DEF c

(* Whatever the phase, the cursors written back after a page are true.     *)
LEMMA AdvancedOK ==
    ASSUME Sorted(chain), NEW r, RunOK(chain, ingested, r), r.step = "persist"
    PROVE  /\ CursorsOK(chain, ingested, Advanced(r))
           /\ Advanced(r).backfill_cursor # None
<1>1. CASE r.phase = "anchor"
    BY <1>1, AnchoredOK DEF Advanced
<1>2. CASE r.phase = "live"
    BY <1>2, LivedOK DEF Advanced
<1>3. CASE r.phase = "backfill"
    BY <1>3, BackfilledOK DEF Advanced
<1>. QED
    BY <1>1, <1>2, <1>3 DEF RunOK, Runs

(* The call goes on from where its page left it.                           *)
LEMMA ContinuedOK ==
    ASSUME Sorted(chain), NEW r, RunOK(chain, ingested, r), r.step = "persist",
           Continued(r) # Idle
    PROVE  RunOK(chain, ingested, Continued(r))
<1> DEFINE c == Advanced(r)
           next == [r EXCEPT !.cursors = c, !.rows = {}, !.step = "fetch"]
<1>1. /\ r \in Runs /\ r.remaining # 0
      /\ CursorsOK(chain, ingested, c) /\ c.backfill_cursor # None /\ c \in SyncState
    BY AdvancedOK DEF RunOK, Continued, CursorsOK
<1>. HIDE DEF c
<1>2. /\ next \in Runs /\ next.cursors = c /\ next.rows = {} /\ next.step = "fetch"
      /\ next.remaining = r.remaining
    BY <1>1 DEF Runs
<1>3. CASE r.phase = "live" /\ ~Short(r.rows)
    <2> DEFINE n == [next EXCEPT !.page = @ + 1, !.highest = Seen(r)]
    <2>1. Continued(r) = n
        BY <1>1, <1>3 DEF Continued, c
    <2>2. c = r.cursors
        BY <1>3 DEF c, Advanced, Lived
    <2>3. LiveOK(chain, ingested, r) /\ LivePage(chain, r) /\ r.rows \subseteq ingested
          /\ r.rows \subseteq DOMAIN chain
        BY <1>3 DEF RunOK, PageOK
    <2>4. /\ Seen(r) \in Nat \cup {None}
          /\ Seen(r) # None => Seen(r) <= Top(chain)
        BY <1>1, <2>3, SeenIsHighest DEF LiveOK
    <2>5. /\ n \in Runs /\ n.phase = "live" /\ n.step = "fetch"
          /\ n.cursors = r.cursors /\ n.remaining = r.remaining
          /\ n.page = r.page + 1 /\ n.highest = Seen(r)
        <3>1. next.phase = "live" /\ next.page = r.page /\ r.page \in Nat
            BY <1>1, <1>3 DEF Runs
        <3>2. n = [next EXCEPT !.page = r.page + 1, !.highest = Seen(r)]
            BY <1>2, <3>1 DEF Runs
        <3>. HIDE DEF n, next
        <3>3. /\ n.phase = next.phase /\ n.step = next.step
              /\ n.cursors = next.cursors /\ n.remaining = next.remaining
              /\ n.page = r.page + 1 /\ n.highest = Seen(r)
            BY <1>2, <3>2 DEF Runs
        <3>4. n \in Runs
            <4>1. \A x \in Runs, k \in Nat, b \in Nat \cup {None} :
                      [x EXCEPT !.page = k, !.highest = b] \in Runs
                BY DEF Runs
            <4>2. r.page + 1 \in Nat
                BY <3>1
            <4>. QED
                BY <1>2, <2>4, <3>2, <4>1, <4>2
        <3>. QED
            BY <1>2, <2>2, <3>1, <3>3, <3>4
    <2>6. LiveLow(chain, n) = LiveLow(chain, r) + PageSize
        <3>1. r.page \in Nat /\ r.page - 1 \in Nat /\ r.cursors.live_cursor \in Int
            BY <1>1, <2>3 DEF Runs, SyncState, LiveOK
        <3>2. /\ (r.page - 1) * PageSize \in Nat
              /\ ((r.page - 1) + 1) * PageSize = (r.page - 1) * PageSize + PageSize
            BY <3>1, Pages
        <3>3. (r.page + 1) - 1 = (r.page - 1) + 1
            BY <3>1
        <3>4. Count(chain, r.cursors.live_cursor) \in Int
            <4>1. Count(chain, r.cursors.live_cursor) \in 0..Len(chain)
                BY <3>1, CountIsPrefix
            <4>. QED
                BY <4>1
        <3>5. n.page = r.page + 1 /\ n.cursors = r.cursors
            BY <2>5
        <3>. QED
            BY <3>2, <3>3, <3>4, <3>5, PositiveSizes DEF LiveLow
    <2>7. LiveOK(chain, ingested, n)
        <3>1. LiveLow(chain, r) \in Int
            BY <1>1, LiveLowType
        <3>2. LiveLow(chain, n) <= Len(chain)
            BY <1>3, <2>3, <2>6 DEF LivePage
        <3>3. ASSUME NEW p \in DOMAIN chain, chain[p] > r.cursors.live_cursor,
                     p <= LiveLow(chain, r) + PageSize
              PROVE  p \in ingested
            <4>1. CASE p <= LiveLow(chain, r)
                BY <2>3, <3>3, <4>1 DEF LiveOK
            <4>2. CASE p > LiveLow(chain, r)
                BY <1>3, <2>3, <3>1, <3>3, <4>2, TopIsHighest, PositiveSizes DEF LivePage
            <4>. QED
                BY <3>1, <4>1, <4>2, TopIsHighest
        <3>4. n.page # 0
            BY <1>1, <2>5 DEF Runs
        <3>. HIDE DEF n
        <3>. QED
            BY <2>4, <2>5, <2>6, <3>2, <3>3, <3>4 DEF LiveOK
    <2>. HIDE DEF n
    <2>8. RunOK(chain, ingested, n)
        BY <1>1, <2>2, <2>5, <2>7 DEF RunOK
    <2>. QED
        BY <2>1, <2>8
<1>4. CASE ~(r.phase = "live" /\ ~Short(r.rows))
    <2> DEFINE n == [next EXCEPT !.phase = "backfill"]
    <2>1. Continued(r) = n /\ ~c.backfill_complete
        BY <1>1, <1>2, <1>4 DEF Continued, c
    <2>2. /\ n \in Runs /\ n.phase = "backfill" /\ n.step = "fetch" /\ n.cursors = c
          /\ n.remaining = r.remaining
        BY <1>1 DEF Runs
    <2>3. c.backfill_end # None
        BY <1>1, <2>1 DEF CursorsOK
    <2>. HIDE DEF n
    <2>4. RunOK(chain, ingested, n)
        BY <1>1, <2>2, <2>3 DEF RunOK
    <2>. QED
        BY <2>1, <2>4
<1>. QED
    BY <1>3, <1>4

-----------------------------------------------------------------------------
(* What the explorer serves. *)

(* A page of a window is short exactly when the window ends inside it.     *)
LEMMA WindowPage ==
    ASSUME NEW n \in Nat, NEW lo \in 0..n, NEW rows,
           rows = {p \in 1..n : p > lo /\ p <= lo + PageSize}
    PROVE  Short(rows) <=> lo + PageSize > n
<1>1. PageSize \in Nat /\ PageSize > 0 /\ lo \in Nat
    BY PositiveSizes
<1>2. CASE lo + PageSize <= n
    <2>1. rows = (lo + 1)..(lo + PageSize)
        BY <1>1, <1>2
    <2>2. Cardinality((lo + 1)..(lo + PageSize)) = PageSize
        <3>1. lo + 1 \in Int /\ lo + PageSize \in Int
            BY <1>1
        <3>2. Cardinality((lo + 1)..(lo + PageSize))
                  = IF lo + 1 > lo + PageSize THEN 0 ELSE (lo + PageSize) - (lo + 1) + 1
            BY <3>1, FS_Interval
        <3>. QED
            BY <1>1, <3>2
    <2>3. Cardinality(rows) = PageSize
        BY <2>1, <2>2
    <2>. QED
        BY <1>1, <1>2, <2>3 DEF Short
<1>3. CASE lo + PageSize > n
    <2>1. rows = (lo + 1)..n
        BY <1>1, <1>3
    <2>2. Cardinality((lo + 1)..n) = n - lo
        <3>1. lo + 1 \in Int /\ n \in Int
            BY <1>1
        <3>2. Cardinality((lo + 1)..n) = IF lo + 1 > n THEN 0 ELSE n - (lo + 1) + 1
            BY <3>1, FS_Interval
        <3>. QED
            BY <1>1, <3>2
    <2>3. Cardinality(rows) = n - lo
        BY <2>1, <2>2
    <2>. QED
        BY <1>1, <1>3, <2>3 DEF Short
<1>. QED
    BY <1>1, <1>2, <1>3

(* The newest page: what it leaves out is as old as its oldest block.      *)
LEMMA HeadPageOK ==
    ASSUME Sorted(chain), NEW r, r.rows \subseteq DOMAIN chain, IsHeadPage(r.rows)
    PROVE  AnchorPage(chain, r)
<1>1. /\ DOMAIN chain = 1..Len(chain) /\ Len(chain) \in Nat
      /\ \A p \in DOMAIN chain : chain[p] \in Nat
    BY TopIsHighest
<1>2. IsFiniteSet(DOMAIN chain) /\ Cardinality(DOMAIN chain) = Len(chain)
    <2>1. /\ IsFiniteSet(1..Len(chain))
          /\ Cardinality(1..Len(chain)) = IF 1 > Len(chain) THEN 0 ELSE Len(chain) - 1 + 1
        BY <1>1, FS_Interval
    <2>. QED
        BY <1>1, <2>1
<1>3. Short(r.rows) => r.rows = DOMAIN chain
    <2>1. SUFFICES ASSUME Short(r.rows) PROVE r.rows = DOMAIN chain
        OBVIOUS
    <2>2. Cardinality(r.rows) = Len(chain)
        <3>1. ~(PageSize < PageSize)
            BY PositiveSizes
        <3>. QED
            BY <2>1, <3>1 DEF IsHeadPage, Short
    <2>3. r.rows \in SUBSET DOMAIN chain /\ Cardinality(DOMAIN chain) = Cardinality(r.rows)
        BY <1>2, <2>2
    <2>. QED
        BY <1>2, <2>3, FS_Subset
<1>4. ASSUME NEW q \in DOMAIN chain, q \notin r.rows, NEW p \in r.rows
      PROVE  chain[q] <= chain[p]
    BY <1>1, <1>4 DEF IsHeadPage
<1>. QED
    BY <1>3, <1>4 DEF AnchorPage

(* A page of the live window is the page that begins at LiveLow.           *)
LEMMA AscPageOK ==
    ASSUME Sorted(chain), NEW r \in Runs, LiveOK(chain, ingested, r),
           r.rows = AscPage(r.cursors.live_cursor + 1, r.page)
    PROVE  LivePage(chain, r)
<1> DEFINE low == LiveLow(chain, r)
           before == Count(chain, r.cursors.live_cursor)
<1>1. /\ DOMAIN chain = 1..Len(chain) /\ Len(chain) \in Nat
      /\ PageSize \in Nat /\ PageSize > 0
    BY TopIsHighest, PositiveSizes
<1>2. r.page - 1 \in Nat /\ r.page \in Nat /\ r.cursors.live_cursor \in Int
    BY DEF Runs, SyncState, LiveOK
<1>3. before \in 0..Len(chain)
    BY <1>2, CountIsPrefix
<1>4. /\ (r.page - 1) * PageSize \in Nat
      /\ r.page * PageSize = (r.page - 1) * PageSize + PageSize
    <2>1. (r.page - 1) + 1 = r.page
        BY <1>2
    <2>. QED
        BY <1>2, <2>1, Pages
<1>5. low = before + (r.page - 1) * PageSize
    BY DEF LiveLow
<1>6. low \in 0..Len(chain) /\ before + r.page * PageSize = low + PageSize
    <2>1. low <= Len(chain)
        BY DEF LiveOK
    <2>. HIDE DEF low, before
    <2>. QED
        BY <1>1, <1>3, <1>4, <1>5, <2>1
<1>7. UpTo((r.cursors.live_cursor + 1) - 1) = before
    <2>1. (r.cursors.live_cursor + 1) - 1 = r.cursors.live_cursor
        BY <1>2
    <2>. QED
        BY <2>1 DEF UpTo, Count
<1>8. r.rows = {p \in 1..Len(chain) : p > low /\ p <= low + PageSize}
    <2>. HIDE DEF low, before
    <2>1. r.rows = {p \in DOMAIN chain : /\ p > before + (r.page - 1) * PageSize
                                         /\ p <= before + r.page * PageSize}
        BY <1>7 DEF AscPage
    <2>. QED
        BY <1>1, <1>5, <1>6, <2>1
<1>9. Short(r.rows) <=> low + PageSize > Len(chain)
    <2>. HIDE DEF low, before
    <2>. QED
        BY <1>1, <1>6, <1>8, WindowPage
<1>. HIDE DEF low, before
<1>10. ASSUME NEW p \in DOMAIN chain, p > low
       PROVE  p \in r.rows \/ (~Short(r.rows) /\ p > low + PageSize)
    BY <1>1, <1>6, <1>8, <1>9, <1>10
<1>11. ~Short(r.rows) => low + PageSize <= Len(chain)
    BY <1>1, <1>6, <1>9
<1>. QED
    BY <1>10, <1>11 DEF LivePage, low

(* A page of the backfill window is the top of what is ahead of it.        *)
LEMMA DescPageOK ==
    ASSUME Sorted(chain), NEW r \in Runs, r.cursors.backfill_end # None,
           r.rows = DescPage(r.cursors.backfill_end, r.cursors.backfill_page + 1)
    PROVE  BackfillPage(chain, r)
<1> DEFINE high == BackfillHigh(chain, r)
           before == Count(chain, r.cursors.backfill_end)
           k == r.cursors.backfill_page
<1>1. /\ DOMAIN chain = 1..Len(chain) /\ Len(chain) \in Nat
      /\ PageSize \in Nat /\ PageSize > 0
    BY TopIsHighest, PositiveSizes
<1>2. k \in Nat /\ r.cursors.backfill_end \in Int
    BY DEF Runs, SyncState
<1>3. before \in 0..Len(chain) /\ before = UpTo(r.cursors.backfill_end)
    BY <1>2, CountIsPrefix DEF UpTo, Count
<1>4. k * PageSize \in Nat /\ (k + 1) * PageSize = k * PageSize + PageSize
    BY <1>2, Pages
<1>5. high = before - k * PageSize /\ (k + 1) - 1 = k
    BY <1>2 DEF BackfillHigh
<1>6. r.rows = {p \in DOMAIN chain : /\ p <= before - ((k + 1) - 1) * PageSize
                                     /\ p > before - (k + 1) * PageSize}
    BY <1>3 DEF DescPage
<1>. HIDE DEF high, before, k
<1>7. high \in Int /\ high <= Len(chain) /\ before - (k + 1) * PageSize = high - PageSize
    BY <1>1, <1>3, <1>4, <1>5
<1>8. r.rows = {p \in 1..Len(chain) : p > high - PageSize /\ p <= high}
    BY <1>1, <1>5, <1>6, <1>7
<1>9. Short(r.rows) => high - PageSize <= 0
    <2>1. SUFFICES ASSUME high - PageSize > 0 PROVE ~Short(r.rows)
        BY <1>1, <1>7
    <2>2. high - PageSize \in 0..Len(chain) /\ (high - PageSize) + PageSize = high
        BY <1>1, <1>7, <2>1
    <2>3. r.rows = {p \in 1..Len(chain) : /\ p > high - PageSize
                                          /\ p <= (high - PageSize) + PageSize}
        BY <1>8, <2>2
    <2>4. Short(r.rows) <=> (high - PageSize) + PageSize > Len(chain)
        BY <1>1, <2>2, <2>3, WindowPage
    <2>. QED
        BY <1>1, <1>7, <2>2, <2>4
<1>. QED
    BY <1>1, <1>8, <1>9 DEF BackfillPage, high

(* What the explorer serves a run is the page its phase needs.             *)
LEMMA FetchedOK ==
    ASSUME Sorted(chain), NEW r, RunOK(chain, ingested, r), r.step = "fetch",
           NEW rows \in SUBSET DOMAIN chain, Serves(r, rows)
    PROVE  RunOK(chain, ingested,
                 [r EXCEPT !.rows = rows, !.step = "ingest", !.remaining = @ - 1])
<1> DEFINE n == [r EXCEPT !.rows = rows, !.step = "ingest", !.remaining = @ - 1]
<1>1. r \in Runs /\ r.remaining # 0 /\ DOMAIN chain = 1..Len(chain) /\ Len(chain) \in Nat
    BY TopIsHighest DEF RunOK
<1>2. r.remaining - 1 \in Nat /\ rows \in SUBSET Nat
    BY <1>1 DEF Runs
<1>3. n = [r EXCEPT !.rows = rows, !.step = "ingest", !.remaining = r.remaining - 1]
    BY <1>1 DEF Runs
<1>. HIDE DEF n
<1>4. n \in Runs
    <2>1. \A x \in Runs, S \in SUBSET Nat, k \in Nat :
              [x EXCEPT !.rows = S, !.step = "ingest", !.remaining = k] \in Runs
        BY DEF Runs
    <2>. QED
        BY <1>1, <1>2, <1>3, <2>1
<1>5. /\ n.rows = rows /\ n.step = "ingest" /\ n.phase = r.phase
      /\ n.cursors = r.cursors /\ n.page = r.page /\ n.highest = r.highest
    BY <1>1, <1>3 DEF Runs
<1>6. LiveLow(chain, n) = LiveLow(chain, r)
    BY <1>5 DEF LiveLow
<1>7. n.phase = "live" => LiveOK(chain, ingested, n)
    BY <1>5, <1>6 DEF RunOK, LiveOK
<1>8. CASE r.phase = "anchor"
    <2>1. AnchorPage(chain, n)
        BY <1>5, <1>8, HeadPageOK DEF Serves
    <2>. QED
        BY <1>4, <1>5, <1>8, <2>1 DEF RunOK, PageOK, n
<1>9. CASE r.phase = "live"
    <2>1. LivePage(chain, n)
        BY <1>4, <1>5, <1>7, <1>9, AscPageOK DEF Serves
    <2>. QED
        BY <1>4, <1>5, <1>7, <1>9, <2>1 DEF RunOK, PageOK, n
<1>10. CASE r.phase = "backfill"
    <2>1. BackfillPage(chain, n)
        BY <1>4, <1>5, <1>10, DescPageOK DEF Serves, RunOK
    <2>. QED
        BY <1>4, <1>5, <1>10, <2>1 DEF RunOK, PageOK, n
<1>. QED
    BY <1>1, <1>8, <1>9, <1>10 DEF Runs

-----------------------------------------------------------------------------
(* The steps. *)

(* Mining puts a block on top: the chain grows.                            *)
LEMMA MineGrows ==
    ASSUME Sorted(chain), Mine
    PROVE  Grown(chain, chain')
<1>1. PICK n \in 1..MaxPerBlock : chain' = chain \o [k \in 1..n |-> Height + 1]
    BY DEF Mine
<1> DEFINE s == chain
           t == chain'
           block == [k \in 1..n |-> Height + 1]
<1>2. /\ Len(s) \in Nat /\ DOMAIN s = 1..Len(s) /\ s \in Seq(Nat \ {0})
      /\ \A p \in 1..Len(s) : s[p] \in Nat /\ s[p] <= Top(s)
      /\ Top(s) \in Nat /\ n \in Nat /\ Height = Top(s)
    BY <1>1, TopIsHighest, HistoryBounds DEF Sorted, Top, Height
<1>3. block \in Seq(Nat \ {0}) /\ Len(block) = n /\ \A k \in 1..n : block[k] = Top(s) + 1
    BY <1>2
<1>. HIDE DEF block, s
<1>4. /\ t \in Seq(Nat \ {0}) /\ Len(t) = Len(s) + n
      /\ \A p \in 1..Len(t) : t[p] = IF p <= Len(s) THEN s[p] ELSE block[p - Len(s)]
    BY <1>1, <1>2, <1>3 DEF s, block
<1>. HIDE DEF t
<1>5. \A p \in 1..Len(s) : t[p] = s[p]
    BY <1>2, <1>4
<1>6. \A p \in Len(s) + 1 .. Len(t) : t[p] = Top(s) + 1
    <2>1. ASSUME NEW p \in Len(s) + 1 .. Len(t) PROVE t[p] = Top(s) + 1
        <3>1. p - Len(s) \in 1..n /\ p \in 1..Len(t) /\ ~(p <= Len(s))
            BY <1>2, <1>4, <2>1
        <3>. QED
            BY <1>3, <1>4, <3>1
    <2>. QED
        BY <2>1
<1>7. Sorted(t)
    <2>1. ASSUME NEW p \in 1..Len(t), NEW q \in 1..Len(t), p <= q PROVE t[p] <= t[q]
        <3>1. CASE q \in 1..Len(s)
            <4>1. p \in 1..Len(s)
                BY <1>2, <2>1, <3>1
            <4>. QED
                BY <1>5, <2>1, <3>1, <4>1 DEF Sorted, s
        <3>2. CASE p \in 1..Len(s) /\ q \notin 1..Len(s)
            <4>1. q \in Len(s) + 1 .. Len(t)
                BY <1>2, <1>4, <2>1, <3>2
            <4>. QED
                BY <1>2, <1>5, <1>6, <3>2, <4>1
        <3>3. CASE p \notin 1..Len(s)
            <4>1. p \in Len(s) + 1 .. Len(t) /\ q \in Len(s) + 1 .. Len(t)
                BY <1>2, <1>4, <2>1, <3>3
            <4>. QED
                BY <1>2, <1>6, <4>1
        <3>. QED
            BY <3>1, <3>2, <3>3
    <2>. QED
        BY <1>4, <2>1 DEF Sorted
<1>8. Len(s) <= Len(t) /\ \A p \in Len(s) + 1 .. Len(t) : t[p] > Top(s)
    BY <1>2, <1>4, <1>6
<1>. QED
    BY <1>5, <1>7, <1>8 DEF Grown, s, t

(* A sorted chain is a trivial extension of itself.                        *)
LEMMA SameChain ==
    ASSUME NEW s, Sorted(s)
    PROVE  Grown(s, s)
BY TopIsHighest DEF Grown

(* The invariant holds of a connection that was never synced.              *)
LEMMA InitIInv ==
    Init => IInv
<1>. SUFFICES ASSUME Init PROVE IInv
    OBVIOUS
<1>1. chain = << >> /\ ingested = {} /\ stored = NeverSynced /\ due = TRUE
      /\ run = [w \in Workers |-> Idle] /\ mishaps = 0
    BY DEF Init
<1>2. chain \in Seq(Nat \ {0}) /\ Len(chain) = 0 /\ DOMAIN chain = 1..Len(chain)
    BY <1>1
<1>3. NeverSynced \in SyncState
    BY DEF NeverSynced, SyncState
<1>4. TypeOK
    BY <1>1, <1>2, <1>3 DEF TypeOK
<1>5. Sorted(chain) /\ Top(chain) = 0
    BY <1>1, <1>2 DEF Sorted, Top
<1>6. CursorsOK(chain, ingested, stored)
    BY <1>1, <1>3, <1>5 DEF CursorsOK, NeverSynced
<1>7. \A w \in Workers : run[w] = Idle
    BY <1>1
<1>. QED
    BY <1>4, <1>5, <1>6, <1>7 DEF IInv

(* Every step keeps the invariant.                                         *)
LEMMA NextIInv ==
    IInv /\ [Next]_vars => IInv'
<1>. SUFFICES ASSUME IInv, [Next]_vars PROVE IInv'
    OBVIOUS
<1>1. /\ chain \in Seq(Nat \ {0}) /\ ingested \subseteq DOMAIN chain
      /\ stored \in SyncState /\ due \in BOOLEAN
      /\ run \in [Workers -> Runs \cup {Idle}] /\ mishaps \in Nat
      /\ Sorted(chain) /\ CursorsOK(chain, ingested, stored)
      /\ \A w \in Workers : run[w] # Idle => RunOK(chain, ingested, run[w])
    BY DEF IInv, TypeOK
<1>2. DOMAIN chain = 1..Len(chain) /\ Len(chain) \in Nat
    BY <1>1, TopIsHighest
<1>3. ASSUME Mine PROVE IInv'
    <2>1. UNCHANGED <<ingested, stored, due, run, mishaps>>
        BY <1>3 DEF Mine
    <2>2. Grown(chain, chain')
        BY <1>1, <1>3, MineGrows
    <2>3. /\ chain' \in Seq(Nat \ {0}) /\ Sorted(chain')
          /\ DOMAIN chain' = 1..Len(chain') /\ Len(chain') \in Nat /\ Len(chain) <= Len(chain')
        BY <2>2, TopIsHighest DEF Grown, Sorted
    <2>4. ingested' \subseteq DOMAIN chain'
        BY <1>1, <1>2, <2>1, <2>3
    <2>5. CursorsOK(chain', ingested, stored)
        BY <1>1, <2>2, CursorsGrow
    <2>6. ASSUME NEW w \in Workers, run[w] # Idle PROVE RunOK(chain', ingested, run[w])
        BY <1>1, <2>2, <2>6, RunGrows
    <2>. QED
        BY <1>1, <2>1, <2>3, <2>4, <2>5, <2>6 DEF IInv, TypeOK
<1>4. ASSUME IntervalElapses PROVE IInv'
    BY <1>1, <1>4 DEF IntervalElapses, IInv, TypeOK
<1>5. ASSUME NEW w \in Workers, Start(w) PROVE IInv'
    <2> DEFINE r == [phase |-> IF stored.backfill_cursor = None THEN "anchor" ELSE "live",
                     step |-> "fetch", cursors |-> stored, remaining |-> Budget,
                     page |-> 1, highest |-> None, rows |-> {}]
    <2>1. /\ run' = [run EXCEPT ![w] = r]
          /\ UNCHANGED <<chain, ingested, stored, due, mishaps>>
        BY <1>5 DEF Start, Resumed
    <2>2. r \in Runs
        BY <1>1, PositiveSizes DEF Runs
    <2>3. r.phase = "live" => LiveOK(chain, ingested, r)
        <3>1. stored.live_cursor \in Int
            BY <1>1 DEF SyncState
        <3>2. /\ Count(chain, stored.live_cursor) \in 0..Len(chain)
              /\ \A p \in DOMAIN chain :
                     chain[p] <= stored.live_cursor <=> p <= Count(chain, stored.live_cursor)
            BY <1>1, <3>1, CountIsPrefix
        <3>3. LiveLow(chain, r) = Count(chain, stored.live_cursor)
            <4>1. LiveLow(chain, r) = Count(chain, stored.live_cursor) + (1 - 1) * PageSize
                BY DEF LiveLow
            <4>2. (1 - 1) * PageSize = 0
                BY PositiveSizes
            <4>. QED
                BY <3>2, <4>1, <4>2
        <3>4. \A p \in DOMAIN chain : chain[p] \in Nat
            BY <1>1, TopIsHighest
        <3>5. r.page # 0 /\ r.highest = None /\ r.cursors = stored
            OBVIOUS
        <3>. HIDE DEF r
        <3>. QED
            BY <1>2, <3>1, <3>2, <3>3, <3>4, <3>5 DEF LiveOK
    <2>4. RunOK(chain, ingested, r)
        <3>1. /\ r.step = "fetch" /\ r.remaining = Budget /\ r.cursors = stored
              /\ r.phase # "anchor" => stored.backfill_cursor # None
              /\ r.phase # "backfill"
            OBVIOUS
        <3>. HIDE DEF r
        <3>. QED
            BY <1>1, <2>2, <2>3, <3>1, PositiveSizes DEF RunOK
    <2>. HIDE DEF r
    <2>. QED
        BY <1>1, <2>1, <2>2, <2>4 DEF IInv, TypeOK
<1>6. ASSUME NEW w \in Workers, Fetch(w) PROVE IInv'
    <2>1. PICK rows \in SUBSET DOMAIN chain :
              /\ Serves(run[w], rows)
              /\ run' = [run EXCEPT ![w].rows = rows, ![w].step = "ingest",
                                    ![w].remaining = @ - 1]
        BY <1>6 DEF Fetch
    <2> DEFINE r == [run[w] EXCEPT !.rows = rows, !.step = "ingest", !.remaining = @ - 1]
    <2>2. /\ run[w] # Idle /\ run[w].step = "fetch"
          /\ UNCHANGED <<chain, ingested, stored, due, mishaps>>
        BY <1>6 DEF Fetch
    <2>3. RunOK(chain, ingested, r)
        BY <1>1, <2>1, <2>2, FetchedOK
    <2>4. run' = [run EXCEPT ![w] = r]
        BY <1>1, <2>1
    <2>. HIDE DEF r
    <2>5. r \in Runs
        BY <2>3 DEF RunOK
    <2>. QED
        BY <1>1, <2>2, <2>3, <2>4, <2>5 DEF IInv, TypeOK
<1>7. ASSUME NEW w \in Workers, Ingest(w) PROVE IInv'
    <2> DEFINE r == [run[w] EXCEPT !.step = "persist"]
               more == ingested \cup run[w].rows
    <2>1. /\ run[w] # Idle /\ run[w].step = "ingest" /\ ingested' = more
          /\ run' = [run EXCEPT ![w] = r]
          /\ UNCHANGED <<chain, stored, due, mishaps>>
        BY <1>1, <1>7 DEF Ingest
    <2>2. RunOK(chain, ingested, run[w]) /\ run[w] \in Runs
        BY <1>1, <2>1 DEF RunOK
    <2>3. run[w].rows \subseteq DOMAIN chain
        BY <2>1, <2>2 DEF RunOK, PageOK
    <2>4. Grown(chain, chain) /\ ingested \subseteq more
        BY <1>1, SameChain
    <2>5. CursorsOK(chain, more, stored)
        BY <1>1, <2>4, CursorsGrow
    <2>6. ASSUME NEW v \in Workers, run[v] # Idle PROVE RunOK(chain, more, run[v])
        BY <1>1, <2>4, <2>6, RunGrows
    <2>7. /\ r \in Runs /\ r.phase = run[w].phase /\ r.step = "persist"
          /\ r.cursors = run[w].cursors /\ r.page = run[w].page
          /\ r.highest = run[w].highest /\ r.rows = run[w].rows
        BY <2>2 DEF Runs
    <2>. HIDE DEF r
    <2>8. RunOK(chain, more, r)
        <3>1. RunOK(chain, more, run[w])
            BY <2>1, <2>6
        <3>2. PageOK(chain, run[w]) /\ LiveLow(chain, r) = LiveLow(chain, run[w])
              /\ BackfillHigh(chain, r) = BackfillHigh(chain, run[w])
            BY <2>1, <2>2, <2>7 DEF RunOK, LiveLow, BackfillHigh
        <3>3. PageOK(chain, r)
            BY <2>7, <3>2 DEF PageOK, AnchorPage, LivePage, Newer, BackfillPage
        <3>4. r.phase = "live" => LiveOK(chain, more, r)
            BY <2>7, <3>1, <3>2 DEF RunOK, LiveOK
        <3>. QED
            BY <2>7, <3>1, <3>3, <3>4 DEF RunOK
    <2>9. ingested' \subseteq DOMAIN chain
        BY <1>1, <2>1, <2>3
    <2>. HIDE DEF more
    <2>. QED
        BY <1>1, <2>1, <2>5, <2>6, <2>7, <2>8, <2>9 DEF IInv, TypeOK
<1>8. ASSUME NEW w \in Workers, Persist(w) PROVE IInv'
    <2>1. /\ run[w] # Idle /\ run[w].step = "persist" /\ stored' = Advanced(run[w])
          /\ due' = FALSE /\ run' = [run EXCEPT ![w] = Continued(run[w])]
          /\ UNCHANGED <<chain, ingested, mishaps>>
        BY <1>8 DEF Persist
    <2>2. RunOK(chain, ingested, run[w])
        BY <1>1, <2>1
    <2>3. CursorsOK(chain, ingested, stored') /\ stored' \in SyncState
        BY <1>1, <2>1, <2>2, AdvancedOK DEF CursorsOK
    <2>4. /\ Continued(run[w]) # Idle => RunOK(chain, ingested, Continued(run[w]))
          /\ Continued(run[w]) \in Runs \cup {Idle}
        BY <1>1, <2>1, <2>2, ContinuedOK DEF RunOK
    <2> DEFINE r == Continued(run[w])
    <2>5. run' = [run EXCEPT ![w] = r]
        BY <2>1
    <2>6. (r # Idle => RunOK(chain, ingested, r)) /\ r \in Runs \cup {Idle}
        BY <2>4
    <2>. HIDE DEF r
    <2>. QED
        BY <1>1, <2>1, <2>3, <2>5, <2>6 DEF IInv, TypeOK
<1>9. ASSUME NEW w \in Workers, Abandon(w) PROVE IInv'
    BY <1>1, <1>9 DEF Abandon, IInv, TypeOK
<1>10. CASE UNCHANGED vars
    BY <1>1, <1>10 DEF vars, IInv, TypeOK
<1>. QED
    BY <1>3, <1>4, <1>5, <1>6, <1>7, <1>8, <1>9, <1>10 DEF Next, Step

-----------------------------------------------------------------------------
(* The cursors, the page in hand and the ledger agree in every state.      *)
THEOREM Agree == Spec => []IInv
BY InitIInv, NextIInv, PTL DEF Spec

(* The stored state, the scratch copies and the ledger have their types,   *)
(* and the ledger holds only transactions of the chain.                    *)
THEOREM TypeCorrect == Spec => []TypeOK
<1>1. IInv => TypeOK
    BY DEF IInv
<1>. QED
    BY <1>1, Agree, PTL

(* Whatever the number of callers, the page size and the budget, and       *)
(* wherever calls die, every transaction a live cursor has passed is in    *)
(* the ledger or ahead of the backfill, for the stored cursors and for     *)
(* every scratch copy a caller may still write over them.                  *)
THEOREM Unstranded == Spec => []NothingStranded
<1>1. IInv => NothingStranded
    <2>1. \A c : Covered(chain, ingested, c) => Covers(c)
        BY DEF Covered, Covers, Count, UpTo
    <2>. QED
        BY <2>1 DEF IInv, RunOK, CursorsOK, NothingStranded, Covers
<1>. QED
    BY <1>1, Agree, PTL

-----------------------------------------------------------------------------
(* A lone caller: no call comes between its reading the state and its      *)
(* writing it back, so what it goes on from is what is stored.             *)

LoneOK(s, r) ==
    /\ r.cursors = stored
    /\ r.phase = "anchor" => stored.backfill_cursor = None
    /\ r.phase = "live" =>
           /\ r.highest # None => stored.live_cursor <= r.highest
           /\ r.step # "fetch" => \A p \in r.rows : stored.live_cursor <= s[p]
    /\ r.phase = "backfill" => ~stored.backfill_complete

LoneInv ==
    /\ stored.backfill_cursor = None => stored = NeverSynced
    /\ \A w \in Workers : run[w] # Idle => LoneOK(chain, run[w])

(* What the live window serves is above the cursor the window begins at.   *)
LEMMA LiveRowsAreAbove ==
    ASSUME Sorted(chain), NEW r \in Runs, r.page # 0,
           NEW p \in AscPage(r.cursors.live_cursor + 1, r.page)
    PROVE  r.cursors.live_cursor <= chain[p]
<1> DEFINE b == r.cursors.live_cursor
           before == Count(chain, b)
<1>1. /\ b \in Nat /\ b \in Int /\ r.page - 1 \in Nat /\ PageSize \in Nat
      /\ \A q \in DOMAIN chain : chain[q] \in Nat
      /\ DOMAIN chain = 1..Len(chain) /\ Len(chain) \in Nat
    BY TopIsHighest, PositiveSizes DEF Runs, SyncState
<1>2. /\ before \in 0..Len(chain)
      /\ \A q \in DOMAIN chain : chain[q] <= b <=> q <= before
    BY <1>1, CountIsPrefix
<1>3. (r.page - 1) * PageSize \in Nat
    BY <1>1, Pages
<1>4. UpTo((b + 1) - 1) = before
    <2>1. (b + 1) - 1 = b
        BY <1>1
    <2>. QED
        BY <2>1 DEF UpTo, Count
<1>5. p \in DOMAIN chain /\ p > before + (r.page - 1) * PageSize
    BY <1>4 DEF AscPage
<1>. HIDE DEF b, before
<1>6. p > before /\ p \in Nat
    <2>1. before \in Nat /\ p \in Nat
        BY <1>1, <1>2, <1>5
    <2> DEFINE skipped == (r.page - 1) * PageSize
    <2>2. skipped \in Nat /\ p > before + skipped
        BY <1>3, <1>5
    <2>. HIDE DEF skipped
    <2>. QED
        BY <2>1, <2>2
<1>7. b <= chain[p]
    <2>1. ~(p <= before)
        BY <1>1, <1>2, <1>6
    <2>2. ~(chain[p] <= b)
        BY <1>2, <1>5, <2>1
    <2>. QED
        BY <1>1, <1>5, <2>2
<1>. QED
    BY <1>7 DEF b

(* What the live phase has seen is no lower than the cursor it began at.   *)
LEMMA SeenIsAbove ==
    ASSUME Sorted(chain), NEW r, RunOK(chain, ingested, r), LoneOK(chain, r),
           r.phase = "live", r.step # "fetch", Seen(r) # None
    PROVE  stored.live_cursor <= Seen(r)
<1>1. /\ r \in Runs /\ r.rows \subseteq DOMAIN chain
      /\ r.highest # None => r.highest \in Nat /\ stored.live_cursor <= r.highest
      /\ \A p \in r.rows : stored.live_cursor <= chain[p]
    BY DEF RunOK, PageOK, LoneOK, Runs
<1>2. CASE r.rows = {}
    BY <1>1, <1>2 DEF Seen
<1>3. CASE r.rows # {}
    <2> DEFINE S == BlocksOf(r.rows) \cup ({r.highest} \ {None})
    <2>1. S \subseteq Nat /\ S # {}
        BY <1>1, <1>3, TopIsHighest DEF BlocksOf
    <2>2. \A b \in S : stored.live_cursor <= b
        BY <1>1 DEF BlocksOf
    <2>3. Seen(r) = Highest(S)
        BY <1>3 DEF Seen
    <2>4. /\ Top(chain) \in Nat
          /\ r.highest # None => r.highest <= Top(chain)
        BY <1>1, TopIsHighest DEF RunOK, LiveOK
    <2>5. S \subseteq 0..Top(chain)
        BY <1>1, <2>4, TopIsHighest DEF BlocksOf
    <2>. HIDE DEF S
    <2>6. Highest(S) \in S
        BY <2>1, <2>4, <2>5, Extremes
    <2>. QED
        BY <2>2, <2>3, <2>6
<1>. QED
    BY <1>2, <1>3

(* Cursors c walk nothing again that the stored ones have behind them.     *)
Onward(c) ==
    /\ c.live_cursor >= stored.live_cursor
    /\ c.backfill_page >= stored.backfill_page
    /\ stored.backfill_complete => c.backfill_complete
    /\ stored.backfill_end # None => c.backfill_end = stored.backfill_end

(* A page only moves the cursors onward: the anchor comes once, the live   *)
(* window lies above its cursor, and the backfill stops when it is done.   *)
LEMMA AdvancedOnward ==
    ASSUME IInv, LoneInv, NEW r, RunOK(chain, ingested, r), LoneOK(chain, r),
           r.step = "persist"
    PROVE  Onward(Advanced(r))
<1>1. Sorted(chain)
    BY DEF IInv
<1>2. /\ r.cursors = stored /\ stored \in SyncState
      /\ stored.backfill_cursor = None => stored = NeverSynced
    BY DEF LoneOK, IInv, TypeOK, LoneInv
<1>3. Advanced(r).backfill_page \in Nat /\ Advanced(r).live_cursor \in Nat
    BY <1>1, <1>2, AdvancedOK DEF CursorsOK, SyncState
<1>4. CASE r.phase = "anchor"
    <2>1. /\ stored.live_cursor = 0 /\ stored.backfill_page = 0
          /\ ~stored.backfill_complete /\ stored.backfill_end = None
        BY <1>1, <1>2, <1>4 DEF LoneOK, NeverSynced
    <2>. QED
        BY <1>3, <2>1 DEF Onward
<1>5. CASE r.phase = "live"
    <2>1. Advanced(r) = Lived(r)
        BY <1>5 DEF Advanced
    <2>2. CASE Lived(r) = stored
        BY <1>2, <2>1, <2>2 DEF Onward, SyncState
    <2>3. CASE Seen(r) # None /\ Lived(r) = [stored EXCEPT !.live_cursor = Seen(r)]
        <3>1. stored.live_cursor <= Seen(r)
            BY <1>1, <1>2, <1>5, <2>3, SeenIsAbove
        <3>2. /\ Lived(r).live_cursor = Seen(r)
              /\ Lived(r).backfill_page = stored.backfill_page
              /\ Lived(r).backfill_complete = stored.backfill_complete
              /\ Lived(r).backfill_end = stored.backfill_end
            BY <1>2, <2>3 DEF SyncState
        <3>3. stored.live_cursor \in Nat /\ stored.backfill_page \in Nat
            BY <1>2 DEF SyncState
        <3>4. Seen(r) \in Nat
            BY <1>3, <2>1, <3>2
        <3>. QED
            BY <2>1, <3>1, <3>2, <3>3, <3>4 DEF Onward
    <2>. QED
        BY <1>2, <2>2, <2>3 DEF Lived
<1>6. CASE r.phase = "backfill"
    <2>1. Advanced(r) = Backfilled(r)
        BY <1>6 DEF Advanced
    <2>2. /\ Backfilled(r).live_cursor = stored.live_cursor
          /\ Backfilled(r).backfill_page = stored.backfill_page + 1
          /\ Backfilled(r).backfill_end = stored.backfill_end
        BY <1>2 DEF Backfilled, SyncState
    <2>3. ~stored.backfill_complete
        BY <1>1, <1>6 DEF LoneOK
    <2>4. stored.live_cursor \in Nat /\ stored.backfill_page \in Nat
        BY <1>2 DEF SyncState
    <2>. QED
        BY <2>1, <2>2, <2>3, <2>4 DEF Onward
<1>. QED
    BY <1>4, <1>5, <1>6 DEF RunOK, Runs

(* A lone caller starts with no state of its own.                          *)
LEMMA LoneBegins ==
    Init => LoneInv
<1>. SUFFICES ASSUME Init PROVE LoneInv
    OBVIOUS
<1>1. stored = NeverSynced /\ \A w \in Workers : run[w] = Idle
    BY DEF Init
<1>. QED
    BY <1>1 DEF LoneInv

(* Every step of a lone caller leaves its scratch copy at what is stored.  *)
LEMMA LoneStays ==
    ASSUME NEW w, Workers = {w}, IInv, LoneInv, [Next]_vars
    PROVE  LoneInv'
<1>1. /\ w \in Workers /\ run \in [Workers -> Runs \cup {Idle}] /\ Sorted(chain)
      /\ stored \in SyncState
      /\ stored.backfill_cursor = None => stored = NeverSynced
      /\ run[w] # Idle => RunOK(chain, ingested, run[w]) /\ LoneOK(chain, run[w])
    BY DEF IInv, TypeOK, LoneInv
<1>2. CASE Mine
    <2>1. Grown(chain, chain') /\ UNCHANGED <<stored, run>>
        BY <1>1, <1>2, MineGrows DEF Mine
    <2>2. ASSUME run[w] # Idle PROVE LoneOK(chain', run[w])
        <3>1. run[w].step # "fetch" => run[w].rows \subseteq DOMAIN chain
            BY <1>1, <2>2 DEF RunOK, PageOK
        <3>2. \A p \in DOMAIN chain : chain'[p] = chain[p]
            BY <2>1, TopIsHighest DEF Grown
        <3>. QED
            BY <1>1, <2>2, <3>1, <3>2 DEF LoneOK
    <2>. QED
        BY <1>1, <2>1, <2>2 DEF LoneInv, LoneOK
<1>3. CASE IntervalElapses
    BY <1>3 DEF IntervalElapses, LoneInv, LoneOK
<1>4. CASE Start(w)
    <2> DEFINE r == [phase |-> IF stored.backfill_cursor = None THEN "anchor" ELSE "live",
                     step |-> "fetch", cursors |-> stored, remaining |-> Budget,
                     page |-> 1, highest |-> None, rows |-> {}]
    <2>1. run' = [run EXCEPT ![w] = r] /\ UNCHANGED <<chain, stored>>
        BY <1>4 DEF Start, Resumed
    <2>2. /\ r.cursors = stored /\ r.step = "fetch" /\ r.highest = None
          /\ r.phase = "anchor" => stored.backfill_cursor = None
          /\ r.phase # "backfill"
        OBVIOUS
    <2>. HIDE DEF r
    <2>3. run'[w] = r
        BY <1>1, <2>1
    <2>. QED
        BY <1>1, <2>1, <2>2, <2>3 DEF LoneInv, LoneOK
<1>5. CASE Fetch(w)
    <2>1. PICK rows \in SUBSET DOMAIN chain :
              /\ Serves(run[w], rows)
              /\ run' = [run EXCEPT ![w].rows = rows, ![w].step = "ingest",
                                    ![w].remaining = @ - 1]
        BY <1>1, <1>5 DEF Fetch
    <2> DEFINE r == [run[w] EXCEPT !.rows = rows, !.step = "ingest", !.remaining = @ - 1]
    <2>2. run[w] # Idle /\ UNCHANGED <<chain, stored>>
        BY <1>5 DEF Fetch
    <2>3. run[w] \in Runs /\ run'[w] = r
        BY <1>1, <2>1, <2>2
    <2>4. /\ r.cursors = stored /\ r.phase = run[w].phase /\ r.rows = rows
          /\ r.highest = run[w].highest /\ run[w].cursors = stored
        BY <1>1, <2>2, <2>3 DEF Runs, LoneOK
    <2>. HIDE DEF r
    <2>5. ASSUME r.phase = "live", NEW p \in r.rows PROVE stored.live_cursor <= chain[p]
        <3>1. p \in AscPage(run[w].cursors.live_cursor + 1, run[w].page)
            BY <2>1, <2>4, <2>5 DEF Serves
        <3>2. run[w].page # 0
            BY <1>1, <2>2, <2>4, <2>5 DEF RunOK, LiveOK
        <3>. QED
            BY <1>1, <2>3, <2>4, <3>1, <3>2, LiveRowsAreAbove
    <2>6. LoneOK(chain, r)
        BY <1>1, <2>2, <2>4, <2>5 DEF LoneOK
    <2>. QED
        BY <1>1, <2>2, <2>3, <2>6 DEF LoneInv, LoneOK
<1>6. CASE Ingest(w)
    <2> DEFINE r == [run[w] EXCEPT !.step = "persist"]
    <2>1. /\ run[w] # Idle /\ run[w].step = "ingest" /\ UNCHANGED <<chain, stored>>
          /\ run'[w] = r
        BY <1>1, <1>6 DEF Ingest
    <2>2. /\ r.cursors = run[w].cursors /\ r.phase = run[w].phase /\ r.rows = run[w].rows
          /\ r.highest = run[w].highest
        BY <1>1, <2>1 DEF Runs
    <2>. HIDE DEF r
    <2>. QED
        BY <1>1, <2>1, <2>2 DEF LoneInv, LoneOK
<1>7. CASE Persist(w)
    <2> DEFINE r == run[w]
               c == Advanced(r)
               next == [r EXCEPT !.cursors = c, !.rows = {}, !.step = "fetch"]
    <2>1. /\ r # Idle /\ r.step = "persist" /\ stored' = c
          /\ run'[w] = Continued(r) /\ chain' = chain
        BY <1>1, <1>7 DEF Persist
    <2>2. /\ RunOK(chain, ingested, r) /\ LoneOK(chain, r) /\ r \in Runs
          /\ c.backfill_cursor # None
        BY <1>1, <2>1, AdvancedOK DEF RunOK
    <2>3. CASE r.phase = "live" /\ ~Short(r.rows)
        <3> DEFINE n == [next EXCEPT !.page = @ + 1, !.highest = Seen(r)]
        <3>1. c = stored
            BY <2>2, <2>3 DEF Advanced, Lived, LoneOK
        <3>2. Seen(r) # None => stored.live_cursor <= Seen(r)
            BY <1>1, <2>1, <2>2, <2>3, SeenIsAbove
        <3>3. Continued(r) # Idle => Continued(r) = n
            BY <2>3 DEF Continued
        <3>4. n.cursors = c /\ n.phase = "live" /\ n.step = "fetch" /\ n.highest = Seen(r)
            BY <2>2, <2>3 DEF Runs
        <3>. HIDE DEF n, c, next, r
        <3>. QED
            BY <1>1, <2>1, <2>2, <3>1, <3>2, <3>3, <3>4 DEF LoneInv, LoneOK
    <2>4. CASE ~(r.phase = "live" /\ ~Short(r.rows))
        <3> DEFINE n == [next EXCEPT !.phase = "backfill"]
        <3>1. Continued(r) # Idle => Continued(r) = n /\ ~next.cursors.backfill_complete
            BY <2>4 DEF Continued
        <3>2. n.cursors = c /\ n.phase = "backfill" /\ next.cursors = c
            BY <2>2 DEF Runs
        <3>. HIDE DEF n, c, next, r
        <3>. QED
            BY <1>1, <2>1, <2>2, <3>1, <3>2 DEF LoneInv, LoneOK
    <2>. QED
        BY <2>3, <2>4
<1>8. CASE Abandon(w)
    BY <1>1, <1>8 DEF Abandon, LoneInv, LoneOK
<1>9. CASE UNCHANGED vars
    BY <1>9 DEF vars, LoneInv, LoneOK
<1>. QED
    BY <1>1, <1>2, <1>3, <1>4, <1>5, <1>6, <1>7, <1>8, <1>9 DEF Next, Step

(* A lone caller's cursors never go back, whatever is mined and whichever  *)
(* calls die: no later tick walks again what one tick persisted.           *)
THEOREM LoneNeverGoesBack ==
    ASSUME NEW w, Workers = {w}
    PROVE  Spec => CursorsOnlyAdvance
<1>1. ASSUME IInv, LoneInv, [Next]_vars, stored' # stored
      PROVE  Onward(stored')
    <2>1. /\ Mine => stored' = stored
          /\ IntervalElapses => stored' = stored
          /\ \A v : Start(v) \/ Fetch(v) \/ Ingest(v) \/ Abandon(v) => stored' = stored
          /\ UNCHANGED vars => stored' = stored
        BY DEF Mine, IntervalElapses, Start, Fetch, Ingest, Abandon, vars
    <2>2. PICK v \in Workers : Persist(v)
        BY <1>1, <2>1 DEF Next, Step
    <2>3. run[v] # Idle /\ run[v].step = "persist" /\ stored' = Advanced(run[v])
        BY <2>2 DEF Persist
    <2>4. RunOK(chain, ingested, run[v]) /\ LoneOK(chain, run[v])
        BY <1>1, <2>3 DEF IInv, LoneInv
    <2>. QED
        BY <1>1, <2>3, <2>4, AdvancedOnward
<1>2. IInv /\ LoneInv /\ [Next]_vars => LoneInv'
    BY LoneStays
<1>3. IInv /\ LoneInv /\ [Next]_vars =>
          [/\ stored'.live_cursor >= stored.live_cursor
           /\ stored'.backfill_page >= stored.backfill_page
           /\ stored.backfill_complete => stored'.backfill_complete
           /\ stored.backfill_end # None => stored'.backfill_end = stored.backfill_end]_stored
    BY <1>1 DEF Onward
<1>. QED
    BY <1>2, <1>3, Agree, LoneBegins, PTL DEF Spec, CursorsOnlyAdvance

=============================================================================
