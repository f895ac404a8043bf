--------------------------- MODULE WebhooksProofs ---------------------------
(***************************************************************************)
(* Proofs about Webhooks under one drain: for any endpoints, events,       *)
(* subscriptions, schedule and clock, a delivery lives as its row says and *)
(* the receiver is never bothered without a reason.                        *)
(***************************************************************************)
EXTENDS Webhooks, FiniteSetTheorems, WellFoundedInduction, TLAPS

(* A row, the receiver's log of it, how many of the POSTs are in flight    *)
(* and how many a dead tick may have lost.                                 *)
RowOK(row, log, flying, lost) ==
    /\ row.status = "pending" <=> row.next_attempt_at # None
    /\ row.status = "dead_letter" => row.attempts = MaxAttempts
    /\ row.status = "delivered" <=> row.delivered_at # None
    /\ Len(log) >= row.attempts + flying
    /\ Len(log) <= row.attempts + flying + lost
    /\ row.status = "pending" =>
           /\ row.attempts < MaxAttempts
           /\ row.next_attempt_at = row.created_at + Schedule[row.attempts + 1]

(* What a tick has still to do is pending and due, each row once.          *)
TickOK(t, rows, time) ==
    /\ t.at <= time
    /\ \A row \in t.todo :
           /\ row[1] \in DOMAIN rows
           /\ rows[row[1]].status = "pending"
           /\ rows[row[1]].next_attempt_at = row[2]
           /\ row[2] <= t.at
    /\ t.stage = "posted" =>
           /\ t.id \in DOMAIN rows
           /\ rows[t.id].status = "pending"
           /\ rows[t.id].next_attempt_at <= t.at
           /\ \A row \in t.todo : row[1] # t.id

IInv ==
    /\ TypeOK
    /\ \A i \in DOMAIN deliveries : RowOK(deliveries[i], posts[i], InFlight(i), mishaps)
    /\ \A w \in Tickers : tick[w] # Idle => TickOK(tick[w], deliveries, now)

Flying(tk, id) == Cardinality({v \in Tickers : tk[v] # Idle /\ tk[v].stage = "posted"
                                                              /\ tk[v].id = id})

Flies(t, id) == t # Idle /\ t.stage = "posted" /\ t.id = id

-----------------------------------------------------------------------------
(* Numbers. *)

(* A non-empty set of small naturals has a greatest member.                *)
LEMMA GreatestNatural ==
    ASSUME NEW n \in Nat, NEW S, S \subseteq 0..n, S # {}
    PROVE  \E b \in S : \A c \in S : c <= b
<1> DEFINE R == {ss \in Nat \X Nat : ss[1] < ss[2]}
           T == {k \in Nat : n - k \in S}
<1>1. IsWellFoundedOn(R, Nat)
    BY NatLessThanWellFounded DEF OpToRel
<1>2. \A c \in S : c \in 0..n /\ n - c \in Nat /\ n - (n - c) = c
    OBVIOUS
<1>3. T \subseteq Nat /\ T # {}
    BY <1>2
<1>. HIDE DEF R
<1>4. PICK x \in T : \A y \in T : ~(<<y, x>> \in R)
    BY <1>1, <1>3, WFMin
<1>5. n - x \in S /\ x \in Nat
    BY <1>4
<1>6. ASSUME NEW c \in S PROVE c <= n - x
    <2>1. n - c \in T
        BY <1>2
    <2>2. <<n - c, x>> \in Nat \X Nat
        BY <1>2, <1>5
    <2>3. ~(n - c < x)
        BY <1>4, <2>1, <2>2 DEF R
    <2>. QED
        BY <1>2, <1>5, <2>3
<1>. QED
    BY <1>5, <1>6

(* The schedule begins at zero and is made of naturals.                    *)
LEMMA ScheduleTyped ==
    /\ MaxAttempts \in Nat /\ MaxAttempts >= 1
    /\ Schedule[1] = 0
    /\ \A k \in 1..MaxAttempts : Schedule[k] \in Nat
<1>1. Schedule \in Seq(Nat) /\ Schedule # << >> /\ Schedule[1] = 0
    BY ScheduleFromZero
<1>. QED
    BY <1>1 DEF MaxAttempts

(* With one ticker at most one POST of a delivery is in flight.            *)
LEMMA OneFlight ==
    ASSUME NEW w, Tickers = {w}, NEW tk, NEW id
    PROVE  Flying(tk, id) = IF Flies(tk[w], id) THEN 1 ELSE 0
<1> DEFINE S == {v \in Tickers : tk[v] # Idle /\ tk[v].stage = "posted" /\ tk[v].id = id}
<1>1. CASE Flies(tk[w], id)
    <2>1. S = {w}
        BY <1>1 DEF Flies
    <2>. QED
        BY <1>1, <2>1, FS_Singleton DEF Flying
<1>2. CASE ~Flies(tk[w], id)
    <2>1. S = {}
        BY <1>2 DEF Flies
    <2>. QED
        BY <1>2, <2>1, FS_EmptySet DEF Flying
<1>. QED
    BY <1>1, <1>2

(* That POST is the one the tick remembers, before a step and after it.    *)
LEMMA Flights ==
    ASSUME NEW w, Tickers = {w}, NEW id
    PROVE  /\ InFlight(id) = IF Flies(tick[w], id) THEN 1 ELSE 0
           /\ InFlight(id)' = IF Flies(tick'[w], id) THEN 1 ELSE 0
<1>1. InFlight(id) = Flying(tick, id) /\ InFlight(id)' = Flying(tick', id)
    BY DEF InFlight, Flying
<1>. QED
    BY <1>1, OneFlight

(* A replay's ordinal is new to its endpoint and event.                    *)
LEMMA ReplayIsNew ==
    ASSUME IInv, NEW id \in DOMAIN deliveries, NextOrdinal(id) <= MaxOrdinal
    PROVE  /\ [id EXCEPT !.ordinal = NextOrdinal(id)] \in Ids
           /\ [id EXCEPT !.ordinal = NextOrdinal(id)] \notin DOMAIN deliveries
<1> DEFINE S == Ordinals(id)
           m == CHOOSE n \in S : \A k \in S : k <= n
           new == [id EXCEPT !.ordinal = NextOrdinal(id)]
<1>1. DOMAIN deliveries \subseteq Ids /\ id \in Ids /\ MaxOrdinal \in Nat
    BY Bounds DEF IInv, TypeOK
<1>2. S \subseteq 0..MaxOrdinal /\ S # {}
    BY <1>1 DEF Ordinals, Ids
<1>3. m \in S /\ \A k \in S : k <= m
    BY <1>1, <1>2, GreatestNatural
<1>4. NextOrdinal(id) = 1 + m
    BY DEF NextOrdinal
<1>. HIDE DEF m, S
<1>5. NextOrdinal(id) \in 0..MaxOrdinal /\ NextOrdinal(id) \notin S
    BY <1>1, <1>2, <1>3, <1>4
<1>6. new \in Ids
    BY <1>1, <1>5 DEF Ids
<1>7. new.endpoint = id.endpoint /\ new.event = id.event /\ new.ordinal = NextOrdinal(id)
    BY <1>1 DEF Ids
<1>. HIDE DEF new
<1>8. new \in DOMAIN deliveries => new.ordinal \in S
    BY <1>7 DEF S, Ordinals
<1>9. new \in Ids /\ new \notin DOMAIN deliveries
    BY <1>5, <1>6, <1>7, <1>8
<1>. QED
    BY <1>9 DEF new

-----------------------------------------------------------------------------
(* The steps. *)

(* The store gains rows: a fresh one for each new id, the others kept.     *)
Stores(new) ==
    /\ new \subseteq Ids
    /\ deliveries' = Added(new)
    /\ posts' = Logged(new)
    /\ now + Schedule[MaxAttempts] <= MaxTime
    /\ UNCHANGED <<now, filter, tick, mishaps>>

(* Emitting and replaying store new rows.                                  *)
LEMMA StoreStores ==
    ASSUME IInv,
           (\E payload \in Payloads : Emit(payload)) \/ \E id \in DOMAIN deliveries : Replay(id)
    PROVE  \E new : Stores(new)
<1>1. ASSUME NEW payload \in Payloads, Emit(payload) PROVE \E new : Stores(new)
    <2> DEFINE event == [payload |-> payload, at |-> now]
               new == {[endpoint |-> e, event |-> event, ordinal |-> 0] :
                           e \in {x \in DOMAIN filter : Subscribed(x, payload)}}
    <2>1. event \in Events /\ DOMAIN filter \subseteq Endpoints /\ 0 \in 0..MaxOrdinal
        BY Bounds DEF IInv, TypeOK, Events
    <2>2. new \subseteq Ids
        BY <2>1 DEF Ids
    <2>3. Stores(new)
        BY <1>1, <2>2 DEF Emit, Stores, Room
    <2>. QED
        BY <2>3
<1>2. ASSUME NEW id \in DOMAIN deliveries, Replay(id) PROVE \E new : Stores(new)
    <2> DEFINE i == [id EXCEPT !.ordinal = NextOrdinal(id)]
    <2>1. /\ NextOrdinal(id) <= MaxOrdinal /\ now + Schedule[MaxAttempts] <= MaxTime
          /\ deliveries' = [j \in DOMAIN deliveries \cup {i} |->
                               IF j = i THEN NewDelivery ELSE deliveries[j]]
          /\ posts' = Logged({i})
          /\ UNCHANGED <<now, filter, tick, mishaps>>
        BY <1>2 DEF Replay, Room
    <2>2. i \in Ids /\ i \notin DOMAIN deliveries
        BY <2>1, ReplayIsNew
    <2>. HIDE DEF i
    <2>3. deliveries' = Added({i})
        BY <2>1, <2>2 DEF Added
    <2>4. Stores({i})
        BY <2>1, <2>2, <2>3 DEF Stores
    <2>. QED
        BY <2>4
<1>. QED
    BY <1>1, <1>2

(* New rows begin a life, old ones go on with theirs.                      *)
LEMMA StoresIInv ==
    ASSUME NEW w, Tickers = {w}, IInv, NEW new, Stores(new)
    PROVE  IInv'
<1>1. /\ now \in Times /\ DOMAIN deliveries \subseteq Ids
      /\ deliveries \in [DOMAIN deliveries -> Delivery]
      /\ posts \in [DOMAIN deliveries -> Seq(Times)]
      /\ mishaps \in Nat /\ MaxTime \in Nat
    BY Bounds DEF IInv, TypeOK
<1>2. /\ new \subseteq Ids /\ deliveries' = Added(new) /\ posts' = Logged(new)
      /\ UNCHANGED <<now, filter, tick, mishaps>>
    BY DEF Stores
<1>3. /\ DOMAIN deliveries' = DOMAIN deliveries \cup new
      /\ \A i \in DOMAIN deliveries : deliveries'[i] = deliveries[i] /\ posts'[i] = posts[i]
      /\ \A i \in new \ DOMAIN deliveries : deliveries'[i] = NewDelivery /\ posts'[i] = << >>
    BY <1>1, <1>2 DEF Added, Logged
<1>4. NewDelivery \in Delivery
    BY <1>1, ScheduleTyped DEF NewDelivery, Delivery, Statuses, Times
<1>5. TypeOK'
    <2>1. deliveries' \in [DOMAIN deliveries \cup new -> Delivery]
        BY <1>1, <1>2, <1>4 DEF Added
    <2>2. << >> \in Seq(Times)
        OBVIOUS
    <2>3. posts' \in [DOMAIN deliveries \cup new -> Seq(Times)]
        BY <1>1, <1>2, <2>2 DEF Logged
    <2>. QED
        BY <1>1, <1>2, <1>3, <2>1, <2>3 DEF IInv, TypeOK
<1>6. ASSUME tick[w] # Idle PROVE TickOK(tick[w], deliveries', now)
    <2>1. TickOK(tick[w], deliveries, now)
        BY <1>6 DEF IInv
    <2>. QED
        BY <1>3, <2>1 DEF TickOK
<1>7. ASSUME NEW i \in DOMAIN deliveries'
      PROVE  RowOK(deliveries'[i], posts'[i], InFlight(i), mishaps)
    <2>1. CASE i \in DOMAIN deliveries
        BY <1>3, <2>1 DEF IInv
    <2>2. CASE i \notin DOMAIN deliveries
        <3>1. ~Flies(tick[w], i)
            BY <2>2 DEF IInv, TickOK, Flies
        <3>2. InFlight(i) = 0
            BY <3>1, Flights
        <3>3. deliveries'[i] = NewDelivery /\ posts'[i] = << >>
            BY <1>3, <1>7, <2>2
        <3>4. RowOK(NewDelivery, << >>, 0, mishaps)
            <4>1. Len(<< >>) = 0 /\ now \in Nat /\ now # None /\ now + 0 = now
                BY <1>1, NoneIsNoTime DEF Times
            <4>2. NewDelivery = [status |-> "pending", attempts |-> 0, created_at |-> now,
                                 next_attempt_at |-> now, delivered_at |-> None]
                BY DEF NewDelivery
            <4>3. Schedule[0 + 1] = 0 /\ 0 < MaxAttempts
                BY ScheduleTyped
            <4>. QED
                BY <1>1, <4>1, <4>2, <4>3 DEF RowOK
        <3>. QED
            BY <3>2, <3>3, <3>4
    <2>. QED
        BY <2>1, <2>2
<1>8. \A i : InFlight(i)' = InFlight(i)
    BY <1>2 DEF InFlight
<1>. QED
    BY <1>2, <1>5, <1>6, <1>7, <1>8 DEF IInv

(* A POST is of a row that is pending and due, and the tick remembers it.  *)
LEMMA PostIsOwed ==
    ASSUME IInv, NEW w \in Tickers, Post(w)
    PROVE  \E row \in tick[w].todo, t \in Ticking :
               /\ tick' = [tick EXCEPT ![w] = t]
               /\ t.stage = "posted" /\ t.at = tick[w].at /\ t.id = row[1]
               /\ t.todo = tick[w].todo \ {row}
               /\ posts' = [posts EXCEPT ![row[1]] = Append(@, tick[w].at)]
               /\ row \in Ids \X Times
               /\ row[1] \in DOMAIN deliveries
               /\ deliveries[row[1]].status = "pending"
               /\ deliveries[row[1]].next_attempt_at = row[2]
               /\ row[2] <= tick[w].at
<1>1. PICK row \in tick[w].todo, success \in BOOLEAN :
          /\ tick' = [tick EXCEPT ![w].stage = "posted", ![w].id = row[1],
                                  ![w].todo = @ \ {row}, ![w].success = success]
          /\ posts' = [posts EXCEPT ![row[1]] = Append(@, tick[w].at)]
    BY DEF Post
<1>2. tick[w] # Idle /\ TickOK(tick[w], deliveries, now)
    BY DEF Post, IInv
<1>3. tick[w] \in Ticking /\ tick \in [Tickers -> Ticking \cup {Idle}]
    BY <1>2 DEF IInv, TypeOK
<1> DEFINE rest == tick[w].todo \ {row}
           t == [tick[w] EXCEPT !.stage = "posted", !.id = row[1],
                                !.todo = rest, !.success = success]
<1>4. tick' = [tick EXCEPT ![w] = t]
    <2> DEFINE u == [tick[w] EXCEPT !.stage = "posted", !.id = row[1],
                                    !.todo = @ \ {row}, !.success = success]
    <2>1. tick' = [tick EXCEPT ![w] = u]
        BY <1>1, <1>3
    <2>2. u = t
        BY <1>3 DEF Ticking
    <2>. HIDE DEF u, t
    <2>. QED
        BY <2>1, <2>2
<1>5. row \in Ids \X Times /\ row[1] \in Ids /\ rest \in SUBSET (Ids \X Times)
    BY <1>3 DEF Ticking
<1>. HIDE DEF rest
<1>6. /\ t.stage = "posted" /\ t.at = tick[w].at /\ t.id = row[1] /\ t.todo = rest
    BY <1>3 DEF Ticking
<1>7. t \in Ticking
    <2>1. \A x \in Ticking, i \in Ids, S \in SUBSET (Ids \X Times), b \in BOOLEAN :
              [x EXCEPT !.stage = "posted", !.id = i, !.todo = S, !.success = b] \in Ticking
        BY DEF Ticking
    <2>. QED
        BY <1>1, <1>3, <1>5, <2>1
<1>8. /\ row[1] \in DOMAIN deliveries
      /\ deliveries[row[1]].status = "pending"
      /\ deliveries[row[1]].next_attempt_at = row[2]
      /\ row[2] <= tick[w].at
    BY <1>2 DEF TickOK
<1>. HIDE DEF t
<1>. QED
    BY <1>1, <1>4, <1>5, <1>6, <1>7, <1>8 DEF rest

(* The receiver's log and the POST in flight grow together.                *)
LEMMA PostIInv ==
    ASSUME NEW w, Tickers = {w}, IInv, Post(w)
    PROVE  IInv'
<1>1. /\ UNCHANGED <<now, filter, deliveries, mishaps>>
      /\ tick[w] # Idle /\ tick[w].stage = "drain"
    BY DEF Post
<1>2. PICK row \in tick[w].todo, t \in Ticking :
          /\ tick' = [tick EXCEPT ![w] = t]
          /\ t.stage = "posted" /\ t.at = tick[w].at /\ t.id = row[1]
          /\ t.todo = tick[w].todo \ {row}
          /\ posts' = [posts EXCEPT ![row[1]] = Append(@, tick[w].at)]
          /\ row \in Ids \X Times
          /\ row[1] \in DOMAIN deliveries
          /\ deliveries[row[1]].status = "pending"
          /\ deliveries[row[1]].next_attempt_at = row[2]
          /\ row[2] <= tick[w].at
    BY PostIsOwed
<1>3. /\ tick \in [Tickers -> Ticking \cup {Idle}] /\ tick[w] \in Ticking
      /\ posts \in [DOMAIN deliveries -> Seq(Times)] /\ tick[w].at \in Times
      /\ deliveries \in [DOMAIN deliveries -> Delivery]
      /\ TickOK(tick[w], deliveries, now) /\ mishaps \in Nat
    BY <1>1 DEF IInv, TypeOK, Ticking
<1> DEFINE id == row[1]
<1>4. TypeOK'
    <2>1. posts' \in [DOMAIN deliveries -> Seq(Times)]
        BY <1>2, <1>3
    <2>2. tick' \in [Tickers -> Ticking \cup {Idle}]
        BY <1>2, <1>3
    <2>. QED
        BY <1>1, <2>1, <2>2 DEF IInv, TypeOK
<1>5. TickOK(tick'[w], deliveries, now)
    <2>1. tick'[w] = t
        BY <1>2, <1>3
    <2>2. ASSUME NEW other \in tick[w].todo, other # row PROVE other[1] # id
        <3>1. other \in Ids \X Times /\ deliveries[other[1]].next_attempt_at = other[2]
            BY <1>3, <2>2 DEF Ticking, TickOK
        <3>. QED
            BY <1>2, <2>2, <3>1
    <2>. QED
        BY <1>2, <1>3, <2>1, <2>2 DEF TickOK
<1>6. ASSUME NEW i \in DOMAIN deliveries
      PROVE  RowOK(deliveries[i], posts'[i], InFlight(i)', mishaps)
    <2>1. RowOK(deliveries[i], posts[i], InFlight(i), mishaps)
        BY DEF IInv
    <2>2. InFlight(i) = 0
        <3>1. ~Flies(tick[w], i)
            BY <1>1 DEF Flies
        <3>. QED
            BY <3>1, Flights
    <2>3. InFlight(i)' = IF Flies(tick'[w], i) THEN 1 ELSE 0
        BY Flights
    <2>4. CASE i = id
        <3>1. tick'[w] = t /\ t # Idle
            BY <1>2, <1>3 DEF Idle, Ticking
        <3>2. InFlight(i)' = 1
            BY <1>2, <2>3, <2>4, <3>1 DEF Flies
        <3>3. posts'[i] = Append(posts[i], tick[w].at) /\ posts[i] \in Seq(Times)
            BY <1>2, <1>3, <2>4
        <3>4. Len(posts'[i]) = Len(posts[i]) + 1 /\ Len(posts[i]) \in Nat
            BY <1>3, <3>3
        <3>5. deliveries[i].attempts \in Nat
            BY <1>3, ScheduleTyped DEF Delivery
        <3>. QED
            BY <1>3, <2>1, <2>2, <3>2, <3>4, <3>5 DEF RowOK
    <2>5. CASE i # id
        <3>1. tick'[w] = t
            BY <1>2, <1>3
        <3>2. InFlight(i)' = 0
            BY <1>2, <2>3, <2>5, <3>1 DEF Flies
        <3>3. posts'[i] = posts[i]
            BY <1>2, <1>3, <2>5
        <3>. QED
            BY <2>1, <2>2, <3>2, <3>3
    <2>. QED
        BY <2>4, <2>5
<1>. QED
    BY <1>1, <1>4, <1>5, <1>6 DEF IInv

(* An attempt is recorded on a row that is pending: it ends there or is    *)
(* due again at its next slot.                                             *)
LEMMA RecordedOK ==
    ASSUME NEW row \in Delivery, NEW log, NEW lost \in Nat, RowOK(row, log, 1, lost),
           row.status = "pending", NEW success \in BOOLEAN, NEW at \in Times,
           Len(log) \in Nat
    PROVE  /\ Recorded(row, success, at) \in Delivery
           /\ RowOK(Recorded(row, success, at), log, 0, lost)
<1> DEFINE attempts == row.attempts + 1
           next == IF success THEN None ELSE DueAt(row, attempts)
           status == IF success THEN "delivered"
                     ELSE IF next = None THEN "dead_letter" ELSE "pending"
           delivered == IF success THEN at ELSE row.delivered_at
           r == Recorded(row, success, at)
<1>1. /\ MaxAttempts \in Nat /\ row.attempts \in Nat /\ row.attempts < MaxAttempts
      /\ row.created_at \in Nat /\ row.delivered_at \in Times \cup {None}
      /\ row.delivered_at = None /\ at # None /\ None \notin Nat
    BY ScheduleTyped, NoneIsNoTime DEF RowOK, Delivery, Statuses, Times
<1>2. attempts \in 0..MaxAttempts /\ delivered \in Times \cup {None}
    BY <1>1
<1>3. /\ next \in Nat \cup {None}
      /\ ~success /\ next = None => attempts = MaxAttempts
      /\ next # None => /\ ~success /\ attempts < MaxAttempts
                        /\ next = row.created_at + Schedule[attempts + 1]
    <2>1. CASE success \/ attempts >= MaxAttempts
        BY <1>1, <1>2, <2>1 DEF DueAt
    <2>2. CASE ~success /\ attempts < MaxAttempts
        <3>1. Schedule[attempts + 1] \in Nat
            BY <1>2, <2>2, ScheduleTyped
        <3>2. next = row.created_at + Schedule[attempts + 1]
            BY <1>1, <1>2, <2>2 DEF DueAt
        <3>. QED
            BY <1>1, <2>2, <3>1, <3>2
    <2>. QED
        BY <1>1, <1>2, <2>1, <2>2
<1>4. r = [row EXCEPT !.attempts = attempts, !.next_attempt_at = next,
                      !.status = status, !.delivered_at = delivered]
    BY DEF Recorded, Delivery
<1>5. /\ status \in Statuses
      /\ status = "pending" <=> next # None
      /\ status = "dead_letter" => ~success /\ next = None
      /\ status = "delivered" <=> success
      /\ success <=> delivered # None
    BY <1>1, <1>3 DEF Statuses
<1>. HIDE DEF attempts, next, status, delivered, r
<1>6. r \in Delivery
    <2>1. \A x \in Delivery, k \in 0..MaxAttempts, n \in Nat \cup {None}, s \in Statuses,
             d \in Times \cup {None} :
              [x EXCEPT !.attempts = k, !.next_attempt_at = n, !.status = s,
                        !.delivered_at = d] \in Delivery
        BY DEF Delivery
    <2>. QED
        BY <1>2, <1>3, <1>4, <1>5, <2>1
<1>7. /\ r.attempts = attempts /\ r.next_attempt_at = next /\ r.status = status
      /\ r.delivered_at = delivered /\ r.created_at = row.created_at
    BY <1>4 DEF Delivery
<1>8. Len(log) >= attempts + 0 /\ Len(log) <= attempts + 0 + lost
    BY <1>1 DEF RowOK, attempts
<1>9. RowOK(r, log, 0, lost)
    BY <1>3, <1>5, <1>7, <1>8 DEF RowOK
<1>. QED
    BY <1>6, <1>9 DEF r

(* Recording touches one pending row and lands its POST.                   *)
LEMMA RecordIInv ==
    ASSUME NEW w, Tickers = {w}, IInv, RecordAttempt(w)
    PROVE  IInv'
<1> DEFINE t == tick[w]
           id == t.id
           r == Recorded(deliveries[id], t.success, t.at)
<1>1. /\ UNCHANGED <<now, filter, posts, mishaps>>
      /\ t # Idle /\ t.stage = "posted"
      /\ tick' = [tick EXCEPT ![w] = Finished(t)]
      /\ deliveries' = [deliveries EXCEPT ![id] = r]
    BY DEF RecordAttempt, IInv, TypeOK
<1>2. /\ tick \in [Tickers -> Ticking \cup {Idle}] /\ t \in Ticking
      /\ t.success \in BOOLEAN /\ t.at \in Times /\ t.todo \subseteq Ids \X Times
      /\ deliveries \in [DOMAIN deliveries -> Delivery]
      /\ posts \in [DOMAIN deliveries -> Seq(Times)] /\ mishaps \in Nat
      /\ TickOK(t, deliveries, now)
    BY <1>1 DEF IInv, TypeOK, Ticking
<1>3. id \in DOMAIN deliveries /\ deliveries[id].status = "pending"
    BY <1>1, <1>2 DEF TickOK
<1>4. RowOK(deliveries[id], posts[id], 1, mishaps)
    <2>1. Flies(t, id)
        BY <1>1 DEF Flies
    <2>2. InFlight(id) = 1
        BY <2>1, Flights
    <2>. QED
        BY <1>3, <2>2 DEF IInv
<1>5. r \in Delivery /\ RowOK(r, posts[id], 0, mishaps)
    <2>1. deliveries[id] \in Delivery /\ Len(posts[id]) \in Nat
        BY <1>2, <1>3
    <2>. QED
        BY <1>2, <1>3, <1>4, <2>1, RecordedOK
<1>. HIDE DEF r
<1>6. /\ deliveries' \in [DOMAIN deliveries -> Delivery]
      /\ DOMAIN deliveries' = DOMAIN deliveries
      /\ \A i \in DOMAIN deliveries : deliveries'[i] = IF i = id THEN r ELSE deliveries[i]
    BY <1>1, <1>2, <1>5
<1> DEFINE f == Finished(t)
<1>7. /\ f \in Ticking \cup {Idle}
      /\ f # Idle => f.stage = "drain" /\ f.todo = t.todo /\ f.at = t.at
    <2>1. CASE t.todo = {}
        BY <2>1 DEF Finished
    <2>2. CASE t.todo # {}
        <3>1. f = [t EXCEPT !.stage = "drain", !.id = None]
            BY <2>2 DEF Finished
        <3>2. \A x \in Ticking : [x EXCEPT !.stage = "drain", !.id = None] \in Ticking
            BY DEF Ticking
        <3>3. f \in Ticking
            BY <1>2, <3>1, <3>2
        <3>4. f.stage = "drain" /\ f.todo = t.todo /\ f.at = t.at
            BY <1>2, <3>1 DEF Ticking
        <3>. QED
            BY <3>3, <3>4
    <2>. QED
        BY <2>1, <2>2
<1>. HIDE DEF f
<1>8. tick' = [tick EXCEPT ![w] = f] /\ tick'[w] = f
    BY <1>1, <1>2 DEF f
<1>9. TypeOK'
    <2>1. tick' \in [Tickers -> Ticking \cup {Idle}]
        BY <1>2, <1>7, <1>8
    <2>. QED
        BY <1>1, <1>6, <2>1 DEF IInv, TypeOK
<1>10. tick'[w] # Idle => TickOK(tick'[w], deliveries', now)
    BY <1>1, <1>2, <1>6, <1>7, <1>8 DEF TickOK
<1>11. ASSUME NEW i \in DOMAIN deliveries
       PROVE  RowOK(deliveries'[i], posts[i], InFlight(i)', mishaps)
    <2>1. InFlight(i)' = 0
        <3>1. ~Flies(f, i)
            BY <1>7 DEF Flies
        <3>. QED
            BY <1>8, <3>1, Flights
    <2>2. CASE i = id
        BY <1>5, <1>6, <2>1, <2>2
    <2>3. CASE i # id
        <3>1. ~Flies(t, i)
            BY <2>3 DEF Flies
        <3>2. InFlight(i) = 0
            BY <3>1, Flights
        <3>3. RowOK(deliveries[i], posts[i], 0, mishaps)
            BY <3>2 DEF IInv
        <3>. QED
            BY <1>6, <2>1, <2>3, <3>3
    <2>. QED
        BY <2>2, <2>3
<1>. QED
    BY <1>1, <1>6, <1>9, <1>10, <1>11 DEF IInv

(* A tick begins with the rows that are pending and due.                   *)
LEMMA StartIInv ==
    ASSUME NEW w, Tickers = {w}, IInv, StartTick(w)
    PROVE  IInv'
<1> DEFINE t == [stage |-> "drain", at |-> now, id |-> None, success |-> FALSE,
                 todo |-> {<<i, deliveries[i].next_attempt_at>> : i \in Due(now)}]
<1>1. /\ UNCHANGED <<now, filter, deliveries, posts, mishaps>>
      /\ tick[w] = Idle /\ tick' = [tick EXCEPT ![w] = t]
    BY DEF StartTick
<1>2. /\ tick \in [Tickers -> Ticking \cup {Idle}] /\ now \in Times
      /\ deliveries \in [DOMAIN deliveries -> Delivery] /\ DOMAIN deliveries \subseteq Ids
      /\ MaxTime \in Nat
    BY Bounds DEF IInv, TypeOK
<1>3. \A i \in Due(now) : /\ i \in DOMAIN deliveries /\ i \in Ids
                          /\ deliveries[i].status = "pending"
                          /\ deliveries[i].next_attempt_at <= now
                          /\ deliveries[i].next_attempt_at \in Times
    BY <1>2 DEF Due, Delivery, Times
<1>4. t.todo \in SUBSET (Ids \X Times)
    BY <1>3
<1>5. t \in Ticking
    BY <1>2, <1>4 DEF Ticking
<1>6. TickOK(t, deliveries, now)
    BY <1>2, <1>3 DEF TickOK, Times
<1>7. t.stage # "posted"
    OBVIOUS
<1>. HIDE DEF t
<1>8. tick'[w] = t /\ tick' \in [Tickers -> Ticking \cup {Idle}]
    BY <1>1, <1>2, <1>5
<1>9. ASSUME NEW i \in DOMAIN deliveries PROVE InFlight(i)' = InFlight(i)
    <2>1. ~Flies(tick[w], i) /\ ~Flies(tick'[w], i)
        BY <1>1, <1>7, <1>8 DEF Flies
    <2>. QED
        BY <2>1, Flights
<1>10. TypeOK'
    BY <1>1, <1>8 DEF IInv, TypeOK
<1>. QED
    BY <1>1, <1>6, <1>8, <1>9, <1>10 DEF IInv

(* A tick that dies loses at most the POST it had in flight.               *)
LEMMA AbandonIInv ==
    ASSUME NEW w, Tickers = {w}, IInv, Abandon(w)
    PROVE  IInv'
<1>1. /\ UNCHANGED <<now, filter, deliveries, posts>>
      /\ mishaps' = mishaps + 1 /\ tick' = [tick EXCEPT ![w] = Idle]
    BY DEF Abandon
<1>2. /\ tick \in [Tickers -> Ticking \cup {Idle}] /\ mishaps \in Nat
      /\ deliveries \in [DOMAIN deliveries -> Delivery]
      /\ posts \in [DOMAIN deliveries -> Seq(Times)]
    BY DEF IInv, TypeOK
<1>3. tick'[w] = Idle /\ tick' \in [Tickers -> Ticking \cup {Idle}]
    BY <1>1, <1>2
<1>4. TypeOK'
    BY <1>1, <1>2, <1>3 DEF IInv, TypeOK
<1>5. ASSUME NEW i \in DOMAIN deliveries
      PROVE  RowOK(deliveries[i], posts[i], InFlight(i)', mishaps')
    <2>1. InFlight(i)' = 0
        <3>1. ~Flies(tick'[w], i)
            BY <1>3 DEF Flies
        <3>. QED
            BY <3>1, Flights
    <2>2. InFlight(i) \in {0, 1}
        BY Flights
    <2>3. RowOK(deliveries[i], posts[i], InFlight(i), mishaps)
        BY DEF IInv
    <2>4. deliveries[i].attempts \in Nat /\ Len(posts[i]) \in Nat
        BY <1>2, ScheduleTyped DEF Delivery
    <2>. QED
        BY <1>1, <1>2, <2>1, <2>2, <2>3, <2>4 DEF RowOK
<1>. QED
    BY <1>1, <1>3, <1>4, <1>5 DEF IInv

(* An empty store.                                                         *)
LEMMA InitIInv ==
    Init => IInv
<1>. SUFFICES ASSUME Init PROVE IInv
    OBVIOUS
<1>1. /\ now = 0 /\ filter = Empty /\ deliveries = Empty
      /\ tick = [w \in Tickers |-> Idle] /\ posts = Empty /\ mishaps = 0
    BY DEF Init
<1>2. DOMAIN Empty = {} /\ 0 \in Times
    BY Bounds DEF Empty, Times
<1>3. /\ Empty \in [DOMAIN Empty -> Subscriptions] /\ Empty \in [DOMAIN Empty -> Delivery]
      /\ Empty \in [DOMAIN Empty -> Seq(Times)]
    BY <1>2 DEF Empty
<1>4. tick \in [Tickers -> Ticking \cup {Idle}] /\ \A w \in Tickers : tick[w] = Idle
    BY <1>1
<1>5. TypeOK
    BY <1>1, <1>2, <1>3, <1>4 DEF TypeOK
<1>. QED
    BY <1>1, <1>2, <1>4, <1>5 DEF IInv

(* Every step keeps the invariant.                                         *)
LEMMA NextIInv ==
    ASSUME NEW w, Tickers = {w}
    PROVE  IInv /\ [Next]_vars => IInv'
<1>. SUFFICES ASSUME IInv, [Next]_vars PROVE IInv'
    OBVIOUS
<1>1. ASSUME NEW e \in Endpoints, NEW payloads \in Subscriptions, Register(e, payloads)
      PROVE  IInv'
    <2>1. /\ filter' = [x \in DOMAIN filter \cup {e} |->
                           IF x = e THEN payloads ELSE filter[x]]
          /\ UNCHANGED <<now, deliveries, tick, posts, mishaps>>
        BY <1>1 DEF Register
    <2>2. /\ DOMAIN filter \subseteq Endpoints
          /\ filter \in [DOMAIN filter -> Subscriptions]
        BY DEF IInv, TypeOK
    <2>3. /\ DOMAIN filter' = DOMAIN filter \cup {e}
          /\ filter' \in [DOMAIN filter \cup {e} -> Subscriptions]
        BY <1>1, <2>1, <2>2
    <2>4. TypeOK'
        BY <1>1, <2>1, <2>2, <2>3 DEF IInv, TypeOK
    <2>. QED
        BY <2>1, <2>4 DEF IInv, InFlight
<1>2. ASSUME (\E payload \in Payloads : Emit(payload))
             \/ \E id \in DOMAIN deliveries : Replay(id)
      PROVE  IInv'
    BY <1>2, StoreStores, StoresIInv
<1>3. ASSUME Pass PROVE IInv'
    <2>1. now' = now + 1 /\ now' \in Times /\ now \in Nat
          /\ UNCHANGED <<filter, deliveries, tick, posts, mishaps>>
        BY <1>3, Bounds DEF Pass, IInv, TypeOK, Times
    <2>2. TypeOK'
        BY <2>1 DEF IInv, TypeOK
    <2>3. ASSUME tick[w] # Idle PROVE TickOK(tick[w], deliveries, now')
        <3>1. TickOK(tick[w], deliveries, now) /\ tick[w].at \in Times
            BY <2>3 DEF IInv, TypeOK, Ticking
        <3>. QED
            BY <2>1, <3>1 DEF TickOK, Times
    <2>. QED
        BY <2>1, <2>2, <2>3 DEF IInv, InFlight
<1>4. ASSUME Step(w) PROVE IInv'
    BY <1>4, StartIInv, PostIInv, RecordIInv DEF Step
<1>5. ASSUME Abandon(w) PROVE IInv'
    BY <1>5, AbandonIInv
<1>6. CASE UNCHANGED vars
    BY <1>6 DEF vars, IInv, TypeOK, InFlight
<1>. QED
    BY <1>1, <1>2, <1>3, <1>4, <1>5, <1>6 DEF Next, Store

-----------------------------------------------------------------------------
(* With one drain, rows, log and tick agree in every state.                *)
THEOREM Agree ==
    ASSUME NEW w, Tickers = {w}
    PROVE  Spec => []IInv
<1>1. IInv /\ [Next]_vars => IInv'
    BY NextIInv
<1>. QED
    BY <1>1, InitIInv, PTL DEF Spec

(* The store, the tick and the log keep their types.                       *)
THEOREM TypeCorrect ==
    ASSUME NEW w, Tickers = {w}
    PROVE  Spec => []TypeOK
<1>1. IInv => TypeOK
    BY DEF IInv
<1>. QED
    BY <1>1, Agree, PTL

(* A row is pending exactly while an attempt is scheduled and due at its   *)
(* slot, dead-lettered exactly after the whole schedule, and counts the    *)
(* POSTs the receiver saw but for those a dead tick left unrecorded.       *)
THEOREM LivesAreLived ==
    ASSUME NEW w, Tickers = {w}
    PROVE  Spec => []LifecycleInv
<1>1. IInv => LifecycleInv
    <2>1. SUFFICES ASSUME IInv, NEW i \in DOMAIN deliveries
                   PROVE  LET row == deliveries[i] IN
                          /\ row.status = "pending" <=> row.next_attempt_at # None
                          /\ row.status = "dead_letter" => row.attempts = MaxAttempts
                          /\ row.status = "delivered" <=> row.delivered_at # None
                          /\ row.attempts <= MaxAttempts
                          /\ Len(posts[i]) >= row.attempts + InFlight(i)
                          /\ Len(posts[i]) <= row.attempts + InFlight(i) + mishaps
                          /\ row.status = "pending" =>
                                 row.next_attempt_at
                                     = row.created_at + Schedule[row.attempts + 1]
        BY DEF LifecycleInv
    <2>2. deliveries[i].attempts <= MaxAttempts
        BY <2>1, ScheduleTyped DEF IInv, TypeOK, Delivery
    <2>3. RowOK(deliveries[i], posts[i], InFlight(i), mishaps)
        BY <2>1 DEF IInv
    <2>. QED
        BY <2>2, <2>3 DEF RowOK
<1>. QED
    BY <1>1, Agree, PTL

(* New rows leave the old ones and their logs alone.                       *)
LEMMA StoresKeeps ==
    ASSUME NEW new, Stores(new), NEW i \in DOMAIN deliveries, IInv
    PROVE  deliveries'[i] = deliveries[i] /\ posts'[i] = posts[i]
BY DEF Stores, Added, Logged, IInv, TypeOK

(* A row that is over stays over, whatever is emitted, replayed or         *)
(* answered late.                                                          *)
THEOREM TheOverStayOver ==
    ASSUME NEW w, Tickers = {w}
    PROVE  Spec => OverStaysOver
<1>1. ASSUME IInv, [Next]_vars, NEW i \in DOMAIN deliveries,
             deliveries[i].status # "pending"
      PROVE  deliveries'[i] = deliveries[i]
    <2>1. CASE (\E payload \in Payloads : Emit(payload))
               \/ \E id \in DOMAIN deliveries : Replay(id)
        BY <1>1, <2>1, StoreStores, StoresKeeps
    <2>2. ASSUME RecordAttempt(w) PROVE deliveries'[i] = deliveries[i]
        <3>1. tick[w].id # i
            BY <1>1, <2>2 DEF RecordAttempt, IInv, TickOK
        <3>. QED
            BY <1>1, <2>2, <3>1 DEF RecordAttempt, IInv, TypeOK
    <2>3. ASSUME UNCHANGED deliveries PROVE deliveries'[i] = deliveries[i]
        BY <2>3
    <2>. QED
        BY <1>1, <2>1, <2>2, <2>3
        DEF Next, Store, Step, Register, Pass, StartTick, Post, Abandon, vars
<1>2. IInv /\ [Next]_vars =>
          [\A i \in DOMAIN deliveries :
               deliveries[i].status # "pending" => deliveries'[i] = deliveries[i]]_vars
    BY <1>1
<1>. QED
    BY <1>2, Agree, PTL DEF Spec, OverStaysOver

(* The receiver sees a delivery only while it is pending, so never after a *)
(* recorded 2xx, and never before its slot of the schedule.                *)
THEOREM EveryPostIsOwed ==
    ASSUME NEW w, Tickers = {w}
    PROVE  Spec => PostsAreOwed
<1>1. ASSUME IInv, [Next]_vars, NEW i \in DOMAIN deliveries, posts'[i] # posts[i]
      PROVE  /\ deliveries[i].status = "pending"
             /\ now >= deliveries[i].created_at + Schedule[deliveries[i].attempts + 1]
    <2>1. ~((\E payload \in Payloads : Emit(payload))
            \/ \E id \in DOMAIN deliveries : Replay(id))
        BY <1>1, StoreStores, StoresKeeps
    <2>2. Post(w)
        BY <1>1, <2>1
        DEF Next, Store, Step, Register, Pass, StartTick, RecordAttempt, Abandon, vars
    <2>3. PICK row \in tick[w].todo :
              /\ posts' = [posts EXCEPT ![row[1]] = Append(@, tick[w].at)]
              /\ row[2] \in Times
              /\ row[1] \in DOMAIN deliveries
              /\ deliveries[row[1]].status = "pending"
              /\ deliveries[row[1]].next_attempt_at = row[2]
              /\ row[2] <= tick[w].at
        BY <1>1, <2>2, PostIsOwed
    <2>4. i = row[1]
        BY <1>1, <2>3 DEF IInv, TypeOK
    <2>5. tick[w].at <= now /\ tick[w].at \in Times /\ now \in Times
        BY <1>1, <2>2 DEF Post, IInv, TickOK, TypeOK, Ticking
    <2>6. row[2] = deliveries[i].created_at + Schedule[deliveries[i].attempts + 1]
        BY <1>1, <2>3, <2>4 DEF IInv, RowOK
    <2>7. now >= row[2]
        BY <2>3, <2>5, Bounds DEF Times
    <2>. QED
        BY <2>3, <2>4, <2>6, <2>7
<1>2. IInv /\ [Next]_vars =>
          [\A i \in DOMAIN deliveries :
               posts'[i] # posts[i] =>
                   /\ deliveries[i].status = "pending"
                   /\ now >= deliveries[i].created_at
                                 + Schedule[deliveries[i].attempts + 1]]_vars
    BY <1>1
<1>. QED
    BY <1>2, Agree, PTL DEF Spec, PostsAreOwed

=============================================================================
