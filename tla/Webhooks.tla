------------------------------ MODULE Webhooks ------------------------------
(***************************************************************************)
(* Webhook events fanned out to endpoints and delivered on a retry         *)
(* schedule (auradefi.webhooks.deliver and .replay): WebhookStore is the   *)
(* shared state, Deliverer.tick drains it, and emit, replay and            *)
(* registration may come between any two of a tick's deliveries.           *)
(*                                                                         *)
(* Ids are the material they hash: an event is its payload (name and data) *)
(* and its millisecond, a delivery is its endpoint, event and ordinal.     *)
(* One project; a tick spans projects but treats each delivery alone.      *)
(***************************************************************************)
EXTENDS Integers, Sequences, FiniteSets

CONSTANTS
    Endpoints,      \* endpoint ids (a hash of project and url)
    Payloads,       \* an event's name and data
    Subscriptions,  \* the sets of payloads endpoints register for
    Tickers,        \* callers of Deliverer.tick
    Schedule,       \* RETRY_SCHEDULE_MS, in units of the model's time
    None,           \* Python's None
    MaxTime,        \* bound: the clock stops here
    MaxOrdinal,     \* bound: replays of one event to one endpoint
    MaxRows,        \* bound: deliveries in all
    MaxMishaps      \* bound: ticks that die

MaxAttempts == Len(Schedule)

ASSUME SubscriptionsOfPayloads == Subscriptions \subseteq SUBSET Payloads
ASSUME NoneIsNoTime == None \notin Nat
ASSUME ScheduleFromZero ==
    /\ Schedule \in Seq(Nat)
    /\ Schedule # << >>
    /\ Schedule[1] = 0
    /\ \A k \in 1..Len(Schedule) - 1 : Schedule[k] < Schedule[k + 1]
ASSUME Bounds ==
    /\ MaxTime \in Nat
    /\ MaxRows \in Nat
    /\ MaxOrdinal \in Nat
    /\ MaxMishaps \in Nat

VARIABLES
    now,            \* the clock
    filter,         \* the payloads each registered endpoint subscribes to
    deliveries,     \* the store: a dict from id to row
    tick,           \* per ticker, the call in progress
    posts,          \* per delivery, when it was POSTed: the receiver's log
    mishaps

vars == <<now, filter, deliveries, tick, posts, mishaps>>

Times == 0..MaxTime
Events == [payload : Payloads, at : Times]
Ids == [endpoint : Endpoints, event : Events, ordinal : 0..MaxOrdinal]
Statuses == {"pending", "delivered", "dead_letter"}
Delivery ==
    [status : Statuses, attempts : 0..MaxAttempts, created_at : Times,
     next_attempt_at : Nat \cup {None}, delivered_at : Times \cup {None}]

(* A tick works through the rows it found due, in order of their time. *)
Idle == [stage |-> "idle"]
Ticking ==
    [stage : {"drain", "posted"}, at : Times, todo : SUBSET (Ids \X Times),
     id : Ids \cup {None}, success : BOOLEAN]

TypeOK ==
    /\ now \in Times
    /\ DOMAIN filter \subseteq Endpoints
    /\ filter \in [DOMAIN filter -> Subscriptions]
    /\ DOMAIN deliveries \subseteq Ids
    /\ deliveries \in [DOMAIN deliveries -> Delivery]
    /\ tick \in [Tickers -> Ticking \cup {Idle}]
    /\ posts \in [DOMAIN deliveries -> Seq(Times)]
    /\ mishaps \in Nat

Empty == [i \in {} |-> None]

Init ==
    /\ now = 0
    /\ filter = Empty
    /\ deliveries = Empty
    /\ tick = [w \in Tickers |-> Idle]
    /\ posts = Empty
    /\ mishaps = 0

-----------------------------------------------------------------------------
(* The store. *)

(* An empty subscription is every event. *)
Subscribed(e, payload) == filter[e] = {} \/ payload \in filter[e]

Register(e, payloads) ==
    /\ e \notin DOMAIN filter
    /\ filter' = [x \in DOMAIN filter \cup {e} |-> IF x = e THEN payloads ELSE filter[x]]
    /\ UNCHANGED <<now, deliveries, tick, posts, mishaps>>

NewDelivery ==
    [status |-> "pending", attempts |-> 0, created_at |-> now,
     next_attempt_at |-> now, delivered_at |-> None]

(* Ids that are already stored are written again (faults as in Ledger). *)
AddedAfreshFault(new) ==
    [i \in DOMAIN deliveries \cup new |-> IF i \in new THEN NewDelivery ELSE deliveries[i]]

(* The rows of the store with a fresh one for each id not stored yet. *)
Added(new) ==
    [i \in DOMAIN deliveries \cup new |->
        IF i \in DOMAIN deliveries THEN deliveries[i] ELSE NewDelivery]

Logged(new) ==
    [i \in DOMAIN posts \cup new |-> IF i \in DOMAIN posts THEN posts[i] ELSE << >>]

(* Bound: a chain begun now ends before the clock does, and is not one too  *)
(* many.                                                                   *)
Room(new) ==
    /\ now + Schedule[MaxAttempts] <= MaxTime
    /\ Cardinality(DOMAIN deliveries \cup new) <= MaxRows

(* emit: one row per subscribed endpoint, existing rows kept. *)
Emit(payload) ==
    LET event == [payload |-> payload, at |-> now]
        new == {[endpoint |-> e, event |-> event, ordinal |-> 0] :
                    e \in {x \in DOMAIN filter : Subscribed(x, payload)}}
    IN
    /\ Room(new)
    /\ deliveries' = Added(new)
    /\ posts' = Logged(new)
    /\ UNCHANGED <<now, filter, tick, mishaps>>

(* The replay takes the original's ordinal plus one. *)
NextOrdinalOfOriginalFault(id) == id.ordinal + 1

Ordinals(id) ==
    {i.ordinal : i \in {j \in DOMAIN deliveries :
                            j.endpoint = id.endpoint /\ j.event = id.event}}

(* One past the highest ordinal of the (endpoint, event) pair. *)
NextOrdinal(id) ==
    1 + CHOOSE n \in Ordinals(id) : \A m \in Ordinals(id) : m <= n

(* create_replay of any stored row; replay_dead_letter does it for each    *)
(* dead-lettered one.                                                      *)
Replay(id) ==
    LET new == [id EXCEPT !.ordinal = NextOrdinal(id)] IN
    /\ Room({new})
    /\ NextOrdinal(id) <= MaxOrdinal
    /\ deliveries' = [i \in DOMAIN deliveries \cup {new} |->
                        IF i = new THEN NewDelivery ELSE deliveries[i]]
    /\ posts' = Logged({new})
    /\ UNCHANGED <<now, filter, tick, mishaps>>

(* Pending rows, whether or not their time has come. *)
DueEveryPendingFault(at) == {i \in DOMAIN deliveries : deliveries[i].status = "pending"}

Due(at) ==
    {i \in DOMAIN deliveries : /\ deliveries[i].status = "pending"
                               /\ deliveries[i].next_attempt_at # None
                               /\ deliveries[i].next_attempt_at <= at}

-----------------------------------------------------------------------------
(* Deliverer.tick. *)

StartTick(w) ==
    /\ tick[w] = Idle
    /\ Due(now) # {}
    /\ tick' = [tick EXCEPT ![w] =
        [stage |-> "drain", at |-> now, id |-> None, success |-> FALSE,
         todo |-> {<<i, deliveries[i].next_attempt_at>> : i \in Due(now)}]]
    /\ UNCHANGED <<now, filter, deliveries, posts, mishaps>>

(* The next row in due order is POSTed: a 2xx, or any other answer or error. *)
Post(w) ==
    /\ tick[w] # Idle
    /\ tick[w].stage = "drain"
    /\ \E row \in tick[w].todo, success \in BOOLEAN :
        /\ \A other \in tick[w].todo : row[2] <= other[2]
        /\ tick' = [tick EXCEPT ![w].stage = "posted", ![w].id = row[1],
                                ![w].todo = @ \ {row}, ![w].success = success]
        /\ posts' = [posts EXCEPT ![row[1]] = Append(@, tick[w].at)]
    /\ UNCHANGED <<now, filter, deliveries, mishaps>>

(* One attempt more than the schedule has slots. *)
DueAtOnePastFault(row, attempts) ==
    IF attempts > MaxAttempts THEN None
    ELSE row.created_at + Schedule[IF attempts = MaxAttempts THEN attempts ELSE attempts + 1]

(* When attempt number `attempts`, from zero, is due: an offset from the   *)
(* row's creation.                                                         *)
DueAt(row, attempts) ==
    IF attempts >= MaxAttempts THEN None ELSE row.created_at + Schedule[attempts + 1]

(* The sixth failure leaves the row pending. *)
RecordedNoDeadLetterFault(row, success, at) ==
    [row EXCEPT
        !.attempts = @ + 1,
        !.next_attempt_at = IF success THEN None ELSE DueAt(row, row.attempts + 1),
        !.status = IF success THEN "delivered" ELSE "pending",
        !.delivered_at = IF success THEN at ELSE @]

(* record_attempt: whatever the row's status is by now. *)
Recorded(row, success, at) ==
    LET attempts == row.attempts + 1
        next == IF success THEN None ELSE DueAt(row, attempts)
    IN  [row EXCEPT
            !.attempts = attempts,
            !.next_attempt_at = next,
            !.status = IF success THEN "delivered"
                       ELSE IF next = None THEN "dead_letter" ELSE "pending",
            !.delivered_at = IF success THEN at ELSE @]

Finished(t) == IF t.todo = {} THEN Idle ELSE [t EXCEPT !.stage = "drain", !.id = None]

RecordAttempt(w) ==
    /\ tick[w] # Idle
    /\ tick[w].stage = "posted"
    /\ deliveries' = [deliveries EXCEPT ![tick[w].id] =
                        Recorded(@, tick[w].success, tick[w].at)]
    /\ tick' = [tick EXCEPT ![w] = Finished(@)]
    /\ UNCHANGED <<now, filter, posts, mishaps>>

(* The tick dies, perhaps with a POST unrecorded. *)
Abandon(w) ==
    /\ tick[w] # Idle
    /\ mishaps < MaxMishaps
    /\ mishaps' = mishaps + 1
    /\ tick' = [tick EXCEPT ![w] = Idle]
    /\ UNCHANGED <<now, filter, deliveries, posts>>

(* The clock moves on. *)
Pass ==
    /\ now < MaxTime
    /\ now' = now + 1
    /\ UNCHANGED <<filter, deliveries, tick, posts, mishaps>>

-----------------------------------------------------------------------------
Store ==
    \/ \E e \in Endpoints, payloads \in Subscriptions : Register(e, payloads)
    \/ \E payload \in Payloads : Emit(payload)
    \/ \E id \in DOMAIN deliveries : Replay(id)

Step(w) == StartTick(w) \/ Post(w) \/ RecordAttempt(w)

Next == Store \/ Pass \/ \E w \in Tickers : Step(w) \/ Abandon(w)

Spec == Init /\ [][Next]_vars

(* The host keeps ticking, and time passes. *)
FairSpec == Spec /\ WF_vars(Pass) /\ \A w \in Tickers : WF_vars(Step(w))

-----------------------------------------------------------------------------
(* How many POSTs of a delivery are not recorded yet, or never will be. *)
InFlight(id) == Cardinality({w \in Tickers : tick[w] # Idle /\ tick[w].stage = "posted"
                                                            /\ tick[w].id = id})

(* The lifecycle of a row under one drain: it is pending exactly while an  *)
(* attempt is scheduled, dead-lettered exactly after MaxAttempts failures, *)
(* its attempts are the POSTs the receiver saw (but for those a dead tick  *)
(* left unrecorded), and what is still scheduled is due at its slot.       *)
LifecycleInv ==
    \A i \in DOMAIN deliveries :
        LET row == deliveries[i] IN
        /\ row.status = "pending" <=> row.next_attempt_at # None
        /\ row.status = "dead_letter" => row.attempts = MaxAttempts
        /\ row.status = "delivered" <=> row.delivered_at # None
        /\ row.attempts <= MaxAttempts
        /\ Len(posts[i]) >= row.attempts + InFlight(i)
        /\ Len(posts[i]) <= row.attempts + InFlight(i) + mishaps
        /\ row.status = "pending" =>
                row.next_attempt_at = row.created_at + Schedule[row.attempts + 1]

(* A row that is over stays over: no late answer, replay or repeated emit  *)
(* brings it back or counts another attempt.                               *)
OverStaysOver ==
    [][\A i \in DOMAIN deliveries :
        deliveries[i].status # "pending" => deliveries'[i] = deliveries[i]]_vars

(* Once a 2xx is recorded the receiver never sees that delivery again, and *)
(* no attempt comes before its slot of the schedule.                       *)
PostsAreOwed ==
    [][\A i \in DOMAIN deliveries :
        posts'[i] # posts[i] =>
            /\ deliveries[i].status = "pending"
            /\ now >= deliveries[i].created_at + Schedule[deliveries[i].attempts + 1]]_vars

(* Every delivery comes to an end. *)
EveryDeliveryEnds ==
    []<>(\A i \in DOMAIN deliveries : deliveries[i].status # "pending")

=============================================================================
