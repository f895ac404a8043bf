------------------------------- MODULE Shell -------------------------------
(***************************************************************************)
(* The HTTP shell (auradefi.api) over tenancy: requests in a thread pool   *)
(* that authenticate, consume quota and change the tenancy store, the      *)
(* revocation set, the audit log and the host's webhook sink.  None of     *)
(* these stores has a lock, so a step is what one call reads or writes of  *)
(* one of them.  A host may administer keys at any time (ApiKeys).         *)
(*                                                                         *)
(* A request whose credential is refused, or whose body is refused before  *)
(* it is charged, ends before the first step here and changes nothing.     *)
(* Bodies refused later have been charged: RefuseUserId and Serve.         *)
(***************************************************************************)
EXTENDS ApiKeys, Sequences

CONSTANTS
    Workers,        \* threads of the pool
    Users,          \* external_user_id
    Descriptors,    \* normalized descriptors of a connection
    Jtis,           \* ids of user tokens
    Admin, Read, Write, \* Scope.USERS_ADMIN, ACCOUNTS_READ, ACCOUNTS_WRITE
    Limit,          \* QuotaLimits: window name to limit
    Span,           \* window name to its length
    Ttl,            \* token_ttl_ms
    BatchSize,      \* items of a batch
    MaxRequests,    \* bound: requests
    MaxServedKeys   \* bound: keys issued by the time a request begins

ASSUME ScopesNamed == {Admin, Read, Write} \subseteq Scopes
ASSUME QuotaShape ==
    /\ Limit \in [DOMAIN Span -> Int]
    /\ Span \in [DOMAIN Span -> Nat \ {0}]
ASSUME RequestShape == Ttl \in Int /\ BatchSize \in Nat \ {0} /\ MaxRequests \in Nat

VARIABLES
    counts,     \* QuotaCounter._counts: per project and window, its key and count
    tokens,     \* the token of each jti, None before it is minted
    revoked,    \* RevocationSet._revoked
    users,      \* TenancyStore._users
    conns,      \* TenancyStore._connections
    audit,      \* AuditLog._records: the key behind each mint
    told,       \* per connection, the events the sink was given
    run,        \* the request each worker is in
    begun,      \* how many requests have begun
    granted,    \* ghost: hits admitted in the latest window of each kind
    clashed,    \* ghost: projects two of whose hits have overlapped
    contested,  \* ghost: connections two of whose requests have overlapped
    lost        \* ghost: connections whose change was told to nobody

shellVars == <<counts, tokens, revoked, users, conns, audit, told, run, begun,
               granted, clashed, contested, lost>>
vars == <<now, keys, root, counts, tokens, revoked, users, conns, audit, told, run,
          begun, granted, clashed, contested, lost>>

Windows == DOMAIN Limit

Connection == [project_id : Projects, user : Users, descriptor : Descriptors]

Token == [project_id : Projects, user : Users, scopes : SUBSET Scopes, exp : Int]

Count == [key : Nat, n : Nat]

KeyKinds == {"mint", "revoke", "admin", "batch"}
ChangeKinds == {"create", "delete"}
TokenKinds == {"read"} \cup ChangeKinds

(* `about` is the body: what to mint, the jti to revoke, or the connection. *)
Request ==
    [kind : KeyKinds \cup TokenKinds, project_id : Projects,
     about : [user : Users, scopes : SUBSET Scopes] \cup Jtis \cup Connection
             \cup Users \cup {None},
     key : KeyIds \cup {None},
     step : {"hit", "consume", "work", "apply", "emit", "audit", "respond"},
     read : [Windows -> Count], paid : Nat,
     answers : Seq({"served", "refused"})]

Idle == [step |-> "idle"]

TypeOK ==
    /\ KeyTypeOK
    /\ counts \in [Projects -> [Windows -> Count]]
    /\ tokens \in [Jtis -> Token \cup {None}]
    /\ revoked \subseteq {j \in Jtis : tokens[j] # None}
    /\ users \in [Projects -> SUBSET Users]
    /\ conns \subseteq {c \in Connection : c.user \in users[c.project_id]}
    /\ \A p \in Projects : audit[p] \in Seq(Issued)
    /\ told \in [Connection -> Seq({"created", "deleted"})]
    /\ run \in [Workers -> Request \cup {Idle}]
    /\ begun \in 0 .. MaxRequests
    /\ granted \in [Projects -> [Windows -> Count]]
    /\ clashed \subseteq Projects
    /\ contested \cup lost \subseteq Connection

NoHits == [x \in Windows |-> [key |-> 0, n |-> 0]]

Init ==
    /\ KeyInit
    /\ counts = [p \in Projects |-> NoHits]
    /\ tokens = [j \in Jtis |-> None]
    /\ revoked = {}
    /\ users = [p \in Projects |-> {}]
    /\ conns = {}
    /\ audit = [p \in Projects |-> <<>>]
    /\ told = [c \in Connection |-> <<>>]
    /\ run = [w \in Workers |-> Idle]
    /\ begun = 0
    /\ granted = [p \in Projects |-> NoHits]
    /\ clashed = {} /\ contested = {} /\ lost = {}

-----------------------------------------------------------------------------
(* Authentication.                                                         *)

Verifies(j) == tokens[j] # None /\ now < tokens[j].exp /\ j \notin revoked

ScopeOf(kind) ==
    CASE kind \in {"mint", "revoke", "admin"} -> Admin
      [] kind \in {"batch", "read"} -> Read
      [] kind \in ChangeKinds -> Write

Begins(w, kind, p, about, key) ==
    /\ run[w] = Idle
    /\ begun < MaxRequests
    /\ Cardinality(Issued) <= MaxServedKeys
    /\ begun' = begun + 1
    /\ run' = [run EXCEPT ![w] =
           [kind |-> kind, project_id |-> p, about |-> about, key |-> key,
            step |-> "hit", read |-> NoHits, paid |-> 0, answers |-> <<>>]]
    /\ contested' =
           IF \E v \in Workers : run[v].step # "idle" /\ run[v].about = about
           THEN contested \cup ({about} \cap Connection)
           ELSE contested
    /\ UNCHANGED <<counts, tokens, revoked, users, conns, audit, told, granted, clashed, lost>>

(* require_api_key.                                                        *)
ByKey(w, kind, k, about) ==
    /\ Authenticates(k)
    /\ ScopeOf(kind) \in keys[k].scopes
    /\ Begins(w, kind, keys[k].project_id, about, k)

(* require_user_token.                                                     *)
ByToken(w, kind, j, about) ==
    /\ Verifies(j)
    /\ ScopeOf(kind) \in tokens[j].scopes
    /\ Begins(w, kind, tokens[j].project_id, about, None)

Begin(w) ==
    \/ \E k \in Issued, u \in Users, asked \in ScopeSets :
           ByKey(w, "mint", k, [user |-> u, scopes |-> asked])
    \/ \E k \in Issued, j \in Jtis : ByKey(w, "revoke", k, j)
    \/ \E k \in Issued, kind \in {"admin", "batch"} : ByKey(w, kind, k, None)
    \/ \E j \in Jtis : Verifies(j) /\ ByToken(w, "read", j, tokens[j].user)
    \/ \E j \in Jtis, kind \in ChangeKinds, d \in Descriptors :
           /\ Verifies(j)
           /\ ByToken(w, kind, j, [project_id |-> tokens[j].project_id,
                                   user |-> tokens[j].user, descriptor |-> d])

-----------------------------------------------------------------------------
(* Quota: one unit of all three windows, or none of any.                   *)

WindowKey(x) == now \div Span[x]

RolledCountsFault(p) == [x \in Windows |-> [key |-> WindowKey(x), n |-> counts[p][x].n]]

RolledCounts(p) ==
    [x \in Windows |->
        [key |-> WindowKey(x),
         n |-> IF counts[p][x].key = WindowKey(x) THEN counts[p][x].n ELSE 0]]

Exceeded(read) == \E x \in Windows : read[x].n >= Limit[x]

Hitting(p) == {w \in Workers : run[w].step = "consume" /\ run[w].project_id = p}

Ends(w) == run' = [run EXCEPT ![w] = Idle]

Goes(w, step) == run' = [run EXCEPT ![w].step = step]

(* What the items from the one that met the exhausted quota on are answered. *)
Refused(r) == r.answers \o [i \in 1 .. BatchSize - Len(r.answers) |-> "refused"]

(* An item after the refused one asks the quota again.                     *)
TurnedAwayFault(r) ==
    IF r.answers = <<>> THEN Idle
    ELSE [r EXCEPT !.answers = Append(@, "refused"),
                   !.step = IF Len(r.answers) + 1 = BatchSize THEN "respond" ELSE "hit"]

(* A refused hit is a 429, except for the later items of a batch.          *)
TurnedAway(r) ==
    IF r.answers = <<>> THEN Idle
    ELSE [r EXCEPT !.answers = Refused(r), !.step = "respond"]

HitReads(w) ==
    /\ run[w].step = "hit"
    /\ LET read == RolledCounts(run[w].project_id) IN
       IF Exceeded(read)
       THEN /\ run' = [run EXCEPT ![w] = TurnedAway(@)]
            /\ UNCHANGED clashed
       ELSE /\ run' = [run EXCEPT ![w].read = read, ![w].step = "consume"]
            /\ clashed' = IF Hitting(run[w].project_id) = {}
                          THEN clashed ELSE clashed \cup {run[w].project_id}
    /\ UNCHANGED <<counts, tokens, revoked, users, conns, audit, told, begun, granted,
                   contested, lost>>

OneMore(count) == [count EXCEPT !.n = @ + 1]

Consumed(read) == [x \in Windows |-> OneMore(read[x])]

Admitted(p, read) ==
    [x \in Windows |->
        CASE granted[p][x].key = read[x].key -> OneMore(granted[p][x])
          [] granted[p][x].key < read[x].key -> [key |-> read[x].key, n |-> 1]
          [] OTHER -> granted[p][x]]

HitWrites(w) ==
    /\ run[w].step = "consume"
    /\ LET r == run[w] IN
       /\ counts' = [counts EXCEPT ![r.project_id] = Consumed(r.read)]
       /\ granted' = [granted EXCEPT ![r.project_id] = Admitted(r.project_id, r.read)]
       /\ run' = [run EXCEPT ![w] = [r EXCEPT !.step = "work", !.paid = @ + 1,
                                              !.read = NoHits]]
    /\ UNCHANGED <<tokens, revoked, users, conns, audit, told, begun, clashed, contested, lost>>

-----------------------------------------------------------------------------
(* What a paid request does.                                               *)

Working(w, kinds) == run[w].step = "work" /\ run[w].kind \in kinds

(* get_or_create_user.                                                     *)
WithUser(p, u) == [users EXCEPT ![p] = @ \cup {u}]

(* POST /auth/token: the privilege check comes after the charge.           *)
MintToken(w) ==
    /\ Working(w, {"mint"})
    /\ LET r == run[w] IN
       IF r.about.scopes \subseteq keys[r.key].scopes
       THEN \E j \in Jtis :
               /\ tokens[j] = None
               /\ tokens' = [tokens EXCEPT ![j] =
                      [project_id |-> r.project_id, user |-> r.about.user,
                       scopes |-> r.about.scopes, exp |-> now + Ttl]]
               /\ users' = WithUser(r.project_id, r.about.user)
               /\ Goes(w, "audit")
       ELSE Ends(w) /\ UNCHANGED <<tokens, users>>
    /\ UNCHANGED <<counts, revoked, conns, audit, told, begun, granted, clashed, contested, lost>>

(* No user is made, and no token minted, of an external id that could be   *)
(* an address of mail; the request is paid for.                            *)
RefuseUserId(w) ==
    /\ Working(w, {"mint"})
    /\ Ends(w)
    /\ UNCHANGED <<counts, tokens, revoked, users, conns, audit, told, begun, granted,
                   clashed, contested, lost>>

RecordMint(w) ==
    /\ run[w].step = "audit"
    /\ audit' = [audit EXCEPT ![run[w].project_id] = Append(@, run[w].key)]
    /\ Ends(w)
    /\ UNCHANGED <<counts, tokens, revoked, users, conns, told, begun, granted, clashed,
                   contested, lost>>

(* POST /auth/revoke: only this project's own, unexpired token verifies.   *)
RevocableFault(p, j) == tokens[j] # None => now < tokens[j].exp

Revocable(p, j) ==
    /\ tokens[j] # None
    /\ tokens[j].project_id = p
    /\ now < tokens[j].exp

RevokeToken(w) ==
    /\ Working(w, {"revoke"})
    /\ revoked' = IF Revocable(run[w].project_id, run[w].about)
                  THEN revoked \cup {run[w].about} ELSE revoked
    /\ Ends(w)
    /\ UNCHANGED <<counts, tokens, users, conns, audit, told, begun, granted, clashed,
                   contested, lost>>

(* The routes that change no more than the caller's own user record, and   *)
(* those of an administrator, whose store is modelled in Webhooks; they    *)
(* may refuse an endpoint, an event or a status they have charged for.     *)
Serve(w) ==
    /\ Working(w, {"read", "admin"})
    /\ users' = IF run[w].kind = "read" THEN WithUser(run[w].project_id, run[w].about)
                ELSE users
    /\ Ends(w)
    /\ UNCHANGED <<counts, tokens, revoked, conns, audit, told, begun, granted, clashed,
                   contested, lost>>

(* One item of a batch, priced or an error of its own.                     *)
ServeItem(w) ==
    /\ Working(w, {"batch"})
    /\ run' = [run EXCEPT ![w].answers = Append(@, "served"),
                          ![w].step = IF Len(run[w].answers) + 1 = BatchSize
                                      THEN "respond" ELSE "hit"]
    /\ UNCHANGED <<counts, tokens, revoked, users, conns, audit, told, begun, granted,
                   clashed, contested, lost>>

Respond(w) ==
    /\ run[w].step = "respond"
    /\ Ends(w)
    /\ UNCHANGED <<counts, tokens, revoked, users, conns, audit, told, begun, granted,
                   clashed, contested, lost>>

(* Whether the row lets the change go on: a duplicate is a conflict, and   *)
(* what is not the caller's is not found.                                  *)
PermittedFault(kind, c) == TRUE

Permitted(kind, c) == IF kind = "create" THEN c \notin conns ELSE c \in conns

LookUp(w) ==
    /\ Working(w, ChangeKinds)
    /\ users' = WithUser(run[w].project_id, run[w].about.user)
    /\ IF Permitted(run[w].kind, run[w].about) THEN Goes(w, "apply") ELSE Ends(w)
    /\ UNCHANGED <<counts, tokens, revoked, conns, audit, told, begun, granted, clashed,
                   contested, lost>>

(* create_connection's write, or the host's deleter.                       *)
Apply(w) ==
    /\ run[w].step = "apply"
    /\ conns' = IF run[w].kind = "create" THEN conns \cup {run[w].about}
                ELSE conns \ {run[w].about}
    /\ Goes(w, "emit")
    /\ UNCHANGED <<counts, tokens, revoked, users, audit, told, begun, granted, clashed,
                   contested, lost>>

(* The deleter is the host's: it may raise, before or after it deleted.    *)
DeleterRaises(w) ==
    /\ run[w].step = "apply" /\ run[w].kind = "delete"
    /\ \/ UNCHANGED <<conns, lost>>
       \/ /\ conns' = conns \ {run[w].about}
          /\ lost' = lost \cup {run[w].about}
    /\ Ends(w)
    /\ UNCHANGED <<counts, tokens, revoked, users, audit, told, begun, granted, clashed,
                   contested>>

Emit(w) ==
    /\ run[w].step = "emit"
    /\ told' = [told EXCEPT ![run[w].about] =
           Append(@, IF run[w].kind = "create" THEN "created" ELSE "deleted")]
    /\ Ends(w)
    /\ UNCHANGED <<counts, tokens, revoked, users, conns, audit, begun, granted, clashed,
                   contested, lost>>

(* The sink is the host's: it may raise, and the change is not undone.     *)
EmitRaises(w) ==
    /\ run[w].step = "emit"
    /\ lost' = lost \cup {run[w].about}
    /\ Ends(w)
    /\ UNCHANGED <<counts, tokens, revoked, users, conns, audit, told, begun, granted,
                   clashed, contested>>

Step(w) ==
    \/ Begin(w)
    \/ HitReads(w) \/ HitWrites(w)
    \/ MintToken(w) \/ RefuseUserId(w) \/ RecordMint(w) \/ RevokeToken(w) \/ Serve(w)
    \/ ServeItem(w) \/ Respond(w)
    \/ LookUp(w) \/ Apply(w) \/ DeleterRaises(w) \/ Emit(w) \/ EmitRaises(w)

(* Bound: once requests are served, no more keys are issued or rotated     *)
(* than MaxServedKeys; they are still revoked, and time passes.            *)
Serving == begun > 0 /\ Cardinality(Issued) >= MaxServedKeys

Next ==
    \/ \E w \in Workers : Step(w) /\ UNCHANGED keyVars
    \/ KeyNext /\ (Issued' = Issued \/ ~Serving) /\ UNCHANGED shellVars

Spec == Init /\ [][Next]_vars

-----------------------------------------------------------------------------

(* However hits overlap, no stored count passes its limit, so no header    *)
(* says less than zero remaining; and as long as no two hits of a project  *)
(* overlap, what is stored is what was admitted in the current windows,    *)
(* all three of which roll at different instants (quota.py:96-131).        *)
QuotaKept ==
    \A p \in Projects, x \in Windows :
        /\ counts[p][x].n > 0 => counts[p][x].n <= Limit[x]
        /\ p \notin clashed => counts[p][x] = granted[p][x]

Announcing(c) == \E w \in Workers : run[w].step = "emit" /\ run[w].about = c

(* The events about a connection alternate, created first, and end with    *)
(* what is true of it, but for a request that has changed it and is about  *)
(* to emit.  Outside this are requests that overlap on one connection, a   *)
(* sink that raises and a deleter that raises after it deleted: the change *)
(* is not undone, and nobody is told (connections.py:106-168).             *)
EventsTellTheStory ==
    \A c \in Connection \ (contested \cup lost) :
        /\ \A i \in 1 .. Len(told[c]) :
               told[c][i] = IF i % 2 = 1 THEN "created" ELSE "deleted"
        /\ c \in conns <=> ~(Len(told[c]) % 2 = 1 <=> Announcing(c))

(* A batch pays one unit for each item it serves, and once an item met an  *)
(* exhausted quota no later one is served, even if a window rolls over in  *)
(* between; a response answers every item (sync.py:119-160).               *)
BatchPaysPerItem ==
    \A w \in Workers :
        run[w].step # "idle" /\ run[w].kind = "batch" =>
            LET r == run[w]
                served == {i \in DOMAIN r.answers : r.answers[i] = "served"}
            IN /\ served = 1 .. Cardinality(served)
               /\ r.paid = Cardinality(served) + (IF r.step = "work" THEN 1 ELSE 0)
               /\ r.step = "respond" => Len(r.answers) = BatchSize

=============================================================================
