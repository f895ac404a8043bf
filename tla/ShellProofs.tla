---------------------------- MODULE ShellProofs ----------------------------
(***************************************************************************)
(* Proofs about ApiKeys and Shell.  Keys: a rotation never widens what was *)
(* issued, and a key that has stopped authenticating never does again.     *)
(* The shell over them, for any number of workers, projects and            *)
(* connections and any limits: quota, events, batches and tokens under     *)
(* interleaved requests.                                                   *)
(***************************************************************************)
EXTENDS Shell, FiniteSetTheorems, TLAPS

-----------------------------------------------------------------------------
(* Keys by themselves (KeySpec). *)

(* NeverWidened compares an issued key with its root, so the induction also *)
(* carries that every issued key has one.                                  *)
KeyInv ==
    /\ KeyTypeOK
    /\ \A k \in Issued : root[k] \in ApiKey
    /\ NeverWidened

-----------------------------------------------------------------------------
(* The operators a step is built from.                                     *)

LEMMA MintedIsKey ==
    ASSUME NEW p \in Projects, NEW s \in SUBSET Scopes, NEW e \in Expiries
    PROVE  Minted(p, s, e) \in ApiKey /\ Minted(p, s, e) # None
BY NoneIsNoKey DEF Minted, ApiKey

(* A record of the store is a key when it has been issued.                 *)
LEMMA IssuedIsKey ==
    ASSUME KeyTypeOK, NEW k \in Issued
    PROVE  k \in KeyIds /\ keys[k] \in ApiKey /\ keys[k] # None
BY DEF KeyTypeOK, Issued

(* The overlap never gives a key more time than it had.                    *)
LEMMA OverlapShortens ==
    ASSUME KeyTypeOK, NEW old \in ApiKey, Alive(old), NEW overlap \in Nat
    PROVE  /\ OverlapExpiry(old, overlap) \in Nat
           /\ NoLater(OverlapExpiry(old, overlap), old.expires_at)
BY NeverIsNoInstant
   DEF OverlapExpiry, Alive, Expired, NoLater, KeyTypeOK, ApiKey, Expiries

LEMMA NoLaterTransitive ==
    ASSUME NEW d \in Expiries, NEW e \in Expiries, NEW f \in Expiries,
           NoLater(d, e), NoLater(e, f)
    PROVE  NoLater(d, f)
BY NeverIsNoInstant DEF NoLater, Expiries

LEMMA NoLaterReflexive ==
    ASSUME NEW e \in Expiries
    PROVE  NoLater(e, e)
BY NeverIsNoInstant DEF NoLater, Expiries

-----------------------------------------------------------------------------
(* The invariant.                                                          *)

LEMMA InitKeyInv == KeyInit => KeyInv
BY DEF KeyInit, KeyInv, KeyTypeOK, Issued, NeverWidened

LEMMA IssueKeepsInv ==
    ASSUME KeyInv, NEW p \in Projects, NEW k \in KeyIds, NEW s \in ScopeSets,
           NEW e \in (0 .. MaxNow) \cup {Never}, Issue(p, k, s, e)
    PROVE  KeyInv'
<1> DEFINE new == Minted(p, s, e)
<1>1. new \in ApiKey /\ new # None /\ e \in Expiries
    BY MintedIsKey, ScopeSetsAreScopes, ClockBound DEF Expiries
<1>2. KeyTypeOK /\ keys[k] = None
    BY DEF KeyInv, Issue, Fresh, Issued
<1>3. /\ keys' = [keys EXCEPT ![k] = new]
      /\ root' = [root EXCEPT ![k] = new]
      /\ now' = now
    BY DEF Issue
<1> HIDE DEF new
<1>4. KeyTypeOK'
    BY <1>1, <1>2, <1>3 DEF KeyTypeOK
<1>5. Issued' = Issued \cup {k}
    BY <1>1, <1>2, <1>3 DEF KeyTypeOK, Issued
<1>6. \A i \in Issued' : root'[i] \in ApiKey
    BY <1>1, <1>2, <1>3, <1>5 DEF KeyInv, KeyTypeOK, Issued
<1>7. ASSUME NEW i \in Issued'
      PROVE  /\ keys'[i].project_id = root'[i].project_id
             /\ keys'[i].scopes = root'[i].scopes
             /\ NoLater(keys'[i].expires_at, root'[i].expires_at)
    <2>1. CASE i = k
        <3>1. keys'[i] = new /\ root'[i] = new
            BY <1>2, <1>3, <2>1 DEF KeyTypeOK
        <3>2. NoLater(new.expires_at, new.expires_at)
            BY <1>1, NoLaterReflexive DEF ApiKey
        <3>. QED
            BY <3>1, <3>2
    <2>2. CASE i # k
        <3>1. i \in Issued /\ keys'[i] = keys[i] /\ root'[i] = root[i]
            BY <1>2, <1>3, <1>5, <2>2 DEF KeyTypeOK, Issued
        <3>. QED
            BY <3>1 DEF KeyInv, NeverWidened
    <2>. QED
        BY <2>1, <2>2
<1>8. NeverWidened'
    BY <1>7 DEF NeverWidened, NoLater
<1>. QED
    BY <1>4, <1>6, <1>8 DEF KeyInv

LEMMA RotateKeepsInv ==
    ASSUME KeyInv, NEW p \in Projects, NEW k \in KeyIds, NEW fresh \in KeyIds,
           NEW overlap \in 0 .. MaxOverlap, Rotate(p, k, overlap, fresh)
    PROVE  KeyInv'
<1> DEFINE new == Successor(keys[k], overlap)
           kept == [keys[k] EXCEPT !.expires_at = OverlapExpiry(keys[k], overlap)]
<1>1. KeyTypeOK /\ k \in Issued /\ keys[fresh] = None /\ Alive(keys[k]) /\ overlap \in Nat
    BY ClockBound DEF KeyInv, Rotate, Owned, Fresh, Issued
<1>2. keys[k] \in ApiKey /\ keys[k] # None /\ k # fresh /\ root[k] \in ApiKey
    BY <1>1, IssuedIsKey DEF KeyInv
<1>3. OverlapExpiry(keys[k], overlap) \in Nat /\
      NoLater(OverlapExpiry(keys[k], overlap), keys[k].expires_at)
    BY <1>1, <1>2, OverlapShortens
<1>4. new \in ApiKey /\ new.project_id = keys[k].project_id
      /\ new.scopes = keys[k].scopes /\ new.expires_at = keys[k].expires_at
    BY <1>2 DEF Successor, Minted, ApiKey
<1>5. kept \in ApiKey /\ kept.project_id = keys[k].project_id
      /\ kept.scopes = keys[k].scopes
      /\ kept.expires_at = OverlapExpiry(keys[k], overlap)
    BY <1>2, <1>3 DEF ApiKey, Expiries
<1>6. new # None /\ kept # None
    BY <1>4, <1>5, NoneIsNoKey
<1>7. /\ keys' = [keys EXCEPT ![fresh] = new, ![k] = kept]
      /\ root' = [root EXCEPT ![fresh] = root[k]]
      /\ now' = now
    BY <1>1, <1>2 DEF Rotate, KeyTypeOK
<1> HIDE DEF new, kept
<1>8. /\ keys'[fresh] = new /\ keys'[k] = kept
      /\ root'[fresh] = root[k] /\ root'[k] = root[k]
      /\ \A i \in KeyIds \ {k, fresh} : keys'[i] = keys[i] /\ root'[i] = root[i]
    BY <1>1, <1>2, <1>7 DEF KeyTypeOK
<1>9. KeyTypeOK'
    BY <1>1, <1>2, <1>4, <1>5, <1>7 DEF KeyTypeOK
<1>10. Issued' = Issued \cup {fresh}
    BY <1>1, <1>6, <1>8 DEF Issued
<1>11. \A i \in Issued' : root'[i] \in ApiKey
    BY <1>2, <1>8, <1>10 DEF KeyInv, Issued
<1>12. /\ keys[k].project_id = root[k].project_id
       /\ keys[k].scopes = root[k].scopes
       /\ NoLater(keys[k].expires_at, root[k].expires_at)
    BY <1>1 DEF KeyInv, NeverWidened
<1>13. NoLater(kept.expires_at, root[k].expires_at)
    BY <1>2, <1>3, <1>5, <1>12, NoLaterTransitive DEF ApiKey, Expiries
<1>14. ASSUME NEW i \in Issued'
       PROVE  /\ keys'[i].project_id = root'[i].project_id
              /\ keys'[i].scopes = root'[i].scopes
              /\ NoLater(keys'[i].expires_at, root'[i].expires_at)
    <2>1. CASE i = fresh
        BY <1>4, <1>8, <1>12, <2>1
    <2>2. CASE i = k
        BY <1>5, <1>8, <1>12, <1>13, <2>2
    <2>3. CASE i \notin {k, fresh}
        <3>1. i \in Issued /\ keys'[i] = keys[i] /\ root'[i] = root[i]
            BY <1>8, <1>10, <2>3 DEF Issued
        <3>. QED
            BY <3>1 DEF KeyInv, NeverWidened
    <2>. QED
        BY <2>1, <2>2, <2>3
<1>15. NeverWidened'
    BY <1>14 DEF NeverWidened, NoLater
<1>. QED
    BY <1>9, <1>11, <1>15 DEF KeyInv

LEMMA RevokeKeepsInv ==
    ASSUME KeyInv, NEW p \in Projects, NEW k \in KeyIds, Revoke(p, k)
    PROVE  KeyInv'
<1> DEFINE dead == [keys[k] EXCEPT !.revoked_at = now]
<1>1. KeyTypeOK /\ k \in Issued
    BY DEF KeyInv, Revoke, Owned, Issued
<1>2. keys[k] \in ApiKey
    BY <1>1, IssuedIsKey
<1>3. /\ dead \in ApiKey /\ dead.project_id = keys[k].project_id
      /\ dead.scopes = keys[k].scopes /\ dead.expires_at = keys[k].expires_at
    BY <1>1, <1>2 DEF ApiKey, KeyTypeOK
<1>4. keys' = [keys EXCEPT ![k] = dead] /\ root' = root /\ now' = now
    BY <1>1 DEF Revoke
<1>5. dead # None
    BY <1>3, NoneIsNoKey
<1> HIDE DEF dead
<1>6. KeyTypeOK'
    BY <1>1, <1>3, <1>4 DEF KeyTypeOK
<1>7. Issued' = Issued
    BY <1>1, <1>4, <1>5 DEF KeyTypeOK, Issued
<1>8. NeverWidened'
    BY <1>1, <1>3, <1>4, <1>7 DEF KeyInv, KeyTypeOK, NeverWidened, Issued, NoLater
<1>. QED
    BY <1>4, <1>6, <1>7, <1>8 DEF KeyInv

LEMMA KeyInvInductive == KeyInv /\ [KeyNext]_keyVars => KeyInv'
<1> SUFFICES ASSUME KeyInv, [KeyNext]_keyVars PROVE KeyInv'
    OBVIOUS
<1>1. CASE Administer
    BY <1>1, IssueKeepsInv, RotateKeepsInv, RevokeKeepsInv DEF Administer
<1>2. CASE Pass
    BY <1>2 DEF Pass, KeyInv, KeyTypeOK, Issued, NeverWidened, NoLater
<1>3. CASE UNCHANGED keyVars
    BY <1>3 DEF keyVars, KeyInv, KeyTypeOK, Issued, NeverWidened, NoLater
<1>. QED
    BY <1>1, <1>2, <1>3 DEF KeyNext

(* The store of keys stays typed and no key is ever wider than its root.   *)
THEOREM KeyInvHolds == KeySpec => []KeyInv
BY InitKeyInv, KeyInvInductive, PTL DEF KeySpec

(* Every record of the key store has the fields and types ApiKey declares, *)
(* whatever is issued, rotated or revoked.                                 *)
THEOREM KeysTyped == KeySpec => []KeyTypeOK
<1>1. KeyInv => KeyTypeOK
    BY DEF KeyInv
<1>. QED
    BY <1>1, KeyInvHolds, PTL

(* A key any number of rotations away from the issued one keeps its tenant *)
(* and scopes and expires no later.                                        *)
THEOREM RotationNeverWidens == KeySpec => []NeverWidened
<1>1. KeyInv => NeverWidened
    BY DEF KeyInv
<1>. QED
    BY <1>1, KeyInvHolds, PTL

-----------------------------------------------------------------------------
(* Dead keys. *)

LEMMA DeadKeyStaysDead ==
    ASSUME KeyInv, [KeyNext]_keyVars, NEW k \in Issued, ~Authenticates(k)
    PROVE  ~Authenticates(k)'
<1>1. KeyTypeOK /\ k \in KeyIds /\ keys[k] \in ApiKey /\ keys[k] # None
    BY IssuedIsKey DEF KeyInv
<1>2. ~Alive(keys[k])
    BY <1>1 DEF Authenticates
<1>3. now' \in Nat /\ now' >= now
    BY <1>1 DEF KeyNext, Administer, Issue, Rotate, Revoke, Pass, keyVars, KeyTypeOK
<1>4. CASE keys'[k] = keys[k]
    BY <1>1, <1>2, <1>3, <1>4
       DEF Authenticates, Alive, Expired, KeyTypeOK, ApiKey, Expiries
<1>5. CASE \E p \in Projects : Revoke(p, k)
    <2>1. keys'[k].revoked_at = now
        BY <1>1, <1>5 DEF Revoke, KeyTypeOK, ApiKey
    <2>. QED
        BY <1>1, <2>1, NoneIsNoInstant DEF Authenticates, Alive, KeyTypeOK
<1>6. ASSUME NEW p \in Projects, NEW i \in KeyIds, NEW s \in ScopeSets,
             NEW e \in (0 .. MaxNow) \cup {Never}, Issue(p, i, s, e)
      PROVE  keys'[k] = keys[k]
    BY <1>1, <1>6 DEF Issue, Fresh, Issued, KeyTypeOK
<1>7. ASSUME NEW p \in Projects, NEW i \in KeyIds, NEW fresh \in KeyIds,
             NEW overlap \in 0 .. MaxOverlap, Rotate(p, i, overlap, fresh)
      PROVE  keys'[k] = keys[k]
    <2>1. i # k /\ fresh # k
        BY <1>1, <1>2, <1>7 DEF Rotate, Fresh, Issued
    <2>. QED
        BY <1>1, <1>7, <2>1 DEF Rotate, KeyTypeOK
<1>8. ASSUME NEW p \in Projects, NEW i \in KeyIds, Revoke(p, i), i # k
      PROVE  keys'[k] = keys[k]
    BY <1>1, <1>8 DEF Revoke, KeyTypeOK
<1>9. CASE Pass \/ UNCHANGED keyVars
    BY <1>4, <1>9 DEF Pass, keyVars
<1>. QED
    BY <1>4, <1>5, <1>6, <1>7, <1>8, <1>9 DEF KeyNext, Administer

(* authenticate refuses for ever a key it has refused once.                *)
THEOREM DeadKeysStayDead == KeySpec => DeadStaysDead
<1>1. ASSUME KeyInv, [KeyNext]_keyVars
      PROVE  [\A k \in Issued : ~Authenticates(k) => ~Authenticates(k)']_keyVars
    BY <1>1, DeadKeyStaysDead
<1>. QED
    BY <1>1, KeyInvHolds, PTL DEF KeySpec, DeadStaysDead

-----------------------------------------------------------------------------
(* Requests (Spec). *)

(* What a request is about and the steps it may be in, by its kind.        *)
Fits(r, known, issued) ==
    /\ r.kind = "mint" => r.about \in [user : Users, scopes : SUBSET Scopes]
    /\ r.kind = "revoke" => r.about \in Jtis
    /\ r.kind = "read" => r.about \in Users
    /\ r.kind \in ChangeKinds => /\ r.about \in Connection
                                 /\ r.about.project_id = r.project_id
    /\ r.kind \in KeyKinds => r.key \in issued
    /\ r.step = "audit" => r.kind = "mint"
    /\ r.step \in {"apply", "emit"} => /\ r.kind \in ChangeKinds
                                       /\ r.about.user \in known[r.project_id]
    /\ r.answers # <<>> => r.kind = "batch"

Busy(w) == run[w].step # "idle"

RequestsFit == \A w \in Workers : Busy(w) => Fits(run[w], users, Issued)

(* What a hit has read was current when it read it, and below the limits;  *)
(* in a project whose hits do not overlap it is still what is stored.      *)
Current(w) ==
    \A x \in Windows : /\ run[w].read[x].key <= WindowKey(x)
                       /\ run[w].read[x].n < Limit[x]

Unspoilt(w, p) ==
    \A x \in Windows :
        /\ counts[p][x].key <= run[w].read[x].key
        /\ run[w].read[x].n = IF counts[p][x].key = run[w].read[x].key
                              THEN counts[p][x].n ELSE 0

QuotaInv ==
    /\ \A p \in Projects, x \in Windows :
           /\ counts[p][x].key <= WindowKey(x)
           /\ counts[p][x].n > 0 => counts[p][x].n <= Limit[x]
    /\ \A w \in Workers : run[w].step = "consume" => Current(w)
    /\ \A p \in Projects \ clashed :
           /\ counts[p] = granted[p]
           /\ \A v, w \in Hitting(p) : v = w
           /\ \A w \in Hitting(p) : Unspoilt(w, p)

(* A connection two requests never overlapped on has one request at a time. *)
About(w, c) == Busy(w) /\ run[w].about = c

AloneOn(c) == \A v, w \in Workers : About(v, c) /\ About(w, c) => v = w

(* The story of one connection, and what its request has found or done.    *)
Alternates(seq) ==
    \A i \in 1 .. Len(seq) : seq[i] = IF i % 2 = 1 THEN "created" ELSE "deleted"

ToldTruly(c) ==
    /\ Alternates(told[c])
    /\ c \in conns <=> ~(Len(told[c]) % 2 = 1 <=> Announcing(c))
    /\ \A w \in Workers : About(w, c) =>
           /\ run[w].step = "apply" => Permitted(run[w].kind, c)
           /\ run[w].step = "emit" => (c \in conns <=> run[w].kind = "create")

EventsInv ==
    /\ \A c \in Connection \ contested : AloneOn(c)
    /\ \A c \in Connection \ (contested \cup lost) : ToldTruly(c)

(* A batch's answers are as many served items as were paid for, and then   *)
(* refusals, which come all at once.                                       *)
ServedOf(r) == r.paid - (IF r.step = "work" THEN 1 ELSE 0)

BatchFits(r) ==
    /\ ServedOf(r) \in 0 .. Len(r.answers)
    /\ \A i \in 1 .. Len(r.answers) :
           r.answers[i] = IF i <= ServedOf(r) THEN "served" ELSE "refused"
    /\ IF r.step = "respond" THEN Len(r.answers) = BatchSize
       ELSE Len(r.answers) < BatchSize /\ ServedOf(r) = Len(r.answers)

BatchInv == \A w \in Workers : Busy(w) /\ run[w].kind = "batch" => BatchFits(run[w])

(* A request by key acts for the key's project, and only within its scopes: *)
(* a token has no scope that some key of its project does not have, and    *)
(* the audit log of a project names only its own keys (auth.py:150-205).   *)
WithinKeys(j) ==
    \E k \in Issued : /\ keys[k].project_id = tokens[j].project_id
                      /\ tokens[j].scopes \subseteq keys[k].scopes

TokensWithinKeys == \A j \in Jtis : tokens[j] # None => WithinKeys(j)

AuditNamesOwnKeys ==
    \A p \in Projects : \A i \in 1 .. Len(audit[p]) : keys[audit[p][i]].project_id = p

ActsFor(w) == run[w].kind \in KeyKinds => keys[run[w].key].project_id = run[w].project_id

MintInv ==
    /\ \A w \in Workers : Busy(w) => ActsFor(w)
    /\ TokensWithinKeys
    /\ AuditNamesOwnKeys

IInv ==
    /\ KeyInv
    /\ TypeOK
    /\ RequestsFit
    /\ QuotaInv
    /\ EventsInv
    /\ BatchInv
    /\ MintInv

-----------------------------------------------------------------------------
(* The record of a request.                                                *)

Steps == {"hit", "consume", "work", "apply", "emit", "audit", "respond"}

LEMMA IdleIsIdle == Idle.step = "idle" /\ Idle \notin Request
BY DEF Idle, Request

LEMMA BusyIsRequest ==
    ASSUME TypeOK, NEW w \in Workers, Busy(w)
    PROVE  run[w] \in Request
BY IdleIsIdle DEF TypeOK, Busy

LEMMA Stepped ==
    ASSUME NEW r \in Request, NEW s \in Steps
    PROVE  /\ [r EXCEPT !.step = s] \in Request
           /\ [r EXCEPT !.step = s].step = s
           /\ [r EXCEPT !.step = s].kind = r.kind
           /\ [r EXCEPT !.step = s].project_id = r.project_id
           /\ [r EXCEPT !.step = s].about = r.about
           /\ [r EXCEPT !.step = s].key = r.key
           /\ [r EXCEPT !.step = s].paid = r.paid
           /\ [r EXCEPT !.step = s].answers = r.answers
BY DEF Request, Steps

LEMMA NoHitsAreCounts == NoHits \in [Windows -> Count]
BY DEF NoHits, Count

LEMMA OneMoreIs ==
    ASSUME NEW c \in Count
    PROVE  OneMore(c) = [key |-> c.key, n |-> c.n + 1] /\ OneMore(c) \in Count
BY DEF OneMore, Count

LEMMA WindowKeyTyped ==
    ASSUME KeyTypeOK, NEW x \in Windows
    PROVE  /\ WindowKey(x) \in Nat
           /\ Span[x] \in Nat \ {0}
           /\ Limit[x] \in Int
<1>1. Span[x] \in Nat \ {0} /\ Limit[x] \in Int
    BY QuotaShape DEF Windows
<1>. QED
    BY <1>1 DEF KeyTypeOK, WindowKey

(* Windows only roll forward.                                              *)
LEMMA QuotientGrows ==
    ASSUME NEW a \in Nat, NEW b \in Nat, NEW c \in Nat \ {0}, a <= b
    PROVE  a \div c <= b \div c
<1>1. a \div c \in Nat /\ b \div c \in Nat
    OBVIOUS
<1>2. c * (a \div c) <= a /\ b < c * (b \div c) + c
    OBVIOUS
<1>3. ASSUME b \div c + 1 <= a \div c
      PROVE  FALSE
    <2>1. c * (b \div c + 1) <= c * (a \div c)
        BY <1>1, <1>3
    <2>2. c * (b \div c + 1) = c * (b \div c) + c
        BY <1>1
    <2>. QED
        BY <1>1, <1>2, <2>1, <2>2
<1>. QED
    BY <1>1, <1>3

LEMMA RolledCountsTyped ==
    ASSUME TypeOK, NEW p \in Projects
    PROVE  RolledCounts(p) \in [Windows -> Count]
<1>1. \A x \in Windows : WindowKey(x) \in Nat /\ counts[p][x] \in Count
    BY WindowKeyTyped DEF TypeOK
<1>. QED
    BY <1>1 DEF RolledCounts, Count

-----------------------------------------------------------------------------
(* Types.  A step moves one worker; the rest of a request's fitness only   *)
(* needs that users and keys are never forgotten.                          *)

LEMMA FitsStill ==
    ASSUME NEW r, NEW known, NEW more, NEW issued, NEW later,
           r.project_id \in Projects,
           \A p \in Projects : known[p] \subseteq more[p], issued \subseteq later,
           Fits(r, known, issued)
    PROVE  Fits(r, more, later)
BY DEF Fits

LEMMA MoveKeepsFit ==
    ASSUME TypeOK, RequestsFit, NEW w \in Workers, NEW q \in Request \cup {Idle},
           run' = [run EXCEPT ![w] = q],
           q.step # "idle" => Fits(q, users', Issued'),
           \A p \in Projects : users[p] \subseteq users'[p],
           Issued \subseteq Issued'
    PROVE  run' \in [Workers -> Request \cup {Idle}] /\ RequestsFit'
<1>1. run \in [Workers -> Request \cup {Idle}]
    BY DEF TypeOK
<1>2. run' \in [Workers -> Request \cup {Idle}]
    BY <1>1
<1>3. ASSUME NEW v \in Workers, run'[v].step # "idle"
      PROVE  Fits(run'[v], users', Issued')
    <2>1. CASE v = w
        BY <1>1, <1>3, <2>1
    <2>2. CASE v # w
        <3>1. run'[v] = run[v]
            BY <1>1, <2>2
        <3>2. run[v] \in Request /\ Fits(run[v], users, Issued)
            BY <1>3, <3>1, BusyIsRequest DEF RequestsFit, Busy
        <3>3. run[v].project_id \in Projects
            BY <3>2 DEF Request
        <3>. QED
            BY <3>1, <3>2, <3>3, FitsStill
    <2>. QED
        BY <2>1, <2>2
<1>. QED
    BY <1>2, <1>3 DEF RequestsFit, Busy

(* A worker that stops leaves nothing to fit.                              *)
LEMMA EndKeepsFit ==
    ASSUME TypeOK, RequestsFit, NEW w \in Workers, Ends(w),
           \A p \in Projects : users[p] \subseteq users'[p],
           Issued \subseteq Issued'
    PROVE  run' \in [Workers -> Request \cup {Idle}] /\ RequestsFit'
BY MoveKeepsFit, IdleIsIdle DEF Ends

(* A worker that goes on to a step its request may be in still fits.       *)
LEMMA GoKeepsFit ==
    ASSUME TypeOK, RequestsFit, NEW w \in Workers, Busy(w), NEW s \in Steps, Goes(w, s),
           s = "audit" => run[w].kind = "mint",
           s \in {"apply", "emit"} => /\ run[w].kind \in ChangeKinds
                                      /\ run[w].about.user \in users'[run[w].project_id],
           \A p \in Projects : users[p] \subseteq users'[p],
           Issued \subseteq Issued'
    PROVE  run' \in [Workers -> Request \cup {Idle}] /\ RequestsFit'
<1> DEFINE r == run[w]
           q == [r EXCEPT !.step = s]
<1>1. r \in Request /\ Fits(r, users, Issued)
    BY BusyIsRequest DEF RequestsFit
<1>2. /\ q \in Request /\ q.step = s /\ q.kind = r.kind /\ q.project_id = r.project_id
      /\ q.about = r.about /\ q.key = r.key /\ q.answers = r.answers
    BY <1>1, Stepped
<1>3. run' = [run EXCEPT ![w] = q]
    BY DEF Goes
<1>4. r.project_id \in Projects
    BY <1>1 DEF Request
<1>5. Fits(r, users', Issued')
    BY <1>1, <1>4, FitsStill
<1> HIDE DEF q
<1>6. Fits(q, users', Issued')
    BY <1>2, <1>5 DEF Fits
<1>. QED
    BY <1>2, <1>3, <1>6, MoveKeepsFit

LEMMA BeginKeepsTypes ==
    ASSUME TypeOK, RequestsFit, NEW w \in Workers, UNCHANGED keyVars,
           NEW kind \in KeyKinds \cup TokenKinds, NEW p \in Projects, NEW about,
           NEW key \in Issued \cup {None}, Begins(w, kind, p, about, key),
           kind = "mint" => about \in [user : Users, scopes : SUBSET Scopes],
           kind = "revoke" => about \in Jtis,
           kind = "read" => about \in Users,
           kind \in ChangeKinds => about \in Connection /\ about.project_id = p,
           kind \in {"admin", "batch"} => about = None,
           kind \in KeyKinds => key \in Issued
    PROVE  TypeOK' /\ RequestsFit'
<1> DEFINE q == [kind |-> kind, project_id |-> p, about |-> about, key |-> key,
                 step |-> "hit", read |-> NoHits, paid |-> 0, answers |-> <<>>]
<1>1. about \in [user : Users, scopes : SUBSET Scopes] \cup Jtis \cup Connection
               \cup Users \cup {None}
    BY DEF KeyKinds, TokenKinds, ChangeKinds
<1>2. key \in KeyIds \cup {None} /\ <<>> \in Seq({"served", "refused"})
    BY DEF Issued
<1>3. q \in Request
    BY <1>1, <1>2, NoHitsAreCounts DEF Request
<1>4. Issued' = Issued
    BY DEF keyVars, Issued
<1>5. q.step = "hit" /\ Fits(q, users', Issued')
    BY <1>4 DEF Fits
<1>6. run' = [run EXCEPT ![w] = q]
    BY DEF Begins
<1>7. \A x \in Projects : users[x] \subseteq users'[x]
    BY DEF Begins
<1> HIDE DEF q
<1>8. run' \in [Workers -> Request \cup {Idle}] /\ RequestsFit'
    BY <1>3, <1>4, <1>5, <1>6, <1>7, MoveKeepsFit
<1>9. begun' \in 0 .. MaxRequests
    BY RequestShape DEF Begins, TypeOK
<1>10. contested' \subseteq Connection
    BY DEF Begins, TypeOK
<1>. QED
    BY <1>4, <1>8, <1>9, <1>10 DEF Begins, TypeOK, KeyTypeOK, keyVars

(* A request begins with what its key or token names.                      *)
LEMMA BeginIsBegins ==
    ASSUME TypeOK, NEW w \in Workers, Begin(w)
    PROVE  \E kind \in KeyKinds \cup TokenKinds, p \in Projects, key \in Issued \cup {None},
              about \in [user : Users, scopes : SUBSET Scopes] \cup Jtis \cup Connection
                        \cup Users \cup {None} :
               /\ Begins(w, kind, p, about, key)
               /\ kind = "mint" => about \in [user : Users, scopes : SUBSET Scopes]
               /\ kind = "revoke" => about \in Jtis
               /\ kind = "read" => about \in Users
               /\ kind \in ChangeKinds => about \in Connection /\ about.project_id = p
               /\ kind \in {"admin", "batch"} => about = None
               /\ kind \in KeyKinds => key \in Issued
<1>1. \A k \in Issued : keys[k].project_id \in Projects
    BY DEF Issued, TypeOK, KeyTypeOK, ApiKey
<1>2. \A j \in Jtis : Verifies(j) => tokens[j].project_id \in Projects /\ tokens[j].user \in Users
    BY DEF Verifies, TypeOK, Token
<1>3. ASSUME NEW k \in Issued, NEW u \in Users, NEW asked \in ScopeSets,
             ByKey(w, "mint", k, [user |-> u, scopes |-> asked])
      PROVE  Begins(w, "mint", keys[k].project_id, [user |-> u, scopes |-> asked], k)
             /\ [user |-> u, scopes |-> asked] \in [user : Users, scopes : SUBSET Scopes]
    BY <1>3, ScopeSetsAreScopes DEF ByKey
<1>4. ASSUME NEW k \in Issued, NEW j \in Jtis, ByKey(w, "revoke", k, j)
      PROVE  Begins(w, "revoke", keys[k].project_id, j, k)
    BY <1>4 DEF ByKey
<1>5. ASSUME NEW k \in Issued, NEW kind \in {"admin", "batch"}, ByKey(w, kind, k, None)
      PROVE  Begins(w, kind, keys[k].project_id, None, k)
    BY <1>5 DEF ByKey
<1>6. ASSUME NEW j \in Jtis, Verifies(j), ByToken(w, "read", j, tokens[j].user)
      PROVE  Begins(w, "read", tokens[j].project_id, tokens[j].user, None)
    BY <1>6 DEF ByToken
<1>7. ASSUME NEW j \in Jtis, NEW kind \in ChangeKinds, NEW d \in Descriptors, Verifies(j),
             ByToken(w, kind, j, [project_id |-> tokens[j].project_id,
                                  user |-> tokens[j].user, descriptor |-> d])
      PROVE  /\ Begins(w, kind, tokens[j].project_id,
                       [project_id |-> tokens[j].project_id,
                        user |-> tokens[j].user, descriptor |-> d], None)
             /\ [project_id |-> tokens[j].project_id,
                 user |-> tokens[j].user, descriptor |-> d] \in Connection
    BY <1>2, <1>7 DEF ByToken, Connection
<1>8. CASE \E k \in Issued, u \in Users, asked \in ScopeSets :
               ByKey(w, "mint", k, [user |-> u, scopes |-> asked])
    BY <1>1, <1>3, <1>8 DEF KeyKinds, ChangeKinds
<1>9. CASE \E k \in Issued, j \in Jtis : ByKey(w, "revoke", k, j)
    BY <1>1, <1>4, <1>9 DEF KeyKinds, ChangeKinds
<1>10. CASE \E k \in Issued, kind \in {"admin", "batch"} : ByKey(w, kind, k, None)
    BY <1>1, <1>5, <1>10 DEF KeyKinds, ChangeKinds
<1>11. CASE \E j \in Jtis : Verifies(j) /\ ByToken(w, "read", j, tokens[j].user)
    BY <1>2, <1>6, <1>11 DEF KeyKinds, TokenKinds, ChangeKinds
<1>12. CASE \E j \in Jtis, kind \in ChangeKinds, d \in Descriptors :
                /\ Verifies(j)
                /\ ByToken(w, kind, j, [project_id |-> tokens[j].project_id,
                                        user |-> tokens[j].user, descriptor |-> d])
    <2>1. PICK j \in Jtis, kind \in ChangeKinds, d \in Descriptors :
                /\ Verifies(j)
                /\ ByToken(w, kind, j, [project_id |-> tokens[j].project_id,
                                        user |-> tokens[j].user, descriptor |-> d])
        BY <1>12
    <2> DEFINE c == [project_id |-> tokens[j].project_id,
                     user |-> tokens[j].user, descriptor |-> d]
    <2>2. /\ Begins(w, kind, tokens[j].project_id, c, None)
          /\ c \in Connection /\ c.project_id = tokens[j].project_id
        BY <1>7, <2>1
    <2> HIDE DEF c
    <2>. QED
        BY <1>2, <2>1, <2>2 DEF KeyKinds, TokenKinds, ChangeKinds
<1>. QED
    BY <1>8, <1>9, <1>10, <1>11, <1>12 DEF Begin

(* A hit that is let through goes on with the counts it read.              *)
LEMMA HitReadsKeepsTypes ==
    ASSUME TypeOK, RequestsFit, BatchInv, NEW w \in Workers, UNCHANGED keyVars, HitReads(w)
    PROVE  TypeOK' /\ RequestsFit'
<1> DEFINE r == run[w]
           read == RolledCounts(r.project_id)
           away == TurnedAway(r)
           on == [r EXCEPT !.read = read, !.step = "consume"]
<1>1. Busy(w) /\ r \in Request /\ r.project_id \in Projects /\ Fits(r, users, Issued)
    <2>1. Busy(w)
        BY DEF HitReads, Busy
    <2>. QED
        BY <2>1, BusyIsRequest DEF RequestsFit, Request
<1>2. Issued' = Issued /\ users' = users
    BY DEF keyVars, Issued, HitReads
<1>3. read \in [Windows -> Count]
    BY <1>1, RolledCountsTyped
<1>4. on \in Request /\ on.step = "consume" /\ Fits(on, users, Issued)
    <2> HIDE DEF read
    <2>1. /\ on \in Request /\ on.step = "consume" /\ on.kind = r.kind
          /\ on.project_id = r.project_id /\ on.about = r.about /\ on.key = r.key
          /\ on.answers = r.answers
        BY <1>1, <1>3 DEF Request
    <2> HIDE DEF on
    <2>. QED
        BY <1>1, <2>1 DEF Fits
<1>5. away \in Request \cup {Idle} /\ (away.step # "idle" => Fits(away, users, Issued))
    <2>1. CASE r.answers = <<>>
        BY <2>1, IdleIsIdle DEF TurnedAway
    <2>2. CASE r.answers # <<>>
        <3> DEFINE all == Refused(r)
        <3>1. r.kind = "batch" /\ r.step = "hit"
            BY <1>1, <2>2 DEF Fits, HitReads
        <3>2. r.answers \in Seq({"served", "refused"})
            BY <1>1 DEF Request
        <3>3. BatchSize - Len(r.answers) \in Nat
            BY <1>1, <3>1, <3>2, RequestShape DEF BatchInv, BatchFits
        <3>4. [i \in 1 .. BatchSize - Len(r.answers) |-> "refused"] \in Seq({"served", "refused"})
            BY <3>3
        <3>5. all \in Seq({"served", "refused"})
            BY <3>2, <3>4 DEF Refused
        <3> HIDE DEF all
        <3>6. away = [r EXCEPT !.answers = all, !.step = "respond"]
            BY <2>2 DEF TurnedAway, all
        <3>7. /\ [r EXCEPT !.answers = all, !.step = "respond"] \in Request
              /\ [r EXCEPT !.answers = all, !.step = "respond"].kind = r.kind
              /\ [r EXCEPT !.answers = all, !.step = "respond"].step = "respond"
              /\ [r EXCEPT !.answers = all, !.step = "respond"].key = r.key
            BY <1>1, <3>5 DEF Request
        <3> HIDE DEF away
        <3>8. away \in Request /\ away.kind = "batch" /\ away.step = "respond" /\ away.key = r.key
            BY <3>1, <3>6, <3>7
        <3>. QED
            BY <1>1, <3>1, <3>8 DEF Fits, ChangeKinds
    <2>. QED
        BY <2>1, <2>2
<1>6. \/ run' = [run EXCEPT ![w] = away] /\ clashed' = clashed
      \/ run' = [run EXCEPT ![w] = on] /\ clashed' \subseteq clashed \cup {r.project_id}
    BY DEF HitReads
<1> HIDE DEF away, on, read
<1>7. run' \in [Workers -> Request \cup {Idle}] /\ RequestsFit'
    BY <1>2, <1>4, <1>5, <1>6, MoveKeepsFit
<1>8. clashed' \subseteq Projects
    BY <1>1, <1>6 DEF TypeOK
<1>. QED
    BY <1>2, <1>7, <1>8 DEF HitReads, TypeOK, KeyTypeOK, keyVars

LEMMA HitWritesKeepsTypes ==
    ASSUME TypeOK, RequestsFit, NEW w \in Workers, UNCHANGED keyVars, HitWrites(w)
    PROVE  TypeOK' /\ RequestsFit'
<1> DEFINE r == run[w]
           q == [r EXCEPT !.step = "work", !.paid = r.paid + 1, !.read = NoHits]
<1>1. Busy(w) /\ r \in Request /\ r.project_id \in Projects /\ Fits(r, users, Issued)
    <2>1. Busy(w)
        BY DEF HitWrites, Busy
    <2>. QED
        BY <2>1, BusyIsRequest DEF RequestsFit, Request
<1>2. Issued' = Issued /\ users' = users
    BY DEF keyVars, Issued, HitWrites
<1>3. r.read \in [Windows -> Count] /\ r.paid \in Nat
    BY <1>1 DEF Request
<1>4. q \in Request
    <2>1. \A n \in Nat, read \in [Windows -> Count] :
              [r EXCEPT !.step = "work", !.paid = n, !.read = read] \in Request
        BY <1>1 DEF Request
    <2>2. r.paid + 1 \in Nat
        BY <1>3
    <2>. QED
        BY <2>1, <2>2, NoHitsAreCounts
<1>5. /\ q.step = "work" /\ q.kind = r.kind /\ q.project_id = r.project_id
      /\ q.about = r.about /\ q.key = r.key /\ q.answers = r.answers
    BY <1>1 DEF Request
<1>6. run' = [run EXCEPT ![w] = q]
    BY DEF HitWrites
<1> HIDE DEF q
<1>7. Fits(q, users, Issued)
    BY <1>1, <1>5 DEF Fits
<1>8. run' \in [Workers -> Request \cup {Idle}] /\ RequestsFit'
    BY <1>2, <1>4, <1>6, <1>7, MoveKeepsFit
<1>9. Consumed(r.read) \in [Windows -> Count]
    BY <1>3, OneMoreIs DEF Consumed
<1>10. Admitted(r.project_id, r.read) \in [Windows -> Count]
    <2>1. \A x \in Windows : granted[r.project_id][x] \in Count /\ r.read[x] \in Count
        BY <1>1, <1>3 DEF TypeOK
    <2>2. \A x \in Windows :
              /\ OneMore(granted[r.project_id][x]) \in Count
              /\ [key |-> r.read[x].key, n |-> 1] \in Count
        BY <2>1, OneMoreIs DEF Count
    <2>. QED
        BY <2>1, <2>2 DEF Admitted
<1>11. /\ counts' = [counts EXCEPT ![r.project_id] = Consumed(r.read)]
       /\ granted' = [granted EXCEPT ![r.project_id] = Admitted(r.project_id, r.read)]
    BY DEF HitWrites
<1>12. /\ counts' \in [Projects -> [Windows -> Count]]
       /\ granted' \in [Projects -> [Windows -> Count]]
    BY <1>9, <1>10, <1>11 DEF TypeOK
<1>. QED
    BY <1>2, <1>8, <1>12 DEF HitWrites, TypeOK, KeyTypeOK, keyVars

LEMMA WithUserGrows ==
    ASSUME TypeOK, NEW p \in Projects, NEW u \in Users
    PROVE  /\ WithUser(p, u) \in [Projects -> SUBSET Users]
           /\ \A q \in Projects : users[q] \subseteq WithUser(p, u)[q]
           /\ u \in WithUser(p, u)[p]
BY DEF WithUser, TypeOK

(* What every step that is not a hit knows of its request.                 *)
LEMMA AtWork ==
    ASSUME TypeOK, RequestsFit, NEW w \in Workers, Busy(w), UNCHANGED keyVars
    PROVE  /\ run[w] \in Request /\ run[w].project_id \in Projects
           /\ Fits(run[w], users, Issued) /\ Issued' = Issued
BY BusyIsRequest DEF RequestsFit, Request, keyVars, Issued

LEMMA ConnectionsKnown ==
    ASSUME TypeOK, users' \in [Projects -> SUBSET Users],
           \A p \in Projects : users[p] \subseteq users'[p], conns' = conns
    PROVE  conns' \subseteq {c \in Connection : c.user \in users'[c.project_id]}
BY DEF TypeOK, Connection

LEMMA MintKeepsTypes ==
    ASSUME TypeOK, RequestsFit, NEW w \in Workers, UNCHANGED keyVars, MintToken(w)
    PROVE  TypeOK' /\ RequestsFit'
<1> DEFINE r == run[w]
<1>1. Busy(w) /\ r.kind = "mint"
    BY DEF MintToken, Working, Busy
<1>2. /\ r \in Request /\ r.project_id \in Projects /\ Issued' = Issued
      /\ r.about \in [user : Users, scopes : SUBSET Scopes]
    BY <1>1, AtWork DEF Fits
<1>3. CASE Ends(w) /\ UNCHANGED <<tokens, users>>
    <2>1. run' \in [Workers -> Request \cup {Idle}] /\ RequestsFit'
        BY <1>2, <1>3, EndKeepsFit
    <2>. QED
        BY <1>2, <1>3, <2>1 DEF MintToken, TypeOK, KeyTypeOK, keyVars
<1>4. ASSUME NEW j \in Jtis, tokens[j] = None,
             tokens' = [tokens EXCEPT ![j] =
                 [project_id |-> r.project_id, user |-> r.about.user,
                  scopes |-> r.about.scopes, exp |-> now + Ttl]],
             users' = WithUser(r.project_id, r.about.user), Goes(w, "audit")
      PROVE  TypeOK' /\ RequestsFit'
    <2>1. /\ users' \in [Projects -> SUBSET Users]
          /\ \A q \in Projects : users[q] \subseteq users'[q]
        BY <1>2, <1>4, WithUserGrows
    <2>2. run' \in [Workers -> Request \cup {Idle}] /\ RequestsFit'
        <3>1. "audit" \in Steps
            BY DEF Steps
        <3>. QED
            BY <1>1, <1>2, <1>4, <2>1, <3>1, GoKeepsFit
    <2>3. [project_id |-> r.project_id, user |-> r.about.user,
           scopes |-> r.about.scopes, exp |-> now + Ttl] \in Token
        BY <1>2, RequestShape DEF Token, TypeOK, KeyTypeOK
    <2>4. /\ tokens' \in [Jtis -> Token \cup {None}]
          /\ revoked \subseteq {i \in Jtis : tokens'[i] # None}
        BY <1>4, <2>3 DEF TypeOK
    <2>5. conns' \subseteq {c \in Connection : c.user \in users'[c.project_id]}
        BY <2>1, ConnectionsKnown DEF MintToken
    <2>. QED
        BY <1>2, <2>1, <2>2, <2>4, <2>5 DEF MintToken, TypeOK, KeyTypeOK, keyVars
<1>5. \/ Ends(w) /\ UNCHANGED <<tokens, users>>
      \/ \E j \in Jtis :
             /\ tokens[j] = None
             /\ tokens' = [tokens EXCEPT ![j] =
                    [project_id |-> r.project_id, user |-> r.about.user,
                     scopes |-> r.about.scopes, exp |-> now + Ttl]]
             /\ users' = WithUser(r.project_id, r.about.user)
             /\ Goes(w, "audit")
    BY DEF MintToken
<1>. QED
    BY <1>3, <1>4, <1>5

(* Steps after which the worker is free and only one store has changed.    *)
LEMMA ClosingKeepsTypes ==
    ASSUME TypeOK, RequestsFit, NEW w \in Workers, UNCHANGED keyVars,
           \/ RefuseUserId(w) \/ RecordMint(w) \/ RevokeToken(w) \/ Serve(w)
           \/ Respond(w) \/ DeleterRaises(w) \/ Emit(w) \/ EmitRaises(w)
    PROVE  TypeOK' /\ RequestsFit'
<1> DEFINE r == run[w]
<1>1. Busy(w) /\ Ends(w)
    BY DEF RefuseUserId, RecordMint, RevokeToken, Serve, Respond, DeleterRaises, Emit,
           EmitRaises, Working, Busy
<1>2. /\ r \in Request /\ r.project_id \in Projects /\ Issued' = Issued
      /\ Fits(r, users, Issued)
    BY <1>1, AtWork
<1>3. /\ users' \in [Projects -> SUBSET Users]
      /\ \A q \in Projects : users[q] \subseteq users'[q]
    <2>1. CASE users' = users
        BY <2>1 DEF TypeOK
    <2>2. CASE Serve(w) /\ r.kind = "read"
        BY <1>2, <2>2, WithUserGrows DEF Serve, Fits
    <2>. QED
        BY <2>1, <2>2 DEF RefuseUserId, RecordMint, RevokeToken, Serve, Respond,
           DeleterRaises, Emit, EmitRaises
<1>4. run' \in [Workers -> Request \cup {Idle}] /\ RequestsFit'
    BY <1>1, <1>2, <1>3, EndKeepsFit
<1>5. CASE RecordMint(w)
    <2>1. r.key \in Issued /\ audit' = [audit EXCEPT ![r.project_id] = Append(@, r.key)]
        BY <1>2, <1>5 DEF RecordMint, Fits, KeyKinds
    <2>2. \A p \in Projects : audit'[p] \in Seq(Issued')
        <3>1. TAKE p \in Projects
        <3>2. audit[p] \in Seq(Issued)
            BY DEF TypeOK
        <3>3. CASE audit'[p] = audit[p]
            BY <1>2, <3>2, <3>3
        <3>4. CASE audit'[p] = Append(audit[p], r.key)
            BY <1>2, <2>1, <3>2, <3>4
        <3>. QED
            BY <2>1, <3>3, <3>4
    <2>. QED
        BY <1>2, <1>4, <1>5, <2>2 DEF RecordMint, TypeOK, KeyTypeOK, keyVars
<1>6. CASE RevokeToken(w)
    BY <1>2, <1>4, <1>6 DEF RevokeToken, Working, Fits, Revocable, TypeOK, KeyTypeOK, keyVars
<1>7. CASE Serve(w)
    <2>1. conns' \subseteq {c \in Connection : c.user \in users'[c.project_id]}
        BY <1>3, <1>7, ConnectionsKnown DEF Serve
    <2>. QED
        BY <1>2, <1>3, <1>4, <1>7, <2>1 DEF Serve, TypeOK, KeyTypeOK, keyVars
<1>8. CASE Respond(w)
    BY <1>2, <1>4, <1>8 DEF Respond, TypeOK, KeyTypeOK, keyVars
<1>9. CASE Emit(w)
    <2>1. r.about \in Connection
        BY <1>2, <1>9 DEF Emit, Fits
    <2>2. told[r.about] \in Seq({"created", "deleted"})
        BY <2>1 DEF TypeOK
    <2>3. Append(told[r.about], IF r.kind = "create" THEN "created" ELSE "deleted")
              \in Seq({"created", "deleted"})
        BY <2>2
    <2>4. told' \in [Connection -> Seq({"created", "deleted"})]
        BY <1>9, <2>1, <2>3 DEF Emit, TypeOK
    <2>. QED
        BY <1>2, <1>4, <1>9, <2>4 DEF Emit, TypeOK, KeyTypeOK, keyVars
<1>10. CASE EmitRaises(w)
    <2>1. r.about \in Connection
        BY <1>2, <1>10 DEF EmitRaises, Fits
    <2>. QED
        BY <1>2, <1>4, <1>10, <2>1 DEF EmitRaises, TypeOK, KeyTypeOK, keyVars
<1>11. CASE RefuseUserId(w)
    BY <1>2, <1>4, <1>11 DEF RefuseUserId, TypeOK, KeyTypeOK, keyVars
<1>12. CASE DeleterRaises(w)
    <2>1. r.about \in Connection
        BY <1>2, <1>12 DEF DeleterRaises, Fits
    <2>2. conns' \subseteq conns /\ lost' \subseteq Connection
        BY <1>12, <2>1 DEF DeleterRaises, TypeOK
    <2>. QED
        BY <1>2, <1>4, <1>12, <2>2 DEF DeleterRaises, TypeOK, KeyTypeOK, keyVars
<1>. QED
    BY <1>5, <1>6, <1>7, <1>8, <1>9, <1>10, <1>11, <1>12

LEMMA ServeItemKeepsTypes ==
    ASSUME TypeOK, RequestsFit, NEW w \in Workers, UNCHANGED keyVars, ServeItem(w)
    PROVE  TypeOK' /\ RequestsFit'
<1> DEFINE r == run[w]
           next == IF Len(r.answers) + 1 = BatchSize THEN "respond" ELSE "hit"
           more == Append(r.answers, "served")
           q == [r EXCEPT !.answers = more, !.step = next]
<1>1. Busy(w) /\ r.kind = "batch"
    BY DEF ServeItem, Working, Busy
<1>2. r \in Request /\ Issued' = Issued /\ Fits(r, users, Issued)
    BY <1>1, AtWork
<1>3. more \in Seq({"served", "refused"}) /\ next \in {"respond", "hit"}
    BY <1>2 DEF Request
<1>4. run' = [run EXCEPT ![w] = q]
    BY <1>2 DEF ServeItem, TypeOK
<1> HIDE DEF more, next
<1>5. /\ q \in Request /\ q.step = next /\ q.kind = r.kind /\ q.key = r.key
    BY <1>2, <1>3 DEF Request
<1> HIDE DEF q
<1>6. Fits(q, users, Issued)
    BY <1>1, <1>2, <1>3, <1>5 DEF Fits, ChangeKinds
<1>7. users' = users
    BY DEF ServeItem
<1>8. run' \in [Workers -> Request \cup {Idle}] /\ RequestsFit'
    BY <1>2, <1>4, <1>5, <1>6, <1>7, MoveKeepsFit
<1>. QED
    BY <1>2, <1>8 DEF ServeItem, TypeOK, KeyTypeOK, keyVars

LEMMA LookUpKeepsTypes ==
    ASSUME TypeOK, RequestsFit, NEW w \in Workers, UNCHANGED keyVars, LookUp(w)
    PROVE  TypeOK' /\ RequestsFit'
<1> DEFINE r == run[w]
<1>1. Busy(w) /\ r.kind \in ChangeKinds
    BY DEF LookUp, Working, Busy
<1>2. /\ r \in Request /\ r.project_id \in Projects /\ Issued' = Issued
      /\ r.about \in Connection /\ r.about.user \in Users
    BY <1>1, AtWork DEF Fits, Connection
<1>3. /\ users' \in [Projects -> SUBSET Users]
      /\ \A q \in Projects : users[q] \subseteq users'[q]
      /\ r.about.user \in users'[r.project_id]
    BY <1>2, WithUserGrows DEF LookUp
<1>4. run' \in [Workers -> Request \cup {Idle}] /\ RequestsFit'
    <2>1. CASE Goes(w, "apply")
        <3>1. "apply" \in Steps
            BY DEF Steps
        <3>. QED
            BY <1>1, <1>2, <1>3, <2>1, <3>1, GoKeepsFit
    <2>2. CASE Ends(w)
        BY <1>2, <1>3, <2>2, EndKeepsFit
    <2>. QED
        BY <2>1, <2>2 DEF LookUp
<1>5. conns' \subseteq {c \in Connection : c.user \in users'[c.project_id]}
    BY <1>3, ConnectionsKnown DEF LookUp
<1>. QED
    BY <1>2, <1>3, <1>4, <1>5 DEF LookUp, TypeOK, KeyTypeOK, keyVars

LEMMA ApplyKeepsTypes ==
    ASSUME TypeOK, RequestsFit, NEW w \in Workers, UNCHANGED keyVars, Apply(w)
    PROVE  TypeOK' /\ RequestsFit'
<1> DEFINE r == run[w]
<1>1. Busy(w) /\ r.step = "apply"
    BY DEF Apply, Busy
<1>2. /\ r \in Request /\ Issued' = Issued /\ r.kind \in ChangeKinds
      /\ r.about \in Connection /\ r.about.project_id = r.project_id
      /\ r.about.user \in users[r.project_id]
    BY <1>1, AtWork DEF Fits
<1>3. run' \in [Workers -> Request \cup {Idle}] /\ RequestsFit'
    <2>1. "emit" \in Steps /\ users' = users /\ Goes(w, "emit")
        BY DEF Steps, Apply
    <2>. QED
        BY <1>1, <1>2, <2>1, GoKeepsFit
<1>4. conns' \subseteq {c \in Connection : c.user \in users'[c.project_id]}
    BY <1>2 DEF Apply, TypeOK
<1>. QED
    BY <1>2, <1>3, <1>4 DEF Apply, TypeOK, KeyTypeOK, keyVars

-----------------------------------------------------------------------------
(* Keys: what a step of the host may do to what requests rely on.          *)

LEMMA KeysRemembered ==
    ASSUME KeyInv, [KeyNext]_keyVars
    PROVE  /\ Issued \subseteq Issued'
           /\ now' \in Nat /\ now <= now'
           /\ \A k \in Issued : /\ keys'[k].project_id = keys[k].project_id
                                /\ keys'[k].scopes = keys[k].scopes
<1>1. KeyTypeOK /\ \A k \in Issued : k \in KeyIds /\ keys[k] \in ApiKey /\ keys[k] # None
    BY IssuedIsKey DEF KeyInv
<1>2. now' \in Nat /\ now <= now'
    BY <1>1 DEF KeyNext, Administer, Issue, Rotate, Revoke, Pass, keyVars, KeyTypeOK
<1>3. ASSUME NEW p \in Projects, NEW i \in KeyIds, NEW s \in ScopeSets,
             NEW e \in (0 .. MaxNow) \cup {Never}, Issue(p, i, s, e)
      PROVE  \A k \in Issued : keys'[k] = keys[k]
    BY <1>1, <1>3 DEF Issue, Fresh, Issued, KeyTypeOK
<1>4. ASSUME NEW p \in Projects, NEW i \in KeyIds, NEW fresh \in KeyIds,
             NEW overlap \in 0 .. MaxOverlap, Rotate(p, i, overlap, fresh)
      PROVE  \A k \in Issued :
                 \/ keys'[k] = keys[k]
                 \/ \E e \in Expiries : keys'[k] = [keys[k] EXCEPT !.expires_at = e]
    <2>1. i \in Issued /\ Alive(keys[i]) /\ overlap \in Nat
        BY <1>4, ClockBound DEF Rotate, Owned, Issued
    <2>2. OverlapExpiry(keys[i], overlap) \in Expiries
        BY <1>1, <2>1, OverlapShortens DEF Expiries
    <2>. QED
        BY <1>1, <1>4, <2>1, <2>2 DEF Rotate, Fresh, Issued, KeyTypeOK
<1>5. ASSUME NEW p \in Projects, NEW i \in KeyIds, Revoke(p, i)
      PROVE  \A k \in Issued : \/ keys'[k] = keys[k]
                               \/ keys'[k] = [keys[k] EXCEPT !.revoked_at = now]
    BY <1>1, <1>5 DEF Revoke, KeyTypeOK
<1>6. \A k \in Issued : \/ keys'[k] = keys[k]
                        \/ \E e \in Expiries : keys'[k] = [keys[k] EXCEPT !.expires_at = e]
                        \/ keys'[k] = [keys[k] EXCEPT !.revoked_at = now]
    BY <1>3, <1>4, <1>5 DEF KeyNext, Administer, Pass, keyVars
<1>7. ASSUME NEW k \in Issued
      PROVE  /\ keys'[k].project_id = keys[k].project_id
             /\ keys'[k].scopes = keys[k].scopes
             /\ keys'[k] # None
    <2>1. /\ \A e \in Expiries : [keys[k] EXCEPT !.expires_at = e] \in ApiKey
          /\ [keys[k] EXCEPT !.revoked_at = now] \in ApiKey
        BY <1>1, <1>7 DEF ApiKey, KeyTypeOK
    <2>2. keys'[k] # None
        BY <1>1, <1>6, <2>1, NoneIsNoKey
    <2>. QED
        BY <1>1, <1>6, <2>2 DEF ApiKey
<1>. QED
    BY <1>1, <1>2, <1>7 DEF Issued

LEMMA KeyStepKeepsTypes ==
    ASSUME KeyInv, TypeOK, RequestsFit, [KeyNext]_keyVars, UNCHANGED shellVars
    PROVE  TypeOK' /\ RequestsFit'
<1>1. Issued \subseteq Issued' /\ KeyTypeOK'
    BY KeysRemembered, KeyInvInductive DEF KeyInv
<1>2. users' = users /\ run' = run
    BY DEF shellVars
<1>3. RequestsFit'
    <2>1. ASSUME NEW v \in Workers, run[v].step # "idle"
          PROVE  Fits(run[v], users, Issued')
        <3>1. run[v] \in Request /\ Fits(run[v], users, Issued)
            BY <2>1, BusyIsRequest DEF RequestsFit, Busy
        <3>2. run[v].project_id \in Projects
            BY <3>1 DEF Request
        <3>. QED
            BY <1>1, <3>1, <3>2, FitsStill
    <2>. QED
        BY <1>2, <2>1 DEF RequestsFit, Busy
<1>4. \A p \in Projects : audit[p] \in Seq(Issued')
    <2>1. \A p \in Projects : audit[p] \in Seq(Issued)
        BY DEF TypeOK
    <2>2. Seq(Issued) \subseteq Seq(Issued')
        BY <1>1
    <2>. QED
        BY <2>1, <2>2
<1>. QED
    BY <1>1, <1>3, <1>4 DEF TypeOK, shellVars

-----------------------------------------------------------------------------
(* Quota.                                                                  *)

(* A step is one worker's, and only a hit that reads comes to consume.     *)
LEMMA OthersStay ==
    ASSUME TypeOK, NEW w \in Workers, Step(w), NEW v \in Workers, v # w
    PROVE  run'[v] = run[v]
BY DEF Step, Begin, ByKey, ByToken, Begins, HitReads, HitWrites, MintToken, RecordMint,
       RevokeToken, Serve, ServeItem, Respond, LookUp, Apply, Emit, EmitRaises, Ends, Goes,
       RefuseUserId, DeleterRaises, TypeOK

LEMMA StepAfter ==
    ASSUME TypeOK, RequestsFit, NEW w \in Workers, Step(w)
    PROVE  /\ Begin(w) => run'[w].step = "hit"
           /\ HitWrites(w) => run'[w].step = "work"
           /\ MintToken(w) => run'[w].step \in {"audit", "idle"}
           /\ ServeItem(w) => run'[w].step \in {"respond", "hit"}
           /\ LookUp(w) => run'[w].step \in {"apply", "idle"}
           /\ Apply(w) => run'[w].step = "emit"
           /\ \/ RefuseUserId(w) \/ RecordMint(w) \/ RevokeToken(w) \/ Serve(w)
              \/ Respond(w) \/ DeleterRaises(w) \/ Emit(w) \/ EmitRaises(w)
              => run'[w] = Idle
<1>1. run \in [Workers -> Request \cup {Idle}]
    BY DEF TypeOK
<1>2. Ends(w) => run'[w] = Idle /\ run'[w].step = "idle"
    BY <1>1, IdleIsIdle DEF Ends
<1>3. ASSUME NEW s \in Steps, Busy(w), Goes(w, s)
      PROVE  run'[w].step = s
    <2>1. [run[w] EXCEPT !.step = s].step = s
        BY <1>3, BusyIsRequest, Stepped
    <2>. QED
        BY <1>1, <1>3, <2>1 DEF Goes
<1>4. Begin(w) => run'[w].step = "hit"
    <2>1. \A kind, p, about, key : Begins(w, kind, p, about, key) => run'[w].step = "hit"
        BY <1>1 DEF Begins
    <2>. QED
        BY <2>1, BeginIsBegins
<1>5. ASSUME HitWrites(w) PROVE run'[w].step = "work"
    <2>1. run[w] \in Request
        BY <1>5, BusyIsRequest DEF HitWrites, Busy
    <2>. QED
        BY <1>1, <1>5, <2>1 DEF HitWrites, Request
<1>6. ASSUME ServeItem(w) PROVE run'[w].step \in {"respond", "hit"}
    <2>1. run[w] \in Request
        BY <1>6, BusyIsRequest DEF ServeItem, Working, Busy
    <2>. QED
        BY <1>1, <1>6, <2>1 DEF ServeItem, Request
<1>7. MintToken(w) => run'[w].step \in {"audit", "idle"}
    BY <1>2, <1>3 DEF MintToken, Working, Busy, Steps
<1>8. LookUp(w) => run'[w].step \in {"apply", "idle"}
    BY <1>2, <1>3 DEF LookUp, Working, Busy, Steps
<1>9. Apply(w) => run'[w].step = "emit"
    BY <1>3 DEF Apply, Busy, Steps
<1>10. \/ RefuseUserId(w) \/ RecordMint(w) \/ RevokeToken(w) \/ Serve(w)
       \/ Respond(w) \/ DeleterRaises(w) \/ Emit(w) \/ EmitRaises(w)
       => run'[w] = Idle
    BY <1>2 DEF RefuseUserId, RecordMint, RevokeToken, Serve, Respond, DeleterRaises, Emit,
                EmitRaises
<1>. QED
    BY <1>4, <1>5, <1>6, <1>7, <1>8, <1>9, <1>10

LEMMA NoHitKeepsQuota ==
    ASSUME TypeOK, QuotaInv, NEW w \in Workers, Step(w), UNCHANGED keyVars,
           UNCHANGED <<counts, granted, clashed>>, run'[w].step # "consume"
    PROVE  QuotaInv'
<1>1. \A v \in Workers : run'[v].step = "consume" => v # w /\ run'[v] = run[v]
    BY OthersStay
<1>2. \A x \in Windows : WindowKey(x)' = WindowKey(x)
    BY DEF WindowKey, keyVars
<1>3. \A p \in Projects : Hitting(p)' \subseteq Hitting(p)
    BY <1>1 DEF Hitting
<1>4. \A p \in Projects : \A v \in Hitting(p)' : run'[v] = run[v]
    BY <1>1 DEF Hitting
<1>. QED
    BY <1>1, <1>2, <1>3, <1>4 DEF QuotaInv, Current, Unspoilt

LEMMA HitReadsAfter ==
    ASSUME TypeOK, NEW w \in Workers, HitReads(w)
    PROVE  \/ /\ run'[w] = TurnedAway(run[w])
              /\ run'[w].step \in {"idle", "respond"}
              /\ clashed' = clashed
           \/ /\ ~Exceeded(RolledCounts(run[w].project_id))
              /\ run'[w].read = RolledCounts(run[w].project_id)
              /\ run'[w].step = "consume"
              /\ run'[w].kind = run[w].kind
              /\ run'[w].project_id = run[w].project_id
              /\ run'[w].about = run[w].about
              /\ run'[w].key = run[w].key
              /\ run'[w].paid = run[w].paid
              /\ run'[w].answers = run[w].answers
              /\ clashed' = IF Hitting(run[w].project_id) = {}
                            THEN clashed ELSE clashed \cup {run[w].project_id}
<1> DEFINE r == run[w]
           read == RolledCounts(r.project_id)
           on == [r EXCEPT !.read = read, !.step = "consume"]
<1>1. r \in Request /\ run \in [Workers -> Request \cup {Idle}]
    BY BusyIsRequest DEF HitReads, Busy, TypeOK
<1>2. CASE Exceeded(read)
    <2>1. run'[w] = TurnedAway(r) /\ clashed' = clashed
        BY <1>1, <1>2 DEF HitReads
    <2>2. TurnedAway(r).step \in {"idle", "respond"}
        <3>1. CASE r.answers = <<>>
            BY <3>1, IdleIsIdle DEF TurnedAway
        <3>2. CASE r.answers # <<>>
            <4>1. \A all : [r EXCEPT !.answers = all, !.step = "respond"].step = "respond"
                BY <1>1 DEF Request
            <4>. QED
                BY <3>2, <4>1 DEF TurnedAway
        <3>. QED
            BY <3>1, <3>2
    <2>. QED
        BY <2>1, <2>2
<1>3. CASE ~Exceeded(read)
    <2>1. run' = [run EXCEPT ![w] = on]
        BY <1>1, <1>3 DEF HitReads
    <2>2. clashed' = IF Hitting(r.project_id) = {} THEN clashed ELSE clashed \cup {r.project_id}
        BY <1>3 DEF HitReads
    <2> HIDE DEF read
    <2>3. /\ on.read = read /\ on.step = "consume" /\ on.kind = r.kind
          /\ on.project_id = r.project_id /\ on.about = r.about /\ on.key = r.key
          /\ on.paid = r.paid /\ on.answers = r.answers
        BY <1>1 DEF Request
    <2>4. run'[w] = on
        BY <1>1, <2>1
    <2> HIDE DEF on
    <2>. QED
        BY <1>3, <2>2, <2>3, <2>4 DEF read
<1>. QED
    BY <1>2, <1>3

LEMMA HitReadsKeepsQuota ==
    ASSUME TypeOK, QuotaInv, NEW w \in Workers, UNCHANGED keyVars, HitReads(w)
    PROVE  QuotaInv'
<1> DEFINE r == run[w]
           p == r.project_id
           read == RolledCounts(p)
<1>1. Step(w) /\ r \in Request /\ p \in Projects /\ r.step = "hit"
    <2>1. r \in Request
        BY BusyIsRequest DEF HitReads, Busy
    <2>. QED
        BY <2>1 DEF HitReads, Step, Request
<1>2. CASE run'[w].step \in {"idle", "respond"} /\ clashed' = clashed
    <2>1. UNCHANGED <<counts, granted, clashed>> /\ run'[w].step # "consume"
        BY <1>2 DEF HitReads
    <2>. QED
        BY <1>1, <2>1, NoHitKeepsQuota
<1>3. CASE /\ ~Exceeded(read) /\ run'[w].read = read /\ run'[w].step = "consume"
           /\ run'[w].project_id = p
           /\ clashed' = IF Hitting(p) = {} THEN clashed ELSE clashed \cup {p}
    <2>1. \A v \in Workers : v # w => run'[v] = run[v]
        BY <1>1, OthersStay
    <2>2. \A x \in Windows : /\ WindowKey(x)' = WindowKey(x)
                             /\ WindowKey(x) \in Nat /\ Limit[x] \in Int
        BY WindowKeyTyped DEF WindowKey, keyVars, TypeOK
    <2>3. UNCHANGED <<counts, granted>>
        BY DEF HitReads
    <2>4. \A x \in Windows :
              /\ read[x].key = WindowKey(x)
              /\ read[x].n = IF counts[p][x].key = WindowKey(x) THEN counts[p][x].n ELSE 0
        BY DEF RolledCounts
    <2>5. \A x \in Windows : read[x] \in Count /\ read[x].n < Limit[x]
        BY <1>1, <1>3, <2>2, RolledCountsTyped DEF Exceeded, Count
    <2> HIDE DEF read
    <2>6. \A v \in Workers : run'[v].step = "consume" => Current(v)'
        <3>1. TAKE v \in Workers
        <3>2. CASE v = w
            BY <1>3, <2>2, <2>4, <2>5, <3>2 DEF Current, Count
        <3>3. CASE v # w
            BY <2>1, <2>2, <3>3 DEF Current, QuotaInv
        <3>. QED
            BY <3>2, <3>3
    <2>7. ASSUME NEW q \in Projects \ clashed'
          PROVE  /\ counts'[q] = granted'[q]
                 /\ \A u, v \in Hitting(q)' : u = v
                 /\ \A v \in Hitting(q)' : Unspoilt(v, q)'
        <3>1. q \in Projects \ clashed
            BY <1>3, <2>7
        <3>2. CASE q # p
            <4>1. Hitting(q)' = Hitting(q) /\ \A v \in Hitting(q) : run'[v] = run[v]
                BY <1>1, <1>3, <2>1, <3>2 DEF Hitting
            <4>. QED
                BY <2>3, <3>1, <4>1 DEF QuotaInv, Unspoilt
        <3>3. CASE q = p
            <4>1. Hitting(p) = {}
                BY <1>3, <2>7, <3>3
            <4>2. Hitting(q)' = {w}
                BY <1>3, <2>1, <3>3, <4>1 DEF Hitting
            <4>3. \A x \in Windows : counts[p][x].key <= WindowKey(x)
                BY <1>1 DEF QuotaInv
            <4>4. Unspoilt(w, q)'
                BY <1>3, <2>3, <2>4, <3>3, <4>3 DEF Unspoilt
            <4>. QED
                BY <2>3, <3>1, <4>2, <4>4 DEF QuotaInv
        <3>. QED
            BY <3>2, <3>3
    <2>. QED
        BY <2>2, <2>3, <2>6, <2>7 DEF QuotaInv
<1>. QED
    BY <1>2, <1>3, HitReadsAfter

LEMMA HitWritesKeepsQuota ==
    ASSUME TypeOK, RequestsFit, QuotaInv, NEW w \in Workers, UNCHANGED keyVars, HitWrites(w)
    PROVE  QuotaInv'
<1> DEFINE r == run[w]
           p == r.project_id
           more == Consumed(r.read)
           adm == Admitted(p, r.read)
<1>1. Step(w) /\ r \in Request /\ p \in Projects /\ r.step = "consume"
    <2>1. r \in Request
        BY BusyIsRequest DEF HitWrites, Busy
    <2>. QED
        BY <2>1 DEF HitWrites, Step, Request
<1>2. /\ counts' = [counts EXCEPT ![p] = more]
      /\ granted' = [granted EXCEPT ![p] = adm]
      /\ clashed' = clashed
    BY DEF HitWrites
<1>3. \A v \in Workers : v # w => run'[v] = run[v]
    BY <1>1, OthersStay
<1>4. run'[w].step = "work"
    BY <1>1, StepAfter
<1>5. \A x \in Windows : /\ WindowKey(x)' = WindowKey(x)
                         /\ WindowKey(x) \in Nat /\ Limit[x] \in Int
    BY WindowKeyTyped DEF WindowKey, keyVars, TypeOK
<1>6. \A x \in Windows : r.read[x] \in Count /\ counts[p][x] \in Count /\ granted[p][x] \in Count
    BY <1>1 DEF Request, TypeOK
<1>7. \A x \in Windows : more[x].key = r.read[x].key /\ more[x].n = r.read[x].n + 1
    BY <1>6, OneMoreIs DEF Consumed
<1>8. /\ counts'[p] = more /\ granted'[p] = adm
      /\ \A q \in Projects : q # p => counts'[q] = counts[q] /\ granted'[q] = granted[q]
    BY <1>1, <1>2 DEF TypeOK
<1>9. ASSUME p \notin clashed
      PROVE  more = adm
    <2>1. ASSUME NEW x \in Windows
          PROVE  more[x] = adm[x]
        <3>1. w \in Hitting(p)
            BY <1>1 DEF Hitting
        <3>2. counts[p][x] = granted[p][x]
              /\ counts[p][x].key <= r.read[x].key
              /\ r.read[x].n = IF counts[p][x].key = r.read[x].key THEN counts[p][x].n ELSE 0
            BY <1>1, <1>9, <3>1 DEF QuotaInv, Unspoilt
        <3>3. more[x] = [key |-> r.read[x].key, n |-> r.read[x].n + 1]
            BY <1>6, OneMoreIs DEF Consumed
        <3>4. CASE granted[p][x].key = r.read[x].key
            <4>1. adm[x] = OneMore(granted[p][x])
                BY <1>6, <3>4 DEF Admitted, Count
            <4>2. adm[x] = [key |-> granted[p][x].key, n |-> granted[p][x].n + 1]
                BY <1>6, <4>1, OneMoreIs
            <4>. QED
                BY <3>2, <3>3, <3>4, <4>2
        <3>5. CASE granted[p][x].key < r.read[x].key
            <4>1. adm[x] = [key |-> r.read[x].key, n |-> 1]
                BY <1>6, <3>5 DEF Admitted, Count
            <4>2. r.read[x].n = 0
                BY <1>6, <3>2, <3>5 DEF Count
            <4>. QED
                BY <3>3, <4>1, <4>2
        <3>. QED
            BY <1>6, <3>2, <3>4, <3>5 DEF Count
    <2>. QED
        BY <2>1 DEF Consumed, Admitted
<1> HIDE DEF more, adm
<1>10. ASSUME NEW q \in Projects, NEW x \in Windows
       PROVE  /\ counts'[q][x].key <= WindowKey(x)
              /\ counts'[q][x].n > 0 => counts'[q][x].n <= Limit[x]
    <2>1. CASE q # p
        BY <1>8, <2>1 DEF QuotaInv
    <2>2. CASE q = p
        <3>1. r.read[x].key <= WindowKey(x) /\ r.read[x].n < Limit[x]
            BY <1>1 DEF QuotaInv, Current
        <3>. QED
            BY <1>5, <1>6, <1>7, <1>8, <2>2, <3>1 DEF Count
    <2>. QED
        BY <2>1, <2>2
<1>11. \A v \in Workers : run'[v].step = "consume" => Current(v)'
    BY <1>3, <1>4, <1>5 DEF QuotaInv, Current
<1>12. ASSUME NEW q \in Projects \ clashed'
       PROVE  /\ counts'[q] = granted'[q]
              /\ \A u, v \in Hitting(q)' : u = v
              /\ \A v \in Hitting(q)' : Unspoilt(v, q)'
    <2>1. Hitting(q)' = Hitting(q) \ {w} /\ \A v \in Hitting(q)' : run'[v] = run[v]
        BY <1>3, <1>4 DEF Hitting
    <2>2. CASE q # p
        BY <1>2, <1>8, <2>1, <2>2 DEF QuotaInv, Unspoilt
    <2>3. CASE q = p
        <3>1. w \in Hitting(p)
            BY <1>1 DEF Hitting
        <3>2. \A v \in Hitting(q) : v = w
            BY <1>2, <2>3, <3>1 DEF QuotaInv
        <3>3. Hitting(q)' = {}
            BY <2>1, <3>2
        <3>4. counts'[q] = granted'[q]
            BY <1>2, <1>8, <1>9, <2>3
        <3>. QED
            BY <3>3, <3>4
    <2>. QED
        BY <2>2, <2>3
<1>. QED
    BY <1>5, <1>10, <1>11, <1>12 DEF QuotaInv

(* A later window is another one, so what is stored only grows older.      *)
LEMMA KeyStepKeepsQuota ==
    ASSUME KeyInv, TypeOK, QuotaInv, [KeyNext]_keyVars, UNCHANGED shellVars
    PROVE  QuotaInv'
<1>1. now \in Nat /\ now' \in Nat /\ now <= now'
    BY KeysRemembered DEF TypeOK, KeyTypeOK
<1>2. ASSUME NEW x \in Windows
      PROVE  WindowKey(x) \in Nat /\ WindowKey(x)' \in Nat /\ WindowKey(x) <= WindowKey(x)'
    <2>1. Span[x] \in Nat \ {0}
        BY WindowKeyTyped DEF TypeOK
    <2>. QED
        BY <1>1, <2>1, QuotientGrows DEF WindowKey
<1>3. /\ run' = run /\ counts' = counts /\ granted' = granted /\ clashed' = clashed
      /\ \A p \in Projects : Hitting(p)' = Hitting(p)
    BY DEF shellVars, Hitting
<1>4. \A p \in Projects, x \in Windows : counts[p][x].key \in Nat
    BY DEF TypeOK, Count
<1>5. \A w \in Workers, x \in Windows :
          run[w].step = "consume" => run[w].read[x].key \in Nat
    BY BusyIsRequest DEF Busy, Request, Count
<1>6. \A w \in Workers : run[w].step = "consume" => Current(w)'
    BY <1>2, <1>3, <1>5 DEF QuotaInv, Current
<1>7. \A p \in Projects, x \in Windows : counts[p][x].key <= WindowKey(x)'
    BY <1>2, <1>4 DEF QuotaInv
<1>8. \A p \in Projects : \A w \in Hitting(p) : Unspoilt(w, p)' = Unspoilt(w, p)
    BY <1>3 DEF Unspoilt
<1>. QED
    BY <1>3, <1>6, <1>7, <1>8 DEF QuotaInv

-----------------------------------------------------------------------------
(* Events.                                                                 *)

(* A request stays what it was when it began.                              *)
LEMMA SameRequest ==
    ASSUME TypeOK, RequestsFit, NEW w \in Workers, Step(w), ~Begin(w)
    PROVE  /\ Busy(w)
           /\ run'[w].step # "idle" => /\ run'[w].about = run[w].about
                                       /\ run'[w].kind = run[w].kind
                                       /\ run'[w].project_id = run[w].project_id
                                       /\ run'[w].key = run[w].key
<1>1. run \in [Workers -> Request \cup {Idle}]
    BY DEF TypeOK
<1>2. Busy(w) /\ run[w] \in Request
    <2>1. Busy(w)
        BY DEF Step, HitReads, HitWrites, MintToken, RecordMint, RevokeToken, Serve, ServeItem,
               Respond, LookUp, Apply, Emit, EmitRaises, RefuseUserId, DeleterRaises, Working, Busy
    <2>. QED
        BY <2>1, BusyIsRequest
<1> DEFINE Same(q) == /\ q.about = run[w].about /\ q.kind = run[w].kind
                      /\ q.project_id = run[w].project_id /\ q.key = run[w].key
<1> SUFFICES run'[w].step # "idle" => Same(run'[w])
    BY <1>2
<1>3. Ends(w) => run'[w].step = "idle"
    BY <1>1, IdleIsIdle DEF Ends
<1>4. ASSUME NEW s \in Steps, Goes(w, s)
      PROVE  Same(run'[w])
    BY <1>1, <1>2, <1>4, Stepped DEF Goes
<1>5. CASE HitReads(w)
    <2>1. \A all : Same([run[w] EXCEPT !.answers = all, !.step = "respond"])
        BY <1>2 DEF Request
    <2>2. CASE run'[w] = TurnedAway(run[w])
        BY <2>1, <2>2, IdleIsIdle DEF TurnedAway
    <2>. QED
        BY <1>2, <1>5, <2>2, HitReadsAfter
<1>6. CASE HitWrites(w)
    <2>1. run'[w] = [run[w] EXCEPT !.step = "work", !.paid = run[w].paid + 1, !.read = NoHits]
        BY <1>1, <1>6 DEF HitWrites
    <2>. QED
        BY <1>2, <2>1 DEF Request
<1>7. CASE ServeItem(w)
    <2>1. \A all, s : Same([run[w] EXCEPT !.answers = all, !.step = s])
        BY <1>2 DEF Request
    <2>. QED
        BY <1>1, <1>7, <2>1 DEF ServeItem
<1>8. CASE MintToken(w)
    BY <1>3, <1>4, <1>8 DEF MintToken, Steps
<1>9. CASE LookUp(w)
    BY <1>3, <1>4, <1>9 DEF LookUp, Steps
<1>10. CASE Apply(w)
    BY <1>4, <1>10 DEF Apply, Steps
<1>11. CASE \/ RefuseUserId(w) \/ RecordMint(w) \/ RevokeToken(w) \/ Serve(w)
            \/ Respond(w) \/ DeleterRaises(w) \/ Emit(w) \/ EmitRaises(w)
    BY <1>3, <1>11 DEF RefuseUserId, RecordMint, RevokeToken, Serve, Respond, DeleterRaises, Emit,
                       EmitRaises
<1>. QED
    BY <1>2, <1>5, <1>6, <1>7, <1>8, <1>9, <1>10, <1>11 DEF Step

LEMMA OthersAbout ==
    ASSUME TypeOK, RequestsFit, NEW w \in Workers, Step(w), ~Begin(w)
    PROVE  \A v \in Workers : \A c : About(v, c)' => About(v, c)
BY OthersStay, SameRequest DEF About, Busy

LEMMA StillAlone ==
    ASSUME TypeOK, RequestsFit, EventsInv, NEW w \in Workers, Step(w), ~Begin(w),
           contested' = contested
    PROVE  \A c \in Connection \ contested' : AloneOn(c)'
BY OthersAbout DEF EventsInv, AloneOn

(* A step that neither changes nor announces anything leaves the story as   *)
(* it is, and so does one about another connection.                        *)
LEMMA StoryStays ==
    ASSUME TypeOK, RequestsFit, NEW w \in Workers, Step(w), NEW c, ToldTruly(c),
           told'[c] = told[c], c \in conns' <=> c \in conns,
           \/ ~About(w, c) /\ ~About(w, c)'
           \/ run[w].step # "emit" /\ run'[w].step \notin {"apply", "emit"}
    PROVE  ToldTruly(c)'
<1>1. \A v \in Workers : v # w => run'[v] = run[v]
    BY OthersStay
<1>2. Announcing(c)' = Announcing(c)
    BY <1>1 DEF Announcing, About, Busy
<1>3. Alternates(told[c])
    BY DEF ToldTruly
<1>4. ASSUME NEW v \in Workers, About(v, c)'
      PROVE  /\ run'[v].step = "apply" => Permitted(run[v].kind, c)'
             /\ run'[v].step = "emit" => ((c \in conns)' <=> run'[v].kind = "create")
    <2>1. CASE v = w
        BY <1>4, <2>1 DEF About, Busy
    <2>2. CASE v # w
        <3>1. run'[v] = run[v] /\ About(v, c)
            BY <1>1, <1>4, <2>2 DEF About, Busy
        <3>2. /\ run[v].step = "apply" => Permitted(run[v].kind, c)
              /\ run[v].step = "emit" => (c \in conns <=> run[v].kind = "create")
            BY <3>1 DEF ToldTruly
        <3>3. Permitted(run[v].kind, c) => Permitted(run[v].kind, c)'
            BY <3>1 DEF Permitted
        <3>. QED
            BY <3>1, <3>2, <3>3
    <2>. QED
        BY <2>1, <2>2
<1>5. Alternates(told'[c])
    BY <1>3
<1>6. c \in conns <=> ~(Len(told[c]) % 2 = 1 <=> Announcing(c))
    BY DEF ToldTruly
<1>7. (c \in conns)' <=> ~(Len(told'[c]) % 2 = 1 <=> Announcing(c)')
    BY <1>2, <1>6
<1>. QED
    BY <1>4, <1>5, <1>7 DEF ToldTruly, Alternates

LEMMA QuietKeepsEvents ==
    ASSUME TypeOK, RequestsFit, EventsInv, NEW w \in Workers, Step(w), ~Begin(w),
           UNCHANGED <<told, conns, lost, contested>>,
           run[w].step # "emit", run'[w].step \notin {"apply", "emit"}
    PROVE  EventsInv'
BY StillAlone, StoryStays DEF EventsInv

LEMMA BeginKeepsEvents ==
    ASSUME TypeOK, RequestsFit, EventsInv, NEW w \in Workers, Begin(w)
    PROVE  EventsInv'
<1>1. PICK kind, p, about, key : Begins(w, kind, p, about, key)
    BY BeginIsBegins
<1>2. /\ ~Busy(w) /\ run'[w].step = "hit" /\ run'[w].about = about
      /\ UNCHANGED <<told, conns, lost>>
    BY <1>1, IdleIsIdle DEF Begins, Busy, TypeOK
<1>3. Step(w) /\ \A v \in Workers : v # w => run'[v] = run[v]
    BY OthersStay DEF Step
<1>4. /\ contested \subseteq contested'
      /\ \A v \in Workers : About(v, about) => contested' = contested \cup ({about} \cap Connection)
    BY <1>1 DEF Begins, About, Busy
<1>5. ASSUME NEW c \in Connection \ contested', NEW u \in Workers, NEW v \in Workers,
             About(u, c)', About(v, c)'
      PROVE  u = v
    <2>1. c \in Connection \ contested /\ AloneOn(c)
        BY <1>4 DEF EventsInv
    <2>2. CASE c = about
        BY <1>2, <1>3, <1>4, <1>5, <2>2 DEF About, Busy
    <2>3. CASE c # about
        BY <1>2, <1>3, <1>5, <2>1, <2>3 DEF About, Busy, AloneOn
    <2>. QED
        BY <2>2, <2>3
<1>6. ASSUME NEW c \in Connection \ (contested' \cup lost')
      PROVE  ToldTruly(c)'
    <2>1. ToldTruly(c)
        BY <1>2, <1>4, <1>6 DEF EventsInv
    <2>2. run[w].step # "emit" /\ run'[w].step \notin {"apply", "emit"}
        BY <1>2 DEF Busy
    <2>. QED
        BY <1>2, <1>3, <2>1, <2>2, StoryStays
<1>. QED
    BY <1>5, <1>6 DEF EventsInv, AloneOn

LEMMA LookUpKeepsEvents ==
    ASSUME TypeOK, RequestsFit, EventsInv, NEW w \in Workers, LookUp(w)
    PROVE  EventsInv'
<1> DEFINE r == run[w]
<1>1. Step(w) /\ ~Begin(w) /\ Busy(w) /\ UNCHANGED <<told, conns, lost, contested>>
    BY IdleIsIdle DEF LookUp, Step, Begin, ByKey, ByToken, Begins, Working, Busy
<1>2. r.step = "work"
    BY DEF LookUp, Working
<1>3. CASE Ends(w)
    <2>1. run'[w].step = "idle"
        BY <1>3, IdleIsIdle DEF Ends, TypeOK
    <2>. QED
        BY <1>1, <1>2, <2>1, QuietKeepsEvents
<1>4. CASE Permitted(r.kind, r.about) /\ Goes(w, "apply")
    <2>1. run'[w].step \in {"apply", "idle"} /\ (run'[w].step # "idle" =>
              run'[w].about = r.about /\ run'[w].kind = r.kind)
        BY <1>1, StepAfter, SameRequest
    <2>2. ASSUME NEW c \in Connection \ (contested' \cup lost')
          PROVE  ToldTruly(c)'
        <3>1. ToldTruly(c)
            BY <1>1, <2>2 DEF EventsInv
        <3>2. CASE c # r.about
            BY <1>1, <2>1, <3>1, <3>2, StoryStays DEF About, Busy
        <3>3. CASE c = r.about
            <4>1. \A v \in Workers : v # w => run'[v] = run[v]
                BY <1>1, OthersStay
            <4>2. Announcing(c)' = Announcing(c)
                BY <1>2, <2>1, <4>1 DEF Announcing
            <4>3. (c \in conns)' <=> ~(Len(told'[c]) % 2 = 1 <=> Announcing(c)')
                BY <1>1, <3>1, <4>2 DEF ToldTruly
            <4>4. ASSUME NEW v \in Workers, About(v, c)'
                  PROVE  /\ run'[v].step = "apply" => Permitted(run[v].kind, c)'
                         /\ run'[v].step = "emit" => ((c \in conns)' <=> run'[v].kind = "create")
                <5>1. CASE v = w
                    BY <1>1, <1>4, <2>1, <3>3, <4>4, <5>1 DEF About, Busy, Permitted
                <5>2. CASE v # w
                    BY <1>1, <3>1, <4>1, <4>4, <5>2 DEF About, Busy, ToldTruly, Permitted
                <5>. QED
                    BY <5>1, <5>2
            <4>. QED
                BY <1>1, <3>1, <4>3, <4>4 DEF ToldTruly, Alternates
        <3>. QED
            BY <3>2, <3>3
    <2>. QED
        BY <1>1, <2>2, StillAlone DEF EventsInv
<1>. QED
    BY <1>3, <1>4 DEF LookUp

LEMMA ApplyKeepsEvents ==
    ASSUME TypeOK, RequestsFit, EventsInv, NEW w \in Workers, Apply(w)
    PROVE  EventsInv'
<1> DEFINE r == run[w]
<1>1. Step(w) /\ ~Begin(w) /\ Busy(w) /\ UNCHANGED <<told, lost, contested>>
    BY IdleIsIdle DEF Apply, Step, Begin, ByKey, ByToken, Begins, Busy
<1>2. /\ r.step = "apply" /\ r.kind \in ChangeKinds /\ About(w, r.about)
      /\ conns' = IF r.kind = "create" THEN conns \cup {r.about} ELSE conns \ {r.about}
    BY <1>1 DEF Apply, RequestsFit, Fits, About, Busy
<1>3. run'[w].step = "emit" /\ run'[w].about = r.about /\ run'[w].kind = r.kind
    <2>1. run'[w].step = "emit"
        BY <1>1, StepAfter
    <2>. QED
        BY <1>1, <2>1, SameRequest
<1>4. ASSUME NEW c \in Connection \ (contested' \cup lost')
      PROVE  ToldTruly(c)'
    <2>1. ToldTruly(c) /\ AloneOn(c)
        BY <1>1, <1>4 DEF EventsInv
    <2>2. CASE c # r.about
        <3>1. c \in conns' <=> c \in conns
            BY <1>2, <2>2
        <3>. QED
            BY <1>1, <1>3, <2>1, <2>2, <3>1, StoryStays DEF About, Busy
    <2>3. CASE c = r.about
        <3>1. \A v \in Workers : About(v, c) => v = w
            BY <1>2, <2>1, <2>3 DEF AloneOn
        <3>2. \A v \in Workers : About(v, c)' => v = w
            BY <1>1, <3>1, OthersAbout
        <3>3. ~Announcing(c) /\ Announcing(c)'
            BY <1>2, <1>3, <2>3, <3>1 DEF Announcing, About, Busy
        <3>4. c \in conns <=> Len(told[c]) % 2 = 1
            BY <2>1, <3>3 DEF ToldTruly
        <3>5. (c \in conns) <=> r.kind # "create"
            BY <1>2, <2>1, <2>3 DEF ToldTruly, Permitted
        <3>6. (c \in conns)' <=> r.kind = "create"
            BY <1>2, <2>3
        <3>7. (c \in conns)' <=> ~(Len(told'[c]) % 2 = 1 <=> Announcing(c)')
            BY <1>1, <3>3, <3>4, <3>5, <3>6
        <3>8. ASSUME NEW v \in Workers, About(v, c)'
              PROVE  /\ run'[v].step = "apply" => Permitted(run[v].kind, c)'
                     /\ run'[v].step = "emit" => ((c \in conns)' <=> run'[v].kind = "create")
            BY <1>3, <3>2, <3>6, <3>8
        <3>. QED
            BY <1>1, <2>1, <3>7, <3>8 DEF ToldTruly, Alternates
    <2>. QED
        BY <2>2, <2>3
<1>. QED
    BY <1>1, <1>4, StillAlone DEF EventsInv

(* One more event of the right kind keeps them alternating.                *)
LEMMA NextEvent ==
    ASSUME NEW seq \in Seq({"created", "deleted"}), Alternates(seq),
           NEW e \in {"created", "deleted"}, e = "created" <=> ~(Len(seq) % 2 = 1)
    PROVE  /\ Alternates(Append(seq, e))
           /\ Len(Append(seq, e)) % 2 = 1 <=> ~(Len(seq) % 2 = 1)
<1>1. Len(seq) \in Nat /\ Len(Append(seq, e)) = Len(seq) + 1
    OBVIOUS
<1>2. (Len(seq) + 1) % 2 = 1 <=> ~(Len(seq) % 2 = 1)
    BY <1>1
<1>3. ASSUME NEW i \in 1 .. Len(seq) + 1
      PROVE  Append(seq, e)[i] = IF i % 2 = 1 THEN "created" ELSE "deleted"
    <2>1. CASE i \in 1 .. Len(seq)
        BY <2>1 DEF Alternates
    <2>2. CASE i = Len(seq) + 1
        <3>1. Append(seq, e)[i] = e
            BY <2>2
        <3>. QED
            BY <1>2, <2>2, <3>1
    <2>. QED
        BY <1>1, <2>1, <2>2
<1>. QED
    BY <1>1, <1>2, <1>3 DEF Alternates

LEMMA EmitKeepsEvents ==
    ASSUME TypeOK, RequestsFit, EventsInv, NEW w \in Workers, Emit(w)
    PROVE  EventsInv'
<1> DEFINE r == run[w]
           e == IF r.kind = "create" THEN "created" ELSE "deleted"
<1>1. Step(w) /\ ~Begin(w) /\ Busy(w) /\ UNCHANGED <<conns, lost, contested>>
    BY IdleIsIdle DEF Emit, Step, Begin, ByKey, ByToken, Begins, Busy
<1>2. /\ r.step = "emit" /\ r.about \in Connection /\ About(w, r.about)
      /\ told' = [told EXCEPT ![r.about] = Append(told[r.about], e)]
    BY <1>1 DEF Emit, RequestsFit, Fits, About, Busy
<1>3. run'[w].step = "idle"
    BY <1>1, StepAfter, IdleIsIdle
<1>4. ASSUME NEW c \in Connection \ (contested' \cup lost')
      PROVE  ToldTruly(c)'
    <2>1. ToldTruly(c) /\ AloneOn(c)
        BY <1>1, <1>4 DEF EventsInv
    <2>2. CASE c # r.about
        <3>1. told'[c] = told[c]
            BY <1>2, <2>2 DEF TypeOK
        <3>. QED
            BY <1>1, <1>3, <2>1, <2>2, <3>1, StoryStays DEF About, Busy
    <2>3. CASE c = r.about
        <3>1. \A v \in Workers : About(v, c) => v = w
            BY <1>2, <2>1, <2>3 DEF AloneOn
        <3>2. \A v \in Workers : ~About(v, c)'
            BY <1>1, <1>3, <3>1, OthersAbout DEF About, Busy
        <3>3. Announcing(c) /\ ~Announcing(c)'
            BY <1>2, <2>3, <3>2 DEF Announcing, About, Busy
        <3>4. c \in conns <=> ~(Len(told[c]) % 2 = 1)
            BY <2>1, <3>3 DEF ToldTruly
        <3>5. c \in conns <=> r.kind = "create"
            BY <1>2, <2>1, <2>3 DEF ToldTruly
        <3>6. told[c] \in Seq({"created", "deleted"}) /\ e \in {"created", "deleted"}
            BY <1>4 DEF TypeOK
        <3>7. e = "created" <=> ~(Len(told[c]) % 2 = 1)
            BY <3>4, <3>5
        <3>8. told'[c] = Append(told[c], e)
            BY <1>2, <2>3 DEF TypeOK
        <3> HIDE DEF e
        <3>9. /\ Alternates(told'[c])
              /\ Len(told'[c]) % 2 = 1 <=> ~(Len(told[c]) % 2 = 1)
            BY <2>1, <3>6, <3>7, <3>8, NextEvent DEF ToldTruly
        <3>10. (c \in conns)' <=> ~(Len(told'[c]) % 2 = 1 <=> Announcing(c)')
            BY <1>1, <3>3, <3>4, <3>9
        <3>. QED
            BY <3>2, <3>9, <3>10 DEF ToldTruly, Alternates
    <2>. QED
        BY <2>2, <2>3
<1>. QED
    BY <1>1, <1>4, StillAlone DEF EventsInv

(* A deleter that raised before it deleted has changed nothing, and the    *)
(* request is over; one that raised after it deleted spoils the story of   *)
(* its own connection only.                                                *)
LEMMA DeleterRaisesKeepsEvents ==
    ASSUME TypeOK, RequestsFit, EventsInv, NEW w \in Workers, DeleterRaises(w)
    PROVE  EventsInv'
<1>1. Step(w) /\ ~Begin(w) /\ Busy(w) /\ UNCHANGED <<told, contested>>
    BY IdleIsIdle DEF DeleterRaises, Step, Begin, ByKey, ByToken, Begins, Busy
<1>2. run[w].step = "apply" /\ run'[w].step = "idle"
    BY <1>1, StepAfter, IdleIsIdle DEF DeleterRaises
<1>3. CASE UNCHANGED <<conns, lost>>
    BY <1>1, <1>2, <1>3, QuietKeepsEvents
<1>4. CASE conns' = conns \ {run[w].about} /\ lost' = lost \cup {run[w].about}
    <2>1. ASSUME NEW c \in Connection \ (contested' \cup lost')
          PROVE  ToldTruly(c)'
        <3>1. ToldTruly(c) /\ c # run[w].about /\ (c \in conns' <=> c \in conns)
            BY <1>1, <1>4, <2>1 DEF EventsInv
        <3>. QED
            BY <1>1, <1>2, <3>1, StoryStays DEF About, Busy
    <2>2. \A c \in Connection \ contested' : AloneOn(c)'
        BY <1>1, StillAlone
    <2>. QED
        BY <1>1, <2>1, <2>2 DEF EventsInv
<1>. QED
    BY <1>3, <1>4 DEF DeleterRaises

LEMMA EmitRaisesKeepsEvents ==
    ASSUME TypeOK, RequestsFit, EventsInv, NEW w \in Workers, EmitRaises(w)
    PROVE  EventsInv'
<1>1. Step(w) /\ ~Begin(w) /\ Busy(w) /\ UNCHANGED <<told, conns, contested>>
    BY IdleIsIdle DEF EmitRaises, Step, Begin, ByKey, ByToken, Begins, Busy
<1>2. run'[w].step = "idle" /\ lost' = lost \cup {run[w].about}
    BY <1>1, StepAfter, IdleIsIdle DEF EmitRaises
<1>3. ASSUME NEW c \in Connection \ (contested' \cup lost')
      PROVE  ToldTruly(c)'
    <2>1. ToldTruly(c) /\ c # run[w].about
        BY <1>1, <1>2, <1>3 DEF EventsInv
    <2>. QED
        BY <1>1, <1>2, <2>1, StoryStays DEF About, Busy
<1>. QED
    BY <1>1, <1>3, StillAlone DEF EventsInv

LEMMA KeyStepKeepsEvents ==
    ASSUME EventsInv, UNCHANGED shellVars
    PROVE  EventsInv'
<1>1. /\ run' = run /\ told' = told /\ conns' = conns
      /\ contested' = contested /\ lost' = lost
    BY DEF shellVars
<1>2. \A c : (Announcing(c)' <=> Announcing(c)) /\ (AloneOn(c)' <=> AloneOn(c))
    BY <1>1 DEF Announcing, AloneOn, About, Busy
<1>3. \A c : ToldTruly(c) => ToldTruly(c)'
    BY <1>1, <1>2 DEF ToldTruly, Alternates, Permitted, About, Busy
<1>. QED
    BY <1>1, <1>2, <1>3 DEF EventsInv

-----------------------------------------------------------------------------
(* Batches.                                                                *)

LEMMA OneBatchMoves ==
    ASSUME TypeOK, BatchInv, NEW w \in Workers, Step(w),
           run'[w].step # "idle" /\ run'[w].kind = "batch" => BatchFits(run'[w])
    PROVE  BatchInv'
BY OthersStay DEF BatchInv, Busy

(* A batch that meets the exhausted quota is refused as a whole, or has    *)
(* the rest of its answers filled up with refusals.                        *)
LEMMA TurnedAwayFits ==
    ASSUME NEW r \in Request, r.step = "hit", BatchFits(r), r.answers # <<>>
    PROVE  BatchFits(TurnedAway(r))
<1> DEFINE all == Refused(r)
           q == [r EXCEPT !.answers = all, !.step = "respond"]
           rest == [i \in 1 .. BatchSize - Len(r.answers) |-> "refused"]
<1>1. /\ r.answers \in Seq({"served", "refused"}) /\ r.paid \in Nat
      /\ Len(r.answers) \in Nat /\ BatchSize \in Nat
    BY RequestShape DEF Request
<1>2. /\ r.paid = Len(r.answers) /\ Len(r.answers) < BatchSize
      /\ \A i \in 1 .. Len(r.answers) : r.answers[i] = "served"
    BY <1>1 DEF BatchFits, ServedOf
<1>3. rest \in Seq({"refused"}) /\ Len(rest) = BatchSize - Len(r.answers)
    BY <1>1, <1>2
<1>4. all = r.answers \o rest
    BY DEF Refused
<1> HIDE DEF rest
<1>5. /\ Len(all) = BatchSize
      /\ \A i \in 1 .. BatchSize :
             all[i] = IF i <= Len(r.answers) THEN r.answers[i] ELSE rest[i - Len(r.answers)]
    BY <1>1, <1>2, <1>3, <1>4
<1>6. \A i \in 1 .. BatchSize : all[i] = IF i <= r.paid THEN "served" ELSE "refused"
    <2>1. TAKE i \in 1 .. BatchSize
    <2>2. CASE i <= Len(r.answers)
        BY <1>1, <1>2, <1>5, <2>2
    <2>3. CASE ~(i <= Len(r.answers))
        <3>1. i - Len(r.answers) \in 1 .. Len(rest)
            BY <1>1, <1>2, <1>3, <2>3
        <3>2. rest[i - Len(r.answers)] = "refused"
            BY <1>3, <3>1
        <3>. QED
            BY <1>2, <1>5, <2>3, <3>2
    <2>. QED
        BY <2>2, <2>3
<1> HIDE DEF all
<1>7. q.answers = all /\ q.step = "respond" /\ q.paid = r.paid
    BY DEF Request
<1>8. TurnedAway(r) = q
    BY DEF TurnedAway, all
<1> HIDE DEF q
<1>9. ServedOf(q) = r.paid
    BY <1>1, <1>7 DEF ServedOf
<1>. QED
    BY <1>1, <1>2, <1>5, <1>6, <1>7, <1>8, <1>9 DEF BatchFits

LEMMA StepKeepsBatches ==
    ASSUME TypeOK, RequestsFit, BatchInv, NEW w \in Workers, Step(w)
    PROVE  BatchInv'
<1> DEFINE r == run[w]
<1>1. CASE Begin(w)
    <2>1. PICK kind, p, about, key : Begins(w, kind, p, about, key)
        BY <1>1, BeginIsBegins
    <2>2. run'[w].step = "hit" /\ run'[w].paid = 0 /\ run'[w].answers = <<>>
        BY <2>1 DEF Begins, TypeOK
    <2>3. ServedOf(run'[w]) = 0
        BY <2>2 DEF ServedOf
    <2>4. BatchFits(run'[w])
        BY <2>2, <2>3, RequestShape DEF BatchFits
    <2>. QED
        BY <2>4, OneBatchMoves
<1>2. ASSUME ~Begin(w), r.kind = "batch", run'[w].step # "idle"
      PROVE  BatchFits(run'[w])
    <2>1. Busy(w) /\ run'[w].kind = "batch"
        BY <1>2, SameRequest
    <2>2. r \in Request /\ BatchFits(r) /\ Fits(r, users, Issued)
        BY <1>2, <2>1, BusyIsRequest DEF BatchInv, RequestsFit
    <2>3. r.paid \in Nat /\ r.answers \in Seq({"served", "refused"}) /\ Len(r.answers) \in Nat
        BY <2>2 DEF Request
    <2>4. CASE HitReads(w)
        <3>1. r.step = "hit"
            BY <2>4 DEF HitReads
        <3>2. CASE run'[w] = TurnedAway(r)
            <4>1. r.answers # <<>>
                BY <1>2, <3>2, IdleIsIdle DEF TurnedAway
            <4>. QED
                BY <2>2, <3>1, <3>2, <4>1, TurnedAwayFits
        <3>3. CASE run'[w].step = "consume" /\ run'[w].paid = r.paid /\ run'[w].answers = r.answers
            BY <2>2, <3>1, <3>3 DEF BatchFits, ServedOf
        <3>. QED
            BY <2>4, <3>2, <3>3, HitReadsAfter
    <2>5. CASE HitWrites(w)
        <3>1. r.step = "consume"
            BY <2>5 DEF HitWrites
        <3>2. run'[w] = [r EXCEPT !.step = "work", !.paid = r.paid + 1, !.read = NoHits]
            BY <2>5 DEF HitWrites, TypeOK
        <3>3. run'[w].step = "work" /\ run'[w].paid = r.paid + 1 /\ run'[w].answers = r.answers
            BY <2>2, <3>2 DEF Request
        <3>4. ServedOf(run'[w]) = ServedOf(r)
            BY <2>3, <3>1, <3>3 DEF ServedOf
        <3>. QED
            BY <2>2, <3>1, <3>3, <3>4 DEF BatchFits
    <2>6. CASE ServeItem(w)
        <3> DEFINE more == Append(r.answers, "served")
        <3>1. r.step = "work"
            BY <2>6 DEF ServeItem, Working
        <3>2. /\ run'[w].answers = more /\ run'[w].paid = r.paid
              /\ run'[w].step = IF Len(r.answers) + 1 = BatchSize THEN "respond" ELSE "hit"
            <4>1. \A s : LET q == [r EXCEPT !.answers = more, !.step = s]
                         IN  q.answers = more /\ q.paid = r.paid /\ q.step = s
                BY <2>2 DEF Request
            <4>. QED
                BY <2>6, <4>1 DEF ServeItem, TypeOK
        <3>3. /\ r.paid = Len(r.answers) + 1 /\ Len(r.answers) < BatchSize
              /\ \A i \in 1 .. Len(r.answers) : r.answers[i] = "served"
            BY <2>2, <2>3, <3>1 DEF BatchFits, ServedOf
        <3>4. Len(more) = r.paid /\ \A i \in 1 .. r.paid : more[i] = "served"
            BY <2>3, <3>3
        <3> HIDE DEF more
        <3>5. ServedOf(run'[w]) = r.paid
            BY <2>3, <3>2 DEF ServedOf
        <3>. QED
            BY <2>3, <3>2, <3>3, <3>4, <3>5, RequestShape DEF BatchFits
    <2>7. CASE MintToken(w) \/ LookUp(w) \/ Apply(w)
        BY <1>2, <2>2, <2>7 DEF MintToken, LookUp, Apply, Working, Fits, ChangeKinds
    <2>8. CASE \/ RefuseUserId(w) \/ RecordMint(w) \/ RevokeToken(w) \/ Serve(w)
               \/ Respond(w) \/ DeleterRaises(w) \/ Emit(w) \/ EmitRaises(w)
        BY <1>2, <2>8, StepAfter, IdleIsIdle
    <2>. QED
        BY <1>2, <2>4, <2>5, <2>6, <2>7, <2>8 DEF Step
<1>3. ASSUME ~Begin(w), run'[w].step # "idle", run'[w].kind = "batch"
      PROVE  BatchFits(run'[w])
    BY <1>2, <1>3, SameRequest
<1>. QED
    BY <1>1, <1>3, OneBatchMoves

-----------------------------------------------------------------------------
(* Tokens and the audit log.                                               *)

LEMMA SeqLater ==
    ASSUME NEW S, NEW s \in Seq(S), NEW e
    PROVE  /\ Len(Append(s, e)) = Len(s) + 1
           /\ \A i \in 1 .. Len(s) : Append(s, e)[i] = s[i]
           /\ Append(s, e)[Len(s) + 1] = e
OBVIOUS

LEMMA StepKeepsMints ==
    ASSUME TypeOK, RequestsFit, MintInv, NEW w \in Workers, Step(w), UNCHANGED keyVars
    PROVE  MintInv'
<1> DEFINE r == run[w]
<1>1. keys' = keys /\ Issued' = Issued
    BY DEF keyVars, Issued
<1>2. run'[w].step # "idle" => ActsFor(w)'
    <2>1. CASE Begin(w)
        <3>1. ASSUME NEW kind, NEW about, NEW k \in Issued, ByKey(w, kind, k, about)
              PROVE  run'[w].key = k /\ run'[w].project_id = keys[k].project_id
            BY <3>1 DEF ByKey, Begins, TypeOK
        <3>2. ASSUME NEW kind \in TokenKinds, NEW about, NEW j, ByToken(w, kind, j, about)
              PROVE  run'[w].kind \notin KeyKinds
            BY <3>2 DEF ByToken, Begins, TypeOK, TokenKinds, KeyKinds, ChangeKinds
        <3>3. \/ \E kind, about : \E k \in Issued : ByKey(w, kind, k, about)
              \/ \E kind \in TokenKinds : \E about, j : ByToken(w, kind, j, about)
            BY <2>1 DEF Begin, TokenKinds
        <3>. QED
            BY <1>1, <3>1, <3>2, <3>3 DEF ActsFor
    <2>2. CASE ~Begin(w)
        BY <1>1, <2>2, SameRequest DEF ActsFor, MintInv
    <2>. QED
        BY <2>1, <2>2
<1>3. \A v \in Workers : Busy(v)' => ActsFor(v)'
    <2>1. \A v \in Workers : v # w => run'[v] = run[v]
        BY OthersStay
    <2>. QED
        BY <1>1, <1>2, <2>1 DEF MintInv, ActsFor, Busy
<1>4. CASE UNCHANGED <<tokens, audit>>
    BY <1>1, <1>3, <1>4 DEF MintInv, TokensWithinKeys, WithinKeys, AuditNamesOwnKeys
<1>5. CASE MintToken(w)
    <2>1. Busy(w) /\ r.kind = "mint" /\ audit' = audit
        BY <1>5 DEF MintToken, Working, Busy
    <2>2. r.key \in Issued /\ keys[r.key].project_id = r.project_id
        BY <2>1, AtWork DEF Fits, KeyKinds, MintInv, ActsFor, RequestsFit
    <2>3. CASE UNCHANGED tokens
        BY <1>4, <2>1, <2>3
    <2>4. ASSUME NEW j \in Jtis, r.about.scopes \subseteq keys[r.key].scopes,
                 tokens' = [tokens EXCEPT ![j] =
                     [project_id |-> r.project_id, user |-> r.about.user,
                      scopes |-> r.about.scopes, exp |-> now + Ttl]]
          PROVE  TokensWithinKeys'
        <3>1. tokens'[j].project_id = r.project_id /\ tokens'[j].scopes = r.about.scopes
            BY <2>4 DEF TypeOK
        <3>2. WithinKeys(j)'
            BY <1>1, <2>2, <2>4, <3>1 DEF WithinKeys
        <3>3. \A i \in Jtis : i # j => tokens'[i] = tokens[i]
            BY <2>4 DEF TypeOK
        <3>. QED
            BY <1>1, <3>2, <3>3 DEF MintInv, TokensWithinKeys, WithinKeys
    <2>5. UNCHANGED tokens \/ TokensWithinKeys'
        BY <1>5, <2>4 DEF MintToken
    <2>6. AuditNamesOwnKeys'
        BY <1>1, <2>1 DEF MintInv, AuditNamesOwnKeys
    <2>. QED
        BY <1>3, <2>3, <2>5, <2>6 DEF MintInv
<1>6. CASE RecordMint(w)
    <2>1. Busy(w) /\ r.kind = "mint" /\ tokens' = tokens
        BY <1>6 DEF RecordMint, RequestsFit, Fits, Busy
    <2>2. r.project_id \in Projects /\ keys[r.key].project_id = r.project_id
        BY <2>1, BusyIsRequest DEF KeyKinds, MintInv, ActsFor, Request
    <2>3. ASSUME NEW p \in Projects, NEW i \in 1 .. Len(audit'[p])
          PROVE  keys[audit'[p][i]].project_id = p
        <3>1. audit[p] \in Seq(Issued)
            BY DEF TypeOK
        <3>2. CASE audit'[p] = audit[p]
            BY <2>3, <3>2 DEF MintInv, AuditNamesOwnKeys
        <3>3. CASE p = r.project_id /\ audit'[p] = Append(audit[p], r.key)
            <4>1. CASE i \in 1 .. Len(audit[p])
                BY <3>1, <3>3, <4>1, SeqLater DEF MintInv, AuditNamesOwnKeys
            <4>2. CASE i = Len(audit[p]) + 1
                BY <2>2, <3>1, <3>3, <4>2, SeqLater
            <4>. QED
                BY <3>1, <3>3, <4>1, <4>2, SeqLater
        <3>. QED
            BY <1>6, <3>2, <3>3 DEF RecordMint
    <2>4. AuditNamesOwnKeys'
        BY <1>1, <2>3 DEF AuditNamesOwnKeys
    <2>5. TokensWithinKeys'
        BY <1>1, <2>1 DEF MintInv, TokensWithinKeys, WithinKeys
    <2>. QED
        BY <1>3, <2>4, <2>5 DEF MintInv
<1>. QED
    BY <1>4, <1>5, <1>6 DEF Step, Begin, ByKey, ByToken, Begins, HitReads, HitWrites, RevokeToken,
       Serve, ServeItem, Respond, LookUp, Apply, Emit, EmitRaises, RefuseUserId, DeleterRaises

LEMMA KeyStepKeepsMints ==
    ASSUME KeyInv, TypeOK, RequestsFit, MintInv, [KeyNext]_keyVars, UNCHANGED shellVars
    PROVE  MintInv'
<1>1. /\ Issued \subseteq Issued'
      /\ \A k \in Issued : /\ keys'[k].project_id = keys[k].project_id
                           /\ keys'[k].scopes = keys[k].scopes
    BY KeysRemembered
<1>2. run' = run /\ tokens' = tokens /\ audit' = audit
    BY DEF shellVars
<1>3. ASSUME NEW w \in Workers, Busy(w), run[w].kind \in KeyKinds
      PROVE  keys'[run[w].key].project_id = run[w].project_id
    <2>1. run[w].key \in Issued
        BY <1>3 DEF RequestsFit, Fits
    <2>. QED
        BY <1>1, <1>3, <2>1 DEF MintInv, ActsFor
<1>4. ASSUME NEW p \in Projects, NEW i \in 1 .. Len(audit[p])
      PROVE  keys'[audit[p][i]].project_id = p
    <2>1. audit[p] \in Seq(Issued)
        BY DEF TypeOK
    <2>2. audit[p][i] \in Issued
        BY <2>1
    <2>. QED
        BY <1>1, <2>2 DEF MintInv, AuditNamesOwnKeys
<1>5. TokensWithinKeys'
    BY <1>1, <1>2 DEF MintInv, TokensWithinKeys, WithinKeys
<1>. QED
    BY <1>2, <1>3, <1>4, <1>5 DEF MintInv, ActsFor, AuditNamesOwnKeys, Busy

-----------------------------------------------------------------------------
(* The invariant.                                                          *)

LEMMA InitIInv == Init => IInv
<1> SUFFICES ASSUME Init PROVE IInv
    OBVIOUS
<1>1. KeyInv /\ KeyTypeOK
    BY InitKeyInv DEF Init, KeyInv
<1>2. \A w \in Workers : run[w] = Idle /\ ~Busy(w) /\ run[w].step = "idle"
    BY IdleIsIdle DEF Init, Busy
<1>3. NoHits \in [Windows -> Count]
    BY NoHitsAreCounts
<1>4. TypeOK
    BY <1>1, <1>3, RequestShape DEF Init, TypeOK, Connection
<1>5. RequestsFit /\ BatchInv
    BY <1>2 DEF RequestsFit, BatchInv
<1>6. MintInv
    BY <1>2 DEF Init, MintInv, TokensWithinKeys, AuditNamesOwnKeys
<1>7. QuotaInv
    <2>1. \A p \in Projects, x \in Windows : counts[p][x].key = 0 /\ counts[p][x].n = 0
        BY DEF Init, NoHits
    <2>2. \A x \in Windows : WindowKey(x) \in Nat
        BY <1>1, WindowKeyTyped
    <2>3. \A p \in Projects : Hitting(p) = {} /\ counts[p] = granted[p]
        BY <1>2 DEF Hitting, Init
    <2>. QED
        BY <1>2, <2>1, <2>2, <2>3 DEF QuotaInv
<1>8. EventsInv
    <2>1. \A c : ~Announcing(c) /\ \A w \in Workers : ~About(w, c)
        BY <1>2 DEF Announcing, About
    <2>2. \A c \in Connection : /\ Alternates(told[c]) /\ ~(Len(told[c]) % 2 = 1)
                                /\ c \notin conns
        BY DEF Init, Alternates
    <2>. QED
        BY <2>1, <2>2 DEF EventsInv, AloneOn, ToldTruly
<1>. QED
    BY <1>1, <1>4, <1>5, <1>6, <1>7, <1>8 DEF IInv

LEMMA StepKeepsInv ==
    ASSUME IInv, NEW w \in Workers, Step(w), UNCHANGED keyVars
    PROVE  IInv'
<1>1. KeyInv /\ TypeOK /\ RequestsFit /\ QuotaInv /\ EventsInv /\ BatchInv /\ MintInv
    BY DEF IInv
<1>2. KeyInv'
    BY <1>1, KeyInvInductive
<1>3. TypeOK' /\ RequestsFit'
    <2>1. CASE Begin(w)
        BY <1>1, <2>1, BeginIsBegins, BeginKeepsTypes
    <2>. QED
        BY <1>1, <2>1, HitReadsKeepsTypes, HitWritesKeepsTypes, MintKeepsTypes,
           ClosingKeepsTypes, ServeItemKeepsTypes, LookUpKeepsTypes, ApplyKeepsTypes DEF Step
<1>4. BatchInv' /\ MintInv'
    BY <1>1, StepKeepsBatches, StepKeepsMints
<1>5. QuotaInv'
    <2>1. CASE HitReads(w)
        BY <1>1, <2>1, HitReadsKeepsQuota
    <2>2. CASE HitWrites(w)
        BY <1>1, <2>2, HitWritesKeepsQuota
    <2>3. CASE ~HitReads(w) /\ ~HitWrites(w)
        <3>1. run'[w].step # "consume"
            BY <1>1, <2>3, StepAfter, IdleIsIdle DEF Step
        <3>2. UNCHANGED <<counts, granted, clashed>>
            BY <2>3 DEF Step, Begin, ByKey, ByToken, Begins, MintToken, RecordMint, RevokeToken,
               Serve, ServeItem, Respond, LookUp, Apply, Emit, EmitRaises, RefuseUserId,
               DeleterRaises
        <3>. QED
            BY <1>1, <3>1, <3>2, NoHitKeepsQuota
    <2>. QED
        BY <2>1, <2>2, <2>3
<1>6. EventsInv'
    <2>1. CASE \/ Begin(w) \/ LookUp(w) \/ Apply(w) \/ DeleterRaises(w)
               \/ Emit(w) \/ EmitRaises(w)
        BY <1>1, <2>1, BeginKeepsEvents, LookUpKeepsEvents, ApplyKeepsEvents, EmitKeepsEvents,
           EmitRaisesKeepsEvents, DeleterRaisesKeepsEvents
    <2>2. CASE ~(\/ Begin(w) \/ LookUp(w) \/ Apply(w) \/ DeleterRaises(w)
                 \/ Emit(w) \/ EmitRaises(w))
        <3>1. run[w].step # "emit" /\ UNCHANGED <<told, conns, lost, contested>>
            BY <2>2 DEF Step, HitReads, HitWrites, MintToken, RecordMint, RevokeToken, Serve,
               ServeItem, Respond, RefuseUserId, Working
        <3>2. run'[w].step \notin {"apply", "emit"}
            <4>1. CASE HitReads(w)
                BY <1>1, <4>1, HitReadsAfter
            <4>. QED
                BY <1>1, <2>2, <4>1, StepAfter, IdleIsIdle DEF Step
        <3>. QED
            BY <1>1, <2>2, <3>1, <3>2, QuietKeepsEvents
    <2>. QED
        BY <2>1, <2>2
<1>. QED
    BY <1>2, <1>3, <1>4, <1>5, <1>6 DEF IInv

LEMMA IInvInductive == IInv /\ [Next]_vars => IInv'
<1> SUFFICES ASSUME IInv, [Next]_vars PROVE IInv'
    OBVIOUS
<1>1. ASSUME NEW w \in Workers, Step(w), UNCHANGED keyVars PROVE IInv'
    BY <1>1, StepKeepsInv
<1>2. ASSUME [KeyNext]_keyVars, UNCHANGED shellVars PROVE IInv'
    <2>1. KeyInv /\ TypeOK /\ RequestsFit /\ QuotaInv /\ EventsInv /\ BatchInv /\ MintInv
        BY DEF IInv
    <2>2. KeyInv' /\ TypeOK' /\ RequestsFit' /\ QuotaInv' /\ EventsInv' /\ MintInv'
        BY <1>2, <2>1, KeyInvInductive, KeyStepKeepsTypes, KeyStepKeepsQuota,
           KeyStepKeepsEvents, KeyStepKeepsMints
    <2>3. BatchInv'
        BY <1>2, <2>1 DEF shellVars, BatchInv, Busy
    <2>. QED
        BY <2>2, <2>3 DEF IInv
<1>3. CASE UNCHANGED vars
    BY <1>2, <1>3 DEF vars, keyVars, shellVars
<1>. QED
    BY <1>1, <1>2, <1>3 DEF Next

(* Keys, types, counts, events, batches and mints agree in every reachable *)
(* state of the shell.                                                     *)
THEOREM Agree == Spec => []IInv
BY InitIInv, IInvInductive, PTL DEF Spec

(* Counts, tokens, users, connections, the audit log and every request in  *)
(* flight keep their types; a connection's user is known, only tokens that *)
(* were minted are revoked, and the log names only keys that were issued.  *)
THEOREM TypeCorrect == Spec => []TypeOK
<1>1. IInv => TypeOK
    BY DEF IInv
<1>. QED
    BY <1>1, Agree, PTL

(* For any limits and windows, no stored count passes its limit however    *)
(* hits overlap, and where none did, what is stored is what was admitted.  *)
THEOREM QuotaIsKept == Spec => []QuotaKept
<1>1. IInv => QuotaKept
    BY DEF IInv, QuotaInv, QuotaKept
<1>. QED
    BY <1>1, Agree, PTL

(* For any interleaving of requests, what the sink was told of a connection *)
(* is its history, unless two requests overlapped on it or the sink raised. *)
THEOREM StoriesAreTrue == Spec => []EventsTellTheStory
<1>1. IInv => EventsTellTheStory
    BY DEF IInv, EventsInv, EventsTellTheStory, ToldTruly, Alternates
<1>. QED
    BY <1>1, Agree, PTL

(* A prefix of a batch's answers is served, and it is as long as the batch *)
(* has paid for.                                                           *)
LEMMA ServedIsPrefix ==
    ASSUME NEW r \in Request, BatchFits(r)
    PROVE  LET served == {i \in DOMAIN r.answers : r.answers[i] = "served"}
           IN  /\ served = 1 .. Cardinality(served)
               /\ Cardinality(served) = ServedOf(r)
<1> DEFINE served == {i \in DOMAIN r.answers : r.answers[i] = "served"}
           n == ServedOf(r)
<1>1. r.answers \in Seq({"served", "refused"}) /\ DOMAIN r.answers = 1 .. Len(r.answers)
    BY DEF Request
<1>2. n \in 0 .. Len(r.answers) /\ Len(r.answers) \in Nat
    BY <1>1 DEF BatchFits
<1>3. \A i \in 1 .. Len(r.answers) : r.answers[i] = IF i <= n THEN "served" ELSE "refused"
    BY DEF BatchFits
<1> HIDE DEF n
<1>4. served = 1 .. n
    BY <1>1, <1>2, <1>3
<1>5. Cardinality(1 .. n) = n
    BY <1>2, FS_Interval
<1>. QED
    BY <1>4, <1>5 DEF n

(* A batch pays for exactly the items it serves, whatever windows roll over *)
(* and whatever other requests consume while it runs.                      *)
THEOREM BatchesPayPerItem == Spec => []BatchPaysPerItem
<1>1. IInv => BatchPaysPerItem
    <2> SUFFICES ASSUME IInv, NEW w \in Workers, Busy(w), run[w].kind = "batch"
                 PROVE  LET r == run[w]
                            served == {i \in DOMAIN r.answers : r.answers[i] = "served"}
                        IN /\ served = 1 .. Cardinality(served)
                           /\ r.paid = Cardinality(served) + (IF r.step = "work" THEN 1 ELSE 0)
                           /\ r.step = "respond" => Len(r.answers) = BatchSize
        BY DEF BatchPaysPerItem, Busy
    <2>1. run[w] \in Request /\ BatchFits(run[w])
        BY BusyIsRequest DEF IInv, BatchInv
    <2>2. run[w].paid = ServedOf(run[w]) + (IF run[w].step = "work" THEN 1 ELSE 0)
        BY <2>1 DEF ServedOf, Request
    <2>3. run[w].step = "respond" => Len(run[w].answers) = BatchSize
        BY <2>1 DEF BatchFits
    <2>. QED
        BY <2>1, <2>2, <2>3, ServedIsPrefix
<1>. QED
    BY <1>1, Agree, PTL

(* A token never holds a scope beyond a key of its own project, and the    *)
(* audit log of a project names only its own keys.                         *)
THEOREM MintsAreWithinKeys == Spec => [](TokensWithinKeys /\ AuditNamesOwnKeys)
<1>1. IInv => TokensWithinKeys /\ AuditNamesOwnKeys
    BY DEF IInv, MintInv
<1>. QED
    BY <1>1, Agree, PTL

-----------------------------------------------------------------------------
(* What the shell does to keys is what a host may do to them.              *)

(* Requests never touch a key: the shell implements ApiKeys.               *)
THEOREM ShellImplementsApiKeys == Spec => KeySpec
<1>1. Init => KeyInit
    BY DEF Init
<1>2. [Next]_vars => [KeyNext]_keyVars
    BY DEF Next, vars, keyVars
<1>. QED
    BY <1>1, <1>2, PTL DEF Spec, KeySpec

(* No rotation widens a key, whatever requests run meanwhile.              *)
THEOREM KeysNeverWiden == Spec => []NeverWidened
BY ShellImplementsApiKeys, RotationNeverWidens, PTL

(* A dead key stays dead, whatever requests run meanwhile.                 *)
THEOREM KeysStayDead == Spec => DeadStaysDead
BY ShellImplementsApiKeys, DeadKeysStayDead, PTL

(* A token that no longer verifies, because it expired or was revoked,     *)
(* never does again: its id is not minted anew, and a revocation and the   *)
(* clock are never taken back (tokens.py:135-232).                         *)
TokensStayDead ==
    [][\A j \in Jtis : tokens[j] # None /\ ~Verifies(j) => ~Verifies(j)']_vars

THEOREM DeadTokensStayDead == Spec => TokensStayDead
<1>1. ASSUME IInv, [Next]_vars, NEW j \in Jtis, tokens[j] # None, ~Verifies(j)
      PROVE  ~Verifies(j)'
    <2>1. tokens[j] \in Token /\ now \in Nat /\ revoked \subseteq Jtis
        BY <1>1 DEF IInv, TypeOK, KeyTypeOK
    <2>2. now' \in Nat /\ now <= now'
        BY <1>1, <2>1, KeysRemembered DEF IInv, Next, vars, keyVars
    <2>3. tokens'[j] = tokens[j] /\ revoked \subseteq revoked'
        <3>1. ASSUME NEW w \in Workers, Step(w)
              PROVE  tokens'[j] = tokens[j] /\ revoked \subseteq revoked'
            <4>1. MintToken(w) => tokens'[j] = tokens[j]
                BY <1>1 DEF MintToken, IInv, TypeOK
            <4>2. ~MintToken(w) => tokens' = tokens
                BY <3>1 DEF Step, Begin, ByKey, ByToken, Begins, HitReads, HitWrites, RecordMint,
                   RevokeToken, Serve, ServeItem, Respond, LookUp, Apply, Emit, EmitRaises,
                   RefuseUserId, DeleterRaises
            <4>3. revoked \subseteq revoked'
                BY <3>1 DEF Step, Begin, ByKey, ByToken, Begins, HitReads, HitWrites, MintToken,
                   RecordMint, RevokeToken, Serve, ServeItem, Respond, LookUp, Apply, Emit,
                   EmitRaises, RefuseUserId, DeleterRaises
            <4>. QED
                BY <4>1, <4>2, <4>3
        <3>. QED
            BY <1>1, <3>1 DEF Next, vars, shellVars
    <2>. QED
        BY <1>1, <2>1, <2>2, <2>3 DEF Verifies, Token
<1>2. ASSUME IInv, [Next]_vars
      PROVE  [\A j \in Jtis : tokens[j] # None /\ ~Verifies(j) => ~Verifies(j)']_vars
    BY <1>1, <1>2
<1>. QED
    BY <1>2, Agree, PTL DEF Spec, TokensStayDead

=============================================================================
