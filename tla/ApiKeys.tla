------------------------------ MODULE ApiKeys ------------------------------
(***************************************************************************)
(* The lives of API keys (auradefi.tenancy.keys): issued with an optional  *)
(* expiry, rotated with an overlap in which both plaintexts authenticate,  *)
(* revoked.  A plaintext is held by whoever holds the id, so a key is its  *)
(* id.  The host is assumed to administer keys from one thread, of which   *)
(* the code says nothing: each call is one step.                           *)
(* Refused calls (an unknown or foreign id, a dead key, an expiry in the   *)
(* past, a negative overlap) raise before anything is written.             *)
(***************************************************************************)
EXTENDS Integers, FiniteSets

CONSTANTS
    Projects,
    KeyIds,         \* ids new_key_id may return
    Scopes,
    ScopeSets,      \* the sets of scopes a host asks for
    Never,          \* expires_at = None: the key does not expire
    None,           \* Python's None elsewhere
    MaxNow,         \* bound: the clock
    MaxOverlap      \* bound: overlap_ms

ASSUME NeverIsNoInstant == Never \notin Int
ASSUME NoneIsNoInstant == None \notin Int
ASSUME ScopeSetsAreScopes == ScopeSets \subseteq SUBSET Scopes
ASSUME ClockBound == MaxNow \in Nat /\ MaxOverlap \in Nat

VARIABLES
    now,        \* clock.now_ms()
    keys,       \* _keys: the record of each id, None before it is issued
    root        \* ghost: the issued key each key was rotated out of, with its terms

keyVars == <<now, keys, root>>

Expiries == Nat \cup {Never}

ApiKey ==
    [project_id : Projects, scopes : SUBSET Scopes,
     expires_at : Expiries, revoked_at : Nat \cup {None}]

ASSUME NoneIsNoKey == None \notin ApiKey

KeyTypeOK ==
    /\ now \in Nat
    /\ keys \in [KeyIds -> ApiKey \cup {None}]
    /\ root \in [KeyIds -> ApiKey \cup {None}]

KeyInit ==
    /\ now = 0
    /\ keys = [k \in KeyIds |-> None]
    /\ root = [k \in KeyIds |-> None]

Issued == {k \in KeyIds : keys[k] # None}

Expired(key) == key.expires_at # Never /\ now >= key.expires_at

(* The two checks authenticate makes of the record it matched, which are   *)
(* also the two that rotate makes before it mints.                         *)
Alive(key) == key.revoked_at = None /\ ~Expired(key)

Authenticates(k) == keys[k] # None /\ Alive(keys[k])

(* _owned: another project's key is as good as none.                       *)
Owned(p, k) == keys[k] # None /\ keys[k].project_id = p

Fresh == KeyIds \ Issued

Minted(p, scopes, expiry) ==
    [project_id |-> p, scopes |-> scopes, expires_at |-> expiry, revoked_at |-> None]

Issue(p, k, scopes, expiry) ==
    /\ k \in Fresh
    /\ expiry # Never => expiry > now
    /\ keys' = [keys EXCEPT ![k] = Minted(p, scopes, expiry)]
    /\ root' = [root EXCEPT ![k] = Minted(p, scopes, expiry)]
    /\ UNCHANGED now

(* The expiry a rotated key is left with.                                  *)
OverlapExpiry(old, overlap) ==
    IF old.expires_at # Never /\ old.expires_at < now + overlap
    THEN old.expires_at
    ELSE now + overlap

(* The key a rotation mints.                                               *)
SuccessorFault(old, overlap) == Minted(old.project_id, old.scopes, Never)

Successor(old, overlap) == Minted(old.project_id, old.scopes, old.expires_at)

RotateUncheckedFault(p, k, overlap, fresh) ==
    /\ Owned(p, k)
    /\ fresh \in Fresh
    /\ keys' = [keys EXCEPT
           ![fresh] = Successor(keys[k], overlap),
           ![k] = [@ EXCEPT !.expires_at = now + overlap]]
    /\ root' = [root EXCEPT ![fresh] = root[k]]
    /\ UNCHANGED now

Rotate(p, k, overlap, fresh) ==
    /\ Owned(p, k)
    /\ Alive(keys[k])
    /\ fresh \in Fresh
    /\ keys' = [keys EXCEPT
           ![fresh] = Successor(keys[k], overlap),
           ![k] = [@ EXCEPT !.expires_at = OverlapExpiry(keys[k], overlap)]]
    /\ root' = [root EXCEPT ![fresh] = root[k]]
    /\ UNCHANGED now

(* A second revocation is a no-op: the first revoked_at stands.            *)
Revoke(p, k) ==
    /\ Owned(p, k)
    /\ keys[k].revoked_at = None
    /\ keys' = [keys EXCEPT ![k].revoked_at = now]
    /\ UNCHANGED <<now, root>>

Pass ==
    /\ now < MaxNow
    /\ now' = now + 1
    /\ UNCHANGED <<keys, root>>

Administer ==
    \/ \E p \in Projects, k \in KeyIds, scopes \in ScopeSets,
           expiry \in (0 .. MaxNow) \cup {Never} : Issue(p, k, scopes, expiry)
    \/ \E p \in Projects, k, fresh \in KeyIds, overlap \in 0 .. MaxOverlap :
           Rotate(p, k, overlap, fresh)
    \/ \E p \in Projects, k \in KeyIds : Revoke(p, k)

KeyNext == Administer \/ Pass

KeySpec == KeyInit /\ [][KeyNext]_keyVars

-----------------------------------------------------------------------------

NoLater(e, f) == f # Never => e # Never /\ e <= f

(* Rotations of rotations, with any overlaps in between, never widen what  *)
(* was issued: a key has the tenant and the scopes of the key it descends  *)
(* from, and does not outlive it.  A key widened once hands its new life   *)
(* to every later rotation (keys.py:238-292).                              *)
NeverWidened ==
    \A k \in Issued :
        /\ keys[k].project_id = root[k].project_id
        /\ keys[k].scopes = root[k].scopes
        /\ NoLater(keys[k].expires_at, root[k].expires_at)

(* A key that has stopped authenticating, by expiry or by revocation, never *)
(* authenticates again, whatever is rotated, revoked or issued later       *)
(* (keys.py:201-223 with 238-305).                                         *)
DeadStaysDead ==
    [][\A k \in Issued : ~Authenticates(k) => ~Authenticates(k)']_keyVars

=============================================================================
