------------------------------- MODULE Lemmas -------------------------------
(***************************************************************************)
(* Facts about numbers, sequences and finite sets that the proofs of more  *)
(* than one component need.  Induction is over sets: what holds of 0 and   *)
(* passes on to the next natural is a set that is all of Nat, so no lemma  *)
(* has an operator for a parameter.                                        *)
(***************************************************************************)
EXTENDS Integers, Sequences, FiniteSetTheorems, WellFoundedInduction, SequencesExt,
        SequenceTheorems, TLAPS

(* A non-empty set of naturals has a least member. *)
LEMMA LeastNatural ==
    ASSUME NEW T, T \subseteq Nat, T # {}
    PROVE  \E x \in T : \A y \in T : x <= y
<1> DEFINE R == {ss \in Nat \X Nat : ss[1] < ss[2]}
<1>1. IsWellFoundedOn(R, Nat)
    BY NatLessThanWellFounded DEF OpToRel
<1>. HIDE DEF R
<1>2. PICK x \in T : \A y \in T : ~(<<y, x>> \in R)
    BY <1>1, WFMin
<1>3. ASSUME NEW y \in T PROVE x <= y
    <2>1. <<y, x>> \in Nat \X Nat
        OBVIOUS
    <2>2. ~(y < x)
        BY <1>2, <2>1 DEF R
    <2>. QED
        BY <2>2
<1>. QED
    BY <1>3

(* A non-empty set of bounded naturals has a greatest member. *)
LEMMA GreatestNatural ==
    ASSUME NEW n \in Nat, NEW S, S \subseteq 0..n, S # {}
    PROVE  \E b \in S : \A c \in S : c <= b
<1> DEFINE T == {k \in 0..n : n - k \in S}
<1>1. \A c \in S : n - c \in T
    OBVIOUS
<1>. T \subseteq Nat /\ T # {}
    <2>1. \A k \in T : k \in Nat
        OBVIOUS
    <2>2. T # {}
        <3>1. PICK c \in S : TRUE
            OBVIOUS
        <3>2. n - c \in T
            BY <1>1, <3>1
        <3>. QED
            BY <3>2
    <2>. QED
        BY <2>1, <2>2
<1>2. PICK x \in T : \A y \in T : x <= y
    <2>. HIDE DEF T
    <2>. QED
        BY LeastNatural
<1>3. n - x \in S /\ \A c \in S : c <= n - x
    BY <1>1, <1>2
<1>. QED
    BY <1>3

(* Induction up to a bound. *)
LEMMA CountingUp ==
    ASSUME NEW n \in Nat, NEW T, 0 \in T,
           \A i \in 0 .. n - 1 : i \in T => i + 1 \in T
    PROVE  \A i \in 0 .. n : i \in T
<1> SUFFICES ASSUME NEW j \in 0 .. n, j \notin T PROVE FALSE
    OBVIOUS
<1> DEFINE missing == {i \in 0 .. n : i \notin T}
<1>. missing \subseteq Nat /\ missing # {}
    OBVIOUS
<1>1. PICK i \in missing : \A k \in missing : i <= k
    <2>. HIDE DEF missing
    <2>. QED
        BY LeastNatural
<1>2. i \in 0 .. n /\ i \notin T /\ i # 0
    BY <1>1
<1>3. i - 1 \in 0 .. n - 1 /\ i - 1 \in 0 .. n /\ i - 1 + 1 = i
    BY <1>2
<1>4. i - 1 \notin missing
    BY <1>1, <1>3
<1>5. i - 1 \in T
    BY <1>3, <1>4
<1>. QED
    BY <1>2, <1>3, <1>5

(* A division has one result. *)
LEMMA OneDivision ==
    ASSUME NEW H \in Nat \ {0}, NEW a \in Nat, NEW b \in Nat,
           NEW r \in 0 .. H - 1, NEW t \in 0 .. H - 1, a * H + r = b * H + t
    PROVE  a = b /\ r = t
<1>1. a * H \in Nat /\ b * H \in Nat
    OBVIOUS
<1>2. ~(a < b)
    <2> SUFFICES ASSUME a + 1 <= b PROVE FALSE
        OBVIOUS
    <2>1. (a + 1) * H <= b * H
        OBVIOUS
    <2>2. (a + 1) * H = a * H + H
        OBVIOUS
    <2>. QED
        BY <1>1, <2>1, <2>2
<1>3. ~(b < a)
    <2> SUFFICES ASSUME b + 1 <= a PROVE FALSE
        OBVIOUS
    <2>1. (b + 1) * H <= a * H
        OBVIOUS
    <2>2. (b + 1) * H = b * H + H
        OBVIOUS
    <2>. QED
        BY <1>1, <2>1, <2>2
<1>4. a = b
    BY <1>2, <1>3
<1>. QED
    BY <1>1, <1>4

LEMMA Divides ==
    ASSUME NEW at \in Nat, NEW H \in Nat \ {0}
    PROVE  /\ at \div H \in Nat /\ at % H \in 0 .. H - 1
           /\ at = (at \div H) * H + (at % H)
           /\ at \div H <= at
<1>1. at \div H \in Nat /\ at % H \in 0 .. H - 1 /\ at = H * (at \div H) + (at % H)
    OBVIOUS
<1> DEFINE q == at \div H
<1>2. q \in Nat
    BY <1>1
<1>. HIDE DEF q
<1>3. H * q = q * H /\ q * H >= q * 1
    BY <1>2
<1>. QED
    BY <1>1, <1>2, <1>3 DEF q

-----------------------------------------------------------------------------
(* Concatenations of a list of lists. *)

(* flat[i] joins the first i lists, up to the m-th. *)
JoinsUpTo(flat, lists, m) ==
    \A i \in 1 .. m : flat[i] = IF i = 1 THEN lists[i] ELSE flat[i-1] \o lists[i]

(* What FlattenSeq computes. *)
Joins(flat, lists) ==
    /\ DOMAIN flat = 1 .. Len(lists)
    /\ JoinsUpTo(flat, lists, Len(lists))

RunningJoins(lists) ==
    CHOOSE flat : flat = [i \in 1 .. Len(lists) |->
                              IF i = 1 THEN lists[i] ELSE flat[i-1] \o lists[i]]

(* A join of m lists extends to one of m + 1. *)
LEMMA JoinOneMore ==
    ASSUME NEW S, NEW lists \in Seq(Seq(S)), NEW m \in Nat, m + 1 <= Len(lists),
           NEW f \in [1 .. m -> Seq(S)], JoinsUpTo(f, lists, m)
    PROVE  \E g \in [1 .. m + 1 -> Seq(S)] : JoinsUpTo(g, lists, m + 1)
<1> DEFINE last == IF m = 0 THEN lists[1] ELSE f[m] \o lists[m + 1]
           g == [i \in 1 .. m + 1 |-> IF i = m + 1 THEN last ELSE f[i]]
<1>1. m + 1 \in 1 .. Len(lists) /\ lists[m + 1] \in Seq(S) /\ m + 1 \in 1 .. m + 1
    OBVIOUS
<1>2. last \in Seq(S)
    <2>1. CASE m = 0
        BY <1>1, <2>1
    <2>2. CASE m # 0
        <3>1. f[m] \in Seq(S)
            BY <2>2
        <3>. QED
            BY <1>1, <2>2, <3>1
    <2>. QED
        BY <2>1, <2>2
<1> HIDE DEF last
<1>3. g \in [1 .. m + 1 -> Seq(S)]
    BY <1>2
<1>4. g[m + 1] = last
    BY <1>1
<1>5. \A i \in 1 .. m : g[i] = f[i]
    OBVIOUS
<1> HIDE DEF g
<1>6. ASSUME NEW i \in 1 .. m + 1
      PROVE  g[i] = IF i = 1 THEN lists[i] ELSE g[i-1] \o lists[i]
    <2>1. CASE i = m + 1
        <3>1. CASE m = 0
            BY <1>4, <2>1, <3>1 DEF last
        <3>2. CASE m # 0
            <4>1. i - 1 = m /\ m \in 1 .. m /\ i # 1
                BY <2>1, <3>2
            <4>2. g[i-1] = f[m]
                BY <4>1, <1>5
            <4>3. last = f[m] \o lists[m + 1]
                BY <3>2 DEF last
            <4>. QED
                BY <1>4, <2>1, <4>1, <4>2, <4>3
        <3>. QED
            BY <3>1, <3>2
    <2>2. CASE i \in 1 .. m
        <3>1. i # 1 => i - 1 \in 1 .. m
            BY <2>2
        <3>2. f[i] = IF i = 1 THEN lists[i] ELSE f[i-1] \o lists[i]
            BY <2>2 DEF JoinsUpTo
        <3>3. g[i] = f[i] /\ (i # 1 => g[i-1] = f[i-1])
            BY <1>5, <2>2, <3>1
        <3>. QED
            BY <3>2, <3>3
    <2>. QED
        BY <2>1, <2>2
<1>. QED
    BY <1>3, <1>6 DEF JoinsUpTo

(* The recursion has a solution, found by extending one for a shorter list. *)
LEMMA JoinsExist ==
    ASSUME NEW S, NEW lists \in Seq(Seq(S))
    PROVE  \E flat \in [1 .. Len(lists) -> Seq(S)] : Joins(flat, lists)
<1> DEFINE n == Len(lists)
           T == {m \in 0 .. n : \E f \in [1 .. m -> Seq(S)] : JoinsUpTo(f, lists, m)}
<1>1. n \in Nat
    OBVIOUS
<1>2. 0 \in T
    <2>1. [i \in 1 .. 0 |-> << >>] \in [1 .. 0 -> Seq(S)]
        OBVIOUS
    <2>2. JoinsUpTo([i \in 1 .. 0 |-> << >>], lists, 0)
        BY DEF JoinsUpTo
    <2>3. 0 \in 0 .. n
        BY <1>1
    <2>. QED
        BY <2>1, <2>2, <2>3, Zenon
<1>3. ASSUME NEW m \in 0 .. n - 1, m \in T PROVE m + 1 \in T
    <2>1. PICK f \in [1 .. m -> Seq(S)] : JoinsUpTo(f, lists, m)
        BY <1>3
    <2>2. m \in Nat /\ m + 1 <= Len(lists) /\ m + 1 \in 0 .. n
        BY <1>1, <1>3
    <2>3. \E g \in [1 .. m + 1 -> Seq(S)] : JoinsUpTo(g, lists, m + 1)
        BY <2>1, <2>2, JoinOneMore
    <2>. QED
        BY <2>2, <2>3
<1> HIDE DEF T, n
<1>4. n \in T
    <2>1. \A i \in 0 .. n : i \in T
        BY <1>1, <1>2, <1>3, CountingUp
    <2>. QED
        BY <1>1, <2>1
<1>5. PICK f \in [1 .. n -> Seq(S)] : JoinsUpTo(f, lists, n)
    BY <1>4 DEF T
<1>. QED
    BY <1>5 DEF Joins, n

(* So it is what the definition chooses.                                   *)
LEMMA RunningJoinsJoin ==
    ASSUME NEW S, NEW lists \in Seq(Seq(S))
    PROVE  Joins(RunningJoins(lists), lists)
<1>1. PICK flat \in [1 .. Len(lists) -> Seq(S)] : Joins(flat, lists)
    BY JoinsExist
<1>2. flat = [i \in 1 .. Len(lists) |->
                  IF i = 1 THEN lists[i] ELSE flat[i-1] \o lists[i]]
    BY <1>1 DEF Joins, JoinsUpTo
<1>3. RunningJoins(lists) = [i \in 1 .. Len(lists) |->
           IF i = 1 THEN lists[i] ELSE RunningJoins(lists)[i-1] \o lists[i]]
    BY <1>2, Zenon DEF RunningJoins
<1>. QED
    BY <1>3 DEF Joins, JoinsUpTo

LEMMA FlattenIsRunningJoin ==
    ASSUME NEW lists, Len(lists) # 0
    PROVE  FlattenSeq(lists) = RunningJoins(lists)[Len(lists)]
BY Zenon DEF FlattenSeq, RunningJoins

(* A list up to one more of its elements. *)
LEMMA OneMoreOf ==
    ASSUME NEW S, NEW s \in Seq(S), NEW m \in 0 .. Len(s) - 1
    PROVE  /\ s[m + 1] \in S /\ SubSeq(s, 1, m) \in Seq(S)
           /\ SubSeq(s, 1, m + 1) = Append(SubSeq(s, 1, m), s[m + 1])
OBVIOUS

LEMMA AppendLast ==
    ASSUME NEW S, NEW s \in Seq(S), NEW t \in Seq(S), NEW x \in S
    PROVE  s \o Append(t, x) = Append(s \o t, x)
OBVIOUS

LEMMA FlattenNone == FlattenSeq(<< >>) = << >>
BY DEF FlattenSeq

(* One more list at the end adds its members at the end.                   *)
LEMMA FlattenAppend ==
    ASSUME NEW S, NEW lists \in Seq(Seq(S)), NEW x \in Seq(S)
    PROVE  FlattenSeq(Append(lists, x)) = FlattenSeq(lists) \o x
<1> DEFINE n == Len(lists)
           more == Append(lists, x)
           f == RunningJoins(lists)
           g == RunningJoins(more)
<1>1. /\ n \in Nat /\ more \in Seq(Seq(S)) /\ Len(more) = n + 1 /\ more[n + 1] = x
      /\ \A i \in 1 .. n : more[i] = lists[i]
    OBVIOUS
<1> HIDE DEF more
<1>2. JoinsUpTo(f, lists, n) /\ JoinsUpTo(g, more, n + 1)
    BY <1>1, RunningJoinsJoin DEF Joins
<1>3. FlattenSeq(more) = g[n + 1]
    <2>1. Len(more) # 0
        BY <1>1
    <2>. QED
        BY <1>1, <2>1, FlattenIsRunningJoin
<1>4. n # 0 => FlattenSeq(lists) = f[n]
    BY FlattenIsRunningJoin
<1> DEFINE T == {i \in 0 .. n : i = 0 \/ f[i] = g[i]}
<1> HIDE DEF f, g, n
<1>5. ASSUME NEW i \in 0 .. n - 1, i \in T PROVE i + 1 \in T
    <2>1. i + 1 \in 1 .. n /\ i + 1 \in 1 .. n + 1 /\ i + 1 - 1 = i /\ i + 1 \in 0 .. n
        BY <1>1
    <2>2. /\ f[i + 1] = IF i + 1 = 1 THEN lists[i + 1] ELSE f[i] \o lists[i + 1]
          /\ g[i + 1] = IF i + 1 = 1 THEN more[i + 1] ELSE g[i] \o more[i + 1]
        BY <1>2, <2>1 DEF JoinsUpTo
    <2>3. i + 1 = 1 \/ f[i] = g[i]
        BY <1>1, <1>5
    <2>4. f[i + 1] = g[i + 1]
        BY <1>1, <2>1, <2>2, <2>3
    <2>. QED
        BY <2>1, <2>4
<1>6. 0 \in T
    BY <1>1
<1>7. n \in T
    <2>. HIDE DEF T
    <2>1. \A i \in 0 .. n : i \in T
        BY <1>1, <1>5, <1>6, CountingUp
    <2>. QED
        BY <1>1, <2>1
<1>8. n + 1 \in 1 .. n + 1 /\ n + 1 - 1 = n
    BY <1>1
<1>9. g[n + 1] = IF n + 1 = 1 THEN x ELSE g[n] \o x
    BY <1>1, <1>2, <1>8 DEF JoinsUpTo
<1>10. CASE n = 0
    <2>1. lists = << >> /\ << >> \o x = x
        BY <1>10, ConcatEmptySeq DEF n
    <2>. QED
        BY <1>3, <1>9, <1>10, <2>1, FlattenNone DEF more
<1>11. CASE n # 0
    <2>1. n + 1 # 1
        BY <1>1, <1>11
    <2>. QED
        BY <1>3, <1>4, <1>7, <1>9, <1>11, <2>1 DEF more
<1>. QED
    BY <1>10, <1>11

(* both has the elements of s, then those of t. *)
Laid(s, t, both) ==
    /\ \A i \in 1 .. Len(s) : i \in 1 .. Len(both) /\ both[i] = s[i]
    /\ \A i \in 1 .. Len(t) : Len(s) + i \in 1 .. Len(both) /\ both[Len(s) + i] = t[i]

LEMMA Concatenated ==
    ASSUME NEW S, NEW s \in Seq(S), NEW t \in Seq(S)
    PROVE  Laid(s, t, s \o t)
BY DEF Laid

(* Flattening a list of lists over S gives a list over S ...               *)
LEMMA FlattenTyped ==
    ASSUME NEW S, NEW lists \in Seq(Seq(S))
    PROVE  FlattenSeq(lists) \in Seq(S)
<1>1. CASE Len(lists) = 0
    <2>1. FlattenSeq(lists) = lists
        BY <1>1, Zenon DEF FlattenSeq
    <2>2. lists = << >>
        BY <1>1
    <2>. QED
        BY <2>1, <2>2
<1>2. CASE Len(lists) # 0
    <2> DEFINE flat == RunningJoins(lists)
               n == Len(lists)
               T == {m \in 0 .. n : m = 0 \/ flat[m] \in Seq(S)}
    <2>1. n \in Nat /\ n # 0
        BY <1>2
    <2>2. JoinsUpTo(flat, lists, n)
        BY RunningJoinsJoin DEF Joins
    <2> HIDE DEF flat
    <2>3. 0 \in T
        BY <2>1
    <2>4. ASSUME NEW m \in 0 .. n - 1, m \in T PROVE m + 1 \in T
        <3>1. m + 1 \in 1 .. n /\ m + 1 - 1 = m /\ lists[m + 1] \in Seq(S)
            BY <2>1, <2>4
        <3>2. flat[m + 1] = IF m + 1 = 1 THEN lists[m + 1] ELSE flat[m] \o lists[m + 1]
            BY <2>2, <3>1 DEF JoinsUpTo
        <3>3. flat[m + 1] \in Seq(S)
            BY <2>4, <3>1, <3>2
        <3>. QED
            BY <2>1, <3>1, <3>3
    <2> HIDE DEF T, n
    <2>5. n \in T
        <3>1. \A i \in 0 .. n : i \in T
            BY <2>1, <2>3, <2>4, CountingUp
        <3>. QED
            BY <2>1, <3>1
    <2>6. flat[n] \in Seq(S)
        BY <2>1, <2>5 DEF T
    <2>. QED
        BY <1>2, <2>6, FlattenIsRunningJoin DEF flat, n
<1>. QED
    BY <1>1, <1>2

(* So a flattened list splits where the list of lists does.                *)
LEMMA FlattenSplits ==
    ASSUME NEW S, NEW s \in Seq(Seq(S)), NEW t \in Seq(Seq(S))
    PROVE  FlattenSeq(s \o t) = FlattenSeq(s) \o FlattenSeq(t)
<1> DEFINE first(m) == SubSeq(t, 1, m)
           N == Len(t)
           T == {m \in 0 .. N : FlattenSeq(s \o first(m)) = FlattenSeq(s) \o FlattenSeq(first(m))}
<1>1. N \in Nat /\ FlattenSeq(s) \in Seq(S)
    BY FlattenTyped
<1>2. first(0) = << >> /\ first(N) = t /\ s \o << >> = s
    BY ConcatEmptySeq, SubSeqFull
<1>3. FlattenSeq(s) \o << >> = FlattenSeq(s)
    BY <1>1, ConcatEmptySeq
<1>4. \A m \in 0 .. N - 1 :
          /\ t[m + 1] \in Seq(S) /\ first(m) \in Seq(Seq(S))
          /\ first(m + 1) = Append(first(m), t[m + 1])
    <2> SUFFICES ASSUME NEW m \in 0 .. N - 1
                 PROVE  /\ t[m + 1] \in Seq(S) /\ first(m) \in Seq(Seq(S))
                        /\ first(m + 1) = Append(first(m), t[m + 1])
        OBVIOUS
    <2>. QED
        BY OneMoreOf
<1>. HIDE DEF first, N
<1>5. 0 \in T
    <2>1. FlattenSeq(s \o first(0)) = FlattenSeq(s) \o FlattenSeq(first(0))
        BY <1>2, <1>3, FlattenNone
    <2>2. 0 \in 0 .. N
        BY <1>1
    <2>. QED
        BY <2>1, <2>2
<1>6. ASSUME NEW m \in 0 .. N - 1, m \in T PROVE m + 1 \in T
    <2>1. m + 1 \in 0 .. N
        BY <1>1
    <2>2. FlattenSeq(s \o first(m)) = FlattenSeq(s) \o FlattenSeq(first(m))
        BY <1>6
    <2>3. /\ s \o Append(first(m), t[m + 1]) = Append(s \o first(m), t[m + 1])
          /\ s \o first(m) \in Seq(Seq(S))
        <3>1. t[m + 1] \in Seq(S) /\ first(m) \in Seq(Seq(S))
            BY <1>4
        <3>2. s \o first(m) \in Seq(Seq(S))
            BY <3>1, ConcatProperties
        <3>. QED
            BY <3>1, <3>2, AppendLast, SMTT(60)
    <2>4. FlattenSeq(s \o first(m + 1)) = FlattenSeq(s \o first(m)) \o t[m + 1]
        BY <1>4, <2>3, FlattenAppend
    <2>5. FlattenSeq(first(m + 1)) = FlattenSeq(first(m)) \o t[m + 1]
        BY <1>4, FlattenAppend
    <2>6. FlattenSeq(first(m)) \in Seq(S)
        BY <1>4, FlattenTyped
    <2>7. (FlattenSeq(s) \o FlattenSeq(first(m))) \o t[m + 1]
              = FlattenSeq(s) \o (FlattenSeq(first(m)) \o t[m + 1])
        <3>1. t[m + 1] \in Seq(S)
            BY <1>4
        <3> DEFINE a == FlattenSeq(s)
                   b == FlattenSeq(first(m))
                   c == t[m + 1]
        <3>2. a \in Seq(S) /\ b \in Seq(S) /\ c \in Seq(S)
            BY <1>1, <2>6, <3>1
        <3> HIDE DEF a, b, c
        <3>3. (a \o b) \o c = a \o (b \o c)
            BY <3>2, ConcatAssociative, SMTT(60)
        <3>. QED
            BY <3>3 DEF a, b, c
    <2>8. FlattenSeq(s \o first(m + 1)) = FlattenSeq(s) \o FlattenSeq(first(m + 1))
        BY <2>2, <2>4, <2>5, <2>7
    <2>. QED
        BY <2>1, <2>8
<1>. HIDE DEF T
<1>7. N \in T
    <2>1. \A i \in 0 .. N : i \in T
        BY <1>1, <1>5, <1>6, CountingUp
    <2>. QED
        BY <1>1, <2>1
<1>. QED
    BY <1>2, <1>7 DEF T

(* ... that leaves nobody out.                                             *)
LEMMA FlattenCovers ==
    ASSUME NEW S, NEW lists \in Seq(Seq(S)), NEW k \in 1 .. Len(lists),
           NEW j \in 1 .. Len(lists[k])
    PROVE  \E i \in 1 .. Len(FlattenSeq(lists)) : FlattenSeq(lists)[i] = lists[k][j]
<1> DEFINE flat == RunningJoins(lists)
           n == Len(lists)
           Has(m) == \E i \in 1 .. Len(flat[m]) : flat[m][i] = lists[k][j]
           T == {m \in 0 .. n : (m # 0 => flat[m] \in Seq(S)) /\ (m >= k => Has(m))}
<1>1. n \in Nat /\ n # 0 /\ k \in 1 .. n /\ lists[k] \in Seq(S)
    OBVIOUS
<1>2. JoinsUpTo(flat, lists, n)
    BY RunningJoinsJoin DEF Joins
<1> HIDE DEF flat
<1>9. \A i \in 1 .. n : flat[i] = IF i = 1 THEN lists[i] ELSE flat[i-1] \o lists[i]
    BY <1>2 DEF JoinsUpTo
<1>3. 0 \in T
    BY <1>1
<1>4. ASSUME NEW m \in 0 .. n - 1, m \in T PROVE m + 1 \in T
    <2>1. m + 1 \in 1 .. n /\ m + 1 - 1 = m /\ lists[m + 1] \in Seq(S)
        BY <1>1, <1>4
    <2>2. flat[m + 1] = IF m + 1 = 1 THEN lists[m + 1] ELSE flat[m] \o lists[m + 1]
        <3>1. flat[m + 1] = IF m + 1 = 1 THEN lists[m + 1]
                            ELSE flat[(m + 1) - 1] \o lists[m + 1]
            BY <1>9, <2>1, Zenon
        <3>2. (m + 1) - 1 = m
            BY <2>1
        <3>. QED
            BY <3>1, <3>2, Zenon
    <2>3. flat[m + 1] \in Seq(S)
        BY <1>4, <2>1, <2>2
    <2>4. ASSUME m + 1 >= k PROVE Has(m + 1)
        <3>1. CASE m + 1 = 1
            <4>1. k = 1 /\ flat[m + 1] = lists[k]
                BY <1>1, <2>2, <2>4, <3>1
            <4>. QED
                BY <4>1
        <3>2. CASE m + 1 # 1
            <4> DEFINE before == flat[m]
                       next == lists[m + 1]
            <4>5. m # 0
                BY <1>1, <1>4, <3>2
            <4>6. before \in Seq(S) /\ next \in Seq(S) /\ flat[m + 1] = before \o next
                BY <1>4, <2>1, <2>2, <3>2, <4>5
            <4> HIDE DEF before, next
            <4>1. Laid(before, next, flat[m + 1])
                BY <4>6, Concatenated
            <4>2. CASE m + 1 = k
                <5>1. next = lists[k]
                    BY <4>2 DEF next
                <5>2. /\ Len(before) + j \in 1 .. Len(flat[m + 1])
                      /\ flat[m + 1][Len(before) + j] = lists[k][j]
                    BY <4>1, <5>1 DEF Laid
                <5>. QED
                    BY <5>2
            <4>3. CASE m + 1 # k
                <5>1. m >= k
                    BY <1>1, <2>1, <2>4, <4>3
                <5>2. PICK i \in 1 .. Len(before) : before[i] = lists[k][j]
                    BY <1>4, <5>1 DEF before
                <5>3. i \in 1 .. Len(flat[m + 1]) /\ flat[m + 1][i] = before[i]
                    BY <4>1, <5>2 DEF Laid
                <5>. QED
                    BY <5>2, <5>3
            <4>. QED
                BY <4>2, <4>3
        <3>. QED
            BY <3>1, <3>2
    <2>. QED
        BY <1>1, <2>1, <2>3, <2>4
<1> HIDE DEF T, n
<1>5. n \in T
    <2>1. \A i \in 0 .. n : i \in T
        BY <1>1, <1>3, <1>4, CountingUp
    <2>. QED
        BY <1>1, <2>1
<1>6. n >= k => Has(n)
    BY <1>5 DEF T
<1>7. n >= k
    BY <1>1
<1>8. FlattenSeq(lists) = flat[n]
    BY <1>1, FlattenIsRunningJoin DEF flat, n
<1>. QED
    BY <1>6, <1>7, <1>8

(* Lists that repeat nothing, and share nothing, are flattened into one    *)
(* that repeats nothing.                                                   *)
LEMMA FlattenInjective ==
    ASSUME NEW S, NEW lists \in Seq(Seq(S)),
           \A k \in 1 .. Len(lists) : IsInjective(lists[k]),
           \A k, l \in 1 .. Len(lists) :
               k # l => \A i \in 1 .. Len(lists[k]), j \in 1 .. Len(lists[l]) :
                            lists[k][i] # lists[l][j]
    PROVE  IsInjective(FlattenSeq(lists))
<1>1. CASE Len(lists) = 0
    <2>1. FlattenSeq(lists) = lists
        BY <1>1, Zenon DEF FlattenSeq
    <2>2. DOMAIN lists = {}
        BY <1>1
    <2>. QED
        BY <2>1, <2>2 DEF IsInjective
<1>2. CASE Len(lists) # 0
    <2> DEFINE flat == RunningJoins(lists)
               n == Len(lists)
               Comes(m) == \A i \in 1 .. Len(flat[m]) : \E k \in 1 .. m :
                               \E j \in 1 .. Len(lists[k]) : flat[m][i] = lists[k][j]
               T == {m \in 0 .. n : m # 0 => flat[m] \in Seq(S) /\ IsInjective(flat[m]) /\ Comes(m)}
    <2>1. n \in Nat /\ n # 0
        BY <1>2
    <2>2. JoinsUpTo(flat, lists, n)
        BY RunningJoinsJoin DEF Joins
    <2> HIDE DEF flat
    <2>3. \A i \in 1 .. n : flat[i] = IF i = 1 THEN lists[i] ELSE flat[i-1] \o lists[i]
        BY <2>2 DEF JoinsUpTo
    <2>4. 0 \in T
        BY <2>1
    <2>5. ASSUME NEW m \in 0 .. n - 1, m \in T PROVE m + 1 \in T
        <3>1. /\ m \in Nat /\ m + 1 \in 1 .. n /\ m + 1 \in 0 .. n /\ m + 1 - 1 = m
              /\ lists[m + 1] \in Seq(S) /\ IsInjective(lists[m + 1])
            BY <2>1, <2>5
        <3>2. flat[m + 1] = IF m + 1 = 1 THEN lists[m + 1] ELSE flat[m] \o lists[m + 1]
            BY <2>3, <3>1
        <3>3. CASE m = 0
            <4>1. flat[m + 1] = lists[m + 1]
                BY <3>2, <3>3
            <4>2. Comes(m + 1)
                BY <3>1, <4>1
            <4>. QED
                BY <3>1, <4>1, <4>2
        <3>4. CASE m # 0
            <4> DEFINE before == flat[m]
                       next == lists[m + 1]
                       both == flat[m + 1]
            <4> HIDE DEF Comes
            <4>12. before \in Seq(S) /\ IsInjective(before) /\ Comes(m)
                BY <2>5, <3>4
            <4>14. m + 1 # 1
                BY <2>1, <3>4
            <4>13. both = before \o next
                BY <3>2, <4>14, Zenon
            <4>1. /\ before \in Seq(S) /\ next \in Seq(S) /\ both = before \o next
                  /\ IsInjective(before) /\ IsInjective(next)
                BY <3>1, <4>12, <4>13
            <4>2. \A i \in 1 .. Len(before) : \E k \in 1 .. m :
                      \E j \in 1 .. Len(lists[k]) : before[i] = lists[k][j]
                BY <4>12 DEF Comes
            <4>3. ASSUME NEW i \in 1 .. Len(before), NEW j \in 1 .. Len(next)
                  PROVE  before[i] # next[j]
                <5>1. PICK k \in 1 .. m : \E l \in 1 .. Len(lists[k]) : before[i] = lists[k][l]
                    BY <4>2
                <5>2. k \in 1 .. n /\ k # m + 1
                    BY <3>1
                <5>. QED
                    BY <3>1, <5>1, <5>2
            <4> HIDE DEF before, next, both
            <4>4. both \in Seq(S) /\ Laid(before, next, both)
                BY <4>1, Concatenated
            <4>5. Len(both) = Len(before) + Len(next)
                BY <4>1
            <4>6. \A i \in 1 .. Len(both) :
                      \/ i \in 1 .. Len(before)
                      \/ \E j \in 1 .. Len(next) : i = Len(before) + j
                <5>1. Len(before) \in Nat /\ Len(next) \in Nat
                    BY <4>1
                <5>2. ASSUME NEW i \in 1 .. Len(both), i \notin 1 .. Len(before)
                      PROVE  i - Len(before) \in 1 .. Len(next) /\ i = Len(before) + (i - Len(before))
                    BY <4>5, <5>1, <5>2
                <5>. QED
                    BY <5>2
            <4>7. ASSUME NEW a \in 1 .. Len(both), NEW b \in 1 .. Len(both), both[a] = both[b]
                  PROVE  a = b
                <5>1. CASE a \in 1 .. Len(before) /\ b \in 1 .. Len(before)
                    <6>1. before[a] = before[b]
                        BY <4>4, <4>7, <5>1 DEF Laid
                    <6>2. DOMAIN before = 1 .. Len(before)
                        BY <4>1
                    <6>. QED
                        BY <4>1, <5>1, <6>1, <6>2 DEF IsInjective
                <5>2. CASE a \in 1 .. Len(before) /\ b \notin 1 .. Len(before)
                    <6>1. PICK j \in 1 .. Len(next) : b = Len(before) + j
                        BY <4>6, <5>2
                    <6>2. both[a] = before[a] /\ both[b] = next[j]
                        BY <4>4, <5>2, <6>1 DEF Laid
                    <6>. QED
                        BY <4>3, <4>7, <5>2, <6>2
                <5>3. CASE a \notin 1 .. Len(before) /\ b \in 1 .. Len(before)
                    <6>1. PICK j \in 1 .. Len(next) : a = Len(before) + j
                        BY <4>6, <5>3
                    <6>2. both[b] = before[b] /\ both[a] = next[j]
                        BY <4>4, <5>3, <6>1 DEF Laid
                    <6>. QED
                        BY <4>3, <4>7, <5>3, <6>2
                <5>4. CASE a \notin 1 .. Len(before) /\ b \notin 1 .. Len(before)
                    <6>1. PICK i \in 1 .. Len(next) : a = Len(before) + i
                        BY <4>6, <5>4
                    <6>2. PICK j \in 1 .. Len(next) : b = Len(before) + j
                        BY <4>6, <5>4
                    <6>3. next[i] = next[j]
                        BY <4>4, <4>7, <6>1, <6>2 DEF Laid
                    <6>4. DOMAIN next = 1 .. Len(next)
                        BY <4>1
                    <6>5. i = j
                        BY <4>1, <6>3, <6>4 DEF IsInjective
                    <6>. QED
                        BY <6>1, <6>2, <6>5
                <5>. QED
                    BY <5>1, <5>2, <5>3, <5>4
            <4>8. DOMAIN both = 1 .. Len(both)
                BY <4>4
            <4>9. IsInjective(both)
                BY <4>7, <4>8 DEF IsInjective
            <4>10. ASSUME NEW i \in 1 .. Len(both)
                   PROVE  \E k \in 1 .. m + 1 : \E j \in 1 .. Len(lists[k]) : both[i] = lists[k][j]
                <5>1. CASE i \in 1 .. Len(before)
                    <6>1. PICK k \in 1 .. m : \E j \in 1 .. Len(lists[k]) : before[i] = lists[k][j]
                        BY <4>2, <5>1
                    <6>2. both[i] = before[i]
                        BY <4>4, <5>1 DEF Laid
                    <6>3. k \in 1 .. m + 1
                        BY <3>1
                    <6>. QED
                        BY <6>1, <6>2, <6>3
                <5>2. CASE i \notin 1 .. Len(before)
                    <6>1. PICK j \in 1 .. Len(next) : i = Len(before) + j
                        BY <4>6, <5>2
                    <6>2. both[i] = next[j] /\ next = lists[m + 1]
                        BY <4>4, <6>1 DEF Laid, next
                    <6>3. m + 1 \in 1 .. m + 1
                        BY <3>1
                    <6>. QED
                        BY <6>2, <6>3
                <5>. QED
                    BY <5>1, <5>2
            <4>11. Comes(m + 1)
                BY <4>10 DEF both, Comes
            <4>. QED
                BY <3>1, <4>4, <4>9, <4>11 DEF both
        <3>. QED
            BY <3>3, <3>4
    <2> HIDE DEF T, n
    <2>6. n \in T
        <3>1. \A i \in 0 .. n : i \in T
            BY <2>1, <2>4, <2>5, CountingUp
        <3>. QED
            BY <2>1, <3>1
    <2>7. IsInjective(flat[n])
        BY <2>1, <2>6 DEF T
    <2>. QED
        BY <1>2, <2>7, FlattenIsRunningJoin DEF flat, n
<1>. QED
    BY <1>1, <1>2

-----------------------------------------------------------------------------
(* Sums over finite sets: SumFunctionOnSet(f, S) takes its elements in an  *)
(* order of its own, which makes no difference.                            *)

(* Of some subsets of a finite set, one is smallest. *)
LEMMA SmallestSubset ==
    ASSUME NEW S, IsFiniteSet(S), NEW P, P \subseteq SUBSET S, P # {}
    PROVE  \E s \in P : \A t \in P : Cardinality(s) <= Cardinality(t)
<1> DEFINE sizes == {Cardinality(s) : s \in P}
<1>1. \A s \in P : Cardinality(s) \in Nat
    BY FS_Subset, FS_CardinalityType
<1>2. sizes \subseteq Nat /\ sizes # {}
    BY <1>1
<1>3. PICK n \in sizes : \A m \in sizes : n <= m
    <2>. HIDE DEF sizes
    <2>. QED
        BY <1>2, LeastNatural
<1>4. PICK s \in P : n = Cardinality(s)
    BY <1>3
<1>5. \A t \in P : Cardinality(t) \in sizes
    OBVIOUS
<1>. QED
    BY <1>3, <1>4, <1>5

LEMMA Removed ==
    ASSUME NEW s, IsFiniteSet(s), NEW x \in s
    PROVE  /\ IsFiniteSet(s \ {x})
           /\ Cardinality(s \ {x}) = Cardinality(s) - 1
           /\ Cardinality(s) \in Nat /\ Cardinality(s \ {x}) \in Nat
BY FS_RemoveElement, FS_CardinalityType

(* Induction over the subsets of a finite set. *)
LEMMA FiniteInduction ==
    ASSUME NEW S, IsFiniteSet(S), NEW P, {} \in P,
           \A s \in SUBSET S : \A x \in S \ s : s \in P => s \cup {x} \in P
    PROVE  S \in P
<1> SUFFICES ASSUME S \notin P PROVE FALSE
    OBVIOUS
<1> DEFINE bad == {s \in SUBSET S : s \notin P}
<1>1. bad \subseteq SUBSET S /\ bad # {}
    OBVIOUS
<1>2. PICK s \in bad : \A t \in bad : Cardinality(s) <= Cardinality(t)
    <2>. HIDE DEF bad
    <2>. QED
        BY <1>1, SmallestSubset
<1>3. s \in SUBSET S /\ s \notin P /\ s # {} /\ IsFiniteSet(s)
    BY <1>2, FS_Subset
<1>4. PICK x \in s : TRUE
    BY <1>3
<1>5. Cardinality(s \ {x}) = Cardinality(s) - 1 /\ Cardinality(s) \in Nat
    BY <1>3, <1>4, Removed
<1>6. s \ {x} \in P
    BY <1>2, <1>3, <1>5
<1>7. (s \ {x}) \cup {x} = s /\ s \ {x} \in SUBSET S /\ x \in S \ (s \ {x})
    BY <1>3, <1>4
<1>. QED
    BY <1>3, <1>6, <1>7

Chosen(s) == CHOOSE x \in s : TRUE

(* it is what the definition of a sum computes on the subsets in D. *)
Sums(it, f, D) ==
    \A s \in D : it[s] = IF s = {} THEN 0 ELSE f[Chosen(s)] + it[s \ {Chosen(s)}]

SmallSubsets(S, n) == {s \in SUBSET S : Cardinality(s) <= n}

LEMMA SumOneMore ==
    ASSUME NEW S, IsFiniteSet(S), NEW f, \A x \in S : f[x] \in Int, NEW n \in Nat,
           NEW it \in [SmallSubsets(S, n) -> Int], Sums(it, f, SmallSubsets(S, n))
    PROVE  \E jt \in [SmallSubsets(S, n + 1) -> Int] : Sums(jt, f, SmallSubsets(S, n + 1))
<1> DEFINE D == SmallSubsets(S, n)
           E == SmallSubsets(S, n + 1)
           next(s) == IF s = {} THEN 0 ELSE f[Chosen(s)] + it[s \ {Chosen(s)}]
           jt == [s \in E |-> next(s)]
<1>1. ASSUME NEW s \in E, s # {}
      PROVE  /\ Chosen(s) \in s /\ f[Chosen(s)] \in Int
             /\ s \ {Chosen(s)} \in D /\ s \ {Chosen(s)} \in E
    <2>1. Chosen(s) \in s
        BY <1>1 DEF Chosen
    <2>2. s \in SUBSET S /\ Cardinality(s) <= n + 1 /\ IsFiniteSet(s)
        BY FS_Subset DEF SmallSubsets
    <2>3. Cardinality(s \ {Chosen(s)}) = Cardinality(s) - 1 /\ Cardinality(s) \in Nat
        BY <2>1, <2>2, Removed
    <2>. QED
        BY <2>1, <2>2, <2>3 DEF SmallSubsets
<1>2. ASSUME NEW s \in E PROVE next(s) \in Int
    BY <1>1
<1>3. jt \in [E -> Int]
    BY <1>2
<1>4. ASSUME NEW s \in D PROVE s \in E /\ jt[s] = it[s]
    <2>1. s \in E
        BY FS_Subset, FS_CardinalityType DEF SmallSubsets
    <2>2. it[s] = next(s)
        BY DEF Sums
    <2>. QED
        BY <2>1, <2>2
<1>5. ASSUME NEW s \in E
      PROVE  jt[s] = IF s = {} THEN 0 ELSE f[Chosen(s)] + jt[s \ {Chosen(s)}]
    <2>1. jt[s] = next(s)
        OBVIOUS
    <2>2. CASE s = {}
        BY <2>1, <2>2
    <2>3. CASE s # {}
        <3>1. jt[s \ {Chosen(s)}] = it[s \ {Chosen(s)}]
            BY <1>1, <1>4, <2>3
        <3>. QED
            BY <2>1, <2>3, <3>1
    <2>. QED
        BY <2>2, <2>3
<1> HIDE DEF jt
<1>. QED
    BY <1>3, <1>5 DEF Sums

LEMMA SumsExist ==
    ASSUME NEW S, IsFiniteSet(S), NEW f, \A x \in S : f[x] \in Int
    PROVE  \E it \in [SUBSET S -> Int] : Sums(it, f, SUBSET S)
<1> DEFINE N == Cardinality(S)
           T == {n \in 0 .. N : \E it \in [SmallSubsets(S, n) -> Int] :
                                    Sums(it, f, SmallSubsets(S, n))}
<1>1. N \in Nat
    BY FS_CardinalityType
<1>2. 0 \in T
    <2>1. \A s \in SmallSubsets(S, 0) : s = {}
        BY FS_Subset, FS_EmptySet, FS_CardinalityType DEF SmallSubsets
    <2>2. [s \in SmallSubsets(S, 0) |-> 0] \in [SmallSubsets(S, 0) -> Int]
        OBVIOUS
    <2>3. Sums([s \in SmallSubsets(S, 0) |-> 0], f, SmallSubsets(S, 0))
        BY <2>1 DEF Sums
    <2>4. 0 \in 0 .. N
        BY <1>1
    <2>. QED
        BY <2>2, <2>3, <2>4, Zenon
<1>3. ASSUME NEW n \in 0 .. N - 1, n \in T PROVE n + 1 \in T
    <2>1. n \in Nat /\ n + 1 \in 0 .. N
        BY <1>1
    <2>2. PICK it \in [SmallSubsets(S, n) -> Int] : Sums(it, f, SmallSubsets(S, n))
        BY <1>3
    <2>3. \E jt \in [SmallSubsets(S, n + 1) -> Int] : Sums(jt, f, SmallSubsets(S, n + 1))
        BY <2>1, <2>2, SumOneMore
    <2>. QED
        BY <2>1, <2>3
<1> HIDE DEF T, N
<1>4. N \in T
    <2>1. \A i \in 0 .. N : i \in T
        BY <1>1, <1>2, <1>3, CountingUp
    <2>. QED
        BY <1>1, <2>1
<1>5. SmallSubsets(S, N) = SUBSET S
    <2>1. \A s \in SUBSET S : Cardinality(s) <= N
        BY FS_Subset DEF N
    <2>. QED
        BY <2>1 DEF SmallSubsets
<1>. QED
    BY <1>4, <1>5 DEF T

(* The solution is unique, on the subsets that two of them share.          *)
LEMMA SumsAgree ==
    ASSUME NEW S, IsFiniteSet(S), NEW f, NEW it, NEW jt, NEW D, NEW E,
           Sums(it, f, D), Sums(jt, f, E), SUBSET S \subseteq D, SUBSET S \subseteq E
    PROVE  it[S] = jt[S]
<1> SUFFICES ASSUME it[S] # jt[S] PROVE FALSE
    OBVIOUS
<1> DEFINE bad == {s \in SUBSET S : it[s] # jt[s]}
<1>1. bad \subseteq SUBSET S /\ bad # {}
    OBVIOUS
<1>2. PICK s \in bad : \A t \in bad : Cardinality(s) <= Cardinality(t)
    <2>. HIDE DEF bad
    <2>. QED
        BY <1>1, SmallestSubset
<1>3. s \in SUBSET S /\ it[s] # jt[s] /\ IsFiniteSet(s) /\ s \in D /\ s \in E
    BY <1>2, FS_Subset
<1>4. /\ it[s] = IF s = {} THEN 0 ELSE f[Chosen(s)] + it[s \ {Chosen(s)}]
      /\ jt[s] = IF s = {} THEN 0 ELSE f[Chosen(s)] + jt[s \ {Chosen(s)}]
    BY <1>3 DEF Sums
<1>5. s # {} /\ it[s \ {Chosen(s)}] # jt[s \ {Chosen(s)}]
    BY <1>3, <1>4
<1>6. Chosen(s) \in s
    BY <1>5 DEF Chosen
<1>7. Cardinality(s \ {Chosen(s)}) = Cardinality(s) - 1 /\ Cardinality(s) \in Nat
    BY <1>3, <1>6, Removed
<1>8. s \ {Chosen(s)} \in bad
    BY <1>3, <1>5
<1>. QED
    BY <1>2, <1>7, <1>8

SumIterator(f, S) ==
    CHOOSE it : it = [s \in SUBSET S |-> IF s = {} THEN 0
                                         ELSE LET x == CHOOSE x \in s : TRUE
                                              IN  f[x] + it[s \ {x}]]

LEMMA SumIterates ==
    ASSUME NEW S, IsFiniteSet(S), NEW f, \A x \in S : f[x] \in Int
    PROVE  /\ Sums(SumIterator(f, S), f, SUBSET S)
           /\ SumFunctionOnSet(f, S) = SumIterator(f, S)[S]
           /\ SumFunctionOnSet(f, S) \in Int
<1>1. PICK it \in [SUBSET S -> Int] : Sums(it, f, SUBSET S)
    BY SumsExist
<1>2. it = [s \in SUBSET S |-> IF s = {} THEN 0
                               ELSE LET x == CHOOSE x \in s : TRUE
                                    IN  f[x] + it[s \ {x}]]
    BY <1>1 DEF Sums, Chosen
<1>3. SumIterator(f, S) = [s \in SUBSET S |->
           IF s = {} THEN 0 ELSE LET x == CHOOSE x \in s : TRUE
                                 IN  f[x] + SumIterator(f, S)[s \ {x}]]
    BY <1>2, Zenon DEF SumIterator
<1>4. Sums(SumIterator(f, S), f, SUBSET S)
    BY <1>3 DEF Sums, Chosen
<1>5. SumIterator(f, S)[S] = it[S]
    BY <1>1, <1>4, SumsAgree
<1>6. SumFunctionOnSet(f, S) = SumIterator(f, S)[S]
    BY Zenon DEF SumFunctionOnSet, FoldFunctionOnSet, MapThenFoldSet, SumIterator
<1>. QED
    BY <1>1, <1>4, <1>5, <1>6

LEMMA SumChosen ==
    ASSUME NEW S, IsFiniteSet(S), NEW f, \A x \in S : f[x] \in Int, S # {}
    PROVE  /\ Chosen(S) \in S
           /\ SumFunctionOnSet(f, S) = f[Chosen(S)] + SumFunctionOnSet(f, S \ {Chosen(S)})
<1> DEFINE R == S \ {Chosen(S)}
<1>1. Chosen(S) \in S
    BY DEF Chosen
<1>2. IsFiniteSet(R) /\ \A x \in R : f[x] \in Int
    BY <1>1, Removed
<1>3. /\ Sums(SumIterator(f, S), f, SUBSET S)
      /\ SumFunctionOnSet(f, S) = SumIterator(f, S)[S]
    BY SumIterates
<1>4. /\ Sums(SumIterator(f, R), f, SUBSET R)
      /\ SumFunctionOnSet(f, R) = SumIterator(f, R)[R]
    BY <1>2, SumIterates
<1>5. SumIterator(f, S)[S] = f[Chosen(S)] + SumIterator(f, S)[R]
    BY <1>3 DEF Sums
<1>6. SumIterator(f, S)[R] = SumIterator(f, R)[R]
    <2>1. SUBSET R \subseteq SUBSET S
        OBVIOUS
    <2>. QED
        BY <1>2, <1>3, <1>4, <2>1, SumsAgree
<1>. QED
    BY <1>1, <1>3, <1>4, <1>5, <1>6

(* What a sum is, whatever the order it is taken in. *)
LEMMA SumInteger ==
    ASSUME NEW S, IsFiniteSet(S), NEW f, \A x \in S : f[x] \in Int
    PROVE  SumFunctionOnSet(f, S) \in Int
BY SumIterates

LEMMA SumEmpty ==
    ASSUME NEW f
    PROVE  SumFunctionOnSet(f, {}) = 0
<1>1. IsFiniteSet({}) /\ \A x \in {} : f[x] \in Int
    BY FS_EmptySet
<1>2. Sums(SumIterator(f, {}), f, SUBSET {}) /\ SumFunctionOnSet(f, {}) = SumIterator(f, {})[{}]
    BY <1>1, SumIterates
<1>. QED
    BY <1>2 DEF Sums

LEMMA SumTakes ==
    ASSUME NEW S, IsFiniteSet(S), NEW f, \A x \in S : f[x] \in Int, NEW y \in S
    PROVE  SumFunctionOnSet(f, S) = f[y] + SumFunctionOnSet(f, S \ {y})
<1> DEFINE Sum(s) == SumFunctionOnSet(f, s)
           bad == {s \in SUBSET S : \E x \in s : Sum(s) # f[x] + Sum(s \ {x})}
<1> SUFFICES ASSUME bad # {} PROVE FALSE
    OBVIOUS
<1>1. bad \subseteq SUBSET S
    OBVIOUS
<1>2. PICK s \in bad : \A t \in bad : Cardinality(s) <= Cardinality(t)
    <2>. HIDE DEF bad
    <2>. QED
        BY <1>1, SmallestSubset
<1>3. PICK x \in s : Sum(s) # f[x] + Sum(s \ {x})
    BY <1>2
<1>4. /\ s \in SUBSET S /\ IsFiniteSet(s) /\ s # {}
      /\ \A z \in s : f[z] \in Int
    BY <1>2, <1>3, FS_Subset
<1> DEFINE c == Chosen(s)
<1>5. c \in s /\ Sum(s) = f[c] + Sum(s \ {c})
    BY <1>4, SumChosen
<1> HIDE DEF c
<1>6. x # c
    BY <1>3, <1>5
<1>7. /\ IsFiniteSet(s \ {c}) /\ Cardinality(s \ {c}) = Cardinality(s) - 1
      /\ IsFiniteSet(s \ {x}) /\ Cardinality(s \ {x}) = Cardinality(s) - 1
      /\ Cardinality(s) \in Nat
    BY <1>4, <1>5, Removed
<1>8. s \ {c} \notin bad /\ s \ {x} \notin bad
    <2>. HIDE DEF bad
    <2>. QED
        BY <1>2, <1>7
<1>9. /\ Sum(s \ {c}) = f[x] + Sum((s \ {c}) \ {x})
      /\ Sum(s \ {x}) = f[c] + Sum((s \ {x}) \ {c})
    BY <1>4, <1>5, <1>6, <1>8
<1>10. (s \ {c}) \ {x} = (s \ {x}) \ {c}
    OBVIOUS
<1>11. Sum((s \ {c}) \ {x}) \in Int
    <2>1. IsFiniteSet((s \ {c}) \ {x})
        BY <1>7, FS_Subset
    <2>. QED
        BY <1>4, <2>1, SumInteger
<1>12. f[x] \in Int /\ f[c] \in Int
    BY <1>3, <1>4, <1>5
<1> DEFINE rest == Sum((s \ {c}) \ {x})
<1>13. /\ Sum(s) = f[c] + (f[x] + rest) /\ Sum(s \ {x}) = f[c] + rest
       /\ rest \in Int
    BY <1>5, <1>9, <1>10, <1>11
<1> HIDE DEF Sum, bad, rest
<1>14. f[c] + (f[x] + rest) = f[x] + (f[c] + rest)
    BY <1>12, <1>13
<1>. QED
    BY <1>3, <1>13, <1>14

LEMMA SumAdds ==
    ASSUME NEW S, IsFiniteSet(S), NEW f, \A x \in S : f[x] \in Int,
           NEW y, y \notin S, f[y] \in Int
    PROVE  SumFunctionOnSet(f, S \cup {y}) = f[y] + SumFunctionOnSet(f, S)
<1> DEFINE U == S \cup {y}
<1>1. IsFiniteSet(U) /\ y \in U /\ U \ {y} = S /\ \A x \in U : f[x] \in Int
    BY FS_AddElement
<1>. HIDE DEF U
<1>2. SumFunctionOnSet(f, U) = f[y] + SumFunctionOnSet(f, U \ {y})
    BY <1>1, SumTakes
<1>. QED
    BY <1>1, <1>2 DEF U

IsPointwiseSum(h, f, g, S) ==
    \A x \in S : f[x] \in Int /\ g[x] \in Int /\ h[x] = f[x] + g[x]

(* A pointwise sum sums to the sum of the sums. *)
LEMMA SumPlus ==
    ASSUME NEW S, IsFiniteSet(S), NEW f, NEW g, NEW h, IsPointwiseSum(h, f, g, S)
    PROVE  SumFunctionOnSet(h, S) = SumFunctionOnSet(f, S) + SumFunctionOnSet(g, S)
<1> DEFINE P == {s \in SUBSET S : SumFunctionOnSet(h, s)
                                      = SumFunctionOnSet(f, s) + SumFunctionOnSet(g, s)}
<1>0. \A x \in S : f[x] \in Int /\ g[x] \in Int /\ h[x] = f[x] + g[x]
    BY DEF IsPointwiseSum
<1>1. {} \in P
    BY SumEmpty
<1>2. ASSUME NEW s \in SUBSET S, NEW x \in S \ s, s \in P PROVE s \cup {x} \in P
    <2>1. IsFiniteSet(s) /\ \A z \in S : f[z] \in Int /\ g[z] \in Int /\ h[z] \in Int
        BY <1>0, FS_Subset
    <2>2. /\ SumFunctionOnSet(f, s) \in Int /\ SumFunctionOnSet(g, s) \in Int
          /\ SumFunctionOnSet(f, s \cup {x}) = f[x] + SumFunctionOnSet(f, s)
          /\ SumFunctionOnSet(g, s \cup {x}) = g[x] + SumFunctionOnSet(g, s)
          /\ SumFunctionOnSet(h, s \cup {x}) = h[x] + SumFunctionOnSet(h, s)
        BY <2>1, SumInteger, SumAdds
    <2>3. f[x] \in Int /\ g[x] \in Int /\ h[x] = f[x] + g[x]
        BY <1>0
    <2>4. SumFunctionOnSet(h, s) = SumFunctionOnSet(f, s) + SumFunctionOnSet(g, s)
        BY <1>2
    <2>5. s \cup {x} \in SUBSET S
        OBVIOUS
    <2>. QED
        BY <2>2, <2>3, <2>4, <2>5
<1>3. S \in P
    <2>. HIDE DEF P
    <2>. QED
        BY <1>1, <1>2, FiniteInduction
<1>. QED
    BY <1>3

LEMMA SumSame ==
    ASSUME NEW S, IsFiniteSet(S), NEW f, NEW g, \A x \in S : f[x] \in Int /\ g[x] = f[x]
    PROVE  SumFunctionOnSet(g, S) = SumFunctionOnSet(f, S)
<1> DEFINE P == {s \in SUBSET S : SumFunctionOnSet(g, s) = SumFunctionOnSet(f, s)}
<1>1. {} \in P
    BY SumEmpty
<1>2. ASSUME NEW s \in SUBSET S, NEW x \in S \ s, s \in P PROVE s \cup {x} \in P
    <2>1. IsFiniteSet(s)
        BY FS_Subset
    <2>2. /\ SumFunctionOnSet(f, s \cup {x}) = f[x] + SumFunctionOnSet(f, s)
          /\ SumFunctionOnSet(g, s \cup {x}) = g[x] + SumFunctionOnSet(g, s)
        BY <2>1, SumAdds
    <2>3. g[x] = f[x] /\ SumFunctionOnSet(g, s) = SumFunctionOnSet(f, s)
        BY <1>2
    <2>. QED
        BY <2>2, <2>3
<1>3. S \in P
    <2>. HIDE DEF P
    <2>. QED
        BY <1>1, <1>2, FiniteInduction
<1>. QED
    BY <1>3

LEMMA SumType ==
    ASSUME NEW S, IsFiniteSet(S), NEW f, \A x \in S : f[x] \in Nat
    PROVE  SumFunctionOnSet(f, S) \in Nat
<1> DEFINE P == {s \in SUBSET S : SumFunctionOnSet(f, s) \in Nat}
<1>1. {} \in P
    BY SumEmpty
<1>2. ASSUME NEW s \in SUBSET S, NEW x \in S \ s, s \in P PROVE s \cup {x} \in P
    <2>1. IsFiniteSet(s) /\ f[x] \in Nat /\ \A z \in s : f[z] \in Int
        BY FS_Subset
    <2>2. SumFunctionOnSet(f, s \cup {x}) = f[x] + SumFunctionOnSet(f, s)
        BY <2>1, SumAdds
    <2>3. SumFunctionOnSet(f, s) \in Nat
        BY <1>2
    <2>4. s \cup {x} \in SUBSET S
        OBVIOUS
    <2>. QED
        BY <2>1, <2>2, <2>3, <2>4
<1>3. S \in P
    <2>. HIDE DEF P
    <2>. QED
        BY <1>1, <1>2, FiniteInduction
<1>. QED
    BY <1>3

LEMMA SumWithin ==
    ASSUME NEW T, IsFiniteSet(T), NEW f, \A x \in T : f[x] \in Nat, NEW S \in SUBSET T
    PROVE  SumFunctionOnSet(f, S) <= SumFunctionOnSet(f, T)
<1> DEFINE R == T \ S
           P == {s \in SUBSET R : SumFunctionOnSet(f, S) <= SumFunctionOnSet(f, S \cup s)}
<1>1. IsFiniteSet(R) /\ IsFiniteSet(S)
    BY FS_Subset
<1>2. {} \in P
    <2>1. S \cup {} = S /\ SumFunctionOnSet(f, S) \in Nat
        BY <1>1, SumType
    <2>. QED
        BY <2>1
<1>3. ASSUME NEW s \in SUBSET R, NEW x \in R \ s, s \in P PROVE s \cup {x} \in P
    <2> DEFINE V == S \cup s
    <2>1. V \in SUBSET T /\ x \notin V /\ f[x] \in Nat /\ S \cup (s \cup {x}) = V \cup {x}
        OBVIOUS
    <2>2. IsFiniteSet(V) /\ \A z \in V : f[z] \in Nat
        BY <2>1, FS_Subset
    <2>3. SumFunctionOnSet(f, S) <= SumFunctionOnSet(f, V)
        BY <1>3
    <2>4. SumFunctionOnSet(f, S) \in Nat
        BY <1>1, SumType
    <2>. HIDE DEF V
    <2>5. /\ SumFunctionOnSet(f, V) \in Nat
          /\ SumFunctionOnSet(f, V \cup {x}) = f[x] + SumFunctionOnSet(f, V)
        BY <2>1, <2>2, SumType, SumAdds
    <2>6. SumFunctionOnSet(f, S) <= SumFunctionOnSet(f, S \cup (s \cup {x}))
        <3>1. SumFunctionOnSet(f, S) <= SumFunctionOnSet(f, V \cup {x})
            <4>1. f[x] \in Nat
                BY <2>1
            <4>. QED
                BY <2>3, <2>4, <2>5, <4>1
        <3>2. S \cup (s \cup {x}) = V \cup {x}
            BY <2>1
        <3>. QED
            BY <3>1, <3>2
    <2>7. s \cup {x} \in SUBSET R
        OBVIOUS
    <2>. QED
        BY <2>6, <2>7
<1>4. R \in P
    <2>. HIDE DEF P, R
    <2>. QED
        BY <1>1, <1>2, <1>3, FiniteInduction
<1>5. S \cup R = T
    OBVIOUS
<1>. QED
    BY <1>4, <1>5

=============================================================================
