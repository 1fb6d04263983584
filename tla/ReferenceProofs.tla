--------------------------- MODULE ReferenceProofs ---------------------------
(***************************************************************************)
(* The stores of receipts and absences, for every limit and any number of  *)
(* tenants and resources, and the reference state machine, for every       *)
(* finite set of memories, all envelopes and every graph without cycles.   *)
(*                                                                         *)
(* The stores: the counters count the entries, and every entry carries the *)
(* era of its resource.  The machine: each status is the worst along       *)
(* single dependencies, which in a graph without cycles is the worst of    *)
(* all a memory depends on; recomputing the dependents of a change is      *)
(* enough to keep that; and the journal's events carry these statuses.     *)
(***************************************************************************)
EXTENDS MCReference, FiniteSetTheorems, WellFoundedInduction, TLAPS

(* A set of naturals has a least element.                                  *)
LEMMA LeastNat ==
  ASSUME NEW Z \in SUBSET Nat, Z # {}
  PROVE  \E x \in Z : \A y \in Z : x <= y
<1>1. PICK R : R = OpToRel(<, Nat)
  OBVIOUS
<1>2. IsWellFoundedOn(R, Nat)
  BY <1>1, NatLessThanWellFounded
<1>3. \A x, y \in Nat : y < x => <<y, x>> \in R
  BY <1>1 DEF OpToRel
<1>4. PICK x \in Z : \A y \in Z : ~(<<y, x>> \in R)
  BY <1>2, WFMin
<1>5. ASSUME NEW y \in Z PROVE x <= y
  <2>1. ~(<<y, x>> \in R)
    BY <1>4
  <2>2. ~(y < x)
    BY <2>1, <1>3
  <2> QED
    BY <2>2
<1> QED
  BY <1>5

(* Induction over the naturals, for a set in place of a predicate.         *)
LEMMA InductionOverNat ==
  ASSUME NEW S, 0 \in S, \A n \in Nat : n \in S => n + 1 \in S
  PROVE  Nat \subseteq S
<1>1. PICK bad : bad = Nat \ S
  OBVIOUS
<1> SUFFICES ASSUME bad # {} PROVE FALSE
  BY <1>1
<1>2. PICK x \in bad : \A y \in bad : x <= y
  BY <1>1, LeastNat
<1>3. x # 0 /\ x - 1 \in Nat /\ x - 1 \notin bad
  BY <1>1, <1>2
<1>4. (x - 1) + 1 \in S
  BY <1>1, <1>3
<1> QED
  BY <1>1, <1>3, <1>4
-----------------------------------------------------------------------------
(* The bounded stores.  The entries of a tenant, by their places.          *)
Places(s, t) == {i \in 1 .. Len(s) : s[i].key.tenant = t}
Count(s, t) == Cardinality(Places(s, t))

(* What countOf of the stores counts.                                      *)
LEMMA CountIs ==
  ASSUME NEW s, NEW t PROVE K!CountOf(s, t) = Count(s, t)
<1>1. \A S : K!Cardinality(S) = Cardinality(S)
  BY Zenon DEF K!Cardinality, Cardinality, K!IsFiniteSet, IsFiniteSet
<1> QED
  BY <1>1 DEF K!CountOf, Count, Places

(* A store holds finitely many entries of a tenant.                        *)
LEMMA PlacesAreFinite ==
  ASSUME NEW X, NEW s \in Seq(X), NEW t
  PROVE  IsFiniteSet(Places(s, t)) /\ Count(s, t) \in Nat
<1>1. PICK n \in Nat : n = Len(s)
  OBVIOUS
<1>2. IsFiniteSet(1 .. n)
  BY FS_Interval
<1>3. Places(s, t) \in SUBSET (1 .. n)
  BY <1>1 DEF Places
<1>4. IsFiniteSet(Places(s, t))
  BY <1>2, <1>3, FS_Subset
<1> QED
  BY <1>4, FS_CardinalityType DEF Count

(* One entry more, as a put appends it.                                    *)
LEMMA CountAppend ==
  ASSUME NEW X, NEW s \in Seq(X), NEW e \in X, NEW t
  PROVE  Count(Append(s, e), t) = IF e.key.tenant = t THEN Count(s, t) + 1 ELSE Count(s, t)
<1>1. PICK n \in Nat : n = Len(s)
  OBVIOUS
<1>2. PICK u : u = Append(s, e)
  OBVIOUS
<1>3. Len(u) = n + 1 /\ u[n + 1] = e /\ \A i \in 1 .. n : u[i] = s[i]
  BY <1>1, <1>2
<1>4. 1 .. n + 1 = (1 .. n) \cup {n + 1} /\ n + 1 \notin 1 .. n
  OBVIOUS
<1>5. PICK P : P = Places(s, t)
  OBVIOUS
<1>6. P = {i \in 1 .. n : s[i].key.tenant = t} /\ IsFiniteSet(P) /\ n + 1 \notin P
  BY <1>1, <1>4, <1>5, PlacesAreFinite DEF Places
<1>7. CASE e.key.tenant = t
  <2>1. Places(u, t) = P \cup {n + 1}
    BY <1>3, <1>4, <1>6, <1>7 DEF Places
  <2>2. Cardinality(P \cup {n + 1}) = Cardinality(P) + 1
    BY <1>6, FS_AddElement
  <2> QED
    BY <1>2, <1>5, <1>7, <2>1, <2>2 DEF Count
<1>8. CASE e.key.tenant # t
  <2>1. Places(u, t) = P
    BY <1>3, <1>4, <1>6, <1>8 DEF Places
  <2> QED
    BY <1>2, <1>5, <1>8, <2>1 DEF Count
<1> QED
  BY <1>7, <1>8

(* An empty store has no entry of anybody.                                 *)
LEMMA CountOfNone ==
  ASSUME NEW t PROVE Count(<<>>, t) = 0
<1>1. Places(<<>>, t) = {}
  BY DEF Places
<1> QED
  BY <1>1, FS_EmptySet DEF Count

(* One entry less.                                                         *)
LEMMA CountRemoved ==
  ASSUME NEW X, NEW s \in Seq(X), NEW n \in 1 .. Len(s), NEW u \in Seq(X),
         Len(u) = Len(s) - 1,
         \A j \in 1 .. Len(u) : u[j] = IF j < n THEN s[j] ELSE s[j + 1],
         NEW t
  PROVE  Count(u, t) = IF s[n].key.tenant = t THEN Count(s, t) - 1 ELSE Count(s, t)
<1>1. PICK l \in Nat : Len(s) = l /\ n \in 1 .. l /\ Len(u) = l - 1 /\ l - 1 \in Nat
  <2>1. Len(s) \in Nat
    OBVIOUS
  <2> QED
    BY <2>1
<1>2. PICK P : P = Places(s, t)
  OBVIOUS
<1>3. PICK Q : Q = Places(u, t)
  OBVIOUS
<1>4. P = {i \in 1 .. l : s[i].key.tenant = t} /\ IsFiniteSet(P)
  BY <1>1, <1>2, PlacesAreFinite DEF Places
<1>5. Q = {i \in 1 .. l - 1 : u[i].key.tenant = t} /\ IsFiniteSet(Q)
  BY <1>1, <1>3, PlacesAreFinite DEF Places
<1>6. PICK R : R = P \ {n}
  OBVIOUS
<1>7. PICK f : f = [j \in R |-> IF j < n THEN j ELSE j - 1]
  OBVIOUS
<1>8. ASSUME NEW j \in R PROVE f[j] \in Q
  <2>1. j \in 1 .. l /\ j # n /\ s[j].key.tenant = t
    BY <1>4, <1>6
  <2>2. CASE j < n
    <3>1. j \in 1 .. l - 1 /\ u[j] = s[j] /\ f[j] = j
      BY <1>1, <1>7, <2>1, <2>2
    <3> QED
      BY <1>5, <2>1, <3>1
  <2>3. CASE ~(j < n)
    <3>1. PICK i : i = j - 1
      OBVIOUS
    <3>2. i \in 1 .. l - 1 /\ i + 1 = j /\ ~(i < n) /\ f[j] = i
      BY <1>1, <1>7, <2>1, <2>3, <3>1
    <3>3. u[i] = s[j]
      BY <1>1, <3>2
    <3> QED
      BY <1>5, <2>1, <3>2, <3>3
  <2> QED
    BY <2>2, <2>3
<1>9. ASSUME NEW i \in R, NEW j \in R, f[i] = f[j] PROVE i = j
  <2>1. i \in Nat /\ j \in Nat /\ i # n /\ j # n /\ n \in Nat
    BY <1>1, <1>4, <1>6
  <2>2. f[i] = (IF i < n THEN i ELSE i - 1) /\ f[j] = (IF j < n THEN j ELSE j - 1)
    BY <1>7
  <2>3. (IF i < n THEN i ELSE i - 1) = (IF j < n THEN j ELSE j - 1)
    BY <1>9, <2>2
  <2> QED
    BY <2>1, <2>3
<1>10. ASSUME NEW i \in Q PROVE \E j \in R : f[j] = i
  <2>1. i \in 1 .. l - 1 /\ u[i].key.tenant = t
    BY <1>5
  <2>2. CASE i < n
    <3>1. i \in 1 .. l /\ u[i] = s[i]
      BY <1>1, <2>1, <2>2
    <3>2. i \in R
      BY <1>1, <1>4, <1>6, <2>1, <2>2, <3>1
    <3> QED
      BY <1>7, <2>2, <3>2
  <2>3. CASE ~(i < n)
    <3>1. PICK j : j = i + 1
      OBVIOUS
    <3>2. j \in 1 .. l /\ ~(j < n) /\ j - 1 = i /\ j # n /\ u[i] = s[j]
      BY <1>1, <2>1, <2>3, <3>1
    <3>3. j \in R
      BY <1>4, <1>6, <2>1, <3>2
    <3> QED
      BY <1>7, <3>2, <3>3
  <2> QED
    BY <2>2, <2>3
<1>11. f \in Bijection(R, Q)
  BY <1>7, <1>8, <1>9, <1>10 DEF Bijection, Injection, Surjection, IsInjective
<1>12. IsFiniteSet(R) /\ Cardinality(R) = IF n \in P THEN Cardinality(P) - 1 ELSE Cardinality(P)
  BY <1>4, <1>6, FS_RemoveElement
<1>13. Cardinality(Q) = Cardinality(R)
  BY <1>11, <1>12, FS_Bijection DEF ExistsBijection
<1>14. n \in P <=> s[n].key.tenant = t
  BY <1>1, <1>4
<1> QED
  BY <1>2, <1>3, <1>12, <1>13, <1>14 DEF Count

(* Only, entry by entry.                                                   *)
Chosen(s, S, n, t) == {i \in 1 .. n : s[i] \in S /\ s[i].key.tenant = t}

(* Only keeps the chosen entries, in their order and as often as they were *)
(* there.                                                                  *)
LEMMA OnlyFacts ==
  ASSUME NEW X, NEW s \in Seq(X), NEW S
  PROVE  /\ K!Only(s, S) \in Seq(X)
         /\ Len(K!Only(s, S)) <= Len(s)
         /\ \A i \in 1 .. Len(K!Only(s, S)) : K!Only(s, S)[i] \in S
         /\ \A i \in 1 .. Len(K!Only(s, S)) : \E j \in 1 .. Len(s) : K!Only(s, S)[i] = s[j]
         /\ \A j \in 1 .. Len(s) : s[j] \in S => \E i \in 1 .. Len(K!Only(s, S)) : K!Only(s, S)[i] = s[j]
         /\ \A t : Count(K!Only(s, S), t) = Cardinality(Chosen(s, S, Len(s), t))
<1>1. PICK l \in Nat : l = Len(s)
  OBVIOUS
<1> DEFINE IsRun(f) ==
      f = [n \in 0 .. l |-> IF n = 0 THEN <<>>
                            ELSE IF s[n] \in S THEN Append(f[n - 1], s[n]) ELSE f[n - 1]]
<1>2. \E f : IsRun(f)
  <2> DEFINE E == {k \in Nat : \E f : /\ f[0] = <<>>
                                      /\ \A n \in 1 .. k : f[n] = IF s[n] \in S THEN Append(f[n - 1], s[n])
                                                                  ELSE f[n - 1]}
  <2>1. 0 \in E
    <3>1. PICK f : f = [n \in 0 .. 0 |-> <<>>]
      OBVIOUS
    <3>2. f[0] = <<>> /\ 1 .. 0 = {}
      BY <3>1
    <3> QED
      BY <3>2
  <2>2. ASSUME NEW k \in Nat, k \in E PROVE k + 1 \in E
    <3>1. PICK f : /\ f[0] = <<>>
                   /\ \A n \in 1 .. k : f[n] = IF s[n] \in S THEN Append(f[n - 1], s[n]) ELSE f[n - 1]
      BY <2>2
    <3>2. PICK next : next = IF s[k + 1] \in S THEN Append(f[k], s[k + 1]) ELSE f[k]
      OBVIOUS
    <3>3. PICK g : g = [n \in 0 .. k + 1 |-> IF n <= k THEN f[n] ELSE next]
      OBVIOUS
    <3>4. g[0] = <<>>
      BY <3>1, <3>3
    <3>5. ASSUME NEW n \in 1 .. k + 1
          PROVE  g[n] = IF s[n] \in S THEN Append(g[n - 1], s[n]) ELSE g[n - 1]
      <4>1. CASE n = k + 1
        <5>1. g[n] = next /\ g[n - 1] = f[k] /\ n = k + 1
          BY <3>3, <4>1
        <5> QED
          BY <3>2, <5>1
      <4>2. CASE n \in 1 .. k
        <5>1. g[n] = f[n] /\ g[n - 1] = f[n - 1]
          BY <3>3, <4>2
        <5>2. f[n] = IF s[n] \in S THEN Append(f[n - 1], s[n]) ELSE f[n - 1]
          BY <3>1, <4>2
        <5> QED
          BY <5>1, <5>2, Zenon
      <4> QED
        BY <4>1, <4>2
    <3> QED
      BY <3>4, <3>5
  <2>3. l \in E
    <3> HIDE DEF E
    <3>1. Nat \subseteq E
      BY <2>1, <2>2, InductionOverNat
    <3> QED
      BY <3>1
  <2>4. PICK f : /\ f[0] = <<>>
                 /\ \A n \in 1 .. l : f[n] = IF s[n] \in S THEN Append(f[n - 1], s[n]) ELSE f[n - 1]
    BY <2>3
  <2>5. PICK g : g = [n \in 0 .. l |-> f[n]]
    OBVIOUS
  <2>6. ASSUME NEW n \in 0 .. l
        PROVE  g[n] = IF n = 0 THEN <<>> ELSE IF s[n] \in S THEN Append(g[n - 1], s[n]) ELSE g[n - 1]
    <3>1. CASE n = 0
      BY <2>4, <2>5, <3>1
    <3>2. CASE n \in 1 .. l
      <4>1. g[n] = f[n] /\ g[n - 1] = f[n - 1] /\ n # 0
        BY <2>5, <3>2
      <4>2. f[n] = IF s[n] \in S THEN Append(f[n - 1], s[n]) ELSE f[n - 1]
        BY <2>4, <3>2
      <4> QED
        BY <4>1, <4>2, Zenon
    <3> QED
      BY <3>1, <3>2
  <2>7. PICK h : h = [n \in 0 .. l |-> IF n = 0 THEN <<>>
                                       ELSE IF s[n] \in S THEN Append(g[n - 1], s[n]) ELSE g[n - 1]]
    OBVIOUS
  <2>8. \A n \in 0 .. l : h[n] = g[n]
    BY <2>6, <2>7, Zenon
  <2>9. h = [n \in 0 .. l |-> h[n]] /\ g = [n \in 0 .. l |-> g[n]]
    BY <2>5, <2>7
  <2>10. h = g
    BY <2>8, <2>9
  <2> QED
    BY <2>7, <2>10, Zenon
<1>3. PICK f : f = CHOOSE h : IsRun(h)
  OBVIOUS
<1>4. IsRun(f)
  <2> HIDE DEF IsRun
  <2> QED
    BY <1>2, <1>3
<1>5. K!Only(s, S) = f[l]
  BY <1>1, <1>3, Zenon DEF K!Only
<1>6. f[0] = <<>>
  BY <1>4
<1>7. ASSUME NEW n \in 1 .. l PROVE f[n] = IF s[n] \in S THEN Append(f[n - 1], s[n]) ELSE f[n - 1]
  <2>1. n \in 0 .. l /\ n # 0
    OBVIOUS
  <2> QED
    BY <1>4, <2>1
<1> DEFINE Good(n) ==
      /\ f[n] \in Seq(X) /\ Len(f[n]) <= n
      /\ \A i \in 1 .. Len(f[n]) : f[n][i] \in S
      /\ \A i \in 1 .. Len(f[n]) : \E j \in 1 .. n : f[n][i] = s[j]
      /\ \A j \in 1 .. n : s[j] \in S => \E i \in 1 .. Len(f[n]) : f[n][i] = s[j]
      /\ \A t : Count(f[n], t) = Cardinality(Chosen(s, S, n, t))
<1>8. Good(0)
  <2>1. \A t : Chosen(s, S, 0, t) = {}
    BY DEF Chosen
  <2>2. \A t : Cardinality(Chosen(s, S, 0, t)) = 0
    BY <2>1, FS_EmptySet
  <2>3. <<>> \in Seq(X) /\ Len(<<>>) = 0 /\ 1 .. 0 = {}
    OBVIOUS
  <2> QED
    BY <1>6, <2>2, <2>3, CountOfNone
<1>9. ASSUME NEW n \in Nat, n + 1 <= l, Good(n) PROVE Good(n + 1)
  <2>1. PICK m : m = n + 1
    OBVIOUS
  <2>2. m \in 1 .. l /\ m - 1 = n /\ m \in 1 .. m /\ 1 .. m = (1 .. n) \cup {m} /\ m \notin 1 .. n /\ s[m] \in X
    BY <1>1, <1>9, <2>1
  <2>3. PICK old : old = f[n]
    OBVIOUS
  <2>4. PICK new : new = f[m]
    OBVIOUS
  <2>5. new = IF s[m] \in S THEN Append(old, s[m]) ELSE old
    BY <1>7, <2>2, <2>3, <2>4
  <2>6. /\ old \in Seq(X) /\ Len(old) <= n
        /\ \A i \in 1 .. Len(old) : old[i] \in S
        /\ \A i \in 1 .. Len(old) : \E j \in 1 .. n : old[i] = s[j]
        /\ \A j \in 1 .. n : s[j] \in S => \E i \in 1 .. Len(old) : old[i] = s[j]
        /\ \A t : Count(old, t) = Cardinality(Chosen(s, S, n, t))
    BY <1>9, <2>3
  <2>7. PICK k \in Nat : k = Len(old)
    BY <2>6
  <2>8. CASE s[m] \in S
    <3>1. /\ new \in Seq(X) /\ Len(new) = k + 1 /\ new[k + 1] = s[m]
          /\ \A i \in 1 .. k : new[i] = old[i]
      BY <2>2, <2>5, <2>6, <2>7, <2>8
    <3>2. 1 .. k + 1 = (1 .. k) \cup {k + 1} /\ k + 1 <= m
      BY <2>1, <2>6, <2>7
    <3>3. ASSUME NEW i \in 1 .. Len(new) PROVE new[i] \in S /\ \E j \in 1 .. m : new[i] = s[j]
      <4>1. CASE i = k + 1
        BY <2>2, <2>8, <3>1, <4>1
      <4>2. CASE i \in 1 .. k
        <5>1. new[i] = old[i] /\ old[i] \in S
          BY <2>6, <2>7, <3>1, <4>2
        <5>2. PICK j \in 1 .. n : old[i] = s[j]
          BY <2>6, <2>7, <4>2
        <5> QED
          BY <2>2, <5>1, <5>2
      <4> QED
        BY <3>1, <3>2, <4>1, <4>2
    <3>4. ASSUME NEW j \in 1 .. m, s[j] \in S PROVE \E i \in 1 .. Len(new) : new[i] = s[j]
      <4>1. CASE j = m
        BY <3>1, <3>2, <4>1
      <4>2. CASE j \in 1 .. n
        <5>1. PICK i \in 1 .. k : old[i] = s[j]
          BY <2>6, <2>7, <3>4, <4>2
        <5> QED
          BY <3>1, <3>2, <5>1
      <4> QED
        BY <2>2, <4>1, <4>2
    <3>5. ASSUME NEW t PROVE Count(new, t) = Cardinality(Chosen(s, S, m, t))
      <4>1. PICK C : C = Chosen(s, S, n, t)
        OBVIOUS
      <4>2. IsFiniteSet(C) /\ m \notin C
        <5>1. C \in SUBSET (1 .. n) /\ IsFiniteSet(1 .. n)
          BY <4>1, FS_Interval DEF Chosen
        <5> QED
          BY <2>2, <5>1, FS_Subset
      <4>3. Count(new, t) = IF s[m].key.tenant = t THEN Count(old, t) + 1 ELSE Count(old, t)
        BY <2>2, <2>5, <2>6, <2>8, CountAppend
      <4>4. CASE s[m].key.tenant = t
        <5>1. Chosen(s, S, m, t) = C \cup {m}
          BY <2>2, <2>8, <4>1, <4>4 DEF Chosen
        <5>2. Cardinality(C \cup {m}) = Cardinality(C) + 1
          BY <4>2, FS_AddElement
        <5> QED
          BY <2>6, <4>1, <4>3, <4>4, <5>1, <5>2
      <4>5. CASE s[m].key.tenant # t
        <5>1. Chosen(s, S, m, t) = C
          BY <2>2, <4>1, <4>5 DEF Chosen
        <5> QED
          BY <2>6, <4>1, <4>3, <4>5, <5>1
      <4> QED
        BY <4>4, <4>5
    <3> QED
      BY <2>1, <2>4, <3>1, <3>2, <3>3, <3>4, <3>5
  <2>9. CASE s[m] \notin S
    <3>1. new = old /\ Len(old) <= m
      BY <2>1, <2>5, <2>6, <2>7, <2>9
    <3>2. \A t : Chosen(s, S, m, t) = Chosen(s, S, n, t)
      BY <2>2, <2>9 DEF Chosen
    <3>3. \A i \in 1 .. Len(new) : \E j \in 1 .. m : new[i] = s[j]
      BY <2>2, <2>6, <3>1
    <3>4. \A j \in 1 .. m : s[j] \in S => \E i \in 1 .. Len(new) : new[i] = s[j]
      BY <2>2, <2>6, <2>9, <3>1
    <3>5. \A t : Count(new, t) = Cardinality(Chosen(s, S, m, t))
      BY <2>6, <3>1, <3>2
    <3> QED
      BY <2>1, <2>4, <2>6, <3>1, <3>3, <3>4, <3>5
  <2> QED
    BY <2>8, <2>9
<1>10. Good(l)
  <2> HIDE DEF Good
  <2> DEFINE E == {n \in Nat : n <= l => Good(n)}
  <2>1. 0 \in E
    BY <1>8
  <2>2. ASSUME NEW n \in Nat, n \in E PROVE n + 1 \in E
    BY <1>9, <2>2
  <2>3. Nat \subseteq E
    <3> HIDE DEF E
    <3> QED
      BY <2>1, <2>2, InductionOverNat
  <2> QED
    BY <2>3
<1> QED
  BY <1>1, <1>5, <1>10
-----------------------------------------------------------------------------
(* What is kept and what is dropped count to what there was.               *)
LEMMA OnlySplit ==
  ASSUME NEW X, NEW s \in Seq(X), NEW dropped, NEW t
  PROVE  /\ Count(K!Without(s, dropped), t) \in Nat
         /\ Count(K!Only(s, dropped), t) \in Nat
         /\ Count(K!Without(s, dropped), t) + Count(K!Only(s, dropped), t) = Count(s, t)
<1>1. PICK l \in Nat : l = Len(s)
  OBVIOUS
<1>2. PICK T : T = K!ToSet(s) \ dropped
  OBVIOUS
<1>3. \A i \in 1 .. l : s[i] \in T <=> s[i] \notin dropped
  BY <1>1, <1>2 DEF K!ToSet
<1>4. PICK A : A = Chosen(s, T, l, t)
  OBVIOUS
<1>5. PICK B : B = Chosen(s, dropped, l, t)
  OBVIOUS
<1>6. A \cup B = Places(s, t) /\ A \cap B = {}
  BY <1>1, <1>3, <1>4, <1>5 DEF Chosen, Places
<1>7. IsFiniteSet(A) /\ IsFiniteSet(B)
  <2>1. A \in SUBSET (1 .. l) /\ B \in SUBSET (1 .. l) /\ IsFiniteSet(1 .. l)
    BY <1>4, <1>5, FS_Interval DEF Chosen
  <2> QED
    BY <2>1, FS_Subset
<1>8. Cardinality(A) \in Nat /\ Cardinality(B) \in Nat
  BY <1>7, FS_CardinalityType
<1>9. Cardinality(A \cup B) = Cardinality(A) + Cardinality(B) - Cardinality(A \cap B)
  BY <1>7, FS_Union
<1>10. Cardinality(A \cap B) = 0
  BY <1>6, FS_EmptySet
<1>11. Count(K!Without(s, dropped), t) = Cardinality(A)
  BY <1>1, <1>2, <1>4, OnlyFacts DEF K!Without
<1>12. Count(K!Only(s, dropped), t) = Cardinality(B)
  BY <1>1, <1>5, OnlyFacts
<1>13. Count(s, t) = Cardinality(A \cup B)
  BY <1>6 DEF Count
<1>14. PICK a, b, c : a = Cardinality(A) /\ b = Cardinality(B) /\ c = Cardinality(A \cup B)
  OBVIOUS
<1>15. c = a + b - 0 /\ a \in Nat /\ b \in Nat
  BY <1>8, <1>9, <1>10, <1>14
<1>16. a + b = c
  BY <1>15
<1> QED
  BY <1>8, <1>11, <1>12, <1>13, <1>14, <1>16

(* Without the oldest entry.                                               *)
LEMMA TailFacts ==
  ASSUME NEW X, NEW s \in Seq(X), Len(s) > 0
  PROVE  /\ Tail(s) \in Seq(X) /\ Len(Tail(s)) = Len(s) - 1
         /\ \A i \in 1 .. Len(Tail(s)) : \E j \in 1 .. Len(s) : Tail(s)[i] = s[j]
         /\ \A t : Count(Tail(s), t) = IF s[1].key.tenant = t THEN Count(s, t) - 1 ELSE Count(s, t)
         /\ \A t : Count(SubSeq(s, 1, 1), t) = IF s[1].key.tenant = t THEN 1 ELSE 0
<1>1. PICK l \in Nat : l = Len(s) /\ l > 0 /\ 1 \in 1 .. l
  OBVIOUS
<1>2. PICK u : u = Tail(s)
  OBVIOUS
<1>3. u \in Seq(X) /\ Len(u) = l - 1
  BY <1>1, <1>2
<1>4. \A j \in 1 .. Len(u) : u[j] = s[j + 1]
  BY <1>1, <1>2
<1>5. \A j \in 1 .. l - 1 : j + 1 \in 1 .. l /\ ~(j < 1)
  BY <1>1
<1>6. \A j \in 1 .. Len(u) : u[j] = IF j < 1 THEN s[j] ELSE s[j + 1]
  BY <1>3, <1>4, <1>5
<1>7. \A t : Count(u, t) = IF s[1].key.tenant = t THEN Count(s, t) - 1 ELSE Count(s, t)
  BY <1>1, <1>3, <1>6, CountRemoved
<1>8. PICK e \in X : e = s[1]
  BY <1>1
<1>9. PICK v : v = SubSeq(s, 1, 1)
  OBVIOUS
<1>10. v \in Seq(X) /\ Len(v) = 1 /\ v[1] = e
  BY <1>1, <1>8, <1>9
<1>11. PICK w \in Seq(X) : w = <<>> /\ Len(w) = 0
  <2>1. <<>> \in Seq(X) /\ Len(<<>>) = 0
    OBVIOUS
  <2> QED
    BY <2>1
<1>12. Append(w, e) \in Seq(X) /\ Len(Append(w, e)) = 1 /\ Append(w, e)[1] = e
  BY <1>11
<1>13. v = Append(w, e)
  BY <1>10, <1>12
<1>14. \A t : Count(Append(w, e), t) = IF e.key.tenant = t THEN Count(w, t) + 1 ELSE Count(w, t)
  BY CountAppend
<1>15. \A t : Count(w, t) = 0
  BY <1>11, CountOfNone
<1>16. \A t : Count(v, t) = IF e.key.tenant = t THEN 1 ELSE 0
  BY <1>13, <1>14, <1>15
<1> QED
  BY <1>1, <1>2, <1>3, <1>4, <1>5, <1>7, <1>8, <1>9, <1>16

(* Without the oldest entry of a tenant that has one.                      *)
LEMMA EvictFacts ==
  ASSUME NEW X, NEW s \in Seq(X), NEW t, Count(s, t) > 0
  PROVE  /\ K!EvictOldest(s, t) \in Seq(X) /\ Len(K!EvictOldest(s, t)) = Len(s) - 1
         /\ \A i \in 1 .. Len(K!EvictOldest(s, t)) : \E j \in 1 .. Len(s) : K!EvictOldest(s, t)[i] = s[j]
         /\ \A x : Count(K!EvictOldest(s, t), x) = IF x = t THEN Count(s, x) - 1 ELSE Count(s, x)
<1>1. PICK l \in Nat : l = Len(s)
  OBVIOUS
<1>2. Places(s, t) # {}
  <2>1. Cardinality({}) = 0
    BY FS_EmptySet
  <2>2. Cardinality(Places(s, t)) # 0
    <3>1. Count(s, t) # 0
      OBVIOUS
    <3> QED
      BY <3>1, Zenon DEF Count
  <2> QED
    BY <2>1, <2>2
<1>3. Places(s, t) \in SUBSET Nat
  BY <1>1 DEF Places
<1>4. PICK p \in Places(s, t) : \A q \in Places(s, t) : p <= q
  BY <1>2, <1>3, LeastNat
<1>5. p \in 1 .. l /\ s[p].key.tenant = t
  BY <1>1, <1>4 DEF Places
<1>6. ASSUME NEW j \in 1 .. p - 1 PROVE s[j].key.tenant # t
  <2>1. j \in 1 .. l /\ ~(p <= j)
    BY <1>5
  <2> QED
    BY <1>1, <1>4, <2>1 DEF Places
<1>7. PICK n : n = CHOOSE i \in 1 .. Len(s) :
                    /\ s[i].key.tenant = t
                    /\ \A j \in 1 .. i - 1 : s[j].key.tenant # t
  OBVIOUS
<1>8. n \in 1 .. l /\ s[n].key.tenant = t
  BY <1>1, <1>5, <1>6, <1>7
<1>9. PICK u : u = SubSeq(s, 1, n - 1) \o SubSeq(s, n + 1, l)
  OBVIOUS
<1>10. K!EvictOldest(s, t) = u
  BY <1>1, <1>7, <1>9, Zenon DEF K!EvictOldest, K!RemoveAt
<1>11. PICK a : a = SubSeq(s, 1, n - 1)
  OBVIOUS
<1>12. PICK b : b = SubSeq(s, n + 1, l)
  OBVIOUS
<1>13. a \in Seq(X) /\ Len(a) = n - 1 /\ \A j \in 1 .. n - 1 : a[j] = s[j]
  BY <1>1, <1>8, <1>11
<1>14. b \in Seq(X) /\ Len(b) = l - n /\ \A j \in 1 .. l - n : b[j] = s[n + j]
  BY <1>1, <1>8, <1>12
<1>15. u = a \o b
  BY <1>9, <1>11, <1>12
<1>16. u \in Seq(X) /\ Len(u) = l - 1
  BY <1>1, <1>8, <1>13, <1>14, <1>15
<1>17. ASSUME NEW j \in 1 .. Len(u) PROVE u[j] = IF j < n THEN s[j] ELSE s[j + 1]
  <2>1. j \in 1 .. l - 1
    BY <1>16
  <2>2. CASE j < n
    <3>1. j \in 1 .. n - 1 /\ u[j] = a[j]
      BY <1>8, <1>13, <1>14, <1>15, <2>1, <2>2
    <3> QED
      BY <1>13, <2>2, <3>1
  <2>3. CASE ~(j < n)
    <3>1. PICK i : i = j - (n - 1)
      OBVIOUS
    <3>2. i \in 1 .. l - n /\ n + i = j + 1
      BY <1>1, <1>8, <2>1, <2>3, <3>1
    <3>3. u[j] = b[i]
      BY <1>8, <1>13, <1>14, <1>15, <1>16, <2>1, <2>3, <3>1, <3>2
    <3> QED
      BY <1>14, <2>3, <3>2, <3>3
  <2> QED
    BY <2>2, <2>3
<1>18. \A x : Count(u, x) = IF s[n].key.tenant = x THEN Count(s, x) - 1 ELSE Count(s, x)
  BY <1>1, <1>8, <1>16, <1>17, CountRemoved
<1>19. ASSUME NEW i \in 1 .. Len(u) PROVE \E j \in 1 .. Len(s) : u[i] = s[j]
  <2>1. i \in 1 .. l /\ i + 1 \in 1 .. l
    BY <1>1, <1>16
  <2> QED
    BY <1>1, <1>17, <2>1
<1> QED
  BY <1>1, <1>8, <1>10, <1>16, <1>18, <1>19
-----------------------------------------------------------------------------
(* The inductive invariant of the stores: the counters are right, within   *)
(* the limits, and an entry carries the era of its resource.               *)
StoreEntries == [key : K!Keys, observedAt : 0 .. StoreTime, expiresAt : 1 .. StoreTime,
                 era : 0 .. MaxIncarnation]
Limited(s) == /\ Len(s) <= MaxEntries
              /\ \A t \in Tenants : kind # "receipts" => Count(s, t) <= MaxEntriesPerTenant
InEra(s) == \A i \in 1 .. Len(s) : s[i].era = era[K!Thing(s[i].key)]
StoresInv ==
  /\ entries \in Seq(StoreEntries) /\ tenantCounts = [t \in Tenants |-> Count(entries, t)]
  /\ present \in [K!Things -> BOOLEAN] /\ time \in 0 .. StoreTime
  /\ incarnation \in [K!Things -> 0 .. MaxIncarnation] /\ era \in [K!Things -> 0 .. MaxIncarnation]
  /\ Limited(entries) /\ InEra(entries)
  /\ K!AbsenceIsRecent

(* A key is a resource of a tenant, and the two are found in it.           *)
LEMMA ThingIsTyped ==
  ASSUME NEW key \in K!Keys
  PROVE  K!Thing(key) \in K!Things /\ key.tenant \in Tenants
<1>1. key.tenant \in Tenants /\ key.resource \in Resources
  BY DEF K!Keys
<1> QED
  BY <1>1 DEF K!Thing, K!Things

(* Dropping entries keeps the counters right and the limits.               *)
LEMMA DropsKeeps ==
  ASSUME StoresInv, NEW dropped, K!Drops(dropped)
  PROVE  /\ entries' \in Seq(StoreEntries) /\ tenantCounts' = [t \in Tenants |-> Count(entries', t)]
         /\ Limited(entries')
         /\ \A i \in 1 .. Len(entries') : /\ entries'[i] \notin dropped
                                          /\ \E j \in 1 .. Len(entries) : entries'[i] = entries[j]
<1>1. PICK s \in Seq(StoreEntries) : s = entries
  BY Zenon DEF StoresInv
<1>2. PICK u : u = K!Without(s, dropped)
  OBVIOUS
<1>3. PICK o : o = K!Only(s, dropped)
  OBVIOUS
<1>4. entries' = u
  BY <1>1, <1>2 DEF K!Drops
<1>5. u \in Seq(StoreEntries) /\ Len(u) <= Len(s)
  BY <1>2, OnlyFacts DEF K!Without
<1>6. \A i \in 1 .. Len(u) : u[i] \in K!ToSet(s) \ dropped
  BY <1>2, OnlyFacts DEF K!Without
<1>7. \A i \in 1 .. Len(u) : \E j \in 1 .. Len(s) : u[i] = s[j]
  BY <1>2, OnlyFacts DEF K!Without
<1>8. \A t : Count(u, t) \in Nat /\ Count(o, t) \in Nat /\ Count(u, t) + Count(o, t) = Count(s, t)
  BY <1>2, <1>3, OnlySplit
<1>9. tenantCounts' = [t \in Tenants |-> tenantCounts[t] - Count(o, t)]
  <2>1. tenantCounts' = [t \in Tenants |-> tenantCounts[t] - K!CountOf(o, t)]
    BY <1>1, <1>3 DEF K!Drops, K!Discounted
  <2> QED
    BY <2>1, CountIs
<1>10. \A t \in Tenants : tenantCounts[t] = Count(s, t)
  BY <1>1 DEF StoresInv
<1>11. \A t \in Tenants : tenantCounts[t] - Count(o, t) = Count(u, t)
  BY <1>8, <1>10
<1>12. tenantCounts' = [t \in Tenants |-> Count(u, t)]
  BY <1>9, <1>11
<1>13. Limited(u)
  <2>1. PICK l \in Nat : Len(s) = l
    BY <1>1
  <2>2. PICK k \in Nat : Len(u) = k /\ k <= l
    BY <1>5, <2>1
  <2>3. Limited(s)
    BY <1>1 DEF StoresInv
  <2>4. MaxEntries \in Nat /\ MaxEntriesPerTenant \in Nat
    BY StoresAreBounded DEF K!StoresAssumption
  <2>5. k <= MaxEntries
    BY <2>1, <2>2, <2>3, <2>4 DEF Limited
  <2>6. ASSUME NEW t \in Tenants, kind # "receipts" PROVE Count(u, t) <= MaxEntriesPerTenant
    <3>1. PICK a, b, c : a = Count(u, t) /\ b = Count(o, t) /\ c = Count(s, t)
      OBVIOUS
    <3>2. a \in Nat /\ b \in Nat /\ a + b = c /\ c <= MaxEntriesPerTenant
      BY <1>8, <2>3, <2>6, <3>1 DEF Limited
    <3> QED
      BY <2>4, <3>1, <3>2
  <2> QED
    BY <2>2, <2>5, <2>6 DEF Limited
<1> QED
  BY <1>1, <1>4, <1>5, <1>6, <1>7, <1>12, <1>13 DEF Limited

(* What enforceBounds leaves of what was within the limits and one more.   *)
LEMMA BoundedKeeps ==
  ASSUME NEW s \in Seq(StoreEntries), NEW k \in Tenants, NEW counts,
         counts = [t \in Tenants |-> Count(s, t)],
         Len(s) <= MaxEntries + 1,
         kind # "receipts" =>
           \A t \in Tenants : Count(s, t) <= IF t = k THEN MaxEntriesPerTenant + 1 ELSE MaxEntriesPerTenant,
         K!Bounded(s, counts, k)
  PROVE  /\ entries' \in Seq(StoreEntries) /\ tenantCounts' = [t \in Tenants |-> Count(entries', t)]
         /\ Limited(entries')
         /\ \A i \in 1 .. Len(entries') : \E j \in 1 .. Len(s) : entries'[i] = s[j]
<1>1. MaxEntries \in Nat /\ MaxEntriesPerTenant \in Nat
  BY StoresAreBounded DEF K!StoresAssumption
<1>2. PICK l \in Nat : Len(s) = l /\ l <= MaxEntries + 1
  OBVIOUS
<1>3. PICK over : over = IF Len(s) > MaxEntries THEN Tail(s) ELSE s
  OBVIOUS
<1>4. PICK first : first = SubSeq(s, 1, Len(s) - Len(over))
  OBVIOUS
<1>5. PICK counted : counted = K!Discounted(counts, first)
  OBVIOUS
<1>6. counted = [t \in Tenants |-> counts[t] - Count(first, t)]
  <2>1. counted = [t \in Tenants |-> counts[t] - K!CountOf(first, t)]
    BY <1>5 DEF K!Discounted
  <2> QED
    BY <2>1, CountIs
<1>7. \A t : Count(s, t) \in Nat
  BY PlacesAreFinite
<1>8. /\ over \in Seq(StoreEntries) /\ Len(over) <= MaxEntries
      /\ \A i \in 1 .. Len(over) : \E j \in 1 .. l : over[i] = s[j]
      /\ \A t : Count(over, t) <= Count(s, t)
      /\ counted = [t \in Tenants |-> Count(over, t)]
  <2>1. CASE l > MaxEntries
    <3>1. over = Tail(s) /\ Len(s) > 0
      BY <1>1, <1>2, <1>3, <2>1
    <3>2. /\ over \in Seq(StoreEntries) /\ Len(over) = l - 1
          /\ \A i \in 1 .. Len(over) : \E j \in 1 .. l : over[i] = s[j]
          /\ \A t : Count(over, t) = IF s[1].key.tenant = t THEN Count(s, t) - 1 ELSE Count(s, t)
          /\ \A t : Count(SubSeq(s, 1, 1), t) = IF s[1].key.tenant = t THEN 1 ELSE 0
      BY <1>2, <3>1, TailFacts
    <3>3. Len(s) - Len(over) = 1
      BY <1>2, <3>2
    <3>4. first = SubSeq(s, 1, 1)
      BY <1>4, <3>3
    <3>5. \A t \in Tenants : counts[t] - Count(first, t) = Count(over, t)
      <4>1. ASSUME NEW t \in Tenants PROVE counts[t] - Count(first, t) = Count(over, t)
        <5>1. PICK a \in Nat : a = Count(s, t) /\ counts[t] = a
          BY <1>7
        <5>2. CASE s[1].key.tenant = t
          <6>1. Count(first, t) = 1 /\ Count(over, t) = a - 1
            BY <3>2, <3>4, <5>1, <5>2
          <6> QED
            BY <5>1, <6>1
        <5>3. CASE s[1].key.tenant # t
          <6>1. Count(first, t) = 0 /\ Count(over, t) = a
            BY <3>2, <3>4, <5>1, <5>3
          <6> QED
            BY <5>1, <6>1
        <5> QED
          BY <5>2, <5>3
      <4> QED
        BY <4>1
    <3>6. counted = [t \in Tenants |-> Count(over, t)]
      BY <1>6, <3>5
    <3>7. \A t : Count(over, t) <= Count(s, t)
      BY <1>7, <3>2
    <3>8. Len(over) <= MaxEntries
      BY <1>1, <1>2, <3>2
    <3> QED
      BY <3>2, <3>6, <3>7, <3>8
  <2>2. CASE ~(l > MaxEntries)
    <3>1. over = s /\ Len(over) <= MaxEntries
      BY <1>1, <1>2, <1>3, <2>2
    <3>2. first = <<>>
      <4>1. Len(s) - Len(over) = 0
        BY <1>2, <3>1
      <4> QED
        BY <1>2, <1>4, <4>1
    <3>3. \A t : Count(first, t) = 0
      BY <3>2, CountOfNone
    <3>4. \A t \in Tenants : counts[t] - Count(first, t) = Count(over, t)
      BY <1>7, <3>1, <3>3
    <3>5. counted = [t \in Tenants |-> Count(over, t)]
      BY <1>6, <3>4
    <3>6. \A t : Count(over, t) <= Count(s, t)
      BY <1>7, <3>1
    <3>7. \A i \in 1 .. Len(over) : \E j \in 1 .. l : over[i] = s[j]
      BY <1>2, <3>1
    <3> QED
      BY <3>1, <3>5, <3>6, <3>7
  <2> QED
    BY <2>1, <2>2
<1>9. \A t : Count(over, t) \in Nat
  BY <1>8, PlacesAreFinite
<1>10. PICK many \in BOOLEAN : many = (kind # "receipts" /\ counted[k] > MaxEntriesPerTenant /\ K!CountOf(over, k) > 0)
  OBVIOUS
<1>11. /\ entries' = IF many THEN K!EvictOldest(over, k) ELSE over
       /\ tenantCounts' = IF many THEN [counted EXCEPT ![k] = @ - 1] ELSE counted
  BY <1>3, <1>4, <1>5, <1>10, Zenon DEF K!Bounded
<1>12. CASE many
  <2>1. Count(over, k) > 0 /\ kind # "receipts"
    BY <1>10, <1>12, CountIs
  <2>2. PICK own : own = K!EvictOldest(over, k)
    OBVIOUS
  <2>3. PICK h \in Nat : h = Len(over) /\ h <= MaxEntries
    BY <1>8
  <2>4. /\ own \in Seq(StoreEntries) /\ Len(own) = h - 1
        /\ \A i \in 1 .. Len(own) : \E j \in 1 .. h : own[i] = over[j]
        /\ \A x : Count(own, x) = IF x = k THEN Count(over, x) - 1 ELSE Count(over, x)
    <3>1. over \in Seq(StoreEntries) /\ Count(over, k) > 0
      BY <1>8, <2>1
    <3>2. /\ K!EvictOldest(over, k) \in Seq(StoreEntries) /\ Len(K!EvictOldest(over, k)) = Len(over) - 1
          /\ \A i \in 1 .. Len(K!EvictOldest(over, k)) :
               \E j \in 1 .. Len(over) : K!EvictOldest(over, k)[i] = over[j]
          /\ \A x : Count(K!EvictOldest(over, k), x) = IF x = k THEN Count(over, x) - 1 ELSE Count(over, x)
      <4>1. K!EvictOldest(over, k) \in Seq(StoreEntries) /\ Len(K!EvictOldest(over, k)) = Len(over) - 1
        BY <3>1, EvictFacts
      <4>2. \A i \in 1 .. Len(K!EvictOldest(over, k)) :
              \E j \in 1 .. Len(over) : K!EvictOldest(over, k)[i] = over[j]
        BY <3>1, EvictFacts
      <4>3. \A x : Count(K!EvictOldest(over, k), x) = IF x = k THEN Count(over, x) - 1 ELSE Count(over, x)
        BY <3>1, EvictFacts
      <4> QED
        BY <4>1, <4>2, <4>3
    <3> QED
      BY <2>2, <2>3, <3>2
  <2>5. entries' = own /\ tenantCounts' = [counted EXCEPT ![k] = @ - 1]
    BY <1>11, <1>12, <2>2
  <2>6. tenantCounts' = [t \in Tenants |-> Count(own, t)]
    BY <1>8, <2>4, <2>5
  <2>7. \A i \in 1 .. Len(own) : \E j \in 1 .. l : own[i] = s[j]
    BY <1>8, <2>3, <2>4
  <2>8. ASSUME NEW t \in Tenants PROVE Count(own, t) <= MaxEntriesPerTenant
    <3>1. PICK a \in Nat : a = Count(over, t)
      BY <1>9
    <3>2. PICK b \in Nat : b = Count(s, t)
      BY <1>7
    <3>3. a <= b /\ b <= IF t = k THEN MaxEntriesPerTenant + 1 ELSE MaxEntriesPerTenant
      BY <1>8, <2>1, <3>1, <3>2
    <3>4. Count(own, t) = IF t = k THEN a - 1 ELSE a
      BY <2>4, <3>1
    <3> QED
      BY <1>1, <3>3, <3>4
  <2>9. Len(own) <= MaxEntries
    BY <1>1, <2>3, <2>4
  <2> QED
    BY <1>2, <2>4, <2>5, <2>6, <2>7, <2>8, <2>9 DEF Limited
<1>13. CASE ~many
  <2>1. entries' = over /\ tenantCounts' = counted
    BY <1>11, <1>13
  <2>2. ASSUME NEW t \in Tenants, kind # "receipts" PROVE Count(over, t) <= MaxEntriesPerTenant
    <3>1. PICK a \in Nat : a = Count(over, t)
      BY <1>9
    <3>2. CASE t = k
      <4>1. ~(a > MaxEntriesPerTenant /\ a > 0)
        BY <1>8, <1>10, <1>13, <2>2, <3>1, <3>2, CountIs
      <4> QED
        BY <1>1, <3>1, <4>1
    <3>3. CASE t # k
      <4>1. PICK b \in Nat : b = Count(s, t)
        BY <1>7
      <4>2. a <= b /\ b <= MaxEntriesPerTenant
        BY <1>8, <2>2, <3>1, <3>3, <4>1
      <4> QED
        BY <1>1, <3>1, <4>1, <4>2
    <3> QED
      BY <3>2, <3>3
  <2> QED
    BY <1>2, <1>8, <2>1, <2>2 DEF Limited
<1> QED
  BY <1>12, <1>13
-----------------------------------------------------------------------------
(* The steps of the stores.                                                *)

(* A put: the entry of the key goes, the new one is the last.              *)
LEMMA PutKeepsStores ==
  ASSUME StoresInv, NEW key \in K!Keys, NEW observedAt \in 0 .. StoreTime,
         NEW expiresAt \in 1 .. StoreTime, K!Put(key, observedAt, expiresAt)
  PROVE  StoresInv'
<1>1. PICK s \in Seq(StoreEntries) : s = entries
  BY Zenon DEF StoresInv
<1>2. PICK same : same = K!Of(s, key)
  OBVIOUS
<1>3. PICK old : old = K!Only(s, same)
  OBVIOUS
<1>4. PICK kept : kept = K!Without(s, same)
  OBVIOUS
<1>5. PICK new : new = [key |-> key, observedAt |-> observedAt, expiresAt |-> expiresAt,
                        era |-> era[K!Thing(key)]]
  OBVIOUS
<1>6. PICK put : put = Append(kept, new)
  OBVIOUS
<1>7. PICK counts : counts = [K!Discounted(tenantCounts, old) EXCEPT ![key.tenant] = @ + 1]
  OBVIOUS
<1>8. K!Bounded(put, counts, key.tenant)
  BY <1>1, <1>2, <1>3, <1>4, <1>5, <1>6, <1>7, Zenon DEF K!Put
<1>9. lookup' = K!NoLookup /\ UNCHANGED <<kind, present, incarnation, era, time>>
  BY DEF K!Put
<1>10. K!Thing(key) \in K!Things /\ key.tenant \in Tenants
  BY ThingIsTyped
<1>11. new \in StoreEntries /\ new.key = key /\ new.era = era[K!Thing(new.key)]
  <2>1. era[K!Thing(key)] \in 0 .. MaxIncarnation
    BY <1>10 DEF StoresInv
  <2> QED
    BY <1>5, <2>1 DEF StoreEntries
<1>12. /\ kept \in Seq(StoreEntries) /\ Len(kept) <= Len(s)
       /\ \A i \in 1 .. Len(kept) : \E j \in 1 .. Len(s) : kept[i] = s[j]
  <2>1. kept \in Seq(StoreEntries) /\ Len(kept) <= Len(s)
    BY <1>4, OnlyFacts DEF K!Without
  <2>2. \A i \in 1 .. Len(kept) : \E j \in 1 .. Len(s) : kept[i] = s[j]
    BY <1>4, OnlyFacts DEF K!Without
  <2> QED
    BY <2>1, <2>2
<1>13. \A t : Count(kept, t) \in Nat /\ Count(old, t) \in Nat /\ Count(kept, t) + Count(old, t) = Count(s, t)
  BY <1>3, <1>4, OnlySplit
<1>14. \A t : Count(put, t) = IF key.tenant = t THEN Count(kept, t) + 1 ELSE Count(kept, t)
  BY <1>6, <1>11, <1>12, CountAppend
<1>15. \A t \in Tenants : tenantCounts[t] = Count(s, t)
  BY <1>1 DEF StoresInv
<1>16. counts = [t \in Tenants |-> Count(put, t)]
  <2>1. PICK less : less = K!Discounted(tenantCounts, old)
    OBVIOUS
  <2>2. less = [t \in Tenants |-> tenantCounts[t] - Count(old, t)]
    <3>1. less = [t \in Tenants |-> tenantCounts[t] - K!CountOf(old, t)]
      BY <2>1 DEF K!Discounted
    <3> QED
      BY <3>1, CountIs
  <2>3. \A t \in Tenants : tenantCounts[t] - Count(old, t) = Count(kept, t)
    BY <1>13, <1>15
  <2>4. less = [t \in Tenants |-> Count(kept, t)]
    BY <2>2, <2>3
  <2>5. counts = [less EXCEPT ![key.tenant] = @ + 1]
    BY <1>7, <2>1
  <2> QED
    BY <1>14, <2>4, <2>5
<1>17. PICK l \in Nat : l = Len(s) /\ l <= MaxEntries
  BY <1>1 DEF StoresInv, Limited
<1>18. PICK n \in Nat : n = Len(kept) /\ n <= l
  BY <1>12, <1>17
<1>19. /\ put \in Seq(StoreEntries) /\ Len(put) = n + 1 /\ put[n + 1] = new
       /\ \A i \in 1 .. n : put[i] = kept[i]
  BY <1>6, <1>11, <1>12, <1>18
<1>20. MaxEntries \in Nat /\ MaxEntriesPerTenant \in Nat
  BY StoresAreBounded DEF K!StoresAssumption
<1>21. Len(put) <= MaxEntries + 1
  BY <1>17, <1>18, <1>19, <1>20
<1>22. ASSUME kind # "receipts", NEW t \in Tenants
       PROVE  Count(put, t) <= IF t = key.tenant THEN MaxEntriesPerTenant + 1 ELSE MaxEntriesPerTenant
  <2>1. PICK a, b, c : a = Count(kept, t) /\ b = Count(old, t) /\ c = Count(s, t)
    OBVIOUS
  <2>2. a \in Nat /\ b \in Nat /\ a + b = c /\ c <= MaxEntriesPerTenant
    BY <1>1, <1>13, <1>22, <2>1 DEF StoresInv, Limited
  <2>3. a <= MaxEntriesPerTenant
    BY <1>20, <2>2
  <2>4. Count(put, t) = IF key.tenant = t THEN a + 1 ELSE a
    BY <1>14, <2>1
  <2> QED
    BY <1>20, <2>2, <2>3, <2>4
<1>23. /\ entries' \in Seq(StoreEntries) /\ tenantCounts' = [t \in Tenants |-> Count(entries', t)]
       /\ Limited(entries')
       /\ \A i \in 1 .. Len(entries') : \E j \in 1 .. Len(put) : entries'[i] = put[j]
  BY <1>8, <1>10, <1>16, <1>19, <1>21, <1>22, BoundedKeeps
<1>24. \A j \in 1 .. Len(put) : put[j].era = era[K!Thing(put[j].key)]
  <2>1. ASSUME NEW j \in 1 .. Len(put) PROVE put[j].era = era[K!Thing(put[j].key)]
    <3>1. CASE j = n + 1
      BY <1>11, <1>19, <3>1
    <3>2. CASE j \in 1 .. n
      <4>1. PICK i \in 1 .. Len(s) : kept[j] = s[i]
        BY <1>12, <1>18, <3>2
      <4>2. s[i].era = era[K!Thing(s[i].key)]
        BY <1>1, <4>1 DEF StoresInv, InEra
      <4> QED
        BY <1>19, <3>2, <4>1, <4>2
    <3> QED
      BY <1>18, <1>19, <3>1, <3>2
  <2> QED
    BY <2>1
<1>25. \A i \in 1 .. Len(entries') : entries'[i].era = era[K!Thing(entries'[i].key)]
  BY <1>23, <1>24
<1>26. InEra(entries)'
  BY <1>9, <1>25 DEF InEra, K!Thing
<1>27. Limited(entries)'
  BY <1>9, <1>23 DEF Limited, Count, Places
<1>28. (tenantCounts = [t \in Tenants |-> Count(entries, t)])'
  BY <1>23 DEF Count, Places
<1>29. K!AbsenceIsRecent'
  BY <1>9 DEF K!AbsenceIsRecent, K!NoLookup
<1> QED
  BY <1>9, <1>23, <1>26, <1>27, <1>28, <1>29 DEF StoresInv, StoreEntries, K!Keys, K!Things

(* A step that leaves the entries and the source alone.                    *)
LEMMA StoresStandStill ==
  ASSUME StoresInv, UNCHANGED <<kind, entries, tenantCounts, present, incarnation, era>>,
         time' \in 0 .. StoreTime, K!AbsenceIsRecent'
  PROVE  StoresInv'
  BY DEF StoresInv, StoreEntries, Limited, InEra, K!Keys, K!Things, K!Thing, Count, Places

(* A step that drops entries and leaves the eras alone.                    *)
LEMMA DropsKeepsStores ==
  ASSUME StoresInv, NEW dropped, K!Drops(dropped),
         UNCHANGED <<kind, present, incarnation, era, time>>, K!AbsenceIsRecent'
  PROVE  StoresInv'
<1>1. /\ entries' \in Seq(StoreEntries) /\ tenantCounts' = [t \in Tenants |-> Count(entries', t)]
      /\ Limited(entries')
      /\ \A i \in 1 .. Len(entries') : \E j \in 1 .. Len(entries) : entries'[i] = entries[j]
  BY DropsKeeps
<1>2. \A i \in 1 .. Len(entries') : entries'[i].era = era[K!Thing(entries'[i].key)]
  BY <1>1 DEF StoresInv, InEra
<1>3. InEra(entries)'
  BY <1>2 DEF InEra, K!Thing
<1>4. Limited(entries)'
  BY <1>1 DEF Limited, Count, Places
<1>5. (tenantCounts = [t \in Tenants |-> Count(entries, t)])'
  BY <1>1 DEF Count, Places
<1> QED
  BY <1>1, <1>3, <1>4, <1>5 DEF StoresInv, StoreEntries, K!Keys, K!Things

(* A live entry of a key, when the lookup answers with it.                 *)
LEMMA HitIsRecent ==
  ASSUME StoresInv, NEW key \in K!Keys, NEW e \in K!Of(entries, key), time < e.expiresAt,
         kind = "absences" => time >= e.observedAt,
         UNCHANGED <<kind, entries, tenantCounts, present, incarnation, era, time>>,
         lookup'.key = key
  PROVE  K!AbsenceIsRecent'
<1>1. PICK i \in 1 .. Len(entries) : e = entries[i] /\ e.key = key
  <2>1. PICK s \in Seq(StoreEntries) : s = entries
    BY Zenon DEF StoresInv
  <2>2. DOMAIN s = 1 .. Len(s)
    OBVIOUS
  <2> QED
    BY <2>1, <2>2 DEF K!Of, K!ToSet
<1>2. e.era = era[K!Thing(key)]
  BY <1>1 DEF StoresInv, InEra
<1>3. e \in K!Of(entries', lookup'.key)
  BY DEF K!Of, K!ToSet
<1>4. e.era = era'[K!Thing(lookup'.key)] /\ time' < e.expiresAt /\ (kind' = "absences" => time' >= e.observedAt)
  BY <1>2 DEF K!Thing
<1> QED
  BY <1>3, <1>4 DEF K!AbsenceIsRecent, K!Of, K!ToSet, K!Thing

(* A lookup that misses or finds an expired entry answers no HIT.          *)
LEMMA MissesKeepsStores ==
  ASSUME StoresInv, NEW key, K!Misses(key), UNCHANGED <<kind, present, incarnation, era, time>>
  PROVE  StoresInv'
<1>1. K!AbsenceIsRecent'
  BY DEF K!Misses, K!Answers, K!AbsenceIsRecent
<1>2. UNCHANGED <<kind, entries, tenantCounts, present, incarnation, era>>
  BY DEF K!Misses
<1>3. time' \in 0 .. StoreTime
  BY DEF StoresInv
<1> QED
  BY <1>1, <1>2, <1>3, StoresStandStill

(* A lookup that finds an expired entry drops it.                          *)
LEMMA ExpiresKeepsStores ==
  ASSUME StoresInv, NEW key, K!Expires(key), UNCHANGED <<kind, present, incarnation, era, time>>
  PROVE  StoresInv'
<1>1. K!AbsenceIsRecent'
  BY DEF K!Expires, K!Answers, K!AbsenceIsRecent
<1> QED
  BY <1>1, DropsKeepsStores DEF K!Expires

(* A lookup of a receipt or of a negative entry: it is not expired.        *)
LEMMA GetKeepsStores ==
  ASSUME StoresInv, NEW key \in K!Keys, K!Get(key)
  PROVE  StoresInv'
<1>1. kind # "absences" /\ UNCHANGED <<kind, present, incarnation, era, time>>
  BY DEF K!Get
<1>2. CASE K!Live(key) # {} /\ K!Answers(key, "HIT") /\ UNCHANGED <<entries, tenantCounts>>
  <2>1. PICK e \in K!Of(entries, key) : time < e.expiresAt
    BY <1>2 DEF K!Live
  <2>2. lookup'.key = key
    BY <1>2 DEF K!Answers
  <2>3. K!AbsenceIsRecent'
    BY <1>1, <1>2, <2>1, <2>2, HitIsRecent
  <2>4. time' \in 0 .. StoreTime
    BY <1>1 DEF StoresInv
  <2> QED
    BY <1>1, <1>2, <2>3, <2>4, StoresStandStill
<1> QED
  BY <1>1, <1>2, MissesKeepsStores, ExpiresKeepsStores DEF K!Get

(* check of an absence: HIT only for what is observed and not expired.     *)
LEMMA CheckAbsentKeepsStores ==
  ASSUME StoresInv, NEW key \in K!Keys, NEW told, K!CheckAbsent(key, told)
  PROVE  StoresInv'
<1>1. kind = "absences" /\ UNCHANGED <<kind, present, incarnation, era, time>>
  BY DEF K!CheckAbsent
<1>2. time' \in 0 .. StoreTime
  BY <1>1 DEF StoresInv
<1>3. CASE K!Answers(key, "INVALID_SCOPE") /\ UNCHANGED <<entries, tenantCounts>>
  <2>1. K!AbsenceIsRecent'
    BY <1>3 DEF K!Answers, K!AbsenceIsRecent
  <2> QED
    BY <1>1, <1>2, <1>3, <2>1, StoresStandStill
<1>4. CASE /\ \E e \in K!Live(key) : time >= e.observedAt
           /\ K!Answers(key, IF K!Contradicted(key, told) THEN "STALE" ELSE "HIT")
           /\ UNCHANGED <<entries, tenantCounts>>
  <2>1. PICK e \in K!Of(entries, key) : time < e.expiresAt /\ time >= e.observedAt
    BY <1>4 DEF K!Live
  <2>2. lookup'.key = key
    BY <1>4 DEF K!Answers
  <2>3. K!AbsenceIsRecent'
    BY <1>1, <1>4, <2>1, <2>2, HitIsRecent
  <2> QED
    BY <1>1, <1>2, <1>4, <2>3, StoresStandStill
<1> QED
  BY <1>1, <1>3, <1>4, MissesKeepsStores, ExpiresKeepsStores DEF K!CheckAbsent

(* The appearance of a resource: every absence of it goes, and the era of  *)
(* what is recorded from now on is a new one.                              *)
LEMMA AppearanceKeepsStores ==
  ASSUME StoresInv, NEW x \in K!Things, K!InvalidateOnAppearance(x)
  PROVE  StoresInv'
<1>1. PICK dropped : dropped = {e \in K!ToSet(entries) : K!OfResource(e, x)}
  OBVIOUS
<1>2. K!Drops(dropped) /\ era' = [era EXCEPT ![x] = incarnation[x]] /\ lookup' = K!NoLookup
      /\ UNCHANGED <<kind, present, incarnation, time>>
  BY <1>1 DEF K!InvalidateOnAppearance
<1>3. /\ entries' \in Seq(StoreEntries) /\ tenantCounts' = [t \in Tenants |-> Count(entries', t)]
      /\ Limited(entries')
      /\ \A i \in 1 .. Len(entries') : /\ entries'[i] \notin dropped
                                       /\ \E j \in 1 .. Len(entries) : entries'[i] = entries[j]
  BY <1>2, DropsKeeps
<1>4. era' \in [K!Things -> 0 .. MaxIncarnation]
  <2>1. incarnation[x] \in 0 .. MaxIncarnation /\ era \in [K!Things -> 0 .. MaxIncarnation]
    BY DEF StoresInv
  <2> QED
    BY <1>2, <2>1
<1>5. ASSUME NEW i \in 1 .. Len(entries') PROVE entries'[i].era = era'[K!Thing(entries'[i].key)]
  <2>1. PICK j \in 1 .. Len(entries) : entries'[i] = entries[j]
    BY <1>3
  <2>2. PICK e : e = entries[j]
    OBVIOUS
  <2>3. e \in K!ToSet(entries)
    <3>1. PICK s \in Seq(StoreEntries) : s = entries
      BY Zenon DEF StoresInv
    <3>2. DOMAIN s = 1 .. Len(s)
      OBVIOUS
    <3> QED
      BY <2>1, <2>2, <3>1, <3>2 DEF K!ToSet
  <2>4. e \notin dropped
    BY <1>3, <2>1, <2>2
  <2>5. K!Thing(e.key) # x
    BY <1>1, <2>3, <2>4 DEF K!OfResource
  <2>6. e.era = era[K!Thing(e.key)]
    BY <2>1, <2>2 DEF StoresInv, InEra
  <2>7. e \in StoreEntries
    BY <2>1, <2>2 DEF StoresInv
  <2>8. K!Thing(e.key) \in K!Things
    BY <2>7, ThingIsTyped DEF StoreEntries
  <2>9. era'[K!Thing(e.key)] = era[K!Thing(e.key)]
    BY <1>2, <2>5, <2>8 DEF StoresInv
  <2> QED
    BY <2>1, <2>2, <2>6, <2>9
<1>6. InEra(entries)'
  BY <1>5 DEF InEra, K!Thing
<1>7. Limited(entries)'
  BY <1>2, <1>3 DEF Limited, Count, Places
<1>8. (tenantCounts = [t \in Tenants |-> Count(entries, t)])'
  BY <1>3 DEF Count, Places
<1>9. K!AbsenceIsRecent'
  BY <1>2 DEF K!AbsenceIsRecent, K!NoLookup
<1> QED
  BY <1>2, <1>3, <1>4, <1>6, <1>7, <1>8, <1>9 DEF StoresInv, StoreEntries, K!Keys, K!Things

(* clear: the entries and their counters go together.                      *)
LEMMA ClearKeepsStores ==
  ASSUME StoresInv, K!Clear
  PROVE  StoresInv'
<1>1. entries' = <<>> /\ tenantCounts' = [t \in Tenants |-> 0] /\ lookup' = K!NoLookup
      /\ UNCHANGED <<kind, present, incarnation, era, time>>
  BY DEF K!Clear
<1>2. entries' \in Seq(StoreEntries) /\ Len(entries') = 0 /\ 1 .. 0 = {}
  BY <1>1
<1>3. \A t : Count(entries', t) = 0
  BY <1>1, CountOfNone
<1>4. MaxEntries \in Nat /\ MaxEntriesPerTenant \in Nat
  BY StoresAreBounded DEF K!StoresAssumption
<1>5. Limited(entries')
  BY <1>2, <1>3, <1>4 DEF Limited
<1>6. tenantCounts' = [t \in Tenants |-> Count(entries', t)]
  BY <1>1, <1>3
<1>7. InEra(entries)'
  BY <1>2 DEF InEra
<1>8. Limited(entries)'
  BY <1>1, <1>5 DEF Limited, Count, Places
<1>9. (tenantCounts = [t \in Tenants |-> Count(entries, t)])'
  BY <1>6 DEF Count, Places
<1>10. K!AbsenceIsRecent'
  BY <1>1 DEF K!AbsenceIsRecent, K!NoLookup
<1> QED
  BY <1>1, <1>2, <1>7, <1>8, <1>9, <1>10 DEF StoresInv, StoreEntries, K!Keys, K!Things

(* What happens to the resources and to the clock touches no entry.        *)
LEMMA AppearsKeepsStores ==
  ASSUME StoresInv, NEW x \in K!Things, K!Appears(x) \/ K!Disappears(x)
  PROVE  StoresInv'
<1>1. lookup' = K!NoLookup /\ UNCHANGED <<kind, entries, tenantCounts, era, time>>
  BY DEF K!Appears, K!Disappears
<1>2. present' \in [K!Things -> BOOLEAN]
  BY DEF K!Appears, K!Disappears, StoresInv
<1>3. incarnation' \in [K!Things -> 0 .. MaxIncarnation]
  <2>1. MaxIncarnation \in Nat /\ incarnation \in [K!Things -> 0 .. MaxIncarnation]
    BY StoresAreBounded DEF K!StoresAssumption, StoresInv
  <2>2. CASE K!Disappears(x)
    BY <2>1, <2>2 DEF K!Disappears
  <2>3. CASE K!Appears(x)
    <3>1. incarnation[x] < MaxIncarnation /\ incarnation' = [incarnation EXCEPT ![x] = @ + 1]
      BY <2>3 DEF K!Appears
    <3>2. PICK n \in 0 .. MaxIncarnation : n = incarnation[x]
      BY <2>1
    <3>3. n + 1 \in 0 .. MaxIncarnation
      BY <2>1, <3>1, <3>2
    <3> QED
      BY <2>1, <3>1, <3>2, <3>3
  <2> QED
    BY <2>2, <2>3
<1>4. K!AbsenceIsRecent'
  BY <1>1 DEF K!AbsenceIsRecent, K!NoLookup
<1> QED
  BY <1>1, <1>2, <1>3, <1>4
     DEF StoresInv, StoreEntries, Limited, InEra, K!Keys, K!Things, K!Thing, Count, Places

(* Time passes; what expired stays until somebody looks.                   *)
LEMMA TickKeepsStores ==
  ASSUME StoresInv, K!Tick
  PROVE  StoresInv'
<1>1. K!AbsenceIsRecent'
  BY DEF K!Tick, K!AbsenceIsRecent, K!NoLookup
<1>2. time' \in 0 .. StoreTime
  <2>1. StoreTime \in Nat /\ time \in 0 .. StoreTime /\ time < StoreTime /\ time' = time + 1
    BY StoresAreBounded DEF K!StoresAssumption, StoresInv, K!Tick
  <2>2. PICK n \in 0 .. StoreTime : n = time
    BY <2>1
  <2>3. n + 1 \in 0 .. StoreTime
    BY <2>1, <2>2
  <2> QED
    BY <2>1, <2>2, <2>3
<1>3. UNCHANGED <<kind, entries, tenantCounts, present, incarnation, era>>
  BY DEF K!Tick
<1> QED
  BY <1>1, <1>2, <1>3, StoresStandStill

(* Every operation of the stores keeps the invariant.                      *)
LEMMA StoresNext ==
  ASSUME StoresInv, K!Next PROVE StoresInv'
<1>1. CASE \E key \in K!Keys :
             \/ \E observedAt \in 0 .. StoreTime, expiresAt \in 1 .. StoreTime : K!Put(key, observedAt, expiresAt)
             \/ K!Get(key) \/ K!Invalidate(key)
             \/ \E told \in SUBSET K!Reported : K!CheckAbsent(key, told)
  <2>1. PICK key \in K!Keys :
             \/ \E observedAt \in 0 .. StoreTime, expiresAt \in 1 .. StoreTime : K!Put(key, observedAt, expiresAt)
             \/ K!Get(key) \/ K!Invalidate(key)
             \/ \E told \in SUBSET K!Reported : K!CheckAbsent(key, told)
    BY <1>1
  <2>2. ASSUME K!Invalidate(key) PROVE StoresInv'
    <3>1. K!AbsenceIsRecent'
      BY <2>2 DEF K!Invalidate, K!AbsenceIsRecent, K!NoLookup
    <3> QED
      BY <2>2, <3>1, DropsKeepsStores DEF K!Invalidate
  <2> QED
    BY <2>1, <2>2, PutKeepsStores, GetKeepsStores, CheckAbsentKeepsStores
<1>2. CASE \E x \in K!Things : K!InvalidateOnAppearance(x) \/ K!Appears(x) \/ K!Disappears(x)
  BY <1>2, AppearanceKeepsStores, AppearsKeepsStores
<1> QED
  BY <1>1, <1>2, ClearKeepsStores, TickKeepsStores DEF K!Next

(* An empty store has it.                                                  *)
LEMMA StoresInit ==
  ASSUME K!Init PROVE StoresInv
<1>1. entries \in Seq(StoreEntries) /\ Len(entries) = 0 /\ 1 .. 0 = {} /\ entries = <<>>
  BY DEF K!Init
<1>2. \A t : Count(entries, t) = 0
  BY <1>1, CountOfNone
<1>3. MaxEntries \in Nat /\ MaxEntriesPerTenant \in Nat /\ StoreTime \in Nat /\ MaxIncarnation \in Nat
  BY StoresAreBounded DEF K!StoresAssumption
<1>4. tenantCounts = [t \in Tenants |-> Count(entries, t)]
  BY <1>2 DEF K!Init
<1>5. Limited(entries) /\ InEra(entries)
  BY <1>1, <1>2, <1>3 DEF Limited, InEra
<1>6. 0 \in 0 .. StoreTime /\ 0 \in 0 .. MaxIncarnation
  BY <1>3
<1>7. K!AbsenceIsRecent
  BY DEF K!Init, K!AbsenceIsRecent, K!NoLookup
<1> QED
  BY <1>1, <1>4, <1>5, <1>6, <1>7 DEF StoresInv, K!Init

(* For every number of tenants and resources and every limit: the stores   *)
(* of receipt-cache.ts and negative-premises.ts keep the invariant.        *)
THEOREM StoresInductive == MCSpec => []StoresInv
<1>1. MCInit => StoresInv
  BY StoresInit DEF MCInit
<1>2. StoresInv /\ [MCNext]_<<part, vars, storeVars>> => StoresInv'
  <2> SUFFICES ASSUME StoresInv, [MCNext]_<<part, vars, storeVars>> PROVE StoresInv'
    OBVIOUS
  <2>1. CASE UNCHANGED storeVars
    <3>1. K!AbsenceIsRecent'
      BY <2>1 DEF storeVars, StoresInv, K!AbsenceIsRecent, K!Of, K!ToSet, K!Thing
    <3>2. time' \in 0 .. StoreTime
      BY <2>1 DEF storeVars, StoresInv
    <3>3. UNCHANGED <<kind, entries, tenantCounts, present, incarnation, era>>
      BY <2>1 DEF storeVars
    <3> QED
      BY <3>1, <3>2, <3>3, StoresStandStill
  <2> QED
    BY <2>1, StoresNext DEF MCNext
<1> QED
  BY <1>1, <1>2, PTL DEF MCSpec

(* The counters count the entries, and no sequence of puts, expiries and   *)
(* invalidations takes a store over its limits.                            *)
THEOREM LimitsHoldAlways == MCSpec => []LimitsHold
<1>1. StoresInv => LimitsHold
  <2> SUFFICES ASSUME StoresInv PROVE LimitsHold
    OBVIOUS
  <2>1. \A t \in Tenants : tenantCounts[t] = Count(entries, t)
    BY DEF StoresInv
  <2>2. Len(entries) <= MaxEntries /\ \A t \in Tenants : kind # "receipts" => Count(entries, t) <= MaxEntriesPerTenant
    BY DEF StoresInv, Limited
  <2>3. \A t \in Tenants : tenantCounts[t] = K!CountOf(entries, t)
    BY <2>1, CountIs
  <2> QED
    BY <2>1, <2>2, <2>3 DEF LimitsHold, K!LimitsHold
<1> QED
  BY <1>1, StoresInductive, PTL

(* Whoever is told to rely on an absence relies on one recorded since the  *)
(* last reported appearance of the resource.                               *)
THEOREM AbsenceIsRecentHolds == MCSpec => []AbsenceIsRecent
<1>1. StoresInv => AbsenceIsRecent
  BY DEF StoresInv, AbsenceIsRecent
<1> QED
  BY <1>1, StoresInductive, PTL
-----------------------------------------------------------------------------
(* The reference state machine.  collectDependencies and collectDependents *)
(* end with the least set that has the roots and is closed: while a round  *)
(* is not closed it has more members than rounds have passed.              *)
Beyond(deps, X) == UNION {deps[m] : m \in X}
AreRounds(g, deps, from, n) ==
  g = [i \in 0 .. n |-> IF i = 0 THEN from ELSE g[i - 1] \cup Beyond(deps, g[i - 1])]
Rounds(deps, from) == CHOOSE g : AreRounds(g, deps, from, Cardinality(Memories))

(* The rounds of a walk are what their recursion says.                     *)
LEMMA RoundsExist ==
  ASSUME NEW deps, NEW from, NEW n \in Nat
  PROVE  \E g : AreRounds(g, deps, from, n)
<1> DEFINE S == {m \in Nat : \E g : AreRounds(g, deps, from, m)}
<1>1. 0 \in S
  <2>1. PICK g : g = [i \in 0 .. 0 |-> from]
    OBVIOUS
  <2>2. AreRounds(g, deps, from, 0)
    BY <2>1 DEF AreRounds
  <2> QED
    BY <2>2
<1>2. ASSUME NEW m \in Nat, m \in S PROVE m + 1 \in S
  <2>1. PICK g : AreRounds(g, deps, from, m)
    BY <1>2
  <2>2. PICK f : f = [i \in 0 .. (m + 1) |-> IF i <= m THEN g[i] ELSE g[m] \cup Beyond(deps, g[m])]
    OBVIOUS
  <2>3. ASSUME NEW i \in 0 .. (m + 1)
        PROVE  f[i] = IF i = 0 THEN from ELSE f[i - 1] \cup Beyond(deps, f[i - 1])
    <3>1. CASE i = m + 1
      <4>1. f[i] = g[m] \cup Beyond(deps, g[m]) /\ f[i - 1] = g[m] /\ i # 0
        BY <3>1, <2>2
      <4> QED
        BY <4>1
    <3>2. CASE i = 0
      BY <3>2, <2>1, <2>2 DEF AreRounds
    <3>3. CASE i \in 1 .. m
      <4>1. f[i] = g[i] /\ f[i - 1] = g[i - 1] /\ i # 0
        BY <3>3, <2>2
      <4>2. i \in 0 .. m
        BY <3>3
      <4>3. g[i] = IF i = 0 THEN from ELSE g[i - 1] \cup Beyond(deps, g[i - 1])
        BY <4>2, <2>1 DEF AreRounds
      <4>4. g[i] = g[i - 1] \cup Beyond(deps, g[i - 1])
        BY <4>1, <4>3
      <4> QED
        BY <4>1, <4>4
    <3> QED
      BY <3>1, <3>2, <3>3
  <2>4. AreRounds(f, deps, from, m + 1)
    BY <2>2, <2>3 DEF AreRounds
  <2> QED
    BY <2>4
<1> HIDE DEF S
<1>3. Nat \subseteq S
  BY <1>1, <1>2, InductionOverNat
<1> QED
  BY <1>3 DEF S

(* collectDependencies ends with the least closed set that has the roots.  *)
LEMMA ClosureIsLeast ==
  ASSUME NEW deps \in [Memories -> SUBSET Memories], NEW from \in SUBSET Memories
  PROVE  /\ Closure(deps, from) \in SUBSET Memories /\ from \subseteq Closure(deps, from)
         /\ \A x \in Closure(deps, from) : deps[x] \subseteq Closure(deps, from)
         /\ \A X \in SUBSET Memories : from \subseteq X /\ (\A x \in X : deps[x] \subseteq X)
                                        => Closure(deps, from) \subseteq X
<1>1. PICK N \in Nat : N = Cardinality(Memories)
  BY ReferenceAssumption, FS_CardinalityType
<1>2. PICK g : g = Rounds(deps, from)
  OBVIOUS
<1>3. AreRounds(g, deps, from, N)
  <2>1. \E h : AreRounds(h, deps, from, N)
    BY RoundsExist
  <2> QED
    BY <1>1, <1>2, <2>1 DEF Rounds
<1>4. Closure(deps, from) = g[N]
  BY <1>1, <1>2, Zenon DEF Closure, Rounds, AreRounds, Beyond
<1>5. g[0] = from
  BY <1>3 DEF AreRounds
<1>6. ASSUME NEW n \in Nat, n + 1 <= N PROVE g[n + 1] = g[n] \cup Beyond(deps, g[n])
  <2>1. n + 1 \in 0 .. N /\ n + 1 # 0 /\ (n + 1) - 1 = n
    BY <1>6
  <2>2. g[n + 1] = IF n + 1 = 0 THEN from ELSE g[(n + 1) - 1] \cup Beyond(deps, g[(n + 1) - 1])
    BY <1>3, <2>1 DEF AreRounds
  <2> QED
    BY <2>1, <2>2
<1>7. \A X \in SUBSET Memories : Beyond(deps, X) \subseteq Memories
  BY DEF Beyond
<1>8. \A X, Y : X \subseteq Y => Beyond(deps, X) \subseteq Beyond(deps, Y)
  BY DEF Beyond
<1>9. \A X : (\A x \in X : deps[x] \subseteq X) <=> Beyond(deps, X) \subseteq X
  BY DEF Beyond
<1>10. ASSUME NEW X, from \subseteq X, Beyond(deps, X) \subseteq X
       PROVE  \A n \in Nat : n <= N => g[n] \subseteq X /\ from \subseteq g[n]
  <2> DEFINE T == {n \in Nat : n <= N => g[n] \subseteq X /\ from \subseteq g[n]}
  <2>1. 0 \in T
    BY <1>5, <1>10
  <2>2. ASSUME NEW n \in Nat, n \in T PROVE n + 1 \in T
    <3> SUFFICES ASSUME n + 1 <= N PROVE g[n + 1] \subseteq X /\ from \subseteq g[n + 1]
      OBVIOUS
    <3>1. g[n] \subseteq X /\ from \subseteq g[n]
      BY <2>2
    <3>2. g[n + 1] = g[n] \cup Beyond(deps, g[n])
      BY <1>6
    <3>3. Beyond(deps, g[n]) \subseteq X
      BY <3>1, <1>8, <1>10
    <3> QED
      BY <3>1, <3>2, <3>3
  <2> HIDE DEF T
  <2>3. Nat \subseteq T
    BY <2>1, <2>2, InductionOverNat
  <2> QED
    BY <2>3 DEF T
<1>11. \A n \in Nat : n <= N => /\ g[n] \subseteq Memories /\ from \subseteq g[n]
                              /\ IsFiniteSet(g[n]) /\ Cardinality(g[n]) \in Nat
                              /\ Cardinality(g[n]) <= N
  <2>1. \A n \in Nat : n <= N => g[n] \subseteq Memories /\ from \subseteq g[n]
    BY <1>7, <1>10
  <2> QED
    BY <2>1, <1>1, ReferenceAssumption, FS_Subset, FS_CardinalityType
<1>12. \A n \in Nat : n <= N => Beyond(deps, g[n]) \subseteq g[n] \/ Cardinality(g[n]) >= n + 1
  <2> DEFINE T == {n \in Nat : n <= N => \/ Beyond(deps, g[n]) \subseteq g[n]
                                       \/ Cardinality(g[n]) >= n + 1}
  <2>1. 0 \in T
    <3>1. CASE from = {}
      BY <3>1, <1>5 DEF Beyond
    <3>2. CASE from # {}
      <4>1. IsFiniteSet(g[0]) /\ Cardinality(g[0]) \in Nat /\ g[0] # {}
        BY <3>2, <1>5, <1>11
      <4>2. Cardinality(g[0]) # 0
        BY <4>1, FS_EmptySet
      <4> QED
        BY <4>1, <4>2
    <3> QED
      BY <3>1, <3>2
  <2>2. ASSUME NEW n \in Nat, n \in T PROVE n + 1 \in T
    <3> SUFFICES ASSUME n + 1 <= N
                 PROVE  \/ Beyond(deps, g[n + 1]) \subseteq g[n + 1]
                        \/ Cardinality(g[n + 1]) >= (n + 1) + 1
      OBVIOUS
    <3>1. g[n + 1] = g[n] \cup Beyond(deps, g[n])
      BY <1>6
    <3>2. CASE Beyond(deps, g[n]) \subseteq g[n]
      <4>1. g[n + 1] = g[n]
        BY <3>1, <3>2
      <4> QED
        BY <3>2, <4>1
    <3>3. CASE ~(Beyond(deps, g[n]) \subseteq g[n])
      <4>1. Cardinality(g[n]) >= n + 1
        BY <2>2, <3>3
      <4>2. g[n] \subseteq g[n + 1] /\ g[n] # g[n + 1]
        BY <3>1, <3>3
      <4>3. IsFiniteSet(g[n + 1]) /\ Cardinality(g[n + 1]) \in Nat /\ Cardinality(g[n]) \in Nat
        BY <1>11
      <4>4. Cardinality(g[n]) <= Cardinality(g[n + 1]) /\ Cardinality(g[n]) # Cardinality(g[n + 1])
        BY <4>2, <4>3, FS_Subset
      <4> QED
        BY <4>1, <4>3, <4>4
    <3> QED
      BY <3>2, <3>3
  <2> HIDE DEF T
  <2>3. Nat \subseteq T
    BY <2>1, <2>2, InductionOverNat
  <2> QED
    BY <2>3 DEF T
<1>13. Beyond(deps, g[N]) \subseteq g[N]
  <2>1. Cardinality(g[N]) \in Nat /\ Cardinality(g[N]) <= N
    BY <1>11
  <2> QED
    BY <2>1, <1>12
<1>14. g[N] \in SUBSET Memories /\ from \subseteq g[N]
  BY <1>11
<1>15. \A x \in g[N] : deps[x] \subseteq g[N]
  BY <1>9, <1>13
<1>16. ASSUME NEW X \in SUBSET Memories, from \subseteq X, \A x \in X : deps[x] \subseteq X
       PROVE  g[N] \subseteq X
  BY <1>9, <1>10, <1>16
<1> QED
  BY <1>4, <1>14, <1>15, <1>16

(* The dependents of some memories: the memories themselves and whoever    *)
(* depends on one of them.                                                 *)
LEMMA DependentsAreLeast ==
  ASSUME NEW deps \in [Memories -> SUBSET Memories], NEW roots \in SUBSET Memories
  PROVE  /\ Dependents(deps, roots) \in SUBSET Memories /\ roots \subseteq Dependents(deps, roots)
         /\ \A m \in Memories : \A d \in deps[m] : d \in Dependents(deps, roots) => m \in Dependents(deps, roots)
         /\ \A X \in SUBSET Memories :
              roots \subseteq X /\ (\A m \in Memories : \A d \in deps[m] : d \in X => m \in X)
                => Dependents(deps, roots) \subseteq X
<1>1. PICK back : back = [m \in Memories |-> {d \in Memories : m \in deps[d]}]
  OBVIOUS
<1>2. back \in [Memories -> SUBSET Memories] /\ \A x, y \in Memories : y \in back[x] <=> x \in deps[y]
  BY <1>1
<1>3. PICK C : C = Closure(back, roots)
  OBVIOUS
<1>4. Dependents(deps, roots) = C
  BY <1>1, <1>3 DEF Dependents
<1>5. C \in SUBSET Memories /\ roots \subseteq C
  BY <1>2, <1>3, ClosureIsLeast
<1>6. \A x \in C : back[x] \subseteq C
  BY <1>2, <1>3, ClosureIsLeast
<1>7. \A X \in SUBSET Memories : roots \subseteq X /\ (\A x \in X : back[x] \subseteq X) => C \subseteq X
  BY <1>2, <1>3, ClosureIsLeast
<1>8. \A m \in Memories : \A d \in deps[m] : d \in C => m \in C
  BY <1>2, <1>5, <1>6
<1>9. ASSUME NEW X \in SUBSET Memories, roots \subseteq X, \A m \in Memories : \A d \in deps[m] : d \in X => m \in X
      PROVE  C \subseteq X
  <2>1. \A x \in X : back[x] \subseteq X
    BY <1>2, <1>9
  <2> QED
    BY <1>7, <1>9, <2>1
<1> QED
  BY <1>4, <1>5, <1>8, <1>9
-----------------------------------------------------------------------------
(* The worst of some statuses, by the three questions that tell statuses   *)
(* apart: at least STALE, at least UNKNOWN, INVALID.                       *)
Uppers == {{"STALE", "UNKNOWN", "INVALID"}, {"UNKNOWN", "INVALID"}, {"INVALID"}}

(* aggregateDependencyStatuses is at least as bad as a bound exactly if    *)
(* one of the statuses is.                                                 *)
LEMMA WorstIs ==
  ASSUME NEW S
  PROVE  /\ Worst(S) \in Statuses
         /\ \A U \in Uppers : Worst(S) \in U <=> \E s \in S : s \in U
<1> DEFINE P(s) == /\ s = "FRESH" \/ s \in S
                   /\ s # "INVALID" => "INVALID" \notin S
                   /\ s \in {"FRESH", "STALE"} => "UNKNOWN" \notin S
                   /\ s = "FRESH" => "STALE" \notin S
<1>1. \E s \in Statuses : P(s)
  <2>1. CASE "INVALID" \in S
    BY <2>1 DEF Statuses
  <2>2. CASE "INVALID" \notin S /\ "UNKNOWN" \in S
    BY <2>2 DEF Statuses
  <2>3. CASE "INVALID" \notin S /\ "UNKNOWN" \notin S /\ "STALE" \in S
    BY <2>3 DEF Statuses
  <2>4. CASE "INVALID" \notin S /\ "UNKNOWN" \notin S /\ "STALE" \notin S
    BY <2>4 DEF Statuses
  <2> QED
    BY <2>1, <2>2, <2>3, <2>4
<1>2. PICK w : w = Worst(S)
  OBVIOUS
<1>3. w \in Statuses /\ P(w)
  BY <1>1, <1>2 DEF Worst
<1>5. w \in {"STALE", "UNKNOWN", "INVALID"} <=> \E s \in S : s \in {"STALE", "UNKNOWN", "INVALID"}
  BY <1>3 DEF Statuses
<1>6. w \in {"UNKNOWN", "INVALID"} <=> \E s \in S : s \in {"UNKNOWN", "INVALID"}
  BY <1>3 DEF Statuses
<1>7. w \in {"INVALID"} <=> \E s \in S : s \in {"INVALID"}
  BY <1>3 DEF Statuses
<1> QED
  BY <1>2, <1>3, <1>5, <1>6, <1>7 DEF Uppers

(* The three questions tell any two statuses apart.                        *)
LEMMA SameLevel ==
  ASSUME NEW s \in Statuses, NEW t \in Statuses, \A U \in Uppers : s \in U <=> t \in U
  PROVE  s = t
<1>1. /\ s \in {"STALE", "UNKNOWN", "INVALID"} <=> t \in {"STALE", "UNKNOWN", "INVALID"}
      /\ s \in {"UNKNOWN", "INVALID"} <=> t \in {"UNKNOWN", "INVALID"}
      /\ s \in {"INVALID"} <=> t \in {"INVALID"}
  BY DEF Uppers
<1> QED
  BY <1>1 DEF Statuses
-----------------------------------------------------------------------------
(* recomputeSet.  What its recursion defines: each member the worst of its *)
(* own status and those of what it depends on, the others as they were.    *)
KnownRecords == [base : Statuses, status : Statuses, expires : 1 .. Never, expired : BOOLEAN,
                 sources : SUBSET Sources]
Flagged(recs, affected) ==
  [m \in Memories |-> IF m \in affected /\ IsTtl(recs[m])
                      THEN [recs[m] EXCEPT !.expired = Expired(recs[m], now)]
                      ELSE recs[m]]
Solves(f, recs, deps, affected) ==
  f = [m \in Memories |->
         IF m \in affected THEN Worst({Own(Flagged(recs, affected)[m])} \cup {f[d] : d \in deps[m]})
         ELSE recs[m].status]

(* The records of a graph: known memories have a record, depend on known   *)
(* memories and nothing depends on the others.                             *)
RecordsFit(recs, deps) ==
  /\ deps \in [Memories -> SUBSET Memories]
  /\ recs \in [Memories -> KnownRecords \cup {NoRecord}]
  /\ \A m \in Memories : recs[m] = NoRecord => deps[m] = {}
  /\ \A m \in Memories : \A d \in deps[m] : recs[d] # NoRecord

(* A known memory is one with a base status; only those expire.            *)
LEMMA KnownHasBase ==
  ASSUME NEW r \in KnownRecords \cup {NoRecord}
  PROVE  /\ r # NoRecord <=> r.base # "none"
         /\ r # NoRecord <=> r \in KnownRecords
         /\ r = NoRecord => ~IsTtl(r)
<1>1. NoRecord.base = "none" /\ NoRecord.expires = Never
  BY DEF NoRecord
<1>2. \A x \in KnownRecords : x.base \in Statuses
  BY DEF KnownRecords
<1>3. \A s \in Statuses : s # "none"
  BY DEF Statuses
<1> QED
  BY <1>1, <1>2, <1>3 DEF IsTtl

(* The flags change nothing but whether a member counts as expired.        *)
LEMMA FlaggedFacts ==
  ASSUME NEW recs \in [Memories -> KnownRecords \cup {NoRecord}], NEW affected \in SUBSET Memories,
         NEW m \in Memories
  PROVE  LET r == Flagged(recs, affected)[m]
         IN /\ recs[m] = NoRecord => r = NoRecord
            /\ recs[m] # NoRecord => r \in KnownRecords
            /\ r.base = recs[m].base /\ r.expires = recs[m].expires
            /\ r.status = recs[m].status /\ r.sources = recs[m].sources
            /\ m \notin affected => r = recs[m]
            /\ m \in affected /\ IsTtl(recs[m]) => r.expired = Expired(recs[m], now)
            /\ ~IsTtl(recs[m]) => r.expired = recs[m].expired
<1>1. PICK r : r = Flagged(recs, affected)[m]
  OBVIOUS
<1>2. r = IF m \in affected /\ IsTtl(recs[m]) THEN [recs[m] EXCEPT !.expired = Expired(recs[m], now)]
          ELSE recs[m]
  BY <1>1 DEF Flagged
<1>3. CASE m \in affected /\ IsTtl(recs[m])
  <2>1. recs[m] # NoRecord /\ recs[m] \in KnownRecords
    BY <1>3, KnownHasBase
  <2>2. PICK q \in KnownRecords : q = recs[m]
    BY <2>1
  <2>3. PICK b \in BOOLEAN : b = Expired(q, now)
    BY DEF Expired, IsTtl
  <2>4. r = [q EXCEPT !.expired = b]
    BY <1>2, <1>3, <2>2, <2>3
  <2>5. r \in KnownRecords /\ r.base = q.base /\ r.expires = q.expires /\ r.status = q.status
        /\ r.sources = q.sources /\ r.expired = b
    BY <2>4 DEF KnownRecords
  <2> QED
    BY <1>1, <1>3, <2>1, <2>2, <2>3, <2>5
<1>4. CASE ~(m \in affected /\ IsTtl(recs[m]))
  <2>1. r = recs[m]
    BY <1>2, <1>4
  <2> QED
    BY <1>1, <1>4, <2>1, KnownHasBase
<1> QED
  BY <1>3, <1>4

(* The own status of a known memory is a status, expired or not.           *)
LEMMA OwnIsStatus ==
  ASSUME NEW r \in KnownRecords PROVE Own(r) \in Statuses
  BY DEF Own, KnownRecords, Statuses

(* The recursion has a solution: the worst of what is reached from a       *)
(* member without leaving the affected ones, where the others stand for    *)
(* themselves.                                                             *)
LEMMA SolutionExists ==
  ASSUME NEW recs, NEW deps, RecordsFit(recs, deps),
         NEW affected \in SUBSET Memories, \A m \in affected : recs[m] # NoRecord
  PROVE  \E f : Solves(f, recs, deps, affected)
<1>1. PICK inner : inner = [m \in Memories |-> IF m \in affected THEN deps[m] ELSE {}]
  OBVIOUS
<1>2. inner \in [Memories -> SUBSET Memories]
      /\ \A m \in Memories : inner[m] = IF m \in affected THEN deps[m] ELSE {}
  BY <1>1 DEF RecordsFit
<1>3. PICK seed : seed = [m \in Memories |-> IF m \in affected THEN Own(Flagged(recs, affected)[m])
                                             ELSE recs[m].status]
  OBVIOUS
<1>4. ASSUME NEW m \in Memories, recs[m] # NoRecord PROVE seed[m] \in Statuses
  <2>1. Flagged(recs, affected)[m] \in KnownRecords /\ recs[m] \in KnownRecords
    BY <1>4, FlaggedFacts, KnownHasBase DEF RecordsFit
  <2>2. Own(Flagged(recs, affected)[m]) \in Statuses /\ recs[m].status \in Statuses
    BY <2>1, OwnIsStatus DEF KnownRecords
  <2> QED
    BY <1>3, <2>2
<1>5. PICK C : C = [m \in Memories |-> Closure(inner, {m})]
  OBVIOUS
<1>6. ASSUME NEW m \in Memories
      PROVE  /\ C[m] \in SUBSET Memories /\ m \in C[m]
             /\ \A x \in C[m] : inner[x] \subseteq C[m]
             /\ \A X \in SUBSET Memories : m \in X /\ (\A x \in X : inner[x] \subseteq X) => C[m] \subseteq X
  <2>1. {m} \in SUBSET Memories /\ C[m] = Closure(inner, {m})
    BY <1>5
  <2>2. C[m] \in SUBSET Memories /\ m \in C[m]
    BY <1>2, <2>1, ClosureIsLeast
  <2>3. \A x \in C[m] : inner[x] \subseteq C[m]
    BY <1>2, <2>1, ClosureIsLeast
  <2>4. ASSUME NEW X \in SUBSET Memories, m \in X, \A x \in X : inner[x] \subseteq X PROVE C[m] \subseteq X
    BY <1>2, <2>1, <2>4, ClosureIsLeast
  <2> QED
    BY <2>2, <2>3, <2>4
<1>7. ASSUME NEW m \in Memories PROVE C[m] = {m} \cup UNION {C[d] : d \in inner[m]}
  <2>1. PICK V : V = {m} \cup UNION {C[d] : d \in inner[m]}
    OBVIOUS
  <2>2. inner[m] \subseteq Memories
    BY <1>2
  <2>3. V \in SUBSET Memories /\ m \in V
    BY <1>6, <2>1, <2>2
  <2>4. ASSUME NEW x \in V PROVE inner[x] \subseteq V
    <3>1. CASE x = m
      BY <1>6, <2>1, <2>2, <3>1
    <3>2. CASE x # m
      <4>1. PICK d \in inner[m] : x \in C[d]
        BY <2>1, <3>2
      <4>2. inner[x] \subseteq C[d]
        BY <1>6, <2>2, <4>1
      <4> QED
        BY <2>1, <4>1, <4>2
    <3> QED
      BY <3>1, <3>2
  <2>5. C[m] \subseteq V
    BY <1>6, <2>3, <2>4
  <2>6. ASSUME NEW d \in inner[m] PROVE C[d] \subseteq C[m]
    <3>1. d \in Memories /\ d \in C[m]
      BY <1>6, <2>2
    <3> QED
      BY <1>6, <3>1
  <2>7. V \subseteq C[m]
    BY <1>6, <2>1, <2>6
  <2> QED
    BY <2>1, <2>5, <2>7
<1>8. ASSUME NEW m \in Memories, recs[m] # NoRecord PROVE \A x \in C[m] : recs[x] # NoRecord
  <2>1. PICK X : X = {x \in Memories : recs[x] # NoRecord}
    OBVIOUS
  <2>2. \A x \in X : inner[x] \subseteq X
    BY <1>2, <2>1 DEF RecordsFit
  <2> QED
    BY <1>6, <1>8, <2>1, <2>2
<1>9. PICK f : f = [m \in Memories |-> IF recs[m] = NoRecord THEN recs[m].status
                                       ELSE Worst({seed[x] : x \in C[m]})]
  OBVIOUS
<1>10. ASSUME NEW m \in Memories, recs[m] # NoRecord
       PROVE  /\ f[m] \in Statuses
              /\ \A U \in Uppers : f[m] \in U <=> \E x \in C[m] : seed[x] \in U
  <2>1. PICK S : S = {seed[x] : x \in C[m]}
    OBVIOUS
  <2>2. S \in SUBSET Statuses
    BY <1>4, <1>6, <1>8, <1>10, <2>1
  <2>3. f[m] = Worst(S)
    BY <1>9, <1>10, <2>1
  <2> QED
    BY <2>1, <2>2, <2>3, WorstIs
<1>11. ASSUME NEW m \in affected
       PROVE  f[m] = Worst({Own(Flagged(recs, affected)[m])} \cup {f[d] : d \in deps[m]})
  <2>1. m \in Memories /\ recs[m] # NoRecord /\ inner[m] = deps[m] /\ deps[m] \subseteq Memories
    BY <1>2
  <2>2. \A d \in deps[m] : recs[d] # NoRecord
    BY <2>1 DEF RecordsFit
  <2>3. PICK own : own = Own(Flagged(recs, affected)[m])
    OBVIOUS
  <2>4. seed[m] = own
    BY <1>3, <2>1, <2>3
  <2>5. PICK S : S = {own} \cup {f[d] : d \in deps[m]}
    OBVIOUS
  <2>6. S \in SUBSET Statuses
    BY <1>4, <1>10, <2>1, <2>2, <2>4, <2>5
  <2>7. Worst(S) \in Statuses /\ \A U \in Uppers : Worst(S) \in U <=> \E s \in S : s \in U
    BY <2>6, WorstIs
  <2>8. ASSUME NEW U \in Uppers PROVE f[m] \in U <=> Worst(S) \in U
    <3>1. f[m] \in U <=> \E x \in C[m] : seed[x] \in U
      BY <1>10, <2>1
    <3>2. (\E x \in C[m] : seed[x] \in U) <=> own \in U \/ \E d \in deps[m] : \E x \in C[d] : seed[x] \in U
      BY <1>7, <2>1, <2>4
    <3>3. \A d \in deps[m] : f[d] \in U <=> \E x \in C[d] : seed[x] \in U
      BY <1>10, <2>1, <2>2
    <3>4. (\E s \in S : s \in U) <=> own \in U \/ \E d \in deps[m] : f[d] \in U
      BY <2>5
    <3> QED
      BY <2>7, <3>1, <3>2, <3>3, <3>4
  <2>9. f[m] \in Statuses
    BY <1>10, <2>1
  <2>10. f[m] = Worst(S)
    BY <2>7, <2>8, <2>9, SameLevel
  <2> QED
    BY <2>3, <2>5, <2>10
<1>12. ASSUME NEW m \in Memories, m \notin affected PROVE f[m] = recs[m].status
  <2>1. CASE recs[m] = NoRecord
    BY <1>9, <2>1
  <2>2. CASE recs[m] # NoRecord
    <3>1. inner[m] = {}
      BY <1>2, <1>12
    <3>2. C[m] = {m}
      BY <1>7, <3>1
    <3>3. seed[m] = recs[m].status /\ seed[m] \in Statuses
      BY <1>3, <1>4, <1>12, <2>2
    <3>4. \A U \in Uppers : f[m] \in U <=> seed[m] \in U
      BY <1>10, <2>2, <3>2
    <3>5. f[m] = seed[m]
      BY <1>10, <2>2, <3>3, <3>4, SameLevel
    <3> QED
      BY <3>3, <3>5
  <2> QED
    BY <2>1, <2>2
<1>13. PICK h : h = [m \in Memories |->
                       IF m \in affected THEN Worst({Own(Flagged(recs, affected)[m])} \cup {f[d] : d \in deps[m]})
                       ELSE recs[m].status]
  OBVIOUS
<1>14. \A m \in Memories : h[m] = f[m]
  BY <1>11, <1>12, <1>13, Zenon
<1>15. f = h
  BY <1>9, <1>13, <1>14
<1> QED
  BY <1>13, <1>15, Zenon DEF Solves

(* Every status is the worst of a memory's own and its dependencies'.      *)
LocalAt(recs, deps, m) == recs[m].status = Worst({Own(recs[m])} \cup {recs[d].status : d \in deps[m]})

(* What stays of a record, and what a recomputation makes of it.           *)
SameBut(old, new) ==
  /\ new.base = old.base /\ new.expires = old.expires /\ new.sources = old.sources
  /\ new = NoRecord <=> old = NoRecord
  /\ IsTtl(new) <=> IsTtl(old)
  /\ ~IsTtl(old) => new.expired = old.expired

(* recomputeSet flags and recomputes the affected memories and leaves the  *)
(* others alone.                                                           *)
LEMMA RecomputeIs ==
  ASSUME NEW recs, NEW deps, RecordsFit(recs, deps),
         NEW affected \in SUBSET Memories, \A m \in affected : recs[m] # NoRecord
  PROVE  LET new == RecomputeSet(recs, deps, affected)
         IN /\ RecordsFit(new, deps)
            /\ \A m \in Memories : SameBut(recs[m], new[m])
            /\ \A m \in Memories : m \notin affected => new[m] = recs[m]
            /\ \A m \in affected : IsTtl(recs[m]) => new[m].expired = Expired(recs[m], now)
            /\ \A m \in affected : LocalAt(new, deps, m)
<1>1. PICK f : f = CHOOSE g : Solves(g, recs, deps, affected)
  OBVIOUS
<1>2. Solves(f, recs, deps, affected)
  <2>1. \E g : Solves(g, recs, deps, affected)
    BY SolutionExists
  <2> QED
    BY <1>1, <2>1
<1>3. PICK fl : fl = Flagged(recs, affected)
  OBVIOUS
<1>4. PICK new : new = [m \in Memories |-> [fl[m] EXCEPT !.status = f[m]]]
  OBVIOUS
<1>5. RecomputeSet(recs, deps, affected) = new
  <2>1. RecomputeSet(recs, deps, affected)
          = [m \in Memories |-> [Flagged(recs, affected)[m] EXCEPT
                                  !.status = (CHOOSE g : Solves(g, recs, deps, affected))[m]]]
    BY Zenon DEF RecomputeSet, Solves, Flagged
  <2> QED
    BY <1>1, <1>3, <1>4, <2>1, Zenon
<1>6. ASSUME NEW m \in Memories
      PROVE  /\ recs[m] = NoRecord => fl[m] = NoRecord
             /\ recs[m] # NoRecord => fl[m] \in KnownRecords
             /\ fl[m].base = recs[m].base /\ fl[m].expires = recs[m].expires
             /\ fl[m].status = recs[m].status /\ fl[m].sources = recs[m].sources
             /\ m \notin affected => fl[m] = recs[m]
             /\ m \in affected /\ IsTtl(recs[m]) => fl[m].expired = Expired(recs[m], now)
             /\ ~IsTtl(recs[m]) => fl[m].expired = recs[m].expired
  BY <1>3, FlaggedFacts DEF RecordsFit
<1>7. ASSUME NEW m \in affected
      PROVE  /\ f[m] = Worst({Own(fl[m])} \cup {f[d] : d \in deps[m]}) /\ f[m] \in Statuses
  <2>1. f[m] = Worst({Own(fl[m])} \cup {f[d] : d \in deps[m]})
    BY <1>2, <1>3 DEF Solves
  <2> QED
    BY <2>1, WorstIs
<1>8. \A m \in Memories : m \notin affected => f[m] = recs[m].status
  BY <1>2 DEF Solves
<1>9. ASSUME NEW m \in Memories, recs[m] # NoRecord
      PROVE  /\ new[m] \in KnownRecords /\ new[m].status = f[m]
             /\ new[m].base = recs[m].base /\ new[m].expires = recs[m].expires
             /\ new[m].sources = recs[m].sources /\ new[m].expired = fl[m].expired
             /\ m \notin affected => new[m] = recs[m]
  <2>1. PICK q \in KnownRecords : q = fl[m]
    BY <1>6, <1>9
  <2>2. f[m] \in Statuses
    <3>1. recs[m].status \in Statuses
      BY <1>9, KnownHasBase DEF RecordsFit, KnownRecords
    <3> QED
      BY <1>7, <1>8, <3>1
  <2>3. PICK s \in Statuses : s = f[m]
    BY <2>2
  <2>4. new[m] = [q EXCEPT !.status = s]
    BY <1>4, <2>1, <2>3
  <2>5. new[m] \in KnownRecords /\ new[m].status = s /\ new[m].base = q.base
        /\ new[m].expires = q.expires /\ new[m].sources = q.sources /\ new[m].expired = q.expired
    BY <2>4 DEF KnownRecords
  <2>6. s = q.status => new[m] = q
    BY <2>4 DEF KnownRecords
  <2>7. m \notin affected => new[m] = recs[m]
    <3> SUFFICES ASSUME m \notin affected PROVE new[m] = recs[m]
      OBVIOUS
    <3>1. q = recs[m] /\ s = q.status
      BY <1>6, <1>8, <2>1, <2>3
    <3> QED
      BY <2>6, <3>1
  <2> QED
    BY <1>6, <2>1, <2>3, <2>5, <2>7
<1>10. ASSUME NEW m \in Memories, recs[m] = NoRecord PROVE new[m] = NoRecord
  <2>1. fl[m] = NoRecord /\ f[m] = NoRecord.status
    BY <1>6, <1>8, <1>10
  <2>2. new[m] = [NoRecord EXCEPT !.status = NoRecord.status]
    BY <1>4, <2>1
  <2> QED
    BY <2>2 DEF NoRecord
<1>11. ASSUME NEW m \in Memories PROVE SameBut(recs[m], new[m])
  <2>1. CASE recs[m] = NoRecord
    BY <1>10, <2>1 DEF SameBut
  <2>2. CASE recs[m] # NoRecord
    <3>1. new[m] # NoRecord
      BY <1>9, <2>2, KnownHasBase
    <3> QED
      BY <1>6, <1>9, <2>2, <3>1 DEF SameBut, IsTtl
  <2> QED
    BY <2>1, <2>2
<1>12. ASSUME NEW m \in Memories, m \notin affected PROVE new[m] = recs[m]
  BY <1>9, <1>10, <1>12
<1>13. RecordsFit(new, deps)
  <2>1. \A m \in Memories : new[m] \in KnownRecords \cup {NoRecord}
    BY <1>9, <1>10
  <2>2. new \in [Memories -> KnownRecords \cup {NoRecord}]
    BY <1>4, <2>1
  <2>3. \A m \in Memories : new[m] = NoRecord <=> recs[m] = NoRecord
    BY <1>11 DEF SameBut
  <2> QED
    BY <2>2, <2>3 DEF RecordsFit
<1>14. ASSUME NEW m \in affected PROVE LocalAt(new, deps, m)
  <2>1. new[m].status = f[m] /\ new[m].base = fl[m].base /\ new[m].expired = fl[m].expired
    BY <1>6, <1>9
  <2>2. Own(new[m]) = Own(fl[m])
    BY <2>1 DEF Own
  <2>3. \A d \in deps[m] : new[d].status = f[d]
    <3>1. \A d \in deps[m] : d \in Memories /\ recs[d] # NoRecord
      BY DEF RecordsFit
    <3> QED
      BY <1>9, <3>1
  <2>4. {new[d].status : d \in deps[m]} = {f[d] : d \in deps[m]}
    BY <2>3
  <2>5. f[m] = Worst({Own(fl[m])} \cup {f[d] : d \in deps[m]})
    BY <1>7
  <2> QED
    BY <2>1, <2>2, <2>4, <2>5 DEF LocalAt
<1>15. ASSUME NEW m \in affected, IsTtl(recs[m]) PROVE new[m].expired = Expired(recs[m], now)
  BY <1>6, <1>9, <1>15
<1> QED
  BY <1>5, <1>11, <1>12, <1>13, <1>14, <1>15

(* After a recomputation of a set that is closed under dependents, every   *)
(* memory is up to date if those outside the set were.                     *)
LEMMA RecomputeSettles ==
  ASSUME NEW recs, NEW deps, RecordsFit(recs, deps),
         NEW affected \in SUBSET Memories, \A m \in affected : recs[m] # NoRecord,
         \A m \in Memories : \A d \in deps[m] : d \in affected => m \in affected,
         \A m \in Memories : m \notin affected /\ recs[m] # NoRecord => LocalAt(recs, deps, m)
  PROVE  \A m \in Memories : RecomputeSet(recs, deps, affected)[m] # NoRecord
                               => LocalAt(RecomputeSet(recs, deps, affected), deps, m)
<1>1. PICK new : new = RecomputeSet(recs, deps, affected)
  OBVIOUS
<1>2. /\ \A m \in Memories : SameBut(recs[m], new[m])
      /\ \A m \in Memories : m \notin affected => new[m] = recs[m]
      /\ \A m \in affected : LocalAt(new, deps, m)
  <2>1. \A m \in Memories : SameBut(recs[m], new[m])
    BY <1>1, RecomputeIs
  <2>2. \A m \in Memories : m \notin affected => new[m] = recs[m]
    BY <1>1, RecomputeIs
  <2>3. \A m \in affected : LocalAt(new, deps, m)
    BY <1>1, RecomputeIs
  <2> QED
    BY <2>1, <2>2, <2>3
<1>3. ASSUME NEW m \in Memories, m \notin affected, new[m] # NoRecord PROVE LocalAt(new, deps, m)
  <2>1. new[m] = recs[m] /\ LocalAt(recs, deps, m)
    BY <1>2, <1>3
  <2>2. \A d \in deps[m] : new[d] = recs[d]
    <3>1. \A d \in deps[m] : d \in Memories /\ d \notin affected
      BY <1>3 DEF RecordsFit
    <3> QED
      BY <1>2, <3>1
  <2>3. {new[d].status : d \in deps[m]} = {recs[d].status : d \in deps[m]}
    BY <2>2
  <2> QED
    BY <2>1, <2>3 DEF LocalAt
<1> QED
  BY <1>1, <1>2, <1>3
-----------------------------------------------------------------------------
(* A dependency graph without a cycle: among any memories one depends on   *)
(* none of the others.                                                     *)
Acyclic(deps) == \A X \in SUBSET Memories : X # {} => \E x \in X : deps[x] \cap X = {}

(* The invariant of the statuses, along single dependencies.               *)
Settled(recs, deps) ==
  /\ RecordsFit(recs, deps) /\ Acyclic(deps)
  /\ \A m \in Memories : recs[m] # NoRecord => LocalAt(recs, deps, m)
  /\ \A m \in Memories : recs[m].expired => IsTtl(recs[m])
TtlMembers(recs) == {m \in Memories : IsTtl(recs[m])}

(* The known memories are closed under dependencies and dependents.        *)
LEMMA ClosureIsKnown ==
  ASSUME NEW recs, NEW deps, RecordsFit(recs, deps),
         NEW roots \in SUBSET Memories, \A m \in roots : recs[m] # NoRecord
  PROVE  /\ \A m \in Dependents(deps, roots) : recs[m] # NoRecord
         /\ \A m \in Closure(deps, roots) : recs[m] # NoRecord
<1>1. PICK X \in SUBSET Memories : X = {m \in Memories : recs[m] # NoRecord}
  OBVIOUS
<1>2. deps \in [Memories -> SUBSET Memories] /\ roots \subseteq X
  BY <1>1 DEF RecordsFit
<1>3. \A m \in Memories : \A d \in deps[m] : d \in X => m \in X
  BY <1>1 DEF RecordsFit
<1>4. \A m \in X : deps[m] \subseteq X
  BY <1>1, <1>2 DEF RecordsFit
<1>5. Dependents(deps, roots) \subseteq X
  BY <1>2, <1>3, DependentsAreLeast
<1>6. Closure(deps, roots) \subseteq X
  BY <1>2, <1>4, ClosureIsLeast
<1> QED
  BY <1>1, <1>5, <1>6

(* The worst along single dependencies, in a graph without cycles, is the  *)
(* worst of all a memory depends on.                                       *)
LEMMA LocalIsExact ==
  ASSUME NEW recs, NEW deps, Settled(recs, deps), NEW m \in Memories, recs[m] # NoRecord
  PROVE  recs[m].status = Worst({Own(recs[x]) : x \in Closure(deps, {m})})
<1>1. RecordsFit(recs, deps) /\ Acyclic(deps) /\ deps \in [Memories -> SUBSET Memories]
  BY DEF Settled, RecordsFit
<1>2. PICK C : C = Closure(deps, {m})
  OBVIOUS
<1>3. {m} \in SUBSET Memories
  OBVIOUS
<1>4. C \in SUBSET Memories /\ m \in C
  BY <1>1, <1>2, <1>3, ClosureIsLeast
<1>5. \A x \in C : deps[x] \subseteq C
  BY <1>1, <1>2, <1>3, ClosureIsLeast
<1>6. \A X \in SUBSET Memories : m \in X /\ (\A x \in X : deps[x] \subseteq X) => C \subseteq X
  BY <1>1, <1>2, <1>3, ClosureIsLeast
<1>7. \A x \in C : recs[x] # NoRecord
  BY <1>1, <1>2, <1>3, ClosureIsKnown
<1>8. ASSUME NEW x \in Memories, recs[x] # NoRecord, NEW U \in Uppers
      PROVE  recs[x].status \in U <=> Own(recs[x]) \in U \/ \E d \in deps[x] : recs[d].status \in U
  <2>1. PICK S : S = {Own(recs[x])} \cup {recs[d].status : d \in deps[x]}
    OBVIOUS
  <2>2. recs[x].status = Worst(S)
    BY <1>8, <2>1 DEF Settled, LocalAt
  <2>3. Worst(S) \in U <=> \E s \in S : s \in U
    BY WorstIs
  <2> QED
    BY <2>1, <2>2, <2>3
<1>9. ASSUME NEW U \in Uppers
      PROVE  recs[m].status \in U <=> \E x \in C : Own(recs[x]) \in U
  <2>1. ASSUME NEW y \in C, Own(recs[y]) \in U PROVE recs[m].status \in U
    <3>1. PICK X : X = {x \in C : recs[x].status \in U => recs[m].status \in U}
      OBVIOUS
    <3>2. X \in SUBSET Memories /\ m \in X
      BY <1>4, <3>1
    <3>3. ASSUME NEW x \in X, NEW d \in deps[x] PROVE d \in X
      <4>1. x \in C /\ x \in Memories /\ recs[x] # NoRecord /\ d \in C
        BY <1>4, <1>5, <1>7, <3>1, <3>3
      <4>2. recs[d].status \in U => recs[x].status \in U
        BY <1>8, <3>3, <4>1
      <4> QED
        BY <3>1, <3>3, <4>1, <4>2
    <3>4. C \subseteq X
      BY <1>6, <3>2, <3>3
    <3>5. y \in Memories /\ recs[y] # NoRecord
      BY <1>4, <1>7
    <3>6. recs[y].status \in U
      BY <1>8, <2>1, <3>5
    <3> QED
      BY <3>1, <3>4, <3>6
  <2>2. ASSUME recs[m].status \in U PROVE \E x \in C : Own(recs[x]) \in U
    <3>1. PICK X : X = {x \in C : recs[x].status \in U}
      OBVIOUS
    <3>2. X \in SUBSET Memories /\ X # {}
      BY <1>4, <2>2, <3>1
    <3>3. PICK x \in X : deps[x] \cap X = {}
      BY <1>1, <3>2 DEF Acyclic
    <3>4. x \in C /\ x \in Memories /\ recs[x] # NoRecord /\ recs[x].status \in U /\ deps[x] \subseteq C
      BY <1>4, <1>5, <1>7, <3>1
    <3>5. \A d \in deps[x] : ~(recs[d].status \in U)
      BY <3>1, <3>3, <3>4
    <3>6. Own(recs[x]) \in U
      BY <1>8, <3>4, <3>5
    <3> QED
      BY <3>4, <3>6
  <2> QED
    BY <2>1, <2>2
<1>10. PICK S : S = {Own(recs[x]) : x \in C}
  OBVIOUS
<1>11. \A U \in Uppers : recs[m].status \in U <=> Worst(S) \in U
  <2>1. ASSUME NEW U \in Uppers PROVE recs[m].status \in U <=> Worst(S) \in U
    <3>1. Worst(S) \in U <=> \E s \in S : s \in U
      BY WorstIs
    <3>2. (\E s \in S : s \in U) <=> \E x \in C : Own(recs[x]) \in U
      BY <1>10
    <3> QED
      BY <1>9, <3>1, <3>2
  <2> QED
    BY <2>1
<1>12. recs[m].status \in Statuses /\ Worst(S) \in Statuses
  <2>1. recs[m] \in KnownRecords
    BY <1>1, KnownHasBase DEF RecordsFit
  <2> QED
    BY <2>1, WorstIs DEF KnownRecords
<1>13. recs[m].status = Worst(S)
  BY <1>11, <1>12, SameLevel
<1> QED
  BY <1>2, <1>10, <1>13

(* A recomputation settles what was settled outside of it.                 *)
LEMMA RecomputeKeeps ==
  ASSUME NEW recs, NEW deps, RecordsFit(recs, deps), Acyclic(deps),
         NEW affected \in SUBSET Memories, \A m \in affected : recs[m] # NoRecord,
         \A m \in Memories : \A d \in deps[m] : d \in affected => m \in affected,
         \A m \in Memories : m \notin affected /\ recs[m] # NoRecord => LocalAt(recs, deps, m),
         \A m \in Memories : recs[m].expired => IsTtl(recs[m])
  PROVE  LET new == RecomputeSet(recs, deps, affected)
         IN /\ Settled(new, deps) /\ TtlMembers(new) = TtlMembers(recs)
            /\ \A m \in Memories : SameBut(recs[m], new[m])
<1>1. PICK new : new = RecomputeSet(recs, deps, affected)
  OBVIOUS
<1>2. RecordsFit(new, deps)
  BY <1>1, RecomputeIs
<1>3. \A m \in Memories : SameBut(recs[m], new[m])
  BY <1>1, RecomputeIs
<1>4. \A m \in Memories : new[m] # NoRecord => LocalAt(new, deps, m)
  BY <1>1, RecomputeSettles
<1>5. \A m \in Memories : new[m].expired => IsTtl(new[m])
  BY <1>3 DEF SameBut
<1>6. TtlMembers(new) = TtlMembers(recs)
  BY <1>3 DEF SameBut, TtlMembers
<1> QED
  BY <1>1, <1>2, <1>3, <1>4, <1>5, <1>6 DEF Settled

(* A record handed in: it is known, not expired, and its own status is     *)
(* what the caller says.                                                   *)
LEMMA RecordFacts ==
  ASSUME NEW recs \in [Memories -> KnownRecords \cup {NoRecord}], NEW m \in Memories, NEW e \in Envelopes
  PROVE  LET new == [recs EXCEPT ![m] = Record(e)]
         IN /\ new \in [Memories -> KnownRecords \cup {NoRecord}]
            /\ new[m] # NoRecord /\ Own(new[m]) = e.status /\ new[m].status = e.status /\ e.status \in Statuses
            /\ ~new[m].expired
            /\ \A x \in Memories : x # m => new[x] = recs[x]
            /\ TtlMembers(new) = IF e.expires # Never THEN TtlMembers(recs) \cup {m} ELSE TtlMembers(recs) \ {m}
<1>1. PICK r : r = Record(e)
  OBVIOUS
<1>2. e \in [status : Statuses, expires : 1 .. Never, sources : SUBSET Sources]
  BY ReferenceAssumption
<1>3. /\ e.status \in Statuses /\ e.expires \in 1 .. Never /\ e.sources \in SUBSET Sources
      /\ r = [base |-> e.status, status |-> e.status, expires |-> e.expires, expired |-> FALSE,
              sources |-> e.sources]
  BY <1>1, <1>2 DEF Record
<1>4. r \in KnownRecords /\ r.base = e.status /\ r.status = e.status /\ r.expires = e.expires /\ ~r.expired
  BY <1>3 DEF KnownRecords
<1>5. r # NoRecord /\ Own(r) = e.status
  BY <1>4, KnownHasBase DEF Own
<1>6. IsTtl(r) <=> e.expires # Never
  <2>1. r.base # "none"
    BY <1>3, <1>4 DEF Statuses
  <2> QED
    BY <1>4, <2>1 DEF IsTtl
<1>7. PICK new : new = [recs EXCEPT ![m] = r]
  OBVIOUS
<1>8. /\ new \in [Memories -> KnownRecords \cup {NoRecord}] /\ new[m] = r
      /\ \A x \in Memories : x # m => new[x] = recs[x]
  BY <1>4, <1>7
<1>9. TtlMembers(new) = IF e.expires # Never THEN TtlMembers(recs) \cup {m} ELSE TtlMembers(recs) \ {m}
  <2>1. \A x \in Memories : x # m => (IsTtl(new[x]) <=> IsTtl(recs[x]))
    BY <1>8
  <2>2. IsTtl(new[m]) <=> e.expires # Never
    BY <1>6, <1>8
  <2> QED
    BY <2>1, <2>2 DEF TtlMembers
<1> QED
  BY <1>1, <1>3, <1>4, <1>5, <1>7, <1>8, <1>9

(* ttlRecordCount after one more or one less.                              *)
LEMMA TtlCounts ==
  ASSUME NEW recs, NEW m
  PROVE  /\ IsFiniteSet(TtlMembers(recs)) /\ Cardinality(TtlMembers(recs)) \in Nat
         /\ Cardinality(TtlMembers(recs) \cup {m}) =
              IF m \in TtlMembers(recs) THEN Cardinality(TtlMembers(recs))
              ELSE Cardinality(TtlMembers(recs)) + 1
         /\ Cardinality(TtlMembers(recs) \ {m}) =
              IF m \in TtlMembers(recs) THEN Cardinality(TtlMembers(recs)) - 1
              ELSE Cardinality(TtlMembers(recs))
<1>1. PICK T : T = TtlMembers(recs)
  OBVIOUS
<1>2. T \in SUBSET Memories /\ IsFiniteSet(T)
  <2>1. T \in SUBSET Memories
    BY <1>1 DEF TtlMembers
  <2> QED
    BY <2>1, ReferenceAssumption, FS_Subset
<1>3. Cardinality(T) \in Nat
  BY <1>2, FS_CardinalityType
<1>4. Cardinality(T \cup {m}) = IF m \in T THEN Cardinality(T) ELSE Cardinality(T) + 1
  BY <1>2, FS_AddElement
<1>5. Cardinality(T \ {m}) = IF m \in T THEN Cardinality(T) - 1 ELSE Cardinality(T)
  BY <1>2, FS_RemoveElement
<1> QED
  BY <1>1, <1>2, <1>3, <1>4, <1>5

(* register: nothing depends on the new memory, and it on nothing.         *)
LEMMA RegisterSettles ==
  ASSUME NEW recs, NEW deps, Settled(recs, deps), NEW m \in Memories, recs[m] = NoRecord, NEW e \in Envelopes
  PROVE  Settled([recs EXCEPT ![m] = Record(e)], deps)
<1>1. PICK new : new = [recs EXCEPT ![m] = Record(e)]
  OBVIOUS
<1>2. RecordsFit(recs, deps) /\ Acyclic(deps) /\ recs \in [Memories -> KnownRecords \cup {NoRecord}]
  BY DEF Settled, RecordsFit
<1>3. /\ new \in [Memories -> KnownRecords \cup {NoRecord}]
      /\ new[m] # NoRecord /\ Own(new[m]) = e.status /\ new[m].status = e.status /\ e.status \in Statuses
      /\ ~new[m].expired
      /\ \A x \in Memories : x # m => new[x] = recs[x]
  <2>1. new \in [Memories -> KnownRecords \cup {NoRecord}]
    BY <1>1, <1>2, RecordFacts
  <2>2. new[m] # NoRecord /\ Own(new[m]) = e.status /\ new[m].status = e.status /\ e.status \in Statuses
    <3>1. new[m] # NoRecord
      BY <1>1, <1>2, RecordFacts
    <3>2. Own(new[m]) = e.status
      BY <1>1, <1>2, RecordFacts
    <3>3. new[m].status = e.status
      <4>1. new[m] = Record(e)
        BY <1>1, <1>2
      <4>2. Record(e).status = e.status
        BY DEF Record
      <4> QED
        BY <4>1, <4>2
    <3>4. e.status \in Statuses
      BY <1>1, <1>2, RecordFacts
    <3> QED
      BY <3>1, <3>2, <3>3, <3>4
  <2>3. ~new[m].expired
    BY <1>1, <1>2, RecordFacts
  <2>4. \A x \in Memories : x # m => new[x] = recs[x]
    BY <1>1, <1>2, RecordFacts
  <2> QED
    BY <2>1, <2>2, <2>3, <2>4
<1>4. deps[m] = {} /\ \A x \in Memories : \A d \in deps[x] : d \in Memories /\ d # m /\ recs[d] # NoRecord
  BY <1>2 DEF RecordsFit
<1>5. RecordsFit(new, deps)
  BY <1>2, <1>3, <1>4 DEF RecordsFit
<1>6. LocalAt(new, deps, m)
  <2>1. PICK S : S = {Own(new[m])} \cup {new[d].status : d \in deps[m]}
    OBVIOUS
  <2>2. S = {e.status}
    BY <1>3, <1>4, <2>1
  <2>3. Worst(S) \in Statuses /\ \A U \in Uppers : Worst(S) \in U <=> \E s \in S : s \in U
    BY WorstIs
  <2>4. \A U \in Uppers : e.status \in U <=> Worst(S) \in U
    BY <2>2, <2>3
  <2>5. e.status = Worst(S)
    BY <1>3, <2>3, <2>4, SameLevel
  <2> QED
    BY <1>3, <2>1, <2>5 DEF LocalAt
<1>7. ASSUME NEW x \in Memories, x # m, new[x] # NoRecord PROVE LocalAt(new, deps, x)
  <2>1. LocalAt(recs, deps, x) /\ new[x] = recs[x]
    BY <1>3, <1>7 DEF Settled
  <2>2. \A d \in deps[x] : new[d] = recs[d]
    BY <1>3, <1>4
  <2>3. {new[d].status : d \in deps[x]} = {recs[d].status : d \in deps[x]}
    BY <2>2
  <2> QED
    BY <2>1, <2>3 DEF LocalAt
<1>8. \A x \in Memories : new[x].expired => IsTtl(new[x])
  BY <1>3 DEF Settled
<1> QED
  BY <1>1, <1>2, <1>5, <1>6, <1>7, <1>8 DEF Settled

(* derive and replace: the graph gets new edges from one memory to others  *)
(* from which it is not reached, and everything up to it is recomputed.    *)
LEMMA RewireSettles ==
  ASSUME NEW recs, NEW deps, Settled(recs, deps), NEW m \in Memories, NEW e \in Envelopes,
         NEW D \in SUBSET Memories, \A d \in D : recs[d] # NoRecord, m \notin Closure(deps, D),
         NEW affected \in SUBSET Memories, m \in affected,
         \A x \in affected : x = m \/ recs[x] # NoRecord,
         \A x \in Memories : \A d \in [deps EXCEPT ![m] = D][x] : d \in affected => x \in affected
  PROVE  LET start == [recs EXCEPT ![m] = Record(e)]
             wired == [deps EXCEPT ![m] = D]
             new   == RecomputeSet(start, wired, affected)
         IN /\ Settled(new, wired) /\ TtlMembers(new) = TtlMembers(start)
            /\ \A x \in Memories : new[x] # NoRecord <=> x = m \/ recs[x] # NoRecord
<1>1. PICK start : start = [recs EXCEPT ![m] = Record(e)]
  OBVIOUS
<1>2. PICK wired : wired = [deps EXCEPT ![m] = D]
  OBVIOUS
<1>3. RecordsFit(recs, deps) /\ Acyclic(deps) /\ recs \in [Memories -> KnownRecords \cup {NoRecord}]
      /\ deps \in [Memories -> SUBSET Memories]
  BY DEF Settled, RecordsFit
<1>4. /\ start \in [Memories -> KnownRecords \cup {NoRecord}]
      /\ start[m] # NoRecord /\ ~start[m].expired
      /\ \A x \in Memories : x # m => start[x] = recs[x]
  BY <1>1, <1>3, RecordFacts
<1>5. /\ wired \in [Memories -> SUBSET Memories] /\ wired[m] = D
      /\ \A x \in Memories : x # m => wired[x] = deps[x]
  BY <1>2, <1>3
<1>6. PICK C : C = Closure(deps, D)
  OBVIOUS
<1>7. D \subseteq C /\ m \notin C /\ \A x \in C : deps[x] \subseteq C
  BY <1>3, <1>6, ClosureIsLeast
<1>8. C \in SUBSET Memories
  BY <1>3, <1>6, ClosureIsLeast
<1>9. Acyclic(wired)
  <2> SUFFICES ASSUME NEW X \in SUBSET Memories, X # {} PROVE \E x \in X : wired[x] \cap X = {}
    BY DEF Acyclic
  <2>1. CASE X \cap C # {}
    <3>1. PICK Y : Y = X \cap C
      OBVIOUS
    <3>2. Y \in SUBSET Memories /\ Y # {}
      BY <2>1, <3>1
    <3>3. PICK x \in Y : deps[x] \cap Y = {}
      BY <1>3, <3>2 DEF Acyclic
    <3>4. x \in X /\ x \in C /\ x # m /\ x \in Memories /\ deps[x] \subseteq C
      BY <1>7, <3>1, <3>3
    <3>5. wired[x] = deps[x]
      BY <1>5, <3>4
    <3> QED
      BY <3>1, <3>3, <3>4, <3>5
  <2>2. CASE X \cap C = {}
    <3>1. PICK x \in X : deps[x] \cap X = {}
      BY <1>3 DEF Acyclic
    <3>2. CASE x = m
      BY <1>5, <1>7, <2>2, <3>1, <3>2
    <3>3. CASE x # m
      <4>1. x \in Memories
        OBVIOUS
      <4> QED
        BY <1>5, <3>1, <3>3, <4>1
    <3> QED
      BY <3>2, <3>3
  <2> QED
    BY <2>1, <2>2
<1>10. RecordsFit(start, wired)
  <2>1. \A x \in Memories : start[x] = NoRecord => wired[x] = {}
    BY <1>3, <1>4, <1>5 DEF RecordsFit
  <2>2. ASSUME NEW x \in Memories, NEW d \in wired[x] PROVE start[d] # NoRecord
    <3>1. d \in Memories /\ recs[d] # NoRecord
      BY <1>3, <1>5, <2>2 DEF RecordsFit
    <3> QED
      BY <1>4, <3>1
  <2> QED
    BY <1>4, <1>5, <2>1, <2>2 DEF RecordsFit
<1>11. ASSUME NEW x \in affected PROVE start[x] # NoRecord
  BY <1>4
<1>12. \A x \in Memories : \A d \in wired[x] : d \in affected => x \in affected
  BY <1>2
<1>13. ASSUME NEW x \in Memories, x \notin affected, start[x] # NoRecord PROVE LocalAt(start, wired, x)
  <2>1. x # m /\ start[x] = recs[x] /\ wired[x] = deps[x] /\ LocalAt(recs, deps, x)
    BY <1>4, <1>5, <1>13 DEF Settled
  <2>2. \A d \in deps[x] : d \in Memories /\ d # m
    BY <1>3, <1>12, <1>13, <2>1
  <2>3. \A d \in deps[x] : start[d] = recs[d]
    BY <1>4, <2>2
  <2>4. {start[d].status : d \in wired[x]} = {recs[d].status : d \in deps[x]}
    BY <2>1, <2>3
  <2> QED
    BY <2>1, <2>4 DEF LocalAt
<1>14. \A x \in Memories : start[x].expired => IsTtl(start[x])
  BY <1>4 DEF Settled
<1>15. PICK new : new = RecomputeSet(start, wired, affected)
  OBVIOUS
<1>16. Settled(new, wired) /\ TtlMembers(new) = TtlMembers(start)
  BY <1>9, <1>10, <1>11, <1>12, <1>13, <1>14, <1>15, RecomputeKeeps
<1>17. \A x \in Memories : SameBut(start[x], new[x])
  BY <1>9, <1>10, <1>11, <1>12, <1>13, <1>14, <1>15, RecomputeKeeps
<1>18. \A x \in Memories : new[x] # NoRecord <=> x = m \/ recs[x] # NoRecord
  BY <1>4, <1>17 DEF SameBut
<1> QED
  BY <1>1, <1>2, <1>15, <1>16, <1>18

(* markStatusesWithPrevious: the new statuses of the roots reach whoever   *)
(* depends on them, also when STALE is not propagated a second time.       *)
LEMMA MarkedSettles ==
  ASSUME Settled(records, graph), NEW roots \in SUBSET Memories, \A m \in roots : records[m] # NoRecord,
         NEW s \in Statuses
  PROVE  /\ Settled(Marked(roots, s), graph) /\ TtlMembers(Marked(roots, s)) = TtlMembers(records)
         /\ \A m \in Memories : Marked(roots, s)[m] = NoRecord <=> records[m] = NoRecord
         /\ \A m \in Memories : Marked(roots, s)[m].base =
              IF m \in roots /\ records[m].base # "INVALID" THEN s ELSE records[m].base
         /\ \A m \in Memories : m \notin Dependents(graph, roots) => Marked(roots, s)[m] = records[m]
<1>1. RecordsFit(records, graph) /\ Acyclic(graph) /\ graph \in [Memories -> SUBSET Memories]
      /\ records \in [Memories -> KnownRecords \cup {NoRecord}]
  BY DEF Settled, RecordsFit
<1>2. PICK effective : effective = [m \in roots |-> IF records[m].base = "INVALID" THEN "INVALID" ELSE s]
  OBVIOUS
<1>3. PICK based : based = [m \in Memories |-> IF m \in roots THEN [records[m] EXCEPT !.base = effective[m]]
                                               ELSE records[m]]
  OBVIOUS
<1>4. PICK affected : affected = Dependents(graph, roots)
  OBVIOUS
<1>5. PICK already \in BOOLEAN :
        already = ((\A m \in roots : effective[m] = "STALE" /\ records[m].status = "STALE")
                     /\ \A m \in affected : ~IsTtl(records[m]))
  OBVIOUS
<1>6. PICK new : new = IF already THEN based ELSE RecomputeSet(based, graph, affected)
  OBVIOUS
<1>7. Marked(roots, s) = new
  BY <1>2, <1>3, <1>4, <1>5, <1>6, Zenon DEF Marked
<1>8. affected \in SUBSET Memories /\ roots \subseteq affected
      /\ \A m \in Memories : \A d \in graph[m] : d \in affected => m \in affected
  BY <1>1, <1>4, DependentsAreLeast
<1>9. \A m \in affected : records[m] # NoRecord
  BY <1>1, <1>4, ClosureIsKnown
<1>10. ASSUME NEW m \in roots
       PROVE  /\ based[m] \in KnownRecords /\ based[m].base = effective[m] /\ based[m].base \in Statuses
              /\ based[m].status = records[m].status
              /\ based[m].expires = records[m].expires /\ based[m].expired = records[m].expired
              /\ based[m].sources = records[m].sources
  <2>1. PICK q \in KnownRecords : q = records[m]
    BY <1>1, KnownHasBase
  <2>2. effective[m] \in Statuses
    BY <1>2 DEF Statuses
  <2>3. PICK b \in Statuses : b = effective[m]
    BY <2>2
  <2>4. based[m] = [q EXCEPT !.base = b]
    BY <1>3, <2>1, <2>3
  <2> QED
    BY <2>1, <2>3, <2>4 DEF KnownRecords
<1>11. \A m \in Memories : m \notin roots => based[m] = records[m]
  BY <1>3
<1>12. ASSUME NEW m \in Memories
       PROVE  /\ based[m] \in KnownRecords \cup {NoRecord}
              /\ based[m] = NoRecord <=> records[m] = NoRecord
              /\ based[m].status = records[m].status /\ based[m].expired = records[m].expired
              /\ IsTtl(based[m]) <=> IsTtl(records[m])
  <2>1. CASE m \in roots
    <3>1. records[m] # NoRecord /\ records[m] \in KnownRecords
      BY <1>1, <2>1, KnownHasBase
    <3>2. based[m].base # "none" /\ records[m].base # "none"
      BY <1>10, <2>1, <3>1, KnownHasBase
    <3> QED
      BY <1>10, <2>1, <3>1, <3>2, KnownHasBase DEF IsTtl
  <2>2. CASE m \notin roots
    BY <1>1, <1>11, <2>2
  <2> QED
    BY <2>1, <2>2
<1>13. RecordsFit(based, graph)
  <2>1. based \in [Memories -> KnownRecords \cup {NoRecord}]
    BY <1>3, <1>12
  <2> QED
    BY <1>1, <1>12, <2>1 DEF RecordsFit
<1>14. ASSUME NEW m \in Memories, m \notin roots, based[m] # NoRecord PROVE LocalAt(based, graph, m)
  <2>1. based[m] = records[m] /\ LocalAt(records, graph, m)
    BY <1>11, <1>14 DEF Settled
  <2>2. \A d \in graph[m] : based[d].status = records[d].status
    BY <1>1, <1>12
  <2>3. {based[d].status : d \in graph[m]} = {records[d].status : d \in graph[m]}
    BY <2>2
  <2> QED
    BY <2>1, <2>3 DEF LocalAt
<1>15. \A m \in Memories : based[m].expired => IsTtl(based[m])
  BY <1>12 DEF Settled
<1>16. TtlMembers(based) = TtlMembers(records)
  BY <1>12 DEF TtlMembers
<1>19. \A m \in Memories : based[m].base =
           IF m \in roots /\ records[m].base # "INVALID" THEN s ELSE records[m].base
  BY <1>2, <1>10, <1>11
<1>20. \A m \in Memories : m \notin affected => based[m] = records[m]
  BY <1>8, <1>11
<1>17. CASE already
  <2>1. ASSUME NEW m \in roots PROVE LocalAt(based, graph, m)
    <3>1. effective[m] = "STALE" /\ records[m].status = "STALE"
      BY <1>5, <1>17
    <3>2. Own(based[m]) = "STALE" /\ based[m].status = "STALE"
      BY <1>10, <3>1 DEF Own
    <3>3. PICK S : S = {Own(records[m])} \cup {records[d].status : d \in graph[m]}
      OBVIOUS
    <3>4. PICK T : T = {Own(based[m])} \cup {based[d].status : d \in graph[m]}
      OBVIOUS
    <3>5. "STALE" = Worst(S)
      BY <3>1, <3>3 DEF Settled, LocalAt
    <3>6. \A d \in graph[m] : based[d].status = records[d].status
      BY <1>1, <1>12
    <3>7. T = {"STALE"} \cup {records[d].status : d \in graph[m]}
      BY <3>2, <3>4, <3>6
    <3>8. \A U \in Uppers : Worst(S) \in U <=> \E t \in S : t \in U
      BY WorstIs
    <3>9. Worst(T) \in Statuses /\ \A U \in Uppers : Worst(T) \in U <=> \E t \in T : t \in U
      BY WorstIs
    <3>10. \A U \in Uppers : "STALE" \in U <=> Worst(T) \in U
      <4>1. ASSUME NEW U \in Uppers, \E t \in T : t \in U PROVE "STALE" \in U
        <5>1. PICK t \in T : t \in U
          BY <4>1
        <5>2. CASE t = "STALE"
          BY <5>1, <5>2
        <5>3. CASE t # "STALE"
          <6>1. t \in S
            BY <3>3, <3>7, <5>1, <5>3
          <6> QED
            BY <3>5, <3>8, <5>1, <6>1
        <5> QED
          BY <5>2, <5>3
      <4>2. "STALE" \in T
        BY <3>7
      <4> QED
        BY <3>9, <4>1, <4>2
    <3>11. "STALE" \in Statuses
      BY DEF Statuses
    <3>12. "STALE" = Worst(T)
      BY <3>9, <3>10, <3>11, SameLevel
    <3> QED
      BY <3>2, <3>4, <3>12 DEF LocalAt
  <2>2. Settled(based, graph)
    BY <1>1, <1>13, <1>14, <1>15, <2>1 DEF Settled
  <2>3. new = based
    BY <1>6, <1>17
  <2> QED
    BY <1>4, <1>7, <1>12, <1>16, <1>19, <1>20, <2>2, <2>3
<1>18. CASE ~already
  <2>1. new = RecomputeSet(based, graph, affected)
    BY <1>6, <1>18
  <2>2. \A m \in affected : based[m] # NoRecord
    BY <1>8, <1>9, <1>12
  <2>3. \A m \in Memories : m \notin affected /\ based[m] # NoRecord => LocalAt(based, graph, m)
    BY <1>8, <1>14
  <2>4. Settled(new, graph) /\ TtlMembers(new) = TtlMembers(based)
    BY <1>1, <1>8, <1>13, <1>15, <2>1, <2>2, <2>3, RecomputeKeeps
  <2>5. \A m \in Memories : SameBut(based[m], new[m])
    BY <1>1, <1>8, <1>13, <1>15, <2>1, <2>2, <2>3, RecomputeKeeps
  <2>6. \A m \in Memories : m \notin affected => new[m] = based[m]
    BY <1>8, <1>13, <2>1, <2>2, RecomputeIs
  <2>7. \A m \in Memories : new[m] = NoRecord <=> records[m] = NoRecord
    BY <1>12, <2>5 DEF SameBut
  <2>8. \A m \in Memories : new[m].base =
          IF m \in roots /\ records[m].base # "INVALID" THEN s ELSE records[m].base
    BY <1>19, <2>5 DEF SameBut
  <2>9. \A m \in Memories : m \notin affected => new[m] = records[m]
    BY <1>20, <2>6
  <2> QED
    BY <1>4, <1>7, <1>16, <2>4, <2>7, <2>8, <2>9
<1> QED
  BY <1>17, <1>18
-----------------------------------------------------------------------------
(* The inductive invariant of the reference machine.                       *)
AnswerIsExact ==
  \A m \in DOMAIN answer :
    /\ m \in Memories /\ records[m] # NoRecord
    /\ answer[m] = Worst({OwnAt(records[x], now) : x \in Closure(graph, {m})})
TodoIsKnown ==
  /\ todo \in Seq(Memories) /\ \A i \in 1 .. Len(todo) : records[todo[i]] # NoRecord
  /\ todo # <<>> => answer = NoAnswer
RefInv ==
  /\ Settled(records, graph) /\ ttlRecords = Cardinality(TtlMembers(records))
  /\ TodoIsKnown /\ AnswerIsExact

(* What the steps read of the invariant.                                   *)
LEMMA KnownAre ==
  ASSUME RefInv
  PROVE  /\ Known = {m \in Memories : records[m] # NoRecord}
         /\ records \in [Memories -> KnownRecords \cup {NoRecord}]
         /\ graph \in [Memories -> SUBSET Memories]
         /\ RecordsFit(records, graph)
<1>1. records \in [Memories -> KnownRecords \cup {NoRecord}] /\ graph \in [Memories -> SUBSET Memories]
      /\ RecordsFit(records, graph)
  BY DEF RefInv, Settled, RecordsFit
<1>2. \A m \in Memories : records[m] # NoRecord <=> records[m].base # "none"
  BY <1>1, KnownHasBase
<1> QED
  BY <1>1, <1>2 DEF Known

(* A step without an answer and with nothing to do.                        *)
LEMMA IdleStep ==
  ASSUME Settled(records', graph'), ttlRecords' = Cardinality(TtlMembers(records')),
         todo' = <<>>, answer' = NoAnswer
  PROVE  RefInv'
<1>1. AnswerIsExact'
  <2>1. DOMAIN NoAnswer = {}
    BY DEF NoAnswer
  <2> QED
    BY <2>1 DEF AnswerIsExact
<1>2. TodoIsKnown'
  <2>1. todo' \in Seq(Memories) /\ Len(todo') = 0 /\ 1 .. 0 = {}
    OBVIOUS
  <2> QED
    BY <2>1 DEF TodoIsKnown
<1> QED
  BY <1>1, <1>2 DEF RefInv

(* An empty store has the invariant.                                       *)
LEMMA RefInit == Init => RefInv
<1> SUFFICES ASSUME Init PROVE RefInv
  OBVIOUS
<1>1. records = [m \in Memories |-> NoRecord] /\ graph = [m \in Memories |-> {}]
      /\ ttlRecords = 0 /\ todo = <<>> /\ answer = NoAnswer
  BY DEF Init
<1>2. RecordsFit(records, graph)
  BY <1>1 DEF RecordsFit
<1>3. Acyclic(graph)
  BY <1>1 DEF Acyclic
<1>4. \A m \in Memories : ~records[m].expired /\ ~IsTtl(records[m])
  BY <1>1 DEF NoRecord, IsTtl
<1>5. Settled(records, graph)
  BY <1>1, <1>2, <1>3, <1>4 DEF Settled
<1>6. TtlMembers(records) = {}
  BY <1>4 DEF TtlMembers
<1>7. ttlRecords = Cardinality(TtlMembers(records))
  BY <1>1, <1>6, FS_EmptySet
<1>8. AnswerIsExact
  <2>1. DOMAIN NoAnswer = {}
    BY DEF NoAnswer
  <2> QED
    BY <1>1, <2>1 DEF AnswerIsExact
<1>9. TodoIsKnown
  <2>1. todo \in Seq(Memories) /\ Len(todo) = 0 /\ 1 .. 0 = {}
    BY <1>1
  <2> QED
    BY <1>1, <2>1 DEF TodoIsKnown
<1> QED
  BY <1>5, <1>7, <1>8, <1>9 DEF RefInv

(* register keeps it, and counts a memory with a TTL.                      *)
LEMMA RegisterStep ==
  ASSUME RefInv, NEW m \in Memories, NEW e \in Envelopes, Register(m, e)
  PROVE  RefInv'
<1>1. records[m] = NoRecord /\ todo' = <<>> /\ answer' = NoAnswer /\ graph' = graph
  BY KnownAre DEF Register
<1>2. PICK new : new = [records EXCEPT ![m] = Record(e)]
  OBVIOUS
<1>3. records' = new /\ ttlRecords' = ttlRecords + (IF e.expires # Never THEN 1 ELSE 0)
  BY <1>2 DEF Register
<1>4. Settled(new, graph)
  BY <1>1, <1>2, RegisterSettles DEF RefInv
<1>5. TtlMembers(new) = IF e.expires # Never THEN TtlMembers(records) \cup {m} ELSE TtlMembers(records) \ {m}
  BY <1>2, KnownAre, RecordFacts
<1>6. m \notin TtlMembers(records)
  BY <1>1, KnownHasBase DEF TtlMembers
<1>7. ttlRecords' = Cardinality(TtlMembers(new))
  BY <1>3, <1>5, <1>6, TtlCounts DEF RefInv
<1> QED
  BY <1>1, <1>3, <1>4, <1>7, IdleStep

(* derive keeps it: nothing depends on the new memory yet.                 *)
LEMMA DeriveStep ==
  ASSUME RefInv, NEW m \in Memories, NEW e \in Envelopes, NEW deps \in SUBSET Memories, Derive(m, e, deps)
  PROVE  RefInv'
<1>1. records[m] = NoRecord /\ todo' = <<>> /\ answer' = NoAnswer
      /\ (\A d \in deps : records[d] # NoRecord)
  BY KnownAre DEF Derive
<1>2. PICK start : start = [records EXCEPT ![m] = Record(e)]
  OBVIOUS
<1>3. PICK wired : wired = [graph EXCEPT ![m] = deps]
  OBVIOUS
<1>4. PICK new : new = RecomputeSet(start, wired, {m})
  OBVIOUS
<1>5. graph' = wired /\ records' = new /\ ttlRecords' = ttlRecords + (IF e.expires # Never THEN 1 ELSE 0)
  BY <1>2, <1>3, <1>4 DEF Derive
<1>6. m \notin Closure(graph, deps)
  BY <1>1, KnownAre, ClosureIsKnown
<1>7. ASSUME NEW x \in Memories, NEW d \in wired[x], d \in {m} PROVE x \in {m}
  <2>1. CASE x = m
    BY <2>1
  <2>2. CASE x # m
    <3>1. d \in graph[x] /\ d = m
      BY <1>3, <1>7, <2>2, KnownAre
    <3>2. records[m] # NoRecord
      BY <3>1, KnownAre DEF RecordsFit
    <3> QED
      BY <1>1, <3>2
  <2> QED
    BY <2>1, <2>2
<1>8. Settled(new, wired) /\ TtlMembers(new) = TtlMembers(start)
  <2>1. Settled(records, graph) /\ {m} \in SUBSET Memories /\ m \in {m}
        /\ \A x \in {m} : x = m \/ records[x] # NoRecord
    BY DEF RefInv
  <2>2. \A x \in Memories : \A d \in [graph EXCEPT ![m] = deps][x] : d \in {m} => x \in {m}
    BY <1>3, <1>7, Zenon
  <2>3. Settled(new, wired)
    BY <1>1, <1>2, <1>3, <1>4, <1>6, <2>1, <2>2, RewireSettles
  <2>4. TtlMembers(RecomputeSet([records EXCEPT ![m] = Record(e)], [graph EXCEPT ![m] = deps], {m}))
          = TtlMembers([records EXCEPT ![m] = Record(e)])
    BY <1>1, <1>6, <2>1, <2>2, RewireSettles
  <2>5. TtlMembers(new) = TtlMembers(start)
    BY <1>2, <1>3, <1>4, <2>4, Zenon
  <2> QED
    BY <2>3, <2>5
<1>9. TtlMembers(start) = IF e.expires # Never THEN TtlMembers(records) \cup {m} ELSE TtlMembers(records) \ {m}
  BY <1>2, KnownAre, RecordFacts
<1>10. m \notin TtlMembers(records)
  BY <1>1, KnownHasBase DEF TtlMembers
<1>11. ttlRecords' = Cardinality(TtlMembers(new))
  <2>1. PICK c \in Nat : c = Cardinality(TtlMembers(records)) /\ ttlRecords = c
    BY TtlCounts DEF RefInv
  <2>2. CASE e.expires # Never
    <3>1. Cardinality(TtlMembers(records) \cup {m}) = c + 1
      BY <1>10, <2>1, TtlCounts
    <3> QED
      BY <1>5, <1>8, <1>9, <2>1, <2>2, <3>1
  <2>3. CASE e.expires = Never
    <3>1. TtlMembers(records) \ {m} = TtlMembers(records)
      BY <1>10
    <3>2. TtlMembers(new) = TtlMembers(records)
      BY <1>8, <1>9, <2>3, <3>1
    <3>3. ttlRecords' = c + 0
      BY <1>5, <2>1, <2>3
    <3>4. c + 0 = c
      OBVIOUS
    <3> QED
      BY <2>1, <3>2, <3>3, <3>4
  <2> QED
    BY <2>2, <2>3
<1> QED
  BY <1>1, <1>5, <1>8, <1>11, IdleStep

(* replace keeps it: the new dependencies close no cycle.                  *)
LEMMA ReplaceStep ==
  ASSUME RefInv, NEW m \in Memories, NEW e \in Envelopes, NEW deps \in SUBSET Memories, Replace(m, e, deps)
  PROVE  RefInv'
<1>1. records[m] # NoRecord /\ todo' = <<>> /\ answer' = NoAnswer
      /\ (\A d \in deps : records[d] # NoRecord) /\ m \notin Closure(graph, deps)
  BY KnownAre DEF Replace
<1>2. PICK start : start = [records EXCEPT ![m] = Record(e)]
  OBVIOUS
<1>3. PICK wired : wired = [graph EXCEPT ![m] = deps]
  OBVIOUS
<1>4. PICK affected : affected = Dependents(wired, {m})
  OBVIOUS
<1>5. PICK new : new = RecomputeSet(start, wired, affected)
  OBVIOUS
<1>6. graph' = wired /\ records' = new /\ ttlRecords' = CountAfterReplace(m, e)
  BY <1>2, <1>3, <1>4, <1>5 DEF Replace
<1>7. wired \in [Memories -> SUBSET Memories] /\ {m} \in SUBSET Memories
  BY <1>3, KnownAre
<1>8. affected \in SUBSET Memories /\ m \in affected
      /\ \A x \in Memories : \A d \in wired[x] : d \in affected => x \in affected
  BY <1>4, <1>7, DependentsAreLeast
<1>9. \A x \in affected : records[x] # NoRecord
  <2>1. PICK X \in SUBSET Memories : X = {x \in Memories : records[x] # NoRecord}
    OBVIOUS
  <2>2. \A x \in Memories : \A d \in wired[x] : d \in X => x \in X
    BY <1>1, <1>3, <2>1, KnownAre DEF RecordsFit
  <2>3. {m} \subseteq X
    BY <1>1, <2>1
  <2>4. affected \subseteq X
    BY <1>4, <1>7, <2>2, <2>3, DependentsAreLeast
  <2> QED
    BY <2>1, <2>4
<1>10. Settled(new, wired) /\ TtlMembers(new) = TtlMembers(start)
  <2>1. Settled(records, graph) /\ \A x \in affected : x = m \/ records[x] # NoRecord
    BY <1>9 DEF RefInv
  <2>2. \A x \in Memories : \A d \in [graph EXCEPT ![m] = deps][x] : d \in affected => x \in affected
    BY <1>3, <1>8, Zenon
  <2>3. Settled(new, wired)
    BY <1>1, <1>2, <1>3, <1>5, <1>8, <2>1, <2>2, RewireSettles
  <2>4. TtlMembers(RecomputeSet([records EXCEPT ![m] = Record(e)], [graph EXCEPT ![m] = deps], affected))
          = TtlMembers([records EXCEPT ![m] = Record(e)])
    BY <1>1, <1>8, <2>1, <2>2, RewireSettles
  <2>5. TtlMembers(new) = TtlMembers(start)
    BY <1>2, <1>3, <1>5, <2>4, Zenon
  <2> QED
    BY <2>3, <2>5
<1>11. TtlMembers(start) = IF e.expires # Never THEN TtlMembers(records) \cup {m} ELSE TtlMembers(records) \ {m}
  BY <1>2, KnownAre, RecordFacts
<1>12. m \in TtlMembers(records) <=> IsTtl(records[m])
  BY DEF TtlMembers
<1>13. ttlRecords' = Cardinality(TtlMembers(new))
  <2>1. PICK c \in Nat : c = Cardinality(TtlMembers(records)) /\ ttlRecords = c
    BY TtlCounts DEF RefInv
  <2>2. CASE IsTtl(records[m]) /\ e.expires = Never
    BY <1>6, <1>10, <1>11, <1>12, <2>1, <2>2, TtlCounts DEF CountAfterReplace
  <2>3. CASE ~IsTtl(records[m]) /\ e.expires # Never
    BY <1>6, <1>10, <1>11, <1>12, <2>1, <2>3, TtlCounts DEF CountAfterReplace
  <2>4. CASE ~(IsTtl(records[m]) /\ e.expires = Never) /\ ~(~IsTtl(records[m]) /\ e.expires # Never)
    <3>1. CountAfterReplace(m, e) = ttlRecords
      BY <2>4, Zenon DEF CountAfterReplace
    <3> QED
      BY <1>6, <1>10, <1>11, <1>12, <2>1, <2>4, <3>1, TtlCounts
  <2> QED
    BY <2>2, <2>3, <2>4
<1> QED
  BY <1>1, <1>6, <1>10, <1>13, IdleStep

(* signal keeps it, also when STALE is not propagated again.               *)
LEMMA SignalStep ==
  ASSUME RefInv, NEW s \in Sources, Signal(s)
  PROVE  RefInv'
<1>1. PICK roots : roots = {m \in Known : s \in records[m].sources}
  OBVIOUS
<1>2. roots \in SUBSET Memories /\ \A m \in roots : records[m] # NoRecord
  BY <1>1, KnownAre
<1>3. records' = Marked(roots, "STALE") /\ todo' = <<>> /\ answer' = NoAnswer
      /\ UNCHANGED <<graph, ttlRecords>>
  BY <1>1 DEF Signal, Journals
<1>4. "STALE" \in Statuses
  BY DEF Statuses
<1>5. Settled(Marked(roots, "STALE"), graph) /\ TtlMembers(Marked(roots, "STALE")) = TtlMembers(records)
  BY <1>2, <1>4, MarkedSettles DEF RefInv
<1> QED
  BY <1>3, <1>5, IdleStep DEF RefInv

(* validate keeps it: it waits with results for known memories.            *)
LEMMA ValidateStep ==
  ASSUME RefInv, NEW order \in {<<m>> : m \in Memories} \cup (Memories \X Memories), Validate(order)
  PROVE  RefInv'
<1>1. order \in Seq(Memories)
  <2>1. CASE order \in {<<m>> : m \in Memories}
    <3>1. PICK m \in Memories : order = <<m>>
      BY <2>1
    <3>2. <<m>> \in Seq(Memories)
      OBVIOUS
    <3> QED
      BY <3>1, <3>2
  <2>2. CASE order \in Memories \X Memories
    <3>1. PICK a \in Memories, b \in Memories : order = <<a, b>>
      BY <2>2
    <3>2. <<a, b>> \in Seq(Memories)
      OBVIOUS
    <3> QED
      BY <3>1, <3>2
  <2> QED
    BY <2>1, <2>2
<1>2. \A i \in 1 .. Len(order) : records[order[i]] # NoRecord
  <2>1. DOMAIN order = 1 .. Len(order)
    BY <1>1
  <2>2. ToSet(order) \subseteq Known
    BY DEF Validate
  <2> QED
    BY <2>1, <2>2, KnownAre DEF ToSet
<1>3. todo' = order /\ answer' = NoAnswer /\ UNCHANGED <<records, graph, ttlRecords>>
  BY DEF Validate
<1>4. TodoIsKnown'
  BY <1>1, <1>2, <1>3 DEF TodoIsKnown, NoAnswer
<1>5. AnswerIsExact'
  <2>1. DOMAIN NoAnswer = {}
    BY DEF NoAnswer
  <2> QED
    BY <1>3, <2>1 DEF AnswerIsExact
<1> QED
  BY <1>3, <1>4, <1>5 DEF RefInv

(* A result that is applied keeps it, also when journalling it fails.      *)
LEMMA ApplyResultStep ==
  ASSUME RefInv, NEW result \in Results, ApplyResult(result)
  PROVE  RefInv'
<1>1. PICK q \in Seq(Memories) : q = todo /\ q # <<>>
  BY DEF ApplyResult, RefInv, TodoIsKnown
<1>2. PICK m : m = Head(q)
  OBVIOUS
<1>3. m \in Memories /\ m = q[1] /\ 1 \in 1 .. Len(q) /\ Tail(q) \in Seq(Memories)
      /\ Len(Tail(q)) = Len(q) - 1 /\ \A i \in 1 .. Len(Tail(q)) : Tail(q)[i] = q[i + 1]
  BY <1>1, <1>2
<1>4. records[m] # NoRecord
  BY <1>1, <1>3 DEF RefInv, TodoIsKnown
<1>5. StatusForResult(result) \in Statuses
  BY DEF StatusForResult, Results, Statuses
<1>6. PICK new : new = Marked({m}, StatusForResult(result))
  OBVIOUS
<1>7. records' = new /\ UNCHANGED <<graph, ttlRecords, now, answer>>
  BY <1>1, <1>2, <1>6 DEF ApplyResult
<1>8. todo' = <<>> \/ todo' = Tail(q)
  BY <1>1 DEF ApplyResult, Journals
<1>9. {m} \in SUBSET Memories /\ \A x \in {m} : records[x] # NoRecord
  BY <1>3, <1>4
<1>10. Settled(new, graph) /\ TtlMembers(new) = TtlMembers(records)
  BY <1>5, <1>6, <1>9, MarkedSettles DEF RefInv
<1>11. \A x \in Memories : new[x] = NoRecord <=> records[x] = NoRecord
  BY <1>5, <1>6, <1>9, MarkedSettles DEF RefInv
<1>12. answer' = NoAnswer
  BY <1>1, <1>7 DEF RefInv, TodoIsKnown
<1>13. CASE todo' = <<>>
  BY <1>7, <1>10, <1>12, <1>13, IdleStep DEF RefInv
<1>14. CASE todo' = Tail(q)
  <2>1. ASSUME NEW i \in 1 .. Len(Tail(q)) PROVE new[Tail(q)[i]] # NoRecord
    <3>1. i + 1 \in 1 .. Len(q) /\ q[i + 1] \in Memories /\ Tail(q)[i] = q[i + 1]
      BY <1>1, <1>3
    <3>2. records[q[i + 1]] # NoRecord
      BY <1>1, <3>1 DEF RefInv, TodoIsKnown
    <3> QED
      BY <1>11, <3>1, <3>2
  <2>2. TodoIsKnown'
    BY <1>3, <1>7, <1>12, <1>14, <2>1 DEF TodoIsKnown, NoAnswer
  <2>3. AnswerIsExact'
    <3>1. DOMAIN NoAnswer = {}
      BY DEF NoAnswer
    <3> QED
      BY <1>12, <3>1 DEF AnswerIsExact
  <2> QED
    BY <1>7, <1>10, <2>2, <2>3 DEF RefInv
<1> QED
  BY <1>8, <1>13, <1>14

(* check: whatever the answer rests on is flagged as of now.               *)
LEMMA CheckStep ==
  ASSUME RefInv, NEW ids \in SUBSET Memories, Check(ids)
  PROVE  RefInv'
<1>1. PICK C : C = Closure(graph, ids)
  OBVIOUS
<1>2. PICK changed : changed = {m \in C : IsTtl(records[m]) /\ records[m].expired # Expired(records[m], now)}
  OBVIOUS
<1>3. PICK affected : affected = Dependents(graph, changed)
  OBVIOUS
<1>4. PICK new : new = IF ttlRecords = 0 \/ changed = {} THEN records ELSE RecomputeSet(records, graph, affected)
  OBVIOUS
<1>5. /\ records' = new /\ answer' = [m \in ids |-> new[m].status] /\ todo = <<>>
      /\ UNCHANGED <<graph, ttlRecords, now, todo>>
  BY <1>1, <1>2, <1>3, <1>4 DEF Check, CheckedClosure
<1>6. \A m \in ids : records[m] # NoRecord
  BY KnownAre DEF Check
<1>7. /\ records \in [Memories -> KnownRecords \cup {NoRecord}] /\ graph \in [Memories -> SUBSET Memories]
      /\ RecordsFit(records, graph) /\ Settled(records, graph)
  BY KnownAre DEF RefInv
<1>8. C \in SUBSET Memories /\ ids \subseteq C /\ \A m \in C : graph[m] \subseteq C
  BY <1>1, <1>7, ClosureIsLeast
<1>9. \A m \in C : records[m] # NoRecord
  BY <1>1, <1>6, <1>7, ClosureIsKnown
<1>10. changed \in SUBSET Memories /\ changed \subseteq C
  BY <1>2, <1>8
<1>11. affected \in SUBSET Memories /\ changed \subseteq affected
       /\ \A m \in Memories : \A d \in graph[m] : d \in affected => m \in affected
  BY <1>3, <1>7, <1>10, DependentsAreLeast
<1>12. \A m \in changed : records[m] # NoRecord
  BY <1>9, <1>10
<1>13. \A m \in affected : records[m] # NoRecord
  BY <1>3, <1>7, <1>10, <1>12, ClosureIsKnown
<1>14. \A m \in Memories : records[m].expired => IsTtl(records[m])
  BY <1>7 DEF Settled
<1>15. \A m \in C : records[m].expired \in BOOLEAN
  <2>1. \A m \in C : records[m] \in KnownRecords
    BY <1>7, <1>8, <1>9, KnownHasBase
  <2> QED
    BY <2>1 DEF KnownRecords
<1>16. /\ Settled(new, graph) /\ TtlMembers(new) = TtlMembers(records)
       /\ \A m \in Memories : new[m] = NoRecord <=> records[m] = NoRecord
       /\ \A x \in C : new[x].expired <=> Expired(new[x], now)
  <2>1. CASE ttlRecords = 0 \/ changed = {}
    <3>1. new = records
      BY <1>4, <2>1
    <3>2. ASSUME NEW x \in C PROVE records[x].expired <=> Expired(records[x], now)
      <4>1. CASE IsTtl(records[x])
        <5>1. ttlRecords # 0
          <6>1. x \in TtlMembers(records)
            BY <1>8, <4>1 DEF TtlMembers
          <6>2. Cardinality(TtlMembers(records)) # 0
            BY <6>1, TtlCounts, FS_EmptySet
          <6> QED
            BY <6>2 DEF RefInv
        <5>2. x \notin changed
          BY <2>1, <5>1
        <5>3. records[x].expired = Expired(records[x], now)
          BY <1>2, <4>1, <5>2
        <5> QED
          BY <5>3
      <4>2. CASE ~IsTtl(records[x])
        BY <1>8, <1>14, <4>2 DEF Expired
      <4> QED
        BY <4>1, <4>2
    <3> QED
      BY <1>7, <3>1, <3>2
  <2>2. CASE ~(ttlRecords = 0 \/ changed = {})
    <3>1. new = RecomputeSet(records, graph, affected)
      BY <1>4, <2>2
    <3>2. \A m \in Memories : m \notin affected /\ records[m] # NoRecord => LocalAt(records, graph, m)
      BY <1>7 DEF Settled
    <3>3. Acyclic(graph)
      BY <1>7 DEF Settled
    <3>4. Settled(new, graph) /\ TtlMembers(new) = TtlMembers(records)
      BY <1>7, <1>11, <1>13, <1>14, <3>1, <3>2, <3>3, RecomputeKeeps
    <3>5. \A m \in Memories : SameBut(records[m], new[m])
      BY <1>7, <1>11, <1>13, <1>14, <3>1, <3>2, <3>3, RecomputeKeeps
    <3>6. \A m \in Memories : m \notin affected => new[m] = records[m]
      BY <1>7, <1>11, <1>13, <3>1, RecomputeIs
    <3>7. \A m \in affected : IsTtl(records[m]) => new[m].expired = Expired(records[m], now)
      BY <1>7, <1>11, <1>13, <3>1, RecomputeIs
    <3>8. ASSUME NEW x \in C PROVE new[x].expired <=> Expired(new[x], now)
      <4>1. x \in Memories /\ SameBut(records[x], new[x])
        BY <1>8, <3>5
      <4>2. CASE ~IsTtl(records[x])
        <5>1. ~IsTtl(new[x]) /\ new[x].expired = records[x].expired /\ ~records[x].expired
          BY <1>14, <4>1, <4>2 DEF SameBut
        <5> QED
          BY <5>1 DEF Expired
      <4>3. CASE IsTtl(records[x]) /\ x \in affected
        <5>1. new[x].expired = Expired(records[x], now)
          BY <3>7, <4>3
        <5>2. Expired(records[x], now) <=> Expired(new[x], now)
          BY <4>1 DEF Expired, SameBut
        <5> QED
          BY <5>1, <5>2
      <4>4. CASE IsTtl(records[x]) /\ x \notin affected
        <5>1. new[x] = records[x] /\ x \notin changed
          BY <1>11, <3>6, <4>1, <4>4
        <5>2. records[x].expired = Expired(records[x], now)
          BY <1>2, <4>4, <5>1
        <5> QED
          BY <5>1, <5>2
      <4> QED
        BY <4>2, <4>3, <4>4
    <3> QED
      BY <3>4, <3>5, <3>8 DEF SameBut
  <2> QED
    BY <2>1, <2>2
<1>17. ASSUME NEW m \in ids
       PROVE  m \in Memories /\ new[m] # NoRecord
              /\ new[m].status = Worst({OwnAt(new[x], now) : x \in Closure(graph, {m})})
  <2>1. m \in Memories /\ new[m] # NoRecord /\ {m} \in SUBSET Memories /\ m \in C
    BY <1>6, <1>8, <1>16
  <2>2. Closure(graph, {m}) \subseteq C
    <3>1. {m} \subseteq C
      BY <2>1
    <3> QED
      BY <1>7, <1>8, <2>1, <3>1, ClosureIsLeast
  <2>3. \A x \in Closure(graph, {m}) : OwnAt(new[x], now) = Own(new[x])
    BY <1>16, <2>2 DEF OwnAt, Own
  <2>4. {OwnAt(new[x], now) : x \in Closure(graph, {m})} = {Own(new[x]) : x \in Closure(graph, {m})}
    BY <2>3
  <2>5. new[m].status = Worst({Own(new[x]) : x \in Closure(graph, {m})})
    BY <1>16, <2>1, LocalIsExact
  <2> QED
    BY <2>1, <2>4, <2>5
<1>18. AnswerIsExact'
  <2>1. \A m \in ids : answer'[m] = new[m].status
    BY <1>5
  <2>2. DOMAIN answer' = ids
    BY <1>5
  <2>3. \A m \in DOMAIN answer' :
          /\ m \in Memories /\ records'[m] # NoRecord
          /\ answer'[m] = Worst({OwnAt(records'[x], now') : x \in Closure(graph', {m})})
    BY <1>5, <1>17, <2>1, <2>2
  <2> QED
    BY <2>3 DEF AnswerIsExact
<1>19. TodoIsKnown'
  <2>1. todo' \in Seq(Memories) /\ todo' = <<>> /\ Len(todo') = 0 /\ 1 .. 0 = {}
    BY <1>5
  <2> QED
    BY <2>1 DEF TodoIsKnown
<1>20. ttlRecords' = Cardinality(TtlMembers(new))
  BY <1>5, <1>16 DEF RefInv
<1> QED
  BY <1>5, <1>16, <1>18, <1>19, <1>20 DEF RefInv

(* Every operation of the reference machine keeps the invariant.           *)
LEMMA RefNext ==
  ASSUME RefInv, Next PROVE RefInv'
<1>1. CASE \E m \in Memories, e \in Envelopes :
             Register(m, e) \/ \E deps \in SUBSET Memories : Derive(m, e, deps) \/ Replace(m, e, deps)
  BY <1>1, RegisterStep, DeriveStep, ReplaceStep
<1>2. CASE \E s \in Sources : Signal(s)
  BY <1>2, SignalStep
<1>3. CASE \E order \in {<<m>> : m \in Memories} \cup (Memories \X Memories) : Validate(order)
  BY <1>3, ValidateStep
<1>4. CASE \E result \in Results : ApplyResult(result)
  BY <1>4, ApplyResultStep
<1>5. CASE \E ids \in SUBSET Memories : Check(ids)
  BY <1>5, CheckStep
<1>6. CASE Tick
  BY <1>6, IdleStep DEF Tick, RefInv
<1> QED
  BY <1>1, <1>2, <1>3, <1>4, <1>5, <1>6 DEF Next

(* For every finite set of memories, all envelopes and every graph without *)
(* cycles: the invariant of the reference machine is kept.                 *)
THEOREM ReferenceInductive == MCSpec => []RefInv
<1>1. MCInit => RefInv
  BY RefInit DEF MCInit
<1>2. RefInv /\ [MCNext]_<<part, vars, storeVars>> => RefInv'
  <2> SUFFICES ASSUME RefInv, [MCNext]_<<part, vars, storeVars>> PROVE RefInv'
    OBVIOUS
  <2>1. CASE UNCHANGED vars
    BY <2>1 DEF vars, RefInv, TodoIsKnown, AnswerIsExact
  <2> QED
    BY <2>1, RefNext DEF MCNext
<1> QED
  BY <1>1, <1>2, PTL DEF MCSpec

(* The statuses kept along the graph are those of a computation from       *)
(* scratch over all a memory depends on, and so is what check answers.     *)
THEOREM StatusesAreExactHolds == MCSpec => []StatusesAreExact
<1>1. RefInv => StatusesAreExact
  <2> SUFFICES ASSUME RefInv PROVE StatusesAreExact
    OBVIOUS
  <2>1. ASSUME NEW m \in Known
        PROVE  records[m].status = Worst({Own(records[x]) : x \in Closure(graph, {m})})
    <3>1. m \in Memories /\ records[m] # NoRecord
      BY <2>1, KnownAre
    <3> QED
      BY <3>1, LocalIsExact DEF RefInv
  <2> QED
    BY <2>1 DEF StatusesAreExact, RefInv, AnswerIsExact
<1> QED
  BY <1>1, ReferenceInductive, PTL
-----------------------------------------------------------------------------
(* What the journal stands for.  As long as it can tell every change, what *)
(* a replay makes of a memory's own events is the status of the memory.    *)
ReplayInv ==
  /\ replayed \in [Memories -> [direct : Statuses \cup {"none"}, dependsOn : SUBSET Memories]]
  /\ journalled \in BOOLEAN
  /\ journalled =>
       /\ TtlMembers(records) = {}
       /\ \A m \in Memories : replayed[m].dependsOn = graph[m]
       /\ \A m \in Memories : records[m] # NoRecord => replayed[m].direct = records[m].status

(* A status is at least as bad as something that is reached.               *)
LEMMA UpperIsReached ==
  ASSUME NEW recs, NEW deps, Settled(recs, deps), NEW m \in Memories, recs[m] # NoRecord, NEW U \in Uppers
  PROVE  recs[m].status \in U <=> \E x \in Closure(deps, {m}) : Own(recs[x]) \in U
<1>1. PICK S : S = {Own(recs[x]) : x \in Closure(deps, {m})}
  OBVIOUS
<1>2. recs[m].status = Worst(S)
  BY <1>1, LocalIsExact
<1>3. Worst(S) \in U <=> \E s \in S : s \in U
  BY WorstIs
<1> QED
  BY <1>1, <1>2, <1>3

(* What a member of a closure reaches is in the closure.                   *)
LEMMA ClosureOfMember ==
  ASSUME NEW deps \in [Memories -> SUBSET Memories], NEW m \in Memories, NEW x \in Closure(deps, {m})
  PROVE  x \in Memories /\ m \in Closure(deps, {m}) /\ Closure(deps, {x}) \subseteq Closure(deps, {m})
<1>1. PICK C : C = Closure(deps, {m})
  OBVIOUS
<1>2. C \in SUBSET Memories /\ {m} \subseteq C
  BY <1>1, ClosureIsLeast
<1>3. \A y \in C : deps[y] \subseteq C
  BY <1>1, ClosureIsLeast
<1>4. x \in Memories /\ {x} \subseteq C /\ {x} \in SUBSET Memories
  BY <1>1, <1>2
<1>5. Closure(deps, {x}) \subseteq C
  BY <1>2, <1>3, <1>4, ClosureIsLeast
<1> QED
  BY <1>1, <1>2, <1>4, <1>5

(* How a change of base statuses shows, when nothing expires: INVALID      *)
(* stays; without s = FRESH nobody gets FRESH; with it nobody gets UNKNOWN, *)
(* and if a root stays UNKNOWN, nobody above it changes.                   *)
LEMMA MarkedChanges ==
  ASSUME Settled(records, graph), TtlMembers(records) = {}, NEW roots \in SUBSET Memories,
         \A m \in roots : records[m] # NoRecord, NEW s \in Statuses,
         NEW new, new = Marked(roots, s), NEW x \in Memories, records[x] # NoRecord
  PROVE  /\ records[x].status = "INVALID" => new[x].status = "INVALID"
         /\ s # "FRESH" /\ new[x].status = "FRESH" => records[x].status = "FRESH"
         /\ s = "FRESH" /\ new[x].status = "UNKNOWN" => records[x].status = "UNKNOWN"
         /\ s = "FRESH" /\ (\A m \in roots : new[m].status = "UNKNOWN") => new[x].status = records[x].status
         /\ x \notin Dependents(graph, roots) => new[x] = records[x]
<1>1. /\ Settled(new, graph) /\ TtlMembers(new) = {}
      /\ \A m \in Memories : new[m] = NoRecord <=> records[m] = NoRecord
      /\ \A m \in Memories : new[m].base =
           IF m \in roots /\ records[m].base # "INVALID" THEN s ELSE records[m].base
      /\ \A m \in Memories : m \notin Dependents(graph, roots) => new[m] = records[m]
  <2>1. Settled(new, graph) /\ TtlMembers(new) = {}
    BY MarkedSettles
  <2>2. \A m \in Memories : new[m] = NoRecord <=> records[m] = NoRecord
    BY MarkedSettles
  <2>3. \A m \in Memories : new[m].base =
          IF m \in roots /\ records[m].base # "INVALID" THEN s ELSE records[m].base
    BY MarkedSettles
  <2>4. \A m \in Memories : m \notin Dependents(graph, roots) => new[m] = records[m]
    BY MarkedSettles
  <2> QED
    BY <2>1, <2>2, <2>3, <2>4
<1>2. ASSUME NEW m \in Memories PROVE Own(records[m]) = records[m].base /\ Own(new[m]) = new[m].base
  <2>1. ~IsTtl(records[m]) /\ ~IsTtl(new[m])
    BY <1>1 DEF TtlMembers
  <2>2. ~records[m].expired /\ ~new[m].expired
    BY <1>1, <2>1 DEF Settled
  <2> QED
    BY <2>2 DEF Own
<1>3. RecordsFit(records, graph) /\ graph \in [Memories -> SUBSET Memories]
  BY DEF Settled, RecordsFit
<1>4. PICK C : C = [m \in Memories |-> Closure(graph, {m})]
  OBVIOUS
<1>5. ASSUME NEW m \in Memories
      PROVE  C[m] \in SUBSET Memories /\ m \in C[m] /\ \A y \in C[m] : C[y] \subseteq C[m]
  <2>1. C[m] = Closure(graph, {m}) /\ {m} \in SUBSET Memories
    BY <1>4
  <2>2. C[m] \in SUBSET Memories /\ m \in C[m]
    BY <1>3, <2>1, ClosureIsLeast
  <2>3. ASSUME NEW y \in C[m] PROVE C[y] \subseteq C[m]
    <3>1. y \in Memories /\ C[y] = Closure(graph, {y})
      BY <1>4, <2>2
    <3>2. y \in Closure(graph, {m})
      BY <2>1, <2>3
    <3>3. Closure(graph, {y}) \subseteq Closure(graph, {m})
      BY <1>3, <3>2, ClosureOfMember
    <3> QED
      BY <2>1, <3>1, <3>3
  <2> QED
    BY <2>2, <2>3
<1>6. ASSUME NEW m \in Memories, records[m] # NoRecord, NEW U \in Uppers
      PROVE  /\ records[m].status \in U <=> \E y \in C[m] : records[y].base \in U
             /\ new[m].status \in U <=> \E y \in C[m] : new[y].base \in U
  <2>1. C[m] = Closure(graph, {m})
    BY <1>4
  <2>2. records[m].status \in U <=> \E y \in C[m] : Own(records[y]) \in U
    BY <1>6, <2>1, UpperIsReached
  <2>3. new[m].status \in U <=> \E y \in C[m] : Own(new[y]) \in U
    <3>1. Settled(new, graph)
      BY <1>1
    <3>2. new[m] # NoRecord
      BY <1>1, <1>6
    <3>3. new[m].status \in U <=> \E y \in Closure(graph, {m}) : Own(new[y]) \in U
      BY <3>1, <3>2, UpperIsReached
    <3> QED
      BY <2>1, <3>3
  <2>4. \A y \in C[m] : Own(records[y]) = records[y].base /\ Own(new[y]) = new[y].base
    BY <1>2, <1>5
  <2> QED
    BY <2>2, <2>3, <2>4
<1>7. ASSUME NEW m \in Memories, records[m] # NoRecord PROVE records[m].status \in Statuses /\ new[m].status \in Statuses
  <2>1. records[m] \in KnownRecords
    BY <1>3, <1>7, KnownHasBase DEF RecordsFit
  <2>2. new[m] \in KnownRecords
    BY <1>1, <1>7, KnownHasBase DEF Settled, RecordsFit
  <2> QED
    BY <2>1, <2>2 DEF KnownRecords
<1>8. /\ {"STALE", "UNKNOWN", "INVALID"} \in Uppers
      /\ {"UNKNOWN", "INVALID"} \in Uppers /\ {"INVALID"} \in Uppers
  BY DEF Uppers
<1>9. records[x].status = "INVALID" => new[x].status = "INVALID"
  <2> SUFFICES ASSUME records[x].status = "INVALID" PROVE new[x].status \in {"INVALID"}
    OBVIOUS
  <2>1. PICK y \in C[x] : records[y].base \in {"INVALID"}
    BY <1>6, <1>8
  <2>2. new[y].base \in {"INVALID"}
    BY <1>1, <1>5, <2>1
  <2> QED
    BY <1>6, <1>8, <2>2
<1>10. s # "FRESH" /\ new[x].status = "FRESH" => records[x].status = "FRESH"
  <2> SUFFICES ASSUME s # "FRESH", new[x].status = "FRESH"
               PROVE  ~(records[x].status \in {"STALE", "UNKNOWN", "INVALID"})
    BY <1>7 DEF Statuses
  <2>1. \A y \in C[x] : ~(new[y].base \in {"STALE", "UNKNOWN", "INVALID"})
    BY <1>6, <1>8
  <2>2. s \in {"STALE", "UNKNOWN", "INVALID"}
    BY DEF Statuses
  <2>3. \A y \in C[x] : new[y].base = records[y].base
    BY <1>1, <1>5, <2>1, <2>2
  <2> QED
    BY <1>6, <1>8, <2>1, <2>3
<1>11. ASSUME s = "FRESH", NEW y \in Memories
       PROVE  /\ new[y].base \in {"UNKNOWN", "INVALID"} => records[y].base \in {"UNKNOWN", "INVALID"}
              /\ new[y].base \in {"INVALID"} <=> records[y].base \in {"INVALID"}
  BY <1>1, <1>11
<1>12. s = "FRESH" /\ new[x].status = "UNKNOWN" => records[x].status = "UNKNOWN"
  <2> SUFFICES ASSUME s = "FRESH", new[x].status = "UNKNOWN" PROVE records[x].status = "UNKNOWN"
    OBVIOUS
  <2>1. PICK y \in C[x] : new[y].base \in {"UNKNOWN", "INVALID"}
    BY <1>6, <1>8
  <2>2. records[y].base \in {"UNKNOWN", "INVALID"}
    BY <1>5, <1>11, <2>1
  <2>3. records[x].status \in {"UNKNOWN", "INVALID"}
    BY <1>6, <1>8, <2>2
  <2> QED
    BY <1>9, <2>3
<1>13. s = "FRESH" /\ (\A m \in roots : new[m].status = "UNKNOWN") => new[x].status = records[x].status
  <2> SUFFICES ASSUME s = "FRESH", \A m \in roots : new[m].status = "UNKNOWN"
               PROVE  new[x].status = records[x].status
    OBVIOUS
  <2>1. new[x].status \in {"INVALID"} <=> records[x].status \in {"INVALID"}
    <3>1. \A y \in C[x] : new[y].base \in {"INVALID"} <=> records[y].base \in {"INVALID"}
      BY <1>5, <1>11
    <3> QED
      BY <1>6, <1>8, <3>1
  <2>2. CASE \E m \in roots : m \in C[x]
    <3>1. PICK m \in roots : m \in C[x]
      BY <2>2
    <3>2. C[m] \subseteq C[x] /\ m \in Memories /\ records[m] # NoRecord /\ new[m].status = "UNKNOWN"
      BY <1>5, <3>1
    <3>3. PICK y \in C[m] : new[y].base \in {"UNKNOWN", "INVALID"}
      BY <1>6, <1>8, <3>2
    <3>4. y \in C[x] /\ y \in Memories
      BY <1>5, <3>2, <3>3
    <3>5. records[y].base \in {"UNKNOWN", "INVALID"}
      BY <1>11, <3>3, <3>4
    <3>6. new[x].status \in {"UNKNOWN", "INVALID"} /\ records[x].status \in {"UNKNOWN", "INVALID"}
      BY <1>6, <1>8, <3>3, <3>4, <3>5
    <3> QED
      BY <2>1, <3>6
  <2>3. CASE ~(\E m \in roots : m \in C[x])
    <3>1. \A y \in C[x] : new[y].base = records[y].base
      BY <1>1, <1>5, <2>3
    <3>2. \A U \in Uppers : new[x].status \in U <=> records[x].status \in U
      BY <1>6, <3>1
    <3> QED
      BY <1>7, <3>2, SameLevel
  <2> QED
    BY <2>2, <2>3
<1> QED
  BY <1>1, <1>9, <1>10, <1>12, <1>13

(* A step that does not follow the journal, or can no longer.              *)
LEMMA NotFollowed ==
  ASSUME replayed' \in [Memories -> [direct : Statuses \cup {"none"}, dependsOn : SUBSET Memories]],
         journalled' = FALSE
  PROVE  ReplayInv'
  BY DEF ReplayInv

(* The replay of an empty journal.                                         *)
LEMMA NoReplayIsTyped ==
  NoReplay \in [Memories -> [direct : Statuses \cup {"none"}, dependsOn : SUBSET Memories]]
<1>1. NoMemory \in [direct : Statuses \cup {"none"}, dependsOn : SUBSET Memories]
  BY DEF NoMemory
<1> QED
  BY <1>1 DEF NoReplay

(* Follows: from the first change the journal cannot tell on, nothing is   *)
(* said about the replay any more.                                         *)
LEMMA FollowsStops ==
  ASSUME NEW told, NEW replay, Follows(told, replay), ReplayInv, ~(journalled /\ told)
  PROVE  ReplayInv'
<1>1. journalled' = FALSE
  BY DEF Follows, ReplayInv
<1>2. replayed' = NoReplay
  BY <1>1 DEF Follows
<1> QED
  BY <1>1, <1>2, NotFollowed, NoReplayIsTyped

(* A new memory enters the replay with what its event says.                *)
LEMMA NewInReplay ==
  ASSUME ReplayInv, NEW m \in Memories, NEW d \in Statuses, NEW deps \in SUBSET Memories, NEW told,
         Follows(told, [replayed EXCEPT ![m] = [direct |-> d, dependsOn |-> deps]]), journalled /\ told,
         TtlMembers(records') = {},
         graph'[m] = deps, \A x \in Memories : x # m => graph'[x] = graph[x],
         records'[m].status = d, \A x \in Memories : x # m => records'[x] = records[x]
  PROVE  ReplayInv'
<1>1. PICK r : r = [direct |-> d, dependsOn |-> deps]
  OBVIOUS
<1>2. r \in [direct : Statuses \cup {"none"}, dependsOn : SUBSET Memories] /\ r.direct = d /\ r.dependsOn = deps
  BY <1>1
<1>3. journalled' = TRUE
  BY DEF Follows, ReplayInv
<1>4. replayed' = [replayed EXCEPT ![m] = r]
  BY <1>1, <1>3 DEF Follows
<1>5. /\ replayed' \in [Memories -> [direct : Statuses \cup {"none"}, dependsOn : SUBSET Memories]]
      /\ replayed'[m] = r /\ \A x \in Memories : x # m => replayed'[x] = replayed[x]
  BY <1>2, <1>4 DEF ReplayInv
<1>6. ASSUME NEW x \in Memories
      PROVE  replayed'[x].dependsOn = graph'[x] /\ (records'[x] # NoRecord => replayed'[x].direct = records'[x].status)
  <2>1. CASE x = m
    BY <1>2, <1>5, <2>1
  <2>2. CASE x # m
    BY <1>5, <2>2 DEF ReplayInv
  <2> QED
    BY <2>1, <2>2
<1> QED
  BY <1>3, <1>5, <1>6 DEF ReplayInv

(* appendTransition for a batch: the replay of the events is that of the   *)
(* changes, if none of them is malformed, or if nothing has changed.       *)
LEMMA JournalsFollow ==
  ASSUME ReplayInv, journalled, NEW told \in SUBSET Memories, NEW reason,
         Journals(records, records', told, reason), UNCHANGED <<graph, journalled>>,
         TtlMembers(records') = {},
         \A x \in Memories : records'[x] = NoRecord <=> records[x] = NoRecord,
         \A x \in told : records[x] # NoRecord /\ records'[x].status \in Statuses,
         \A x \in Memories : x \notin told => records'[x].status = records[x].status,
         \A x \in told : records[x].status = "INVALID" => records'[x].status = "INVALID",
         \/ \A x \in told : Emits(records[x].status, records'[x].status, reason)
                              => WellFormed(records'[x].status, reason)
         \/ \A x \in told : records'[x].status = records[x].status
  PROVE  ReplayInv'
<1>1. PICK emitting : emitting = {x \in told : Emits(records[x].status, records'[x].status, reason)}
  OBVIOUS
<1>2. PICK refused : refused = {x \in emitting : ~WellFormed(records'[x].status, reason)}
  OBVIOUS
<1>3. PICK appended \in SUBSET (emitting \ refused) :
        /\ refused = {} => appended = emitting
        /\ replayed' = [x \in Memories |->
             IF journalled /\ x \in appended
             THEN [replayed[x] EXCEPT !.direct = AfterTransition(@, records'[x].status)]
             ELSE replayed[x]]
  BY <1>1, <1>2 DEF Journals
<1>4. ASSUME NEW x \in Memories, x \in appended
      PROVE  /\ replayed'[x] \in [direct : Statuses \cup {"none"}, dependsOn : SUBSET Memories]
             /\ replayed'[x].dependsOn = graph'[x]
             /\ replayed'[x].direct = records'[x].status
  <2>1. x \in told
    BY <1>1, <1>3, <1>4
  <2>2. PICK q \in [direct : Statuses \cup {"none"}, dependsOn : SUBSET Memories] : q = replayed[x]
    BY DEF ReplayInv
  <2>3. q.dependsOn = graph[x] /\ q.direct = records[x].status
    BY <2>1, <2>2 DEF ReplayInv
  <2>4. PICK n \in Statuses : n = records'[x].status
    BY <2>1
  <2>5. AfterTransition(q.direct, n) = n
    <3>1. q.direct = "INVALID" => n = "INVALID"
      BY <2>1, <2>3, <2>4
    <3> QED
      BY <3>1 DEF AfterTransition
  <2>6. replayed'[x] = [q EXCEPT !.direct = AfterTransition(q.direct, n)]
    BY <1>3, <1>4, <2>2, <2>4
  <2>7. replayed'[x] = [q EXCEPT !.direct = n]
    BY <2>5, <2>6
  <2> QED
    BY <2>3, <2>4, <2>7
<1>5. ASSUME NEW x \in Memories, x \notin appended
      PROVE  replayed'[x] = replayed[x] /\ records'[x].status = records[x].status
  <2>1. replayed'[x] = replayed[x]
    BY <1>3, <1>5
  <2>2. CASE \A y \in told : records'[y].status = records[y].status
    BY <2>1, <2>2
  <2>3. CASE \A y \in told : Emits(records[y].status, records'[y].status, reason)
                               => WellFormed(records'[y].status, reason)
    <3>1. refused = {}
      BY <1>1, <1>2, <2>3
    <3>2. appended = emitting
      BY <1>3, <3>1
    <3>3. CASE x \in told
      BY <1>1, <1>5, <2>1, <3>2, <3>3 DEF Emits
    <3>4. CASE x \notin told
      BY <2>1, <3>4
    <3> QED
      BY <3>3, <3>4
  <2> QED
    BY <2>2, <2>3
<1>6. replayed' \in [Memories -> [direct : Statuses \cup {"none"}, dependsOn : SUBSET Memories]]
  <2>1. \A x \in Memories : replayed'[x] \in [direct : Statuses \cup {"none"}, dependsOn : SUBSET Memories]
    BY <1>4, <1>5 DEF ReplayInv
  <2>2. PICK F : F = replayed'
    OBVIOUS
  <2>3. F = [x \in Memories |-> F[x]]
    BY <1>3, <2>2
  <2> QED
    BY <2>1, <2>2, <2>3
<1>7. ASSUME NEW x \in Memories
      PROVE  replayed'[x].dependsOn = graph'[x] /\ (records'[x] # NoRecord => replayed'[x].direct = records'[x].status)
  <2>1. CASE x \in appended
    BY <1>4, <2>1
  <2>2. CASE x \notin appended
    BY <1>5, <2>2 DEF ReplayInv
  <2> QED
    BY <2>1, <2>2
<1> QED
  BY <1>6, <1>7 DEF ReplayInv

(* Without the journal following, a batch of events leaves it alone.       *)
LEMMA JournalsAside ==
  ASSUME ReplayInv, ~journalled, NEW told, NEW reason, Journals(records, records', told, reason),
         UNCHANGED journalled
  PROVE  ReplayInv'
<1>1. replayed' = [m \in Memories |-> replayed[m]]
  BY DEF Journals
<1>2. replayed' = replayed /\ journalled' = FALSE
  BY <1>1 DEF ReplayInv
<1> QED
  BY <1>2, NotFollowed DEF ReplayInv
-----------------------------------------------------------------------------
(* register: the event carries the status of the envelope.                 *)
LEMMA RegisterReplay ==
  ASSUME RefInv, ReplayInv, NEW m \in Memories, NEW e \in Envelopes, Register(m, e)
  PROVE  ReplayInv'
<1>1. records[m] = NoRecord /\ graph' = graph /\ records' = [records EXCEPT ![m] = Record(e)]
  BY KnownAre DEF Register
<1>2. PICK told \in BOOLEAN : told = (e.expires = Never)
  OBVIOUS
<1>3. Follows(told, [replayed EXCEPT ![m] = [direct |-> e.status, dependsOn |-> {}]])
  BY <1>2 DEF Register
<1>4. CASE ~(journalled /\ told)
  BY <1>3, <1>4, FollowsStops
<1>5. CASE journalled /\ told
  <2>1. TtlMembers(records') = TtlMembers(records) \ {m} /\ TtlMembers(records) = {}
    <3>1. TtlMembers(records') =
            IF e.expires # Never THEN TtlMembers(records) \cup {m} ELSE TtlMembers(records) \ {m}
      <4>1. PICK new : new = [records EXCEPT ![m] = Record(e)]
        OBVIOUS
      <4>2. TtlMembers(new) =
              IF e.expires # Never THEN TtlMembers(records) \cup {m} ELSE TtlMembers(records) \ {m}
        BY <4>1, KnownAre, RecordFacts
      <4>3. records' = new
        BY <1>1, <4>1
      <4> QED
        BY <4>2, <4>3
    <3>2. TtlMembers(records) = {}
      BY <1>5 DEF ReplayInv
    <3> QED
      BY <1>2, <1>5, <3>1, <3>2
  <2>2. graph[m] = {}
    BY <1>1, KnownAre DEF RecordsFit
  <2>3. e.status \in Statuses
    BY ReferenceAssumption
  <2>4. records'[m].status = e.status
    <3>1. records'[m] = Record(e)
      BY <1>1, KnownAre
    <3> QED
      BY <3>1 DEF Record
  <2>5. \A x \in Memories : x # m => records'[x] = records[x]
    BY <1>1, KnownAre
  <2>6. graph'[m] = {} /\ \A x \in Memories : x # m => graph'[x] = graph[x]
    BY <1>1, <2>2
  <2>7. TtlMembers(records') = {}
    BY <2>1
  <2> QED
    BY <1>3, <1>5, <2>3, <2>4, <2>5, <2>6, <2>7, NewInReplay
<1> QED
  BY <1>4, <1>5

(* derive: a memory that comes out FRESH is what its event says.           *)
LEMMA DeriveReplay ==
  ASSUME RefInv, ReplayInv, NEW m \in Memories, NEW e \in Envelopes, NEW deps \in SUBSET Memories, Derive(m, e, deps)
  PROVE  ReplayInv'
<1>1. records[m] = NoRecord /\ \A d \in deps : records[d] # NoRecord
  BY KnownAre DEF Derive
<1>2. PICK start : start = [records EXCEPT ![m] = Record(e)]
  OBVIOUS
<1>3. PICK wired : wired = [graph EXCEPT ![m] = deps]
  OBVIOUS
<1>4. PICK new : new = RecomputeSet(start, wired, {m})
  OBVIOUS
<1>5. graph' = wired /\ records' = new
  BY <1>2, <1>3, <1>4 DEF Derive
<1>6. PICK told \in BOOLEAN : told = (e.expires = Never /\ new[m].status = "FRESH")
  OBVIOUS
<1>7. Follows(told, [replayed EXCEPT ![m] = [direct |-> "FRESH", dependsOn |-> deps]])
  BY <1>5, <1>6 DEF Derive
<1>8. CASE ~(journalled /\ told)
  BY <1>7, <1>8, FollowsStops
<1>9. CASE journalled /\ told
  <2>1. /\ start \in [Memories -> KnownRecords \cup {NoRecord}] /\ start[m] # NoRecord
        /\ \A x \in Memories : x # m => start[x] = records[x]
    BY <1>2, KnownAre, RecordFacts
  <2>2. /\ wired \in [Memories -> SUBSET Memories] /\ wired[m] = deps
        /\ \A x \in Memories : x # m => wired[x] = graph[x]
    BY <1>3, KnownAre
  <2>3. RecordsFit(start, wired)
    <3>1. \A x \in Memories : start[x] = NoRecord => wired[x] = {}
      BY <2>1, <2>2, KnownAre DEF RecordsFit
    <3>2. ASSUME NEW x \in Memories, NEW d \in wired[x] PROVE start[d] # NoRecord
      <4>1. d \in Memories /\ records[d] # NoRecord
        BY <1>1, <2>2, <3>2, KnownAre DEF RecordsFit
      <4> QED
        BY <2>1, <4>1
    <3> QED
      BY <2>1, <2>2, <3>1, <3>2 DEF RecordsFit
  <2>4. {m} \in SUBSET Memories /\ \A x \in {m} : start[x] # NoRecord
    BY <2>1
  <2>5. \A x \in Memories : SameBut(start[x], new[x])
    BY <1>4, <2>3, <2>4, RecomputeIs
  <2>6. \A x \in Memories : x \notin {m} => new[x] = start[x]
    BY <1>4, <2>3, <2>4, RecomputeIs
  <2>7. TtlMembers(start) = TtlMembers(records) \ {m} /\ TtlMembers(records) = {}
    <3>1. TtlMembers(start) =
            IF e.expires # Never THEN TtlMembers(records) \cup {m} ELSE TtlMembers(records) \ {m}
      BY <1>2, KnownAre, RecordFacts
    <3>2. TtlMembers(records) = {}
      BY <1>9 DEF ReplayInv
    <3> QED
      BY <1>6, <1>9, <3>1, <3>2
  <2>8. TtlMembers(new) = {}
    BY <2>5, <2>7 DEF SameBut, TtlMembers
  <2>9. new[m].status = "FRESH" /\ "FRESH" \in Statuses
    BY <1>6, <1>9 DEF Statuses
  <2>10. \A x \in Memories : x # m => records'[x] = records[x]
    BY <1>5, <2>1, <2>6
  <2>11. graph'[m] = deps /\ (\A x \in Memories : x # m => graph'[x] = graph[x])
         /\ TtlMembers(records') = {} /\ records'[m].status = "FRESH"
    BY <1>5, <2>2, <2>8, <2>9
  <2> QED
    BY <1>7, <1>9, <2>9, <2>10, <2>11, NewInReplay
<1> QED
  BY <1>8, <1>9

(* signal: whoever gets another status gets one that a transition carries. *)
LEMMA SignalReplay ==
  ASSUME RefInv, ReplayInv, NEW s \in Sources, Signal(s)
  PROVE  ReplayInv'
<1>1. PICK roots : roots = {m \in Known : s \in records[m].sources}
  OBVIOUS
<1>2. roots \in SUBSET Memories /\ \A m \in roots : records[m] # NoRecord
  BY <1>1, KnownAre
<1>3. PICK new : new = Marked(roots, "STALE")
  OBVIOUS
<1>4. PICK told : told = Dependents(graph, roots)
  OBVIOUS
<1>5. records' = new /\ Journals(records, records', told, "signal") /\ UNCHANGED <<graph, journalled>>
  BY <1>1, <1>3, <1>4 DEF Signal
<1>6. CASE ~journalled
  BY <1>5, <1>6, JournalsAside
<1>7. CASE journalled
  <2>1. "STALE" \in Statuses /\ Settled(records, graph) /\ TtlMembers(records) = {}
    BY <1>7 DEF Statuses, RefInv, ReplayInv
  <2>2. Settled(new, graph) /\ TtlMembers(new) = {}
    BY <1>2, <1>3, <2>1, MarkedSettles
  <2>3. \A x \in Memories : new[x] = NoRecord <=> records[x] = NoRecord
    BY <1>2, <1>3, <2>1, MarkedSettles
  <2>4. told \in SUBSET Memories
    BY <1>2, <1>4, KnownAre, DependentsAreLeast
  <2>5. \A x \in told : records[x] # NoRecord
    BY <1>2, <1>4, KnownAre, ClosureIsKnown
  <2>6. \A x \in Memories : x \notin told => new[x] = records[x]
    BY <1>2, <1>3, <1>4, <2>1, MarkedSettles
  <2>7. ASSUME NEW x \in told
        PROVE  /\ new[x].status \in Statuses
               /\ records[x].status = "INVALID" => new[x].status = "INVALID"
               /\ new[x].status = "FRESH" => records[x].status = "FRESH"
    <3>1. x \in Memories /\ records[x] # NoRecord
      BY <2>4, <2>5
    <3>2. records[x].status = "INVALID" => new[x].status = "INVALID"
      BY <1>2, <1>3, <2>1, <3>1, MarkedChanges
    <3>3. new[x].status = "FRESH" => records[x].status = "FRESH"
      BY <1>2, <1>3, <2>1, <3>1, MarkedChanges
    <3>4. new[x] \in KnownRecords
      BY <2>2, <2>3, <3>1, KnownHasBase DEF Settled, RecordsFit
    <3> QED
      BY <3>2, <3>3, <3>4 DEF KnownRecords
  <2>8. ASSUME NEW x \in told, Emits(records[x].status, new[x].status, "signal")
        PROVE  WellFormed(new[x].status, "signal")
    <3>1. records[x].status # new[x].status
      BY <2>8 DEF Emits
    <3>2. new[x].status \in Statuses /\ new[x].status # "FRESH"
      BY <2>7, <3>1
    <3> QED
      BY <3>2 DEF WellFormed, Statuses
  <2>9. \A x \in told : records[x] # NoRecord /\ records'[x].status \in Statuses
    BY <1>5, <2>5, <2>7
  <2>10. \A x \in Memories : x \notin told => records'[x].status = records[x].status
    BY <1>5, <2>6
  <2>11. \A x \in told : records[x].status = "INVALID" => records'[x].status = "INVALID"
    BY <1>5, <2>7
  <2>12. \A x \in told : Emits(records[x].status, records'[x].status, "signal")
                           => WellFormed(records'[x].status, "signal")
    BY <1>5, <2>8
  <2>13. TtlMembers(records') = {} /\ \A x \in Memories : records'[x] = NoRecord <=> records[x] = NoRecord
    BY <1>5, <2>2, <2>3
  <2> QED
    BY <1>5, <1>7, <2>4, <2>9, <2>10, <2>11, <2>12, <2>13, JournalsFollow
<1> QED
  BY <1>6, <1>7

(* validate applies one result.  A memory found unchanged may still be     *)
(* UNKNOWN for another one: then nothing has changed and nothing that the  *)
(* journal lost is missing.                                                *)
LEMMA ApplyResultReplay ==
  ASSUME RefInv, ReplayInv, NEW result \in Results, ApplyResult(result)
  PROVE  ReplayInv'
<1>1. PICK m : m = Head(todo)
  OBVIOUS
<1>2. m \in Memories /\ records[m] # NoRecord
  <2>1. PICK q \in Seq(Memories) : q = todo /\ q # <<>>
    BY DEF ApplyResult, RefInv, TodoIsKnown
  <2>2. m = q[1] /\ 1 \in 1 .. Len(q) /\ q[1] \in Memories
    BY <1>1, <2>1
  <2> QED
    BY <2>1, <2>2 DEF RefInv, TodoIsKnown
<1>3. PICK s : s = StatusForResult(result)
  OBVIOUS
<1>4. s \in Statuses /\ (s = "FRESH" <=> result = "UNCHANGED")
  BY <1>3 DEF StatusForResult, Results, Statuses
<1>5. PICK new : new = Marked({m}, s)
  OBVIOUS
<1>6. PICK told : told = Told(m, new)
  OBVIOUS
<1>7. records' = new /\ Journals(records, records', told, result) /\ UNCHANGED <<graph, journalled>>
  BY <1>1, <1>3, <1>5, <1>6 DEF ApplyResult
<1>8. CASE ~journalled
  BY <1>7, <1>8, JournalsAside
<1>9. CASE journalled
  <2>1. Settled(records, graph) /\ TtlMembers(records) = {} /\ {m} \in SUBSET Memories
        /\ \A x \in {m} : records[x] # NoRecord
    BY <1>2, <1>9 DEF RefInv, ReplayInv
  <2>2. Settled(new, graph) /\ TtlMembers(new) = {}
    BY <1>4, <1>5, <2>1, MarkedSettles
  <2>3. \A x \in Memories : new[x] = NoRecord <=> records[x] = NoRecord
    BY <1>4, <1>5, <2>1, MarkedSettles
  <2>4. \A x \in Memories : x \notin Dependents(graph, {m}) => new[x] = records[x]
    BY <1>4, <1>5, <2>1, MarkedSettles
  <2>5. Dependents(graph, {m}) \in SUBSET Memories /\ \A x \in Dependents(graph, {m}) : records[x] # NoRecord
    BY <2>1, KnownAre, DependentsAreLeast, ClosureIsKnown
  <2>6. told = {m} \cup {x \in Dependents(graph, {m}) : records[x].status # new[x].status}
    BY <1>6 DEF Told
  <2>7. told \in SUBSET Memories /\ \A x \in told : records[x] # NoRecord
    BY <1>2, <2>5, <2>6
  <2>8. \A x \in Memories : x \notin told => new[x].status = records[x].status
    BY <2>4, <2>6
  <2>9. ASSUME NEW x \in Memories, records[x] # NoRecord
        PROVE  /\ new[x].status \in Statuses
               /\ records[x].status = "INVALID" => new[x].status = "INVALID"
               /\ s # "FRESH" /\ new[x].status = "FRESH" => records[x].status = "FRESH"
               /\ s = "FRESH" /\ new[x].status = "UNKNOWN" => records[x].status = "UNKNOWN"
               /\ s = "FRESH" /\ new[m].status = "UNKNOWN" => new[x].status = records[x].status
    <3>6. PICK roots \in SUBSET Memories : roots = {m}
      BY <2>1
    <3>7. (\A y \in roots : records[y] # NoRecord) /\ new = Marked(roots, s)
      BY <1>5, <2>1, <3>6
    <3>1. records[x].status = "INVALID" => new[x].status = "INVALID"
      BY <1>4, <2>1, <2>9, <3>7, MarkedChanges
    <3>2. s # "FRESH" /\ new[x].status = "FRESH" => records[x].status = "FRESH"
      BY <1>4, <2>1, <2>9, <3>7, MarkedChanges
    <3>3. s = "FRESH" /\ new[x].status = "UNKNOWN" => records[x].status = "UNKNOWN"
      BY <1>4, <2>1, <2>9, <3>7, MarkedChanges
    <3>4. s = "FRESH" /\ new[m].status = "UNKNOWN" => new[x].status = records[x].status
      <4>1. (\A y \in roots : new[y].status = "UNKNOWN") <=> new[m].status = "UNKNOWN"
        BY <3>6
      <4>2. s = "FRESH" /\ (\A y \in roots : new[y].status = "UNKNOWN") => new[x].status = records[x].status
        BY <1>4, <2>1, <2>9, <3>7, MarkedChanges
      <4> QED
        BY <4>1, <4>2
    <3>5. new[x] \in KnownRecords
      BY <2>2, <2>3, <2>9, KnownHasBase DEF Settled, RecordsFit
    <3> QED
      BY <3>1, <3>2, <3>3, <3>4, <3>5 DEF KnownRecords
  <2>10. \/ \A x \in told : Emits(records[x].status, new[x].status, result) => WellFormed(new[x].status, result)
         \/ \A x \in told : new[x].status = records[x].status
    <3>1. CASE s # "FRESH"
      <4> SUFFICES ASSUME NEW x \in told, Emits(records[x].status, new[x].status, result)
                   PROVE  WellFormed(new[x].status, result)
        OBVIOUS
      <4>1. result # "UNCHANGED" /\ records[x].status # new[x].status
        BY <1>4, <3>1 DEF Emits
      <4>2. new[x].status \in Statuses /\ new[x].status # "FRESH"
        BY <2>7, <2>9, <3>1, <4>1
      <4> QED
        BY <4>1, <4>2 DEF WellFormed, Statuses
    <3>2. CASE s = "FRESH" /\ new[m].status = "UNKNOWN"
      BY <2>7, <2>9, <3>2
    <3>3. CASE s = "FRESH" /\ new[m].status # "UNKNOWN"
      <4> SUFFICES ASSUME NEW x \in told PROVE WellFormed(new[x].status, result)
        OBVIOUS
      <4>1. new[x].status \in Statuses /\ new[x].status # "UNKNOWN"
        <5>1. CASE x = m
          BY <1>2, <2>9, <3>3, <5>1
        <5>2. CASE x # m
          <6>1. records[x].status # new[x].status
            BY <2>6, <5>2
          <6> QED
            BY <2>7, <2>9, <3>3, <6>1
        <5> QED
          BY <5>1, <5>2
      <4> QED
        BY <1>4, <3>3, <4>1 DEF WellFormed, Statuses
    <3> QED
      BY <3>1, <3>2, <3>3
  <2>11. \A x \in told : records[x] # NoRecord /\ records'[x].status \in Statuses
    BY <1>7, <2>7, <2>9
  <2>12. \A x \in Memories : x \notin told => records'[x].status = records[x].status
    BY <1>7, <2>8
  <2>13. \A x \in told : records[x].status = "INVALID" => records'[x].status = "INVALID"
    BY <1>7, <2>7, <2>9
  <2>14. \/ \A x \in told : Emits(records[x].status, records'[x].status, result)
                              => WellFormed(records'[x].status, result)
         \/ \A x \in told : records'[x].status = records[x].status
    BY <1>7, <2>10
  <2>15. TtlMembers(records') = {} /\ \A x \in Memories : records'[x] = NoRecord <=> records[x] = NoRecord
    BY <1>7, <2>2, <2>3
  <2>16. told \in SUBSET Memories
    BY <2>7
  <2> QED
    BY <1>7, <1>9, <2>11, <2>12, <2>13, <2>14, <2>15, <2>16, JournalsFollow
<1> QED
  BY <1>8, <1>9

(* A step that neither changes a memory nor appends an event.              *)
LEMMA ReplayStandsStill ==
  ASSUME ReplayInv, UNCHANGED <<records, graph, replayed, journalled>> PROVE ReplayInv'
  BY DEF ReplayInv, TtlMembers

(* check: as long as the journal tells all, there is no expiry to notice.  *)
LEMMA CheckReplay ==
  ASSUME RefInv, ReplayInv, NEW ids \in SUBSET Memories, Check(ids)
  PROVE  ReplayInv'
<1>1. UNCHANGED <<graph, replayed, journalled>>
  BY DEF Check
<1>2. CASE journalled
  <2>1. ttlRecords = 0
    BY <1>2, FS_EmptySet DEF RefInv, ReplayInv
  <2>2. records' = records
    BY <2>1 DEF Check
  <2> QED
    BY <1>1, <2>2, ReplayStandsStill
<1>3. CASE ~journalled
  BY <1>1, <1>3 DEF ReplayInv
<1> QED
  BY <1>2, <1>3

(* Every operation keeps the replay in step with the store.                *)
LEMMA ReplayNext ==
  ASSUME RefInv, ReplayInv, Next PROVE ReplayInv'
<1>1. CASE \E m \in Memories, e \in Envelopes : Register(m, e)
  BY <1>1, RegisterReplay
<1>2. CASE \E m \in Memories, e \in Envelopes, deps \in SUBSET Memories : Derive(m, e, deps)
  BY <1>2, DeriveReplay
<1>3. CASE \E m \in Memories, e \in Envelopes, deps \in SUBSET Memories : Replace(m, e, deps)
  <2>1. PICK m \in Memories, e \in Envelopes, deps \in SUBSET Memories : Replace(m, e, deps)
    BY <1>3
  <2>2. Follows(FALSE, [replayed EXCEPT ![m].direct = "FRESH"])
    BY <2>1 DEF Replace
  <2> QED
    BY <2>2, FollowsStops
<1>4. CASE \E s \in Sources : Signal(s)
  BY <1>4, SignalReplay
<1>5. CASE \E order \in {<<m>> : m \in Memories} \cup (Memories \X Memories) : Validate(order)
  BY <1>5, ReplayStandsStill DEF Validate
<1>6. CASE \E result \in Results : ApplyResult(result)
  BY <1>6, ApplyResultReplay
<1>7. CASE \E ids \in SUBSET Memories : Check(ids)
  BY <1>7, CheckReplay
<1>8. CASE Tick
  BY <1>8, ReplayStandsStill DEF Tick
<1> QED
  BY <1>1, <1>2, <1>3, <1>4, <1>5, <1>6, <1>7, <1>8 DEF Next

(* An empty journal stands for an empty store.                             *)
LEMMA ReplayInit == Init => ReplayInv
<1> SUFFICES ASSUME Init PROVE ReplayInv
  OBVIOUS
<1>1. records = [m \in Memories |-> NoRecord] /\ graph = [m \in Memories |-> {}]
      /\ replayed = NoReplay /\ journalled = TRUE
  BY DEF Init
<1>2. \A m \in Memories : records[m] = NoRecord /\ graph[m] = {} /\ replayed[m].dependsOn = {}
  BY <1>1 DEF NoReplay, NoMemory
<1>3. TtlMembers(records) = {}
  BY <1>2 DEF TtlMembers, IsTtl, NoRecord
<1> QED
  BY <1>1, <1>2, <1>3, NoReplayIsTyped DEF ReplayInv

(* For every finite set of memories: the events that were appended give,   *)
(* memory by memory, the status it has.                                    *)
THEOREM ReplayInductive == MCSpec => []ReplayInv
<1>1. MCInit => ReplayInv
  BY ReplayInit DEF MCInit
<1>2. RefInv /\ ReplayInv /\ [MCNext]_<<part, vars, storeVars>> => ReplayInv'
  <2> SUFFICES ASSUME RefInv, ReplayInv, [MCNext]_<<part, vars, storeVars>> PROVE ReplayInv'
    OBVIOUS
  <2>1. CASE UNCHANGED vars
    BY <2>1, ReplayStandsStill DEF vars
  <2> QED
    BY <2>1, ReplayNext DEF MCNext
<1> QED
  BY <1>1, <1>2, ReferenceInductive, PTL DEF MCSpec

(* replayEvents on the journal gives the statuses of the store, as long as *)
(* nothing happened that the journal cannot tell.                          *)
THEOREM ReplayAgreesHolds == MCSpec => []ReplayAgrees
<1>1. RefInv /\ ReplayInv => ReplayAgrees
  <2> SUFFICES ASSUME RefInv, ReplayInv, journalled, NEW m \in Known
               PROVE  ReplayStatus(m) = records[m].status
    BY DEF ReplayAgrees
  <2>1. m \in Memories /\ records[m] # NoRecord /\ graph \in [Memories -> SUBSET Memories]
        /\ RecordsFit(records, graph) /\ Settled(records, graph)
    BY KnownAre DEF RefInv
  <2>2. [y \in Memories |-> replayed[y].dependsOn] = graph
    <3>1. \A y \in Memories : replayed[y].dependsOn = graph[y]
      BY DEF ReplayInv
    <3>2. [y \in Memories |-> replayed[y].dependsOn] = [y \in Memories |-> graph[y]]
      BY <3>1
    <3> QED
      BY <2>1, <3>2
  <2>3. PICK C : C = Closure(graph, {m})
    OBVIOUS
  <2>4. {m} \in SUBSET Memories
    BY <2>1
  <2>5. C \in SUBSET Memories /\ m \in C
    BY <2>1, <2>3, <2>4, ClosureIsLeast
  <2>6. \A x \in C : records[x] # NoRecord
    <3>1. \A x \in {m} : records[x] # NoRecord
      BY <2>1
    <3> QED
      BY <2>1, <2>3, <2>4, <3>1, ClosureIsKnown
  <2>7. PICK S : S = {replayed[x].direct : x \in C}
    OBVIOUS
  <2>8. S = {records[x].status : x \in C}
    <3>1. \A x \in C : replayed[x].direct = records[x].status
      BY <2>5, <2>6 DEF ReplayInv
    <3> QED
      BY <2>7, <3>1
  <2>9. ReplayStatus(m) = Worst(S)
    BY <2>2, <2>3, <2>7 DEF ReplayStatus
  <2>10. ASSUME NEW U \in Uppers PROVE Worst(S) \in U <=> records[m].status \in U
    <3>1. Worst(S) \in U <=> \E x \in C : records[x].status \in U
      <4>1. Worst(S) \in U <=> \E s \in S : s \in U
        BY WorstIs
      <4> QED
        BY <2>8, <4>1
    <3>2. ASSUME NEW x \in C, records[x].status \in U PROVE records[m].status \in U
      <4>1. x \in Closure(graph, {m})
        BY <2>3
      <4>2. x \in Memories /\ Closure(graph, {x}) \subseteq C
        BY <2>1, <2>3, <4>1, ClosureOfMember
      <4>3. PICK y \in Closure(graph, {x}) : Own(records[y]) \in U
        BY <2>1, <2>6, <3>2, <4>2, UpperIsReached
      <4>4. \E z \in Closure(graph, {m}) : Own(records[z]) \in U
        BY <2>3, <4>2, <4>3
      <4> QED
        BY <2>1, <4>4, UpperIsReached
    <3> QED
      BY <2>5, <3>1, <3>2
  <2>11. Worst(S) \in Statuses /\ records[m].status \in Statuses
    <3>1. Worst(S) \in Statuses
      BY WorstIs
    <3>2. records[m] \in KnownRecords
      BY <2>1, KnownHasBase DEF RecordsFit
    <3> QED
      BY <3>1, <3>2 DEF KnownRecords
  <2>12. Worst(S) = records[m].status
    BY <2>10, <2>11, SameLevel
  <2> QED
    BY <2>9, <2>12
<1> QED
  BY <1>1, ReferenceInductive, ReplayInductive, PTL
=============================================================================
