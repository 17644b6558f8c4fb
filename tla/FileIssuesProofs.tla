-------------------------- MODULE FileIssuesProofs --------------------------
(***************************************************************************)
(* Machine-checked proofs about FileIssues, for any files, findings and    *)
(* equivalences: merging loses no finding but what a save passes over, and *)
(* duplicates lead to originals.                                           *)
(***************************************************************************)
EXTENDS FileIssues, TLAPS, FiniteSetTheorems, WellFoundedInduction

-----------------------------------------------------------------------------
(* The order of references                                                 *)

RefSpace == (Nat \X Nat) \X Nat

LEMMA EarlierOrders ==
    /\ \A r \in RefSpace : ~Earlier(r, r)
    /\ \A r, q, s \in RefSpace : Earlier(r, q) /\ Earlier(q, s) => Earlier(r, s)
    /\ \A r, q \in RefSpace : r # q => Earlier(r, q) \/ Earlier(q, r)
  <1>1. \A r \in RefSpace : /\ r[1][1] \in Nat /\ r[1][2] \in Nat /\ r[2] \in Nat
                            /\ r = <<<<r[1][1], r[1][2]>>, r[2]>>
    BY DEF RefSpace
  <1>2. \A r \in RefSpace : ~Earlier(r, r)
    BY <1>1 DEF Earlier
  <1>3. ASSUME NEW r \in RefSpace, NEW q \in RefSpace, NEW s \in RefSpace,
               Earlier(r, q), Earlier(q, s)
        PROVE  Earlier(r, s)
    BY <1>1, <1>3 DEF Earlier
  <1>4. ASSUME NEW r \in RefSpace, NEW q \in RefSpace, r # q
        PROVE  Earlier(r, q) \/ Earlier(q, r)
    <2>1. r[1][1] # q[1][1] \/ r[1][2] # q[1][2] \/ r[2] # q[2]
      BY <1>1, <1>4
    <2>2. QED
      BY <1>1, <2>1 DEF Earlier
  <1>5. QED
    BY <1>2, <1>3, <1>4

\* A finite set of references that is not empty has a first and a last one.
LEMMA FirstExists ==
    ASSUME NEW S, S \subseteq RefSpace, IsFiniteSet(S), S # {}
    PROVE  FirstOf(S) \in S /\ \A q \in S \ {FirstOf(S)} : Earlier(FirstOf(S), q)
  <1> DEFINE Before(x) == {q \in S : Earlier(q, x)}
             D == {Before(x) : x \in S}
             R == StrictSubsetOrdering(S)
  <1>1. D \subseteq FiniteSubsetsOf(S) /\ D # {}
    <2>1. ASSUME NEW x \in S PROVE Before(x) \in SUBSET S /\ IsFiniteSet(Before(x))
      <3>1. Before(x) \in SUBSET S
        OBVIOUS
      <3> HIDE DEF Before
      <3>2. QED
        BY <3>1, FS_Subset
    <2> HIDE DEF Before
    <2>2. QED
      BY <2>1 DEF FiniteSubsetsOf
  <1>2. IsWellFoundedOn(R, FiniteSubsetsOf(S))
    BY FS_StrictSubsetOrderingWellFounded
  <1>3. PICK d \in D : \A e \in D : ~ (<<e, d>> \in R)
    <2> HIDE DEF D, R
    <2>1. QED
      BY <1>1, <1>2, WFMin
  <1>4. PICK x \in S : d = Before(x)
    OBVIOUS
  <1>5. ASSUME NEW y \in S, Earlier(y, x)
        PROVE  FALSE
    <2>1. Before(y) \subseteq Before(x) /\ y \in Before(x) /\ y \notin Before(y)
      BY <1>5, EarlierOrders
    <2>2. <<Before(y), Before(x)>> \in R
      BY <1>1, <2>1 DEF StrictSubsetOrdering
    <2>3. QED
      BY <1>3, <1>4, <2>2
  <1>6. \A y \in S \ {x} : Earlier(x, y)
    BY <1>5, EarlierOrders
  <1>7. QED
    BY <1>6 DEF FirstOf

LEMMA LastExists ==
    ASSUME NEW S, S \subseteq RefSpace, IsFiniteSet(S), S # {}
    PROVE  LastOf(S) \in S /\ \A q \in S \ {LastOf(S)} : Earlier(q, LastOf(S))
  <1> DEFINE After(x) == {q \in S : Earlier(x, q)}
             D == {After(x) : x \in S}
             R == StrictSubsetOrdering(S)
  <1>1. D \subseteq FiniteSubsetsOf(S) /\ D # {}
    <2>1. ASSUME NEW x \in S PROVE After(x) \in SUBSET S /\ IsFiniteSet(After(x))
      <3>1. After(x) \in SUBSET S
        OBVIOUS
      <3> HIDE DEF After
      <3>2. QED
        BY <3>1, FS_Subset
    <2> HIDE DEF After
    <2>2. QED
      BY <2>1 DEF FiniteSubsetsOf
  <1>2. IsWellFoundedOn(R, FiniteSubsetsOf(S))
    BY FS_StrictSubsetOrderingWellFounded
  <1>3. PICK d \in D : \A e \in D : ~ (<<e, d>> \in R)
    <2> HIDE DEF D, R
    <2>1. QED
      BY <1>1, <1>2, WFMin
  <1>4. PICK x \in S : d = After(x)
    OBVIOUS
  <1>5. ASSUME NEW y \in S, Earlier(x, y)
        PROVE  FALSE
    <2>1. After(y) \subseteq After(x) /\ y \in After(x) /\ y \notin After(y)
      BY <1>5, EarlierOrders
    <2>2. <<After(y), After(x)>> \in R
      BY <1>1, <2>1 DEF StrictSubsetOrdering
    <2>3. QED
      BY <1>3, <1>4, <2>2
  <1>6. \A y \in S \ {x} : Earlier(y, x)
    BY <1>5, EarlierOrders
  <1>7. QED
    BY <1>6 DEF LastOf

\* The place of a reference is one more than the number of those before it: a finite
\* set of references can be put in order, and the list has all of them.
LEMMA OrderExists ==
    ASSUME NEW S, S \subseteq RefSpace, IsFiniteSet(S)
    PROVE  \E list \in [1 .. Cardinality(S) -> S] :
              \A i, j \in DOMAIN list : i < j => Earlier(list[i], list[j])
  <1> DEFINE n == Cardinality(S)
             Before(t) == {u \in S : Earlier(u, t)}
             rank == [t \in S |-> Cardinality(Before(t)) + 1]
             list == [i \in 1 .. n |-> CHOOSE t \in S : rank[t] = i]
  <1>1. n \in Nat
    BY FS_CardinalityType
  <1>2. ASSUME NEW t \in S
        PROVE  /\ IsFiniteSet(Before(t)) /\ Cardinality(Before(t)) \in Nat
               /\ Cardinality(Before(t)) < n
    <2>1. IsFiniteSet(Before(t)) /\ Cardinality(Before(t)) <= n
          /\ (n = Cardinality(Before(t)) => S = Before(t))
      <3>1. Before(t) \in SUBSET S
        OBVIOUS
      <3> HIDE DEF Before
      <3>2. QED
        BY <3>1, FS_Subset
    <2>2. t \notin Before(t)
      BY EarlierOrders
    <2> HIDE DEF Before
    <2>3. Cardinality(Before(t)) \in Nat
      BY <2>1, FS_CardinalityType
    <2>4. QED
      BY <1>1, <2>1, <2>2, <2>3
  <1>3. ASSUME NEW t \in S, NEW u \in S, Earlier(t, u)
        PROVE  Cardinality(Before(t)) < Cardinality(Before(u))
    <2>1. Before(t) \in SUBSET Before(u)
      BY <1>3, EarlierOrders
    <2>2. t \in Before(u) /\ t \notin Before(t)
      BY <1>3, EarlierOrders
    <2> HIDE DEF Before
    <2>3. /\ Cardinality(Before(t)) <= Cardinality(Before(u))
          /\ (Cardinality(Before(u)) = Cardinality(Before(t)) => Before(u) = Before(t))
      BY <1>2, <2>1, FS_Subset
    <2>4. QED
      BY <1>2, <2>2, <2>3
  <1> HIDE DEF Before
  <1>4. \A t, u \in S : rank[t] < rank[u] => Earlier(t, u)
    BY <1>2, <1>3, EarlierOrders
  <1>5. rank \in Injection(S, 1 .. n)
    <2>1. rank \in [S -> 1 .. n]
      BY <1>1, <1>2
    <2>2. \A t, u \in S : rank[t] = rank[u] => t = u
      BY <1>2, <1>3, EarlierOrders
    <2> HIDE DEF rank, n
    <2>3. QED
      BY <2>1, <2>2 DEF Injection, IsInjective
  <1> HIDE DEF rank
  <1>6. rank \in Surjection(S, 1 .. n)
    <2>1. IsFiniteSet(1 .. n) /\ Cardinality(1 .. n) = n
      BY <1>1, FS_Interval
    <2>2. Cardinality(S) = Cardinality(1 .. n)
      BY <2>1
    <2> HIDE DEF n
    <2>3. QED
      BY <1>5, <2>1, <2>2, FS_Injection
  <1>7. \A i \in 1 .. n : list[i] \in S /\ rank[list[i]] = i
    <2>1. \A i \in 1 .. n : \E t \in S : rank[t] = i
      BY <1>6 DEF Surjection
    <2>2. QED
      BY <2>1
  <1>8. list \in [1 .. n -> S] /\ DOMAIN list = 1 .. n
    BY <1>7
  <1>9. \A i, j \in DOMAIN list : i < j => Earlier(list[i], list[j])
    <2> HIDE DEF list, n
    <2>1. QED
      BY <1>4, <1>7, <1>8
  <1> HIDE DEF list
  <1>10. QED
    BY <1>8, <1>9

LEMMA InOrderHasAll ==
    ASSUME NEW S, S \subseteq RefSpace, IsFiniteSet(S)
    PROVE  /\ InOrder(S) \in [1 .. Cardinality(S) -> S]
           /\ \A t \in S : \E i \in 1 .. Cardinality(S) : InOrder(S)[i] = t
  <1> DEFINE n == Cardinality(S)
             list == InOrder(S)
  <1>1. /\ list \in [1 .. n -> S]
        /\ \A i, j \in DOMAIN list : i < j => Earlier(list[i], list[j])
    BY OrderExists DEF InOrder
  <1>2. n \in Nat
    BY FS_CardinalityType
  <1>3. IsFiniteSet(1 .. n) /\ Cardinality(1 .. n) = n
    BY <1>2, FS_Interval
  <1> HIDE DEF list
  <1>4. list \in Injection(1 .. n, S)
    <2>1. ASSUME NEW i \in 1 .. n, NEW j \in 1 .. n, list[i] = list[j] PROVE i = j
      <3>1. ~Earlier(list[i], list[j]) /\ ~Earlier(list[j], list[i])
        BY <1>1, <2>1, EarlierOrders
      <3>2. DOMAIN list = 1 .. n
        BY <1>1
      <3> HIDE DEF n
      <3>3. QED
        BY <1>1, <1>2, <3>1, <3>2
    <2> HIDE DEF n
    <2>2. QED
      BY <1>1, <2>1 DEF Injection, IsInjective
  <1>5. list \in Surjection(1 .. n, S)
    <2>1. Cardinality(1 .. n) = Cardinality(S)
      BY <1>3
    <2> HIDE DEF n
    <2>2. QED
      BY <1>4, <2>1, FS_Injection
  <1>6. \A t \in S : \E i \in 1 .. n : list[i] = t
    BY <1>5 DEF Surjection
  <1>7. QED
    BY <1>1, <1>6 DEF list

\* The issues of one block are in the order of their indices.
LEMMA InOrderOfBlock ==
    ASSUME NEW p \in Nat \X Nat, NEW n \in Nat, NEW S, S = {p} \X (1 .. n)
    PROVE  Cardinality(S) = n /\ \A k \in 1 .. n : InOrder(S)[k] = <<p, k>>
  <1>1. S \subseteq RefSpace
    BY DEF RefSpace
  <1>2. IsFiniteSet(S) /\ Cardinality(S) = n
    <2>1. IsFiniteSet(1 .. n) /\ Cardinality(1 .. n) = n
      <3>1. 1 \in Int /\ n \in Int /\ (IF 1 > n THEN 0 ELSE n - 1 + 1) = n
        OBVIOUS
      <3>2. IsFiniteSet(1 .. n) /\ Cardinality(1 .. n) = IF 1 > n THEN 0 ELSE n - 1 + 1
        BY <3>1, FS_Interval
      <3>3. QED
        BY <3>1, <3>2
    <2>2. IsFiniteSet({p})
      BY FS_Singleton
    <2>3. IsFiniteSet(S)
      BY <2>1, <2>2, FS_Product
    <2> DEFINE ref == [k \in 1 .. n |-> <<p, k>>]
    <2>4. ref \in Bijection(1 .. n, S)
      <3>1. ref \in [1 .. n -> S]
        OBVIOUS
      <3>2. \A i, j \in 1 .. n : ref[i] = ref[j] => i = j
        OBVIOUS
      <3>3. \A r \in S : \E k \in 1 .. n : ref[k] = r
        OBVIOUS
      <3> HIDE DEF ref
      <3>4. QED
        BY <3>1, <3>2, <3>3 DEF Bijection, Injection, Surjection, IsInjective
    <2> HIDE DEF ref
    <2>5. QED
      BY <2>1, <2>4, FS_Bijection DEF ExistsBijection
  <1>3. PICK list : list = InOrder(S)
    OBVIOUS
  <1>4. /\ list \in [1 .. n -> S]
        /\ \A i, j \in 1 .. n : i < j => Earlier(list[i], list[j])
    <2>1. /\ list \in [1 .. Cardinality(S) -> S]
          /\ \A i, j \in DOMAIN list : i < j => Earlier(list[i], list[j])
      BY <1>1, <1>2, <1>3, OrderExists DEF InOrder
    <2>2. QED
      BY <1>2, <2>1
  <1> DEFINE at(k) == list[k][2]
  <1>5. \A k \in 1 .. n : at(k) \in 1 .. n /\ list[k] = <<p, at(k)>>
    BY <1>4
  <1>6. \A i, j \in 1 .. n : i < j => at(i) < at(j)
    <2>1. ASSUME NEW i \in 1 .. n, NEW j \in 1 .. n, i < j
          PROVE  at(i) < at(j)
      <3>1. Earlier(list[i], list[j])
        BY <1>4, <2>1
      <3>2. list[i][1] = p /\ list[j][1] = p
        BY <1>5
      <3>3. PICK a, b : a = at(i) /\ b = at(j)
        OBVIOUS
      <3>4. p[1] \in Nat /\ p[2] \in Nat
        OBVIOUS
      <3>5. a < b
        BY <3>1, <3>2, <3>3, <3>4 DEF Earlier
      <3>6. QED
        BY <3>3, <3>5
    <2>2. QED
      BY <2>1
  <1> HIDE DEF at
  <1>7. \A k \in 1 .. n : at(k) >= k
    <2> DEFINE low == {r \in S : at(r[2]) < r[2]}
    <2>1. ASSUME low # {}
          PROVE  FALSE
      <3>1. low \subseteq RefSpace /\ IsFiniteSet(low)
        BY <1>1, <1>2, FS_Subset
      <3>2. PICK r \in low : \A q \in low \ {r} : Earlier(r, q)
        <4> HIDE DEF low
        <4>1. QED
          BY <2>1, <3>1, FirstExists
      <3>3. PICK k \in 1 .. n : r = <<p, k>> /\ at(k) < k
        BY <3>2
      <3>4. at(k) \in 1 .. n
        BY <1>5
      <3>5. k - 1 \in 1 .. n /\ at(k - 1) < at(k)
        BY <1>6, <3>3, <3>4
      <3>6. PICK q : q = <<p, k - 1>>
        OBVIOUS
      <3>7. at(k - 1) \in 1 .. n
        BY <1>5, <3>5
      <3>8. at(k - 1) < k - 1
        BY <3>3, <3>4, <3>5, <3>7
      <3>9. q \in low /\ q # r
        BY <3>3, <3>5, <3>6, <3>8
      <3>10. Earlier(r, q)
        BY <3>2, <3>9
      <3>11. r[1] = p /\ q[1] = p /\ r[2] = k /\ q[2] = k - 1 /\ p[1] \in Nat /\ p[2] \in Nat
        BY <3>3, <3>6
      <3>12. k < k - 1
        BY <3>10, <3>11 DEF Earlier
      <3>13. QED
        BY <3>12
    <2>2. ASSUME NEW k \in 1 .. n
          PROVE  at(k) >= k
      <3>1. <<p, k>> \in S /\ <<p, k>> \notin low
        BY <2>1
      <3>2. ~(at(k) < k) /\ at(k) \in 1 .. n
        BY <1>5, <3>1
      <3>3. QED
        BY <3>2
    <2>3. QED
      BY <2>2
  <1>8. \A k \in 1 .. n : at(k) <= k
    <2> DEFINE high == {r \in S : at(r[2]) > r[2]}
    <2>1. ASSUME high # {}
          PROVE  FALSE
      <3>1. high \subseteq RefSpace /\ IsFiniteSet(high)
        BY <1>1, <1>2, FS_Subset
      <3>2. PICK r \in high : \A q \in high \ {r} : Earlier(q, r)
        <4> HIDE DEF high
        <4>1. QED
          BY <2>1, <3>1, LastExists
      <3>3. PICK k \in 1 .. n : r = <<p, k>> /\ at(k) > k
        BY <3>2
      <3>4. at(k) \in 1 .. n
        BY <1>5
      <3>5. k + 1 \in 1 .. n /\ at(k) < at(k + 1)
        BY <1>6, <3>3, <3>4
      <3>6. PICK q : q = <<p, k + 1>>
        OBVIOUS
      <3>7. at(k + 1) \in 1 .. n
        BY <1>5, <3>5
      <3>8. at(k + 1) > k + 1
        BY <3>3, <3>4, <3>5, <3>7
      <3>9. q \in high /\ q # r
        BY <3>3, <3>5, <3>6, <3>8
      <3>10. Earlier(q, r)
        BY <3>2, <3>9
      <3>11. r[1] = p /\ q[1] = p /\ r[2] = k /\ q[2] = k + 1 /\ p[1] \in Nat /\ p[2] \in Nat
        BY <3>3, <3>6
      <3>12. k + 1 < k
        BY <3>10, <3>11 DEF Earlier
      <3>13. QED
        BY <3>12
    <2>2. ASSUME NEW k \in 1 .. n
          PROVE  at(k) <= k
      <3>1. <<p, k>> \in S /\ <<p, k>> \notin high
        BY <2>1
      <3>2. ~(at(k) > k) /\ at(k) \in 1 .. n
        BY <1>5, <3>1
      <3>3. QED
        BY <3>2
    <2>3. QED
      BY <2>2
  <1>9. ASSUME NEW k \in 1 .. n
        PROVE  list[k] = <<p, k>>
    <2>1. at(k) >= k /\ at(k) <= k /\ at(k) \in 1 .. n
      BY <1>5, <1>7, <1>8
    <2>2. at(k) = k
      BY <2>1
    <2>3. QED
      BY <1>5, <2>2
  <1>10. QED
    BY <1>2, <1>3, <1>9

-----------------------------------------------------------------------------
(* Merging is defined                                                      *)

NoEntries == [n \in {} |-> n]

\* g merges every part of S, as Merged says.
Merging(g, S) ==
    g = [refs \in SUBSET S |->
            IF refs = {} THEN NoEntries
            ELSE Merge(g[refs \ {LastOf(refs)}], LastOf(refs))]

\* Two such functions agree where both are defined: in a smallest set on which they
\* did not, there would be a last reference, and they agree on the rest.
LEMMA MergingIsUnique ==
    ASSUME NEW S, S \subseteq RefSpace, IsFiniteSet(S), NEW T, T \subseteq S,
           NEW g, Merging(g, S), NEW h, Merging(h, T)
    PROVE  \A u \in SUBSET T : g[u] = h[u]
  <1> DEFINE W == {u \in SUBSET T : g[u] # h[u]}
             R == StrictSubsetOrdering(S)
  <1>1. \A u \in SUBSET T :
            /\ g[u] = IF u = {} THEN NoEntries ELSE Merge(g[u \ {LastOf(u)}], LastOf(u))
            /\ h[u] = IF u = {} THEN NoEntries ELSE Merge(h[u \ {LastOf(u)}], LastOf(u))
    BY DEF Merging
  <1>2. ASSUME W # {}
        PROVE  FALSE
    <2>1. W \subseteq FiniteSubsetsOf(S)
      BY FS_Subset DEF FiniteSubsetsOf
    <2>2. IsWellFoundedOn(R, FiniteSubsetsOf(S))
      BY FS_StrictSubsetOrderingWellFounded
    <2>3. PICK u \in W : \A v \in W : ~ (<<v, u>> \in R)
      <3> HIDE DEF W, R
      <3>1. QED
        BY <1>2, <2>1, <2>2, WFMin
    <2>4. u # {}
      BY <1>1
    <2>5. LastOf(u) \in u
      BY <2>4, FS_Subset, LastExists
    <2>6. u \ {LastOf(u)} \notin W
      <3>1. ASSUME u \ {LastOf(u)} \in W
            PROVE  <<u \ {LastOf(u)}, u>> \in R
        BY <2>1, <2>5, <3>1 DEF StrictSubsetOrdering
      <3>2. QED
        BY <2>3, <3>1
    <2>7. g[u \ {LastOf(u)}] = h[u \ {LastOf(u)}]
      BY <2>6
    <2>8. g[u] = h[u]
      BY <1>1, <2>4, <2>7
    <2>9. QED
      BY <2>8
  <1>3. QED
    BY <1>2

\* They are put together from those for smaller sets.
LEMMA MergingExists ==
    ASSUME NEW S, S \subseteq RefSpace, IsFiniteSet(S)
    PROVE  \E g : Merging(g, S)
  <1> DEFINE T == {t \in SUBSET S : ~\E g : Merging(g, t)}
             R == StrictSubsetOrdering(S)
  <1>1. ASSUME T # {}
        PROVE  FALSE
    <2>1. T \subseteq FiniteSubsetsOf(S)
      BY FS_Subset DEF FiniteSubsetsOf
    <2>2. IsWellFoundedOn(R, FiniteSubsetsOf(S))
      BY FS_StrictSubsetOrderingWellFounded
    <2>3. PICK t \in T : \A v \in T : ~ (<<v, t>> \in R)
      <3> HIDE DEF T, R
      <3>1. QED
        BY <1>1, <2>1, <2>2, WFMin
    <2>4. t \in SUBSET S /\ IsFiniteSet(t) /\ ~\E g : Merging(g, t)
      BY FS_Subset
    <2>5. ASSUME NEW u \in SUBSET t, u # t
          PROVE  \E g : Merging(g, u)
      <3>1. ASSUME u \in T
            PROVE  <<u, t>> \in R
        BY <2>1, <2>5, <3>1 DEF StrictSubsetOrdering
      <3>2. u \notin T
        BY <2>3, <3>1
      <3>3. QED
        BY <2>4, <3>2
    <2> HIDE DEF T, R
    <2> DEFINE G(u) == CHOOSE g : Merging(g, u)
               h == [s \in SUBSET t |->
                       IF s = {} THEN NoEntries
                       ELSE Merge(G(s \ {LastOf(s)})[s \ {LastOf(s)}], LastOf(s))]
    <2>6. ASSUME NEW u \in SUBSET t, u # t
          PROVE  Merging(G(u), u)
      BY <2>5, <2>6
    <2> HIDE DEF G
    <2>7. ASSUME NEW s \in SUBSET t, s # {}
          PROVE  LastOf(s) \in s /\ s \ {LastOf(s)} \in SUBSET t /\ s \ {LastOf(s)} # t
      <3>1. LastOf(s) \in s
        BY <2>4, <2>7, FS_Subset, LastExists
      <3>2. QED
        BY <3>1
    <2>8. ASSUME NEW u \in SUBSET t, u # t
          PROVE  h[u] = G(u)[u]
      <3>1. G(u)[u] = IF u = {} THEN NoEntries
                      ELSE Merge(G(u)[u \ {LastOf(u)}], LastOf(u))
        BY <2>6, <2>8 DEF Merging
      <3>2. CASE u = {}
        BY <3>1, <3>2
      <3>3. CASE u # {}
        <4> DEFINE v == u \ {LastOf(u)}
        <4>1. v \in SUBSET u /\ v \in SUBSET t /\ v # t
          BY <2>7, <3>3
        <4>2. Merging(G(u), u) /\ Merging(G(v), v)
          BY <2>6, <2>8, <4>1
        <4>3. u \subseteq RefSpace /\ IsFiniteSet(u)
          BY <2>4, FS_Subset
        <4> HIDE DEF v
        <4>4. G(u)[v] = G(v)[v]
          BY <4>1, <4>2, <4>3, MergingIsUnique
        <4>5. QED
          BY <3>1, <3>3, <4>4 DEF v
      <3>4. QED
        BY <3>2, <3>3
    <2>9. Merging(h, t)
      <3>1. ASSUME NEW s \in SUBSET t, s # {}
            PROVE  h[s] = Merge(h[s \ {LastOf(s)}], LastOf(s))
        BY <2>7, <2>8, <3>1
      <3>2. h[{}] = NoEntries
        OBVIOUS
      <3>3. h = [s \in SUBSET t |-> h[s]]
        OBVIOUS
      <3> HIDE DEF h
      <3>4. QED
        BY <3>1, <3>2, <3>3 DEF Merging
    <2>10. QED
      BY <2>4, <2>9
  <1>2. S \notin T
    BY <1>1
  <1>3. QED
    BY <1>2

LEMMA MergedByStep ==
    ASSUME NEW f, NEW S, S = {r \in Refs(held) : r[1][1] = f}, S \subseteq RefSpace, IsFiniteSet(S)
    PROVE  \E g : Merging(g, S) /\ Merged(f) = g[S]
  <1>1. \E g : Merging(g, S)
    BY MergingExists
  <1>2. Merged(f) = (CHOOSE g : Merging(g, S))[S]
    BY DEF Merged, Merging, NoEntries
  <1>3. QED
    BY <1>1, <1>2

-----------------------------------------------------------------------------
(* Merging loses nothing                                                   *)

\* What the entries are worth when the issues refs have been merged.  An entry holds its
\* own issue, or a reportable one that took the place of its own, which is filtered.  A
\* reportable issue that has no entry of its own belongs to an earlier one.
EntriesFit(kept, refs) ==
    /\ kept \in [DOMAIN kept -> refs]
    /\ DOMAIN kept \subseteq refs
    /\ \A n \in DOMAIN kept :
          kept[n] # n => /\ ~At(held, n).reportable /\ At(held, kept[n]).reportable
                         /\ Related(At(held, n).what, At(held, kept[n]).what)
    /\ \A r \in refs \ DOMAIN kept : At(held, r).reportable =>
          \E n \in DOMAIN kept :
             /\ At(held, kept[n]).reportable /\ Earlier(n, r)
             /\ Linked(At(held, r).what, At(held, n).what)
             /\ Linked(At(held, r).what, At(held, kept[n]).what)

LEMMA RelatedIsSymmetric ==
    ASSUME FindingsAssumption, NEW f, NEW g, Related(f, g)
    PROVE  Related(g, f)
  <1>1. CASE Key[f] = Key[g]
    BY <1>1 DEF Related
  <1>2. CASE <<f, g>> \in Alike
    BY <1>2 DEF Related, FindingsAssumption
  <1>3. QED
    BY <1>1, <1>2 DEF Related

LEMMA EntryIsRelated ==
    ASSUME NEW kept, NEW r, NEW n \in EntryOf(kept, r)
    PROVE  /\ n \in DOMAIN kept
           /\ \/ Key[At(held, n).what] = Key[At(held, r).what]
              \/ <<At(held, kept[n]).what, At(held, r).what>> \in Alike
  BY DEF EntryOf

\* An issue is linked to the entry it belongs to, and to what this one holds.
LEMMA EntryIsLinked ==
    ASSUME FindingsAssumption, NEW kept, NEW refs, EntriesFit(kept, refs), NEW r,
           NEW n \in EntryOf(kept, r), \A q \in refs : At(held, q).what \in Findings
    PROVE  /\ Linked(At(held, r).what, At(held, n).what)
           /\ Linked(At(held, r).what, At(held, kept[n]).what)
           /\ kept[n] = n => Related(At(held, n).what, At(held, r).what)
  <1>1. /\ n \in DOMAIN kept
        /\ \/ Key[At(held, n).what] = Key[At(held, r).what]
           \/ <<At(held, kept[n]).what, At(held, r).what>> \in Alike
    BY EntryIsRelated
  <1>2. PICK f, g, h : f = At(held, r).what /\ g = At(held, n).what /\ h = At(held, kept[n]).what
    OBVIOUS
  <1>3. /\ n \in refs /\ kept[n] \in refs
        /\ kept[n] = n \/ Related(g, h)
    BY <1>1, <1>2 DEF EntriesFit
  <1>4. g \in Findings /\ h \in Findings
    BY <1>2, <1>3
  <1>5. g = h \/ (Related(g, h) /\ Related(h, g))
    <2>1. CASE kept[n] = n
      BY <1>2, <2>1
    <2>2. CASE Related(g, h)
      BY <2>2, RelatedIsSymmetric
    <2>3. QED
      BY <1>3, <2>1, <2>2
  <1>6. CASE Key[g] = Key[f]
    <2>1. Related(f, g) /\ Related(g, f)
      BY <1>6 DEF Related
    <2>2. Linked(f, g) /\ Linked(f, h)
      BY <1>4, <1>5, <2>1 DEF Linked
    <2>3. QED
      BY <1>2, <2>1, <2>2
  <1>7. CASE <<h, f>> \in Alike
    <2>1. Related(h, f) /\ Related(f, h)
      BY <1>7, RelatedIsSymmetric DEF Related
    <2>2. Linked(f, g) /\ Linked(f, h)
      BY <1>4, <1>5, <2>1 DEF Linked
    <2>3. kept[n] = n => g = h
      BY <1>2
    <2>4. QED
      BY <1>2, <2>1, <2>2, <2>3
  <1>8. QED
    BY <1>1, <1>2, <1>6, <1>7

LEMMA MergeKeepsEntriesFit ==
    ASSUME FindingsAssumption, NEW kept, NEW refs, EntriesFit(kept, refs), NEW r, r \notin refs,
           refs \subseteq RefSpace, IsFiniteSet(refs), \A q \in refs : Earlier(q, r),
           \A q \in refs \cup {r} : At(held, q).what \in Findings
    PROVE  EntriesFit(Merge(kept, r), refs \cup {r})
  <1> DEFINE merged == Merge(kept, r)
             entries == EntryOf(kept, r)
             n == FirstOf(entries)
  <1>1. CASE entries = {}
    <2>1. merged = [m \in DOMAIN kept \cup {r} |-> IF m = r THEN r ELSE kept[m]]
      BY <1>1 DEF Merge, NewEntry
    <2>2. /\ DOMAIN merged = DOMAIN kept \cup {r}
          /\ merged[r] = r
          /\ \A m \in DOMAIN kept : merged[m] = kept[m]
      BY <2>1 DEF EntriesFit
    <2>3. merged \in [DOMAIN merged -> refs \cup {r}] /\ DOMAIN merged \subseteq refs \cup {r}
      BY <2>1 DEF EntriesFit
    <2> HIDE DEF merged
    <2>4. ASSUME NEW m \in DOMAIN merged, merged[m] # m
          PROVE  /\ ~At(held, m).reportable /\ At(held, merged[m]).reportable
                 /\ Related(At(held, m).what, At(held, merged[m]).what)
      BY <2>2, <2>4 DEF EntriesFit
    <2>5. ASSUME NEW q \in (refs \cup {r}) \ DOMAIN merged, At(held, q).reportable
          PROVE  \E m \in DOMAIN merged :
                    /\ At(held, merged[m]).reportable /\ Earlier(m, q)
                    /\ Linked(At(held, q).what, At(held, m).what)
                    /\ Linked(At(held, q).what, At(held, merged[m]).what)
      <3>1. q \in refs \ DOMAIN kept
        BY <2>2
      <3>2. QED
        BY <2>2, <2>5, <3>1 DEF EntriesFit
    <2>6. QED
      BY <2>3, <2>4, <2>5 DEF EntriesFit, merged
  <1>2. CASE entries # {}
    <2>1. n \in entries
      <3>1. entries \in SUBSET refs
        BY EntryIsRelated DEF EntriesFit
      <3>2. entries \subseteq RefSpace /\ IsFiniteSet(entries)
        BY <3>1, FS_Subset
      <3> HIDE DEF entries
      <3>3. QED
        BY <1>2, <3>2, FirstExists
    <2>2. /\ n \in DOMAIN kept /\ n \in refs
          /\ Linked(At(held, r).what, At(held, n).what)
          /\ Linked(At(held, r).what, At(held, kept[n]).what)
          /\ kept[n] = n => Related(At(held, n).what, At(held, r).what)
      <3>1. n \in DOMAIN kept
        BY <2>1, EntryIsRelated
      <3>2. n \in refs
        BY <3>1 DEF EntriesFit
      <3>3. \A q \in refs : At(held, q).what \in Findings
        OBVIOUS
      <3> HIDE DEF n
      <3>4. QED
        BY <2>1, <3>1, <3>2, <3>3, EntryIsLinked
    <2>3. kept[n] # n => /\ ~At(held, n).reportable /\ At(held, kept[n]).reportable
                         /\ Related(At(held, n).what, At(held, kept[n]).what)
      BY <2>2 DEF EntriesFit
    <2>4. merged = IF ~At(held, kept[n]).reportable /\ At(held, r).reportable
                   THEN [kept EXCEPT ![n] = r] ELSE kept
      BY <1>2 DEF Merge
    <2> HIDE DEF merged, entries, n
    <2>5. CASE ~At(held, kept[n]).reportable /\ At(held, r).reportable
      <3>1. /\ DOMAIN merged = DOMAIN kept /\ merged[n] = r
            /\ \A m \in DOMAIN kept \ {n} : merged[m] = kept[m]
            /\ merged \in [DOMAIN merged -> refs \cup {r}]
            /\ DOMAIN merged \subseteq refs \cup {r}
        BY <2>2, <2>4, <2>5 DEF EntriesFit
      <3>2. kept[n] = n /\ Related(At(held, n).what, At(held, r).what)
        BY <2>2, <2>3, <2>5
      <3>3. ASSUME NEW m \in DOMAIN merged, merged[m] # m
            PROVE  /\ ~At(held, m).reportable /\ At(held, merged[m]).reportable
                   /\ Related(At(held, m).what, At(held, merged[m]).what)
        <4>1. CASE m = n
          BY <2>5, <3>1, <3>2, <4>1
        <4>2. CASE m # n
          BY <3>1, <3>3, <4>2 DEF EntriesFit
        <4>3. QED
          BY <4>1, <4>2
      <3>4. ASSUME NEW q \in (refs \cup {r}) \ DOMAIN merged, At(held, q).reportable
            PROVE  \E m \in DOMAIN merged :
                      /\ At(held, merged[m]).reportable /\ Earlier(m, q)
                      /\ Linked(At(held, q).what, At(held, m).what)
                      /\ Linked(At(held, q).what, At(held, merged[m]).what)
        <4>1. CASE q = r
          <5>1. Earlier(n, r) /\ Linked(At(held, r).what, At(held, r).what)
            BY <2>2 DEF Linked
          <5>2. QED
            BY <2>2, <2>5, <3>1, <4>1, <5>1
        <4>2. CASE q # r
          <5>1. PICK m \in DOMAIN kept :
                   /\ At(held, kept[m]).reportable /\ Earlier(m, q)
                   /\ Linked(At(held, q).what, At(held, m).what)
                   /\ Linked(At(held, q).what, At(held, kept[m]).what)
            BY <3>1, <3>4, <4>2 DEF EntriesFit
          <5>2. m # n
            BY <2>5, <5>1
          <5>3. QED
            BY <3>1, <5>1, <5>2
        <4>3. QED
          BY <4>1, <4>2
      <3>5. QED
        BY <3>1, <3>3, <3>4 DEF EntriesFit, merged
    <2>6. CASE ~(~At(held, kept[n]).reportable /\ At(held, r).reportable)
      <3>1. merged = kept
        BY <2>4, <2>6
      <3>2. /\ kept \in [DOMAIN kept -> refs \cup {r}] /\ DOMAIN kept \subseteq refs \cup {r}
            /\ \A m \in DOMAIN kept :
                  kept[m] # m => /\ ~At(held, m).reportable /\ At(held, kept[m]).reportable
                                 /\ Related(At(held, m).what, At(held, kept[m]).what)
        BY DEF EntriesFit
      <3>3. ASSUME NEW q \in (refs \cup {r}) \ DOMAIN kept, At(held, q).reportable
            PROVE  \E m \in DOMAIN kept :
                      /\ At(held, kept[m]).reportable /\ Earlier(m, q)
                      /\ Linked(At(held, q).what, At(held, m).what)
                      /\ Linked(At(held, q).what, At(held, kept[m]).what)
        <4>1. CASE q = r
          <5>1. At(held, kept[n]).reportable /\ Earlier(n, r)
            BY <2>2, <2>6, <3>3, <4>1
          <5>2. QED
            BY <2>2, <4>1, <5>1
        <4>2. CASE q # r
          BY <3>3, <4>2 DEF EntriesFit
        <4>3. QED
          BY <4>1, <4>2
      <3>4. QED
        BY <3>1, <3>2, <3>3 DEF EntriesFit, merged
    <2>7. QED
      BY <2>5, <2>6
  <1>3. QED
    BY <1>1, <1>2

\* In a smallest set of issues whose entries did not fit there would be a last one, and
\* the entries of the others fit.
LEMMA MergedFits ==
    ASSUME FindingsAssumption, NEW f, NEW S, S = {r \in Refs(held) : r[1][1] = f},
           S \subseteq RefSpace, IsFiniteSet(S), \A r \in S : At(held, r).what \in Findings
    PROVE  EntriesFit(Merged(f), S)
  <1>1. PICK g : Merging(g, S) /\ Merged(f) = g[S]
    BY MergedByStep
  <1> DEFINE T == {t \in SUBSET S : ~EntriesFit(g[t], t)}
             R == StrictSubsetOrdering(S)
  <1>2. ASSUME T # {}
        PROVE  FALSE
    <2>1. T \subseteq FiniteSubsetsOf(S)
      BY FS_Subset DEF FiniteSubsetsOf
    <2>2. IsWellFoundedOn(R, FiniteSubsetsOf(S))
      BY FS_StrictSubsetOrderingWellFounded
    <2>3. PICK t \in T : \A v \in T : ~ (<<v, t>> \in R)
      <3> HIDE DEF T, R
      <3>1. QED
        BY <1>2, <2>1, <2>2, WFMin
    <2>4. g[t] = IF t = {} THEN NoEntries ELSE Merge(g[t \ {LastOf(t)}], LastOf(t))
      BY <1>1 DEF Merging
    <2>5. t \in SUBSET S /\ ~EntriesFit(g[t], t)
      OBVIOUS
    <2>6. CASE t = {}
      <3>1. EntriesFit(NoEntries, {})
        BY DEF EntriesFit, NoEntries
      <3>2. QED
        BY <2>4, <2>5, <2>6, <3>1
    <2>7. CASE t # {}
      <3>1. LastOf(t) \in t /\ \A q \in t \ {LastOf(t)} : Earlier(q, LastOf(t))
        BY <2>5, <2>7, FS_Subset, LastExists
      <3> DEFINE v == t \ {LastOf(t)}
      <3>2. v \in SUBSET S /\ v # t /\ v \subseteq t /\ t = v \cup {LastOf(t)} /\ LastOf(t) \notin v
        BY <2>5, <3>1
      <3>3. v \notin T
        <4>1. ASSUME v \in T
              PROVE  <<v, t>> \in R
          BY <2>1, <3>2, <4>1 DEF StrictSubsetOrdering
        <4>2. QED
          BY <2>3, <4>1
      <3>4. EntriesFit(g[v], v)
        BY <3>2, <3>3
      <3>5. g[t] = Merge(g[v], LastOf(t))
        BY <2>4, <2>7
      <3>6. /\ v \subseteq RefSpace /\ IsFiniteSet(v) /\ \A q \in v : Earlier(q, LastOf(t))
            /\ \A q \in v \cup {LastOf(t)} : At(held, q).what \in Findings
        BY <3>1, <3>2, FS_Subset
      <3> HIDE DEF v, T, R
      <3>7. EntriesFit(Merge(g[v], LastOf(t)), v \cup {LastOf(t)})
        BY <3>2, <3>4, <3>6, MergeKeepsEntriesFit
      <3>8. QED
        BY <2>5, <3>2, <3>5, <3>7
    <2>8. QED
      BY <2>6, <2>7
  <1>3. S \notin T
    BY <1>2
  <1>4. QED
    BY <1>1, <1>3

-----------------------------------------------------------------------------
(* References and issues                                                   *)

LEMMA PlacesAreFinite ==
    ASSUME FindingsAssumption
    PROVE  /\ Places \subseteq Nat \X Nat /\ IsFiniteSet(Places)
           /\ \A p \in Places : p[1] \in Files /\ p = <<p[1], p[2]>>
           /\ MaxIssues \in Nat /\ MaxRuns \in Nat /\ MaxNotes \in Nat
  <1>1. /\ Files = 1 .. Len(NumBlocks) /\ Len(NumBlocks) \in Nat
        /\ \A f \in Files : f \in Nat /\ NumBlocks[f] \in Nat
    BY DEF FindingsAssumption, Files
  <1> DEFINE rows == {{f} \X (1 .. NumBlocks[f]) : f \in Files}
             row == [f \in Files |-> {f} \X (1 .. NumBlocks[f])]
  <1>2. IsFiniteSet(rows)
    <2>1. row \in Surjection(Files, rows)
      BY DEF Surjection
    <2>2. IsFiniteSet(Files)
      BY <1>1, FS_Interval
    <2> HIDE DEF rows, row
    <2>3. QED
      BY <2>1, <2>2, FS_Surjection
  <1>3. \A s \in rows : IsFiniteSet(s)
    <2>1. ASSUME NEW f \in Files
          PROVE  IsFiniteSet({f} \X (1 .. NumBlocks[f]))
      <3>1. IsFiniteSet({f})
        BY FS_Singleton
      <3>2. 1 \in Int /\ NumBlocks[f] \in Int
        BY <1>1
      <3>3. IsFiniteSet(1 .. NumBlocks[f])
        BY <3>2, FS_Interval
      <3>4. QED
        BY <3>1, <3>3, FS_Product
    <2>2. QED
      BY <2>1
  <1>4. IsFiniteSet(Places)
    <2>1. Places = UNION rows
      BY DEF Places
    <2> HIDE DEF rows
    <2>2. QED
      BY <1>2, <1>3, <2>1, FS_UNION
  <1>5. Places \subseteq Nat \X Nat /\ \A p \in Places : p[1] \in Files /\ p = <<p[1], p[2]>>
    BY <1>1 DEF Places
  <1>6. QED
    BY <1>4, <1>5 DEF FindingsAssumption

\* A list of issues per block: the references to them are places and indices.
LEMMA RefFacts ==
    ASSUME FindingsAssumption, NEW lists \in Lists
    PROVE  /\ \A p \in Places : /\ lists[p] \in Seq(Issue) /\ Len(lists[p]) \in Nat
                                /\ DOMAIN lists[p] = 1 .. Len(lists[p])
                                /\ Len(lists[p]) <= MaxIssues
           /\ \A p \in Places : \A k \in DOMAIN lists[p] :
                 <<p, k>> \in Refs(lists) /\ At(lists, <<p, k>>) = lists[p][k]
           /\ \A r \in Refs(lists) : /\ r[1] \in Places /\ r[1][1] \in Files
                                     /\ r[2] \in DOMAIN lists[r[1]] /\ r[2] \in 1 .. MaxIssues
                                     /\ r = <<r[1], r[2]>>
                                     /\ At(lists, r) \in Issue
  <1>1. \A p \in Places : /\ lists[p] \in Seq(Issue) /\ Len(lists[p]) \in Nat
                          /\ DOMAIN lists[p] = 1 .. Len(lists[p])
                          /\ Len(lists[p]) <= MaxIssues
    BY DEF Lists
  <1>2. ASSUME NEW r \in Refs(lists)
        PROVE  /\ r[1] \in Places /\ r[1][1] \in Files
               /\ r[2] \in DOMAIN lists[r[1]] /\ r[2] \in 1 .. MaxIssues
               /\ r = <<r[1], r[2]>>
               /\ At(lists, r) \in Issue
    <2>1. PICK p \in Places : r \in {p} \X DOMAIN lists[p]
      BY DEF Refs
    <2>2. r[1] = p /\ r[2] \in DOMAIN lists[p] /\ r = <<r[1], r[2]>>
      BY <2>1
    <2>3. MaxIssues \in Nat /\ p[1] \in Files
      BY PlacesAreFinite
    <2>4. PICK n \in Nat, list \in Seq(Issue) :
             n = Len(lists[p]) /\ list = lists[p] /\ DOMAIN list = 1 .. n /\ n <= MaxIssues
      BY <1>1
    <2>5. r[2] \in 1 .. n /\ list[r[2]] \in Issue
      BY <2>2, <2>4
    <2>6. QED
      BY <2>2, <2>3, <2>4, <2>5 DEF At
  <1>3. \A p \in Places : \A k \in DOMAIN lists[p] :
           <<p, k>> \in Refs(lists) /\ At(lists, <<p, k>>) = lists[p][k]
    BY DEF Refs, At
  <1>4. QED
    BY <1>1, <1>2, <1>3

LEMMA RefsAreFinite ==
    ASSUME FindingsAssumption, NEW lists \in Lists
    PROVE  Refs(lists) \subseteq RefSpace /\ IsFiniteSet(Refs(lists))
  <1>1. ASSUME NEW r \in Refs(lists)
        PROVE  r \in Places \X (1 .. MaxIssues)
    BY RefFacts
  <1>2. MaxIssues \in Nat /\ IsFiniteSet(Places) /\ Places \subseteq Nat \X Nat
    BY PlacesAreFinite
  <1>3. IsFiniteSet(Places \X (1 .. MaxIssues))
    <2>1. 1 \in Int /\ MaxIssues \in Int
      BY <1>2
    <2>2. IsFiniteSet(1 .. MaxIssues)
      BY <2>1, FS_Interval
    <2>3. QED
      BY <1>2, <2>2, FS_Product
  <1>4. Refs(lists) \in SUBSET (Places \X (1 .. MaxIssues))
    BY <1>1
  <1>5. Refs(lists) \subseteq RefSpace
    BY <1>1, <1>2 DEF RefSpace
  <1>6. QED
    BY <1>3, <1>4, <1>5, FS_Subset

LEMMA IssueFields ==
    ASSUME NEW i \in Issue
    PROVE  /\ i.what \in Findings /\ i.of \in {NoDuplicate} \cup (Places \X (0 .. MaxIssues))
           /\ i.note \in BOOLEAN /\ i.reportable \in BOOLEAN
  BY DEF Issue

\* Lists are put together block by block.
LEMMA ListsOf ==
    ASSUME NEW lists, lists = [p \in Places |-> lists[p]],
           \A p \in Places : lists[p] \in Seq(Issue) /\ Len(lists[p]) <= MaxIssues
    PROVE  lists \in Lists
  BY DEF Lists

\* The issues of a file that the run holds.
InFile(f) == {r \in Refs(held) : r[1][1] = f}

\* The merged list of a block has the issue of every entry of the block.  When the block
\* has lost none of its issues the list is as long as it was, and the issue of every entry
\* is in its place.
MergedList(f, p) ==
    LET kept == Merged(f)
        list == IssuesOf(Merged(f), p)
    IN  /\ list \in Seq(Issue) /\ Len(list) <= MaxIssues /\ DOMAIN list = 1 .. Len(list)
        /\ \A n \in DOMAIN kept :
              n[1] = p => \E k \in DOMAIN list : list[k] = At(held, kept[n])
        /\ ~Shortened(kept, p) =>
              /\ Len(list) = Len(held[p])
              /\ \A k \in DOMAIN held[p] :
                    <<p, k>> \in DOMAIN kept /\ list[k] = At(held, kept[<<p, k>>])

LEMMA MergedLists ==
    ASSUME FindingsAssumption, TypeOK, NEW f, NEW p \in Places, p[1] = f
    PROVE  /\ EntriesFit(Merged(f), InFile(f))
           /\ MergedList(f, p)
  <1> DEFINE S == InFile(f)
             kept == Merged(f)
             own == {n \in DOMAIN kept : n[1] = p}
             entries == InOrder(own)
             list == IssuesOf(kept, p)
  <1>1. held \in Lists /\ S \in SUBSET Refs(held) /\ S = {r \in Refs(held) : r[1][1] = f}
    BY DEF TypeOK, InFile
  <1>2. S \subseteq RefSpace /\ IsFiniteSet(S)
    BY <1>1, RefsAreFinite, FS_Subset
  <1>3. \A r \in S : /\ r[1] \in Places /\ r[2] \in DOMAIN held[r[1]] /\ r = <<r[1], r[2]>>
                     /\ r[2] \in 1 .. MaxIssues
                     /\ At(held, r) \in Issue /\ At(held, r).what \in Findings
    BY <1>1, RefFacts, IssueFields
  <1>4. EntriesFit(kept, S)
    BY <1>1, <1>2, <1>3, MergedFits
  <1> HIDE DEF kept, S
  <1>5. own \in SUBSET S
    BY <1>4 DEF EntriesFit
  <1>6. own \subseteq RefSpace /\ IsFiniteSet(own)
    <2> HIDE DEF own
    <2>1. QED
      BY <1>2, <1>5, FS_Subset
  <1> DEFINE size == Cardinality(own)
  <1>7. /\ entries \in [1 .. size -> own]
        /\ \A n \in own : \E k \in 1 .. size : entries[k] = n
    BY <1>6, InOrderHasAll
  <1>8. size \in Nat /\ size <= MaxIssues
    <2>1. own \subseteq {p} \X (1 .. MaxIssues)
      <3>1. ASSUME NEW n \in own
            PROVE  n \in {p} \X (1 .. MaxIssues)
        <4>1. n \in S /\ n[1] = p
          BY <1>5
        <4>2. n = <<n[1], n[2]>> /\ n[2] \in 1 .. MaxIssues
          BY <1>3, <4>1
        <4>3. QED
          BY <4>1, <4>2
      <3>2. QED
        BY <3>1
    <2> DEFINE index == [n \in own |-> n[2]]
    <2>2. index \in Injection(own, 1 .. MaxIssues)
      <3>1. index \in [own -> 1 .. MaxIssues]
        BY <2>1
      <3>2. \A n, m \in own : index[n] = index[m] => n = m
        BY <2>1
      <3> HIDE DEF index, own
      <3>3. QED
        BY <3>1, <3>2 DEF Injection, IsInjective
    <2>3. MaxIssues \in Nat
      BY PlacesAreFinite
    <2>4. IsFiniteSet(1 .. MaxIssues) /\ Cardinality(1 .. MaxIssues) = MaxIssues
      <3>1. 1 \in Int /\ MaxIssues \in Int
        BY <2>3
      <3>2. QED
        BY <2>3, <3>1, FS_Interval
    <2> HIDE DEF index, own
    <2>5. QED
      BY <1>6, <2>2, <2>4, FS_Injection, FS_CardinalityType
  <1>9. list = [k \in DOMAIN entries |-> At(held, kept[entries[k]])]
    BY DEF IssuesOf
  <1> HIDE DEF entries, own, list
  <1>10. list = [k \in 1 .. size |-> At(held, kept[entries[k]])]
    BY <1>7, <1>9
  <1>11. ASSUME NEW k \in 1 .. size
         PROVE  At(held, kept[entries[k]]) \in Issue
    <2>1. entries[k] \in DOMAIN kept
      BY <1>7 DEF own
    <2>2. kept[entries[k]] \in S
      BY <1>4, <2>1 DEF EntriesFit
    <2>3. QED
      BY <1>3, <2>2
  <1> HIDE DEF size
  <1>12. list \in Seq(Issue) /\ Len(list) = size /\ DOMAIN list = 1 .. Len(list)
    BY <1>8, <1>10, <1>11
  <1>13. ASSUME NEW n \in DOMAIN kept, n[1] = p
         PROVE  \E k \in DOMAIN list : list[k] = At(held, kept[n])
    <2>1. n \in own
      BY <1>13 DEF own
    <2>2. PICK k \in 1 .. size : entries[k] = n
      BY <1>7, <2>1
    <2>3. k \in DOMAIN list /\ list[k] = At(held, kept[n])
      BY <1>10, <2>2
    <2>4. QED
      BY <2>3
  <1>14. ASSUME ~Shortened(kept, p)
         PROVE  /\ Len(list) = Len(held[p])
                /\ \A k \in DOMAIN held[p] :
                      <<p, k>> \in DOMAIN kept /\ list[k] = At(held, kept[<<p, k>>])
    <2>1. PICK n \in Nat : n = Len(held[p]) /\ DOMAIN held[p] = 1 .. n
      BY <1>1, RefFacts
    <2>2. \A k \in 1 .. n : <<p, k>> \in DOMAIN kept
      BY <1>14, <2>1 DEF Shortened
    <2>3. own = {p} \X (1 .. n)
      <3>1. ASSUME NEW m \in own
            PROVE  m \in {p} \X (1 .. n)
        <4>1. m \in S /\ m[1] = p
          BY <1>5 DEF own
        <4>2. m = <<m[1], m[2]>> /\ m[2] \in DOMAIN held[m[1]]
          BY <1>3, <4>1
        <4>3. QED
          BY <2>1, <4>1, <4>2
      <3>2. ASSUME NEW m \in {p} \X (1 .. n)
            PROVE  m \in own
        <4>1. m = <<p, m[2]>> /\ m[2] \in 1 .. n
          OBVIOUS
        <4>2. QED
          BY <2>2, <4>1 DEF own
      <3>3. QED
        BY <3>1, <3>2
    <2>4. p \in Nat \X Nat
      BY PlacesAreFinite
    <2>5. size = n /\ \A k \in 1 .. n : entries[k] = <<p, k>>
      BY <2>3, <2>4, InOrderOfBlock DEF size, entries
    <2>6. QED
      BY <1>10, <1>12, <2>1, <2>2, <2>5
  <1>15. QED
    BY <1>4, <1>8, <1>12, <1>13, <1>14 DEF kept, list, S, MergedList

-----------------------------------------------------------------------------
(* The steps                                                               *)

\* While a batch is reviewed there are no marks, and nothing to show of them.
LEMMA NoMarks ==
    ASSUME batch' = "review", marked' = {}
    PROVE  DuplicateInv'
  BY DEF DuplicateInv

LEMMA OpenStep ==
    ASSUME FindingsAssumption, IssueInv, NEW f \in Files, Open(f)
    PROVE  IssueInv'
  <1>1. TypeOK /\ HeldInv /\ DuplicateInv
    BY DEF IssueInv
  <1>2. /\ file' = [file EXCEPT ![f] = "open"]
        /\ file'[f] = "open" /\ \A g \in Files \ {f} : file'[g] = file[g]
        /\ file' \in [Files -> {"queued", "open", "closed"}]
    BY <1>1 DEF Open, TypeOK
  <1>3. \A p \in Places : /\ held'[p] = (IF p[1] = f THEN stored[p] ELSE held[p])
                          /\ p[1] \in Files
    BY PlacesAreFinite DEF Open
  <1>4. held' \in Lists
    <2>1. \A p \in Places : held'[p] \in Seq(Issue) /\ Len(held'[p]) <= MaxIssues
      BY <1>1, <1>3, RefFacts DEF TypeOK
    <2>2. held' = [p \in Places |-> held'[p]]
      BY DEF Open
    <2>3. QED
      BY <2>1, <2>2, ListsOf
  <1>5. TypeOK'
    BY <1>1, <1>2, <1>4 DEF TypeOK, Open
  <1>6. ASSUME NEW p \in Places
        PROVE  HeldAsStored(p)'
    <2>1. CASE p[1] = f
      BY <1>3, <2>1, <1>2 DEF HeldAsStored, SameButNote, Open
    <2>2. CASE p[1] # f
      <3>1. file'[p[1]] = file[p[1]] /\ held'[p] = held[p]
        BY <1>2, <1>3, <2>2
      <3>2. HeldAsStored(p)
        BY <1>1 DEF HeldInv
      <3>3. QED
        BY <3>1, <3>2 DEF HeldAsStored, Open
    <2>3. QED
      BY <2>1, <2>2
  <1>7. HeldInv'
    <2>1. \A g \in Files : file'[g] = "open" => g \in members'
      BY <1>1, <1>2 DEF HeldInv, Open
    <2>2. QED
      BY <1>6, <2>1 DEF HeldInv, Open
  <1>8. DuplicateInv'
    BY <1>1, NoMarks DEF DuplicateInv, Open
  <1>9. QED
    BY <1>5, <1>7, <1>8 DEF IssueInv

\* An open file is one of a batch that is reviewed.
LEMMA OpenFile ==
    ASSUME IssueInv, NEW f \in Files, file[f] = "open"
    PROVE  f \in members /\ batch = "review" /\ marked = {}
  <1>1. f \in members
    BY DEF IssueInv, HeldInv
  <1>2. batch = "review"
    BY <1>1 DEF IssueInv, HeldInv
  <1>3. QED
    BY <1>1, <1>2 DEF IssueInv, DuplicateInv

\* The findings of a review.
LEMMA NewIssues ==
    ASSUME FindingsAssumption, NEW issues \in NewLists
    PROVE  issues \in Seq(Issue) /\ Len(issues) <= MaxIssues
  <1> DEFINE new == [what : Findings, reportable : BOOLEAN, of : {NoDuplicate}, note : {FALSE}]
  <1>1. MaxIssues \in Nat
    BY DEF FindingsAssumption
  <1>2. PICK n \in 0 .. MaxIssues : issues \in [1 .. n -> new]
    BY DEF NewLists
  <1>3. \A i \in new : i \in Issue
    BY Zenon DEF Issue
  <1> HIDE DEF new
  <1>4. issues \in [1 .. n -> Issue]
    BY <1>2, <1>3
  <1>5. QED
    BY <1>1, <1>4

LEMMA ReviewStep ==
    ASSUME FindingsAssumption, IssueInv, NEW p \in Places, Review(p)
    PROVE  IssueInv'
  <1>1. TypeOK /\ HeldInv /\ DuplicateInv
    BY DEF IssueInv
  <1>2. PICK issues \in NewLists, end \in {"good", "failed"} :
           /\ state' = [state EXCEPT ![p] = end]
           /\ stored' = [stored EXCEPT ![p] = issues]
           /\ held' = [held EXCEPT ![p] = issues]
    BY DEF Review
  <1>3. issues \in Seq(Issue) /\ Len(issues) <= MaxIssues
    BY NewIssues
  <1>4. p[1] \in Files /\ file[p[1]] = "open"
    BY PlacesAreFinite DEF Review
  <1>5. p[1] \in members /\ batch = "review" /\ marked = {}
    BY <1>4, OpenFile
  <1>6. /\ stored \in [Places -> Seq(Issue)] /\ held \in [Places -> Seq(Issue)]
        /\ \A b \in Places : Len(stored[b]) <= MaxIssues /\ Len(held[b]) <= MaxIssues
    BY <1>1 DEF TypeOK, Lists
  <1>7. stored' \in Lists /\ held' \in Lists
    BY <1>2, <1>3, <1>6 DEF Lists
  <1>8. TypeOK'
    BY <1>1, <1>2, <1>7 DEF TypeOK, Review
  <1>9. ASSUME NEW b \in Places
        PROVE  HeldAsStored(b)'
    <2>1. CASE b = p
      <3>1. held'[b] = issues /\ stored'[b] = issues
        BY <1>2, <1>6, <2>1
      <3>2. QED
        BY <1>4, <1>5, <2>1, <3>1 DEF HeldAsStored, SameButNote, Review
    <2>2. CASE b # p
      <3>1. held'[b] = held[b] /\ stored'[b] = stored[b]
        BY <1>2, <1>6, <2>2
      <3>2. HeldAsStored(b)
        BY <1>1 DEF HeldInv
      <3>3. QED
        BY <3>1, <3>2 DEF HeldAsStored, Review
    <2>3. QED
      BY <2>1, <2>2
  <1>10. HeldInv'
    BY <1>1, <1>9 DEF HeldInv, Review
  <1>11. DuplicateInv'
    BY <1>5, NoMarks DEF Review
  <1>12. QED
    BY <1>8, <1>10, <1>11 DEF IssueInv

\* Closing a file puts the merged lists of its blocks in memory, and in the database those
\* that have become shorter.
LEMMA CloseEffect ==
    ASSUME FindingsAssumption, TypeOK, NEW f \in Files, Close(f)
    PROVE  /\ held' \in Lists /\ stored' \in Lists
           /\ \A p \in Places :
                 /\ p[1] # f => held'[p] = held[p] /\ stored'[p] = stored[p]
                 /\ p[1] = f =>
                      /\ MergedList(f, p)
                      /\ held'[p] = IssuesOf(Merged(f), p)
                      /\ stored'[p] = IF Shortened(Merged(f), p)
                                      THEN IssuesOf(Merged(f), p) ELSE stored[p]
  <1>1. ASSUME NEW p \in Places
        PROVE  /\ p[1] # f => held'[p] = held[p] /\ stored'[p] = stored[p]
               /\ p[1] = f =>
                    /\ MergedList(f, p)
                    /\ held'[p] = IssuesOf(Merged(f), p)
                    /\ stored'[p] = IF Shortened(Merged(f), p)
                                    THEN IssuesOf(Merged(f), p) ELSE stored[p]
    <2>1. p[1] = f => MergedList(f, p)
      BY MergedLists
    <2>2. QED
      BY <2>1 DEF Close
  <1>2. \A p \in Places : /\ stored[p] \in Seq(Issue) /\ Len(stored[p]) <= MaxIssues
                          /\ held[p] \in Seq(Issue) /\ Len(held[p]) <= MaxIssues
    BY DEF TypeOK, Lists
  <1>3. \A p \in Places : /\ held'[p] \in Seq(Issue) /\ Len(held'[p]) <= MaxIssues
                          /\ stored'[p] \in Seq(Issue) /\ Len(stored'[p]) <= MaxIssues
    BY <1>1, <1>2 DEF MergedList
  <1>4. held' = [p \in Places |-> held'[p]] /\ stored' = [p \in Places |-> stored'[p]]
    BY DEF Close
  <1>5. held' \in Lists /\ stored' \in Lists
    BY <1>3, <1>4, ListsOf
  <1>6. QED
    BY <1>1, <1>5

\* An entry of a block that has lost no issue holds its own one, or one that is passed
\* over.
LEMMA EntryOfBlock ==
    ASSUME FindingsAssumption, IssueInv, NEW f \in Files, file[f] = "open",
           NEW p \in Places, p[1] = f, ~Shortened(Merged(f), p), NEW k \in DOMAIN held[p]
    PROVE  \/ SameButNote(At(held, Merged(f)[<<p, k>>]), stored[p][k])
           \/ Unsaved(At(held, Merged(f)[<<p, k>>]), stored[p][k])
  <1>1. TypeOK /\ HeldAsStored(p) /\ f \in members
    BY DEF IssueInv, HeldInv
  <1>2. EntriesFit(Merged(f), InFile(f)) /\ MergedList(f, p)
    BY <1>1, MergedLists
  <1> DEFINE kept == Merged(f)
             n == <<p, k>>
  <1> HIDE DEF kept
  <1>3. n \in DOMAIN kept
    BY <1>2 DEF MergedList, kept
  <1>4. SameButNote(held[p][k], stored[p][k]) /\ At(held, n) = held[p][k]
    BY <1>1 DEF HeldAsStored, At
  <1>5. CASE kept[n] = n
    BY <1>4, <1>5 DEF kept
  <1>6. CASE kept[n] # n
    <2>1. ~At(held, n).reportable /\ At(held, kept[n]).reportable
      BY <1>2, <1>3, <1>6 DEF EntriesFit, kept
    <2>2. ~stored[p][k].reportable
      BY <1>4, <2>1, Zenon DEF SameButNote
    <2>3. QED
      BY <2>1, <2>2 DEF Unsaved, kept
  <1>7. QED
    BY <1>5, <1>6

LEMMA CloseStep ==
    ASSUME FindingsAssumption, IssueInv, NEW f \in Files, Close(f)
    PROVE  IssueInv'
  <1>1. TypeOK /\ HeldInv /\ DuplicateInv /\ file[f] = "open"
    BY DEF IssueInv, Close
  <1>2. f \in members /\ batch = "review" /\ marked = {}
    BY <1>1, OpenFile
  <1>3. /\ file'[f] = "closed" /\ \A g \in Files \ {f} : file'[g] = file[g]
        /\ file' \in [Files -> {"queued", "open", "closed"}]
    BY <1>1 DEF Close, TypeOK
  <1>4. held' \in Lists /\ stored' \in Lists
    BY <1>1, CloseEffect
  <1>5. TypeOK'
    BY <1>1, <1>3, <1>4 DEF TypeOK, Close
  <1>6. ASSUME NEW p \in Places
        PROVE  HeldAsStored(p)'
    <2>1. p[1] \in Files
      BY PlacesAreFinite
    <2>2. CASE p[1] # f
      <3>1. held'[p] = held[p] /\ stored'[p] = stored[p]
        BY <1>1, <2>2, CloseEffect
      <3>2. HeldAsStored(p)
        BY <1>1 DEF HeldInv
      <3>3. QED
        BY <1>3, <2>1, <2>2, <3>1, <3>2 DEF HeldAsStored, Close
    <2>3. CASE p[1] = f
      <3> DEFINE list == IssuesOf(Merged(f), p)
      <3>1. /\ MergedList(f, p) /\ held'[p] = list
            /\ stored'[p] = IF Shortened(Merged(f), p) THEN list ELSE stored[p]
        BY <1>1, <2>3, CloseEffect
      <3>2. CASE Shortened(Merged(f), p)
        <4>1. stored'[p] = list
          BY <3>1, <3>2
        <4> HIDE DEF list
        <4>2. QED
          BY <1>2, <1>3, <2>3, <3>1, <4>1 DEF HeldAsStored, SameButNote, Close
      <3>3. CASE ~Shortened(Merged(f), p)
        <4>1. stored'[p] = stored[p]
          BY <3>1, <3>3
        <4>2. HeldAsStored(p)
          BY <1>1 DEF HeldInv
        <4>3. /\ Len(held[p]) = Len(stored[p]) /\ Len(list) = Len(held[p])
              /\ DOMAIN held[p] = 1 .. Len(held[p]) /\ DOMAIN list = 1 .. Len(list)
          BY <1>1, <1>2, <2>3, <3>1, <3>3, <4>2, RefFacts DEF HeldAsStored, MergedList, TypeOK
        <4>4. ASSUME NEW k \in DOMAIN list
              PROVE  SameButNote(list[k], stored[p][k]) \/ Unsaved(list[k], stored[p][k])
          <5>1. k \in DOMAIN held[p]
            BY <4>3
          <5>2. list[k] = At(held, Merged(f)[<<p, k>>])
            BY <3>1, <3>3, <5>1 DEF MergedList
          <5>3. QED
            BY <1>1, <2>3, <3>3, <5>1, <5>2, EntryOfBlock
        <4> HIDE DEF list
        <4>5. QED
          BY <1>2, <1>3, <2>3, <3>1, <4>1, <4>3, <4>4 DEF HeldAsStored, Close
      <3>4. QED
        BY <3>2, <3>3
    <2>4. QED
      BY <2>2, <2>3
  <1>7. HeldInv'
    <2>1. \A g \in Files : file'[g] = "open" => g \in members'
      BY <1>1, <1>3 DEF HeldInv, Close
    <2>2. QED
      BY <1>2, <1>6, <2>1 DEF HeldInv, Close
  <1>8. DuplicateInv'
    BY <1>2, NoMarks DEF Close
  <1>9. QED
    BY <1>5, <1>7, <1>8 DEF IssueInv

\* For an issue that could be reported there is an entry, in whose place the merged list
\* has an issue that is linked to it.  The list is saved when it has become shorter; else
\* the entry holds its own issue, which is saved already, or one that is passed over.
LEMMA CloseKeepsFindings ==
    ASSUME FindingsAssumption, IssueInv, NEW f \in Files, Close(f),
           NEW r \in Reportable(held), r[1][1] = f
    PROVE  /\ Reports(held', f, At(held, r).what)
           /\ Reports(stored', f, At(held, r).what) \/ PassedOver(r)
  <1> DEFINE kept == Merged(f)
             what(q) == At(held, q).what
  <1>1. TypeOK /\ HeldInv /\ file[f] = "open"
    BY DEF IssueInv, Close
  <1>2. f \in members
    BY <1>1, OpenFile
  <1>3. /\ r \in Refs(held) /\ At(held, r).reportable /\ r \in InFile(f)
        /\ r[1] \in Places /\ r[2] \in DOMAIN held[r[1]] /\ r = <<r[1], r[2]>>
    BY <1>1, RefFacts DEF Reportable, InFile, TypeOK
  <1>4. EntriesFit(kept, InFile(f))
    BY <1>1, <1>3, MergedLists
  <1> HIDE DEF kept
  <1>5. PICK n \in DOMAIN kept :
           /\ At(held, kept[n]).reportable
           /\ Linked(what(r), what(n)) /\ Linked(what(r), what(kept[n]))
           /\ \/ n = r /\ kept[n] = n
              \/ r \notin DOMAIN kept /\ Earlier(n, r)
    <2>1. CASE r \in DOMAIN kept
      <3>1. kept[r] = r
        BY <1>3, <1>4, <2>1 DEF EntriesFit
      <3>2. Linked(what(r), what(r))
        BY DEF Linked
      <3>3. QED
        BY <1>3, <2>1, <3>1, <3>2
    <2>2. CASE r \notin DOMAIN kept
      BY <1>3, <1>4, <2>2 DEF EntriesFit
    <2>3. QED
      BY <2>1, <2>2
  <1>6. n \in InFile(f)
    BY <1>4 DEF EntriesFit
  <1>7. /\ n \in Refs(held) /\ n[1] \in Places /\ n[1][1] = f
        /\ n[2] \in DOMAIN held[n[1]] /\ n = <<n[1], n[2]>>
    BY <1>1, <1>6, RefFacts DEF InFile, TypeOK
  <1>8. PICK p \in Places, k \in DOMAIN held[n[1]] :
           p = n[1] /\ k = n[2] /\ n = <<p, k>> /\ k \in DOMAIN held[p] /\ p[1] = f
    BY <1>7
  <1> DEFINE list == IssuesOf(kept, p)
  <1>9. /\ MergedList(f, p) /\ held'[p] = list
        /\ stored'[p] = IF Shortened(kept, p) THEN list ELSE stored[p]
    BY <1>1, <1>8, CloseEffect DEF kept
  <1>10. \E j \in DOMAIN list : list[j] = At(held, kept[n])
    BY <1>7, <1>8, <1>9 DEF MergedList, kept
  <1>11. PICK j \in DOMAIN list : list[j] = At(held, kept[n])
    BY <1>10
  <1> HIDE DEF list
  <1>12. ASSUME NEW lists, lists[p] = list
         PROVE  Reports(lists, f, what(r))
    <2>1. PICK q : q = <<p, j>>
      OBVIOUS
    <2>2. q \in Refs(lists) /\ At(lists, q) = At(held, kept[n])
      BY <1>11, <1>12, <2>1 DEF Refs, At
    <2>3. q \in Reportable(lists) /\ q[1][1] = f
      BY <1>5, <1>8, <2>1, <2>2 DEF Reportable
    <2>4. QED
      BY <1>5, <2>2, <2>3 DEF Reports
  <1>13. Reports(held', f, what(r))
    BY <1>9, <1>12
  <1>14. CASE Shortened(kept, p)
    BY <1>9, <1>12, <1>13, <1>14
  <1>15. CASE ~Shortened(kept, p)
    <2>1. stored'[p] = stored[p]
      BY <1>9, <1>15
    <2>2. /\ DOMAIN held[p] = DOMAIN stored[p]
          /\ SameButNote(held[p][k], stored[p][k])
      <3>1. HeldAsStored(p)
        BY <1>1 DEF HeldInv
      <3>2. Len(held[p]) = Len(stored[p]) /\ SameButNote(held[p][k], stored[p][k])
        BY <1>1, <1>2, <1>8, <3>1 DEF HeldAsStored
      <3>3. /\ DOMAIN held[p] = 1 .. Len(held[p])
            /\ DOMAIN stored[p] = 1 .. Len(stored[p])
        BY <1>1, RefFacts DEF TypeOK
      <3>4. QED
        BY <3>2, <3>3
    <2>3. n \in Refs(stored) /\ At(stored, n) = stored[p][k] /\ At(held, n) = held[p][k]
      BY <1>8, <2>2 DEF Refs, At
    <2>4. At(stored, n).what = what(n) /\ (At(stored, n).reportable <=> At(held, n).reportable)
      BY <2>2, <2>3, Zenon DEF SameButNote
    <2>5. CASE kept[n] = n
      <3>1. At(held, n).reportable
        BY <1>5, <2>5
      <3>2. n \in Refs(stored') /\ At(stored', n) = At(stored, n)
        BY <1>8, <2>1, <2>2 DEF Refs, At
      <3>3. n \in Reportable(stored')
        BY <2>4, <3>1, <3>2 DEF Reportable
      <3>4. Reports(stored', f, what(r))
        BY <1>5, <1>7, <2>4, <3>2, <3>3 DEF Reports
      <3>5. QED
        BY <1>13, <3>4
    <2>6. CASE kept[n] # n
      <3>1. ~At(held, n).reportable
        BY <1>4, <2>6 DEF EntriesFit
      <3>2. n \in Refs(stored) \ Reportable(stored)
        BY <2>3, <2>4, <3>1 DEF Reportable
      <3>3. r \notin DOMAIN kept /\ Earlier(n, r)
        BY <1>5, <2>6
      <3>4. r[1] # p
        <4>1. ASSUME r[1] = p
              PROVE  FALSE
          <5>1. r[2] \in DOMAIN held[p] /\ <<p, r[2]>> \notin DOMAIN kept
            BY <1>3, <3>3, <4>1
          <5>2. QED
            BY <1>15, <5>1 DEF Shortened
        <4>2. QED
          BY <4>1
      <3>5. n[1][2] < r[1][2]
        <4>1. r[1] \in Nat \X Nat /\ p \in Nat \X Nat
          BY <1>3, PlacesAreFinite
        <4>2. PICK a \in Nat, b \in Nat, c \in Nat : r[1] = <<a, b>> /\ p = <<a, c>> /\ b # c
          BY <1>8, <3>4, <4>1
        <4>3. c < b
          BY <1>8, <3>3, <4>2 DEF Earlier
        <4>4. QED
          BY <1>8, <4>2, <4>3
      <3>6. PassedOver(r)
        BY <1>5, <1>7, <1>8, <2>1, <2>4, <3>2, <3>5 DEF PassedOver
      <3>7. QED
        BY <1>13, <3>6
    <2>7. QED
      BY <2>5, <2>6
  <1>16. QED
    BY <1>14, <1>15

LEMMA NextBatchStep ==
    ASSUME FindingsAssumption, IssueInv, NextBatch
    PROVE  IssueInv'
  <1>1. TypeOK
    BY DEF IssueInv
  <1>2. members' \subseteq Files
    BY DEF NextBatch
  <1>3. /\ file' \in [Files -> {"queued", "open", "closed"}]
        /\ \A f \in Files : file'[f] # "open"
        /\ \A f \in members' : file'[f] = "queued"
    BY <1>1, <1>2 DEF NextBatch, TypeOK
  <1>4. held' \in Lists
    <2>1. MaxIssues \in Nat
      BY DEF FindingsAssumption
    <2>2. held' = [p \in Places |-> <<>>]
      BY DEF NextBatch
    <2>3. QED
      BY <2>1, <2>2 DEF Lists
  <1>5. state' \in [Places -> {"pending", "good", "failed"}]
    BY <1>1 DEF NextBatch, TypeOK
  <1>6. runs' \in 0 .. MaxRuns
    BY <1>1 DEF NextBatch, TypeOK, FindingsAssumption
  <1>7. TypeOK'
    BY <1>1, <1>2, <1>3, <1>4, <1>5, <1>6 DEF TypeOK, NextBatch
  <1>8. \A p \in Places : HeldAsStored(p)'
    BY <1>2, <1>3 DEF HeldAsStored, NextBatch
  <1>9. HeldInv'
    BY <1>3, <1>8 DEF HeldInv, NextBatch
  <1>10. DuplicateInv'
    BY NoMarks DEF NextBatch
  <1>11. QED
    BY <1>7, <1>9, <1>10 DEF IssueInv

-----------------------------------------------------------------------------
(* Marks                                                                   *)

\* What marking issues as duplicates changes in lists.
LEMMA MarkingEffect ==
    ASSUME FindingsAssumption, NEW lists \in Lists, NEW of,
           \A r \in DOMAIN of : of[r] \in {NoDuplicate} \cup (Places \X (0 .. MaxIssues))
    PROVE  /\ Marking(lists, of) \in Lists
           /\ \A p \in Places :
                 /\ Len(Marking(lists, of)[p]) = Len(lists[p])
                 /\ DOMAIN Marking(lists, of)[p] = DOMAIN lists[p]
                 /\ \A k \in DOMAIN lists[p] :
                       /\ Marking(lists, of)[p][k].what = lists[p][k].what
                       /\ Marking(lists, of)[p][k].reportable = lists[p][k].reportable
                       /\ Marking(lists, of)[p][k].of =
                             IF <<p, k>> \in DOMAIN of THEN of[<<p, k>>] ELSE lists[p][k].of
  <1> DEFINE list(p) == [k \in DOMAIN lists[p] |->
                            IF <<p, k>> \in DOMAIN of
                            THEN [lists[p][k] EXCEPT !.of = of[<<p, k>>]] ELSE lists[p][k]]
  <1>1. Marking(lists, of) = [p \in Places |-> list(p)]
    BY DEF Marking
  <1>2. ASSUME NEW p \in Places, NEW k \in DOMAIN lists[p]
        PROVE  /\ list(p)[k] \in Issue
               /\ list(p)[k].what = lists[p][k].what
               /\ list(p)[k].reportable = lists[p][k].reportable
               /\ list(p)[k].of = IF <<p, k>> \in DOMAIN of
                                  THEN of[<<p, k>>] ELSE lists[p][k].of
    <2>1. PICK i \in Issue : i = lists[p][k]
      BY RefFacts
    <2>2. PICK m : m = list(p)[k]
      OBVIOUS
    <2>3. CASE <<p, k>> \in DOMAIN of
      <3>1. PICK q \in {NoDuplicate} \cup (Places \X (0 .. MaxIssues)) : q = of[<<p, k>>]
        BY <2>3
      <3>2. m = [i EXCEPT !.of = q]
        BY <2>1, <2>2, <2>3, <3>1
      <3> HIDE DEF list
      <3>3. m \in Issue /\ m.of = q /\ m.what = i.what
        BY <3>2 DEF Issue
      <3>4. m.reportable = i.reportable
        BY <3>2, Zenon DEF Issue
      <3>5. QED
        BY <2>1, <2>2, <2>3, <3>1, <3>3, <3>4, Zenon
    <2>4. CASE <<p, k>> \notin DOMAIN of
      <3>1. m = i
        BY <2>1, <2>2, <2>4
      <3> HIDE DEF list
      <3>2. QED
        BY <2>1, <2>2, <2>4, <3>1, Zenon
    <2>5. QED
      BY <2>3, <2>4
  <1>3. ASSUME NEW p \in Places
        PROVE  /\ DOMAIN list(p) = DOMAIN lists[p] /\ Len(list(p)) = Len(lists[p])
               /\ list(p) \in Seq(Issue) /\ Len(list(p)) <= MaxIssues
    <2>1. PICK n \in Nat : n = Len(lists[p]) /\ DOMAIN lists[p] = 1 .. n /\ n <= MaxIssues
      BY RefFacts
    <2>2. PICK l : l = list(p)
      OBVIOUS
    <2>3. l = [k \in 1 .. n |-> l[k]] /\ \A k \in 1 .. n : l[k] \in Issue
      BY <1>2, <2>1, <2>2
    <2>4. l \in Seq(Issue) /\ Len(l) = n /\ DOMAIN l = 1 .. n
      BY <2>3
    <2>5. QED
      BY <2>1, <2>2, <2>4
  <1> HIDE DEF list
  <1>4. \A p \in Places : Marking(lists, of)[p] = list(p)
    BY <1>1
  <1>5. Marking(lists, of) \in Lists
    BY <1>1, <1>3 DEF Lists
  <1>6. ASSUME NEW p \in Places, NEW k \in DOMAIN lists[p]
        PROVE  /\ Marking(lists, of)[p][k].what = lists[p][k].what
               /\ Marking(lists, of)[p][k].reportable = lists[p][k].reportable
               /\ Marking(lists, of)[p][k].of =
                     IF <<p, k>> \in DOMAIN of THEN of[<<p, k>>] ELSE lists[p][k].of
    <2>1. Marking(lists, of)[p][k] = list(p)[k]
      BY <1>4
    <2>2. QED
      BY <1>2, <2>1, Zenon
  <1>7. QED
    BY <1>3, <1>4, <1>5, <1>6

\* What marking issues as duplicates changes of the references.
MarkedAs(of) ==
    /\ Refs(held') = Refs(held) /\ Reportable(held') = Reportable(held)
    /\ \A r \in Refs(held) :
          /\ At(held', r).what = At(held, r).what
          /\ At(held', r).of = IF r \in DOMAIN of THEN of[r] ELSE At(held, r).of

LEMMA MarkEffect ==
    ASSUME FindingsAssumption, TypeOK, HeldInv, NEW of,
           \A r \in DOMAIN of : of[r] \in {NoDuplicate} \cup (Places \X (0 .. MaxIssues)),
           Mark(of), UNCHANGED <<state, file, members, runs, notes>>,
           batch # "review" \/ \A f \in members : file[f] = "closed",
           batch' \in {"exact", "done"}
    PROVE  TypeOK' /\ HeldInv' /\ MarkedAs(of)
  <1>1. held \in Lists /\ stored \in Lists /\ held' = Marking(held, of) /\ stored' = Marking(stored, of)
    BY DEF TypeOK, Mark
  <1>2. held' \in Lists /\ stored' \in Lists
    BY <1>1, MarkingEffect
  <1>3. TypeOK'
    BY <1>2 DEF TypeOK
  <1>4. ASSUME NEW p \in Places
        PROVE  HeldAsStored(p)'
    <2>1. HeldAsStored(p)
      BY DEF HeldInv
    <2>2. /\ Len(held'[p]) = Len(held[p]) /\ DOMAIN held'[p] = DOMAIN held[p]
          /\ Len(stored'[p]) = Len(stored[p]) /\ DOMAIN stored'[p] = DOMAIN stored[p]
      BY <1>1, MarkingEffect
    <2>3. /\ DOMAIN held[p] = 1 .. Len(held[p]) /\ DOMAIN stored[p] = 1 .. Len(stored[p])
          /\ held'[p] \in Seq(Issue)
      BY <1>1, <1>2, RefFacts
    <2>4. CASE p[1] \in members /\ file[p[1]] # "queued"
      <3>1. Len(held[p]) = Len(stored[p]) /\ DOMAIN held[p] = DOMAIN stored[p]
        BY <2>1, <2>3, <2>4 DEF HeldAsStored
      <3>2. ASSUME NEW k \in DOMAIN held[p]
            PROVE  \/ SameButNote(held'[p][k], stored'[p][k])
                   \/ file[p[1]] = "closed" /\ Unsaved(held'[p][k], stored'[p][k])
        <4>1. \/ SameButNote(held[p][k], stored[p][k])
              \/ file[p[1]] = "closed" /\ Unsaved(held[p][k], stored[p][k])
          BY <2>1, <2>4, <3>2 DEF HeldAsStored
        <4> DEFINE given == IF <<p, k>> \in DOMAIN of THEN of[<<p, k>>] ELSE held[p][k].of
        <4>2. /\ held'[p][k].what = held[p][k].what
              /\ held'[p][k].reportable = held[p][k].reportable
              /\ held'[p][k].of = IF <<p, k>> \in DOMAIN of THEN of[<<p, k>>] ELSE held[p][k].of
          BY <1>1, MarkingEffect
        <4>3. k \in DOMAIN stored[p]
          BY <3>1
        <4>4. /\ stored'[p][k].what = stored[p][k].what
              /\ stored'[p][k].reportable = stored[p][k].reportable
              /\ stored'[p][k].of = IF <<p, k>> \in DOMAIN of THEN of[<<p, k>>] ELSE stored[p][k].of
          BY <1>1, <4>3, MarkingEffect
        <4>5. CASE SameButNote(held[p][k], stored[p][k])
          <5>1. held'[p][k].of = stored'[p][k].of
            BY <4>2, <4>4, <4>5, Zenon DEF SameButNote
          <5>2. QED
            BY <4>2, <4>4, <4>5, <5>1, Zenon DEF SameButNote
        <4>6. CASE file[p[1]] = "closed" /\ Unsaved(held[p][k], stored[p][k])
          BY <4>2, <4>4, <4>6, Zenon DEF Unsaved
        <4>7. QED
          BY <4>1, <4>5, <4>6
      <3>3. QED
        BY <2>2, <2>4, <3>1, <3>2 DEF HeldAsStored
    <2>5. CASE ~(p[1] \in members /\ file[p[1]] # "queued")
      <3>1. held[p] = <<>>
        BY <2>1, <2>5, Zenon DEF HeldAsStored
      <3>2. held'[p] = <<>>
        BY <2>2, <2>3, <3>1
      <3>3. QED
        BY <2>5, <3>2 DEF HeldAsStored
    <2>6. QED
      BY <2>4, <2>5
  <1>5. HeldInv'
    <2>1. \A f \in members : file[f] = "closed"
      BY DEF HeldInv
    <2>2. QED
      BY <1>4, <2>1 DEF HeldInv
  <1>6. ASSUME NEW p \in Places
        PROVE  DOMAIN held'[p] = DOMAIN held[p]
    BY <1>1, MarkingEffect
  <1>7. Refs(held') = Refs(held)
    BY <1>6 DEF Refs
  <1>8. ASSUME NEW r \in Refs(held)
        PROVE  /\ At(held', r).what = At(held, r).what
               /\ At(held', r).reportable = At(held, r).reportable
               /\ At(held', r).of = IF r \in DOMAIN of THEN of[r] ELSE At(held, r).of
    <2>1. PICK p \in Places, k \in DOMAIN held[r[1]] : r = <<p, k>> /\ k \in DOMAIN held[p] /\ r[1] = p /\ r[2] = k
      BY <1>1, RefFacts
    <2>2. At(held', r) = held'[p][k] /\ At(held, r) = held[p][k]
      BY <2>1 DEF At
    <2>3. /\ held'[p][k].what = held[p][k].what
          /\ held'[p][k].reportable = held[p][k].reportable
          /\ held'[p][k].of = IF <<p, k>> \in DOMAIN of THEN of[<<p, k>>] ELSE held[p][k].of
      BY <1>1, <2>1, MarkingEffect
    <2>4. QED
      BY <2>1, <2>2, <2>3, Zenon
  <1>9. Reportable(held') = Reportable(held)
    <2> DEFINE was(r) == At(held, r).reportable
               is(r) == At(held', r).reportable
    <2>1. \A r \in Refs(held) : is(r) = was(r)
      BY <1>8
    <2>2. Reportable(held) = {r \in Refs(held) : was(r)} /\ Reportable(held') = {r \in Refs(held) : is(r)}
      BY <1>7 DEF Reportable
    <2> HIDE DEF was, is
    <2>3. QED
      BY <2>1, <2>2
  <1>10. MarkedAs(of)
    BY <1>7, <1>8, <1>9 DEF MarkedAs
  <1>11. QED
    BY <1>3, <1>5, <1>10


\* An exact group has one first member, which all its members agree on.
LEMMA FirstOfExactGroup ==
    ASSUME FindingsAssumption, TypeOK, NEW r \in InExactGroups, NEW q, q = FirstOf(ExactGroup(r))
    PROVE  /\ q \in Reportable(held)
           /\ Group[At(held, q).what] = Group[At(held, r).what]
           /\ q # r => q \in InExactGroups /\ FirstOf(ExactGroup(q)) = q
  <1>1. PICK group : group = ExactGroup(r)
    OBVIOUS
  <1>2. r \in group /\ group \subseteq Found /\ group # {r}
    BY <1>1 DEF InExactGroups, ExactGroup
  <1>3. group \subseteq Reportable(held) /\ group \subseteq Refs(held)
    BY <1>2 DEF Found, Reportable
  <1>4. group \subseteq RefSpace /\ IsFiniteSet(group)
    BY <1>3, RefsAreFinite, FS_Subset DEF TypeOK
  <1>5. q \in group
    BY <1>1, <1>2, <1>4, FirstExists
  <1>6. /\ Group[At(held, q).what] = Group[At(held, r).what]
        /\ Reviewed(q[1][1])
    BY <1>1, <1>5 DEF ExactGroup
  <1>7. ExactGroup(q) = group
    BY <1>1, <1>6 DEF ExactGroup
  <1>8. ASSUME q # r
        PROVE  q \in InExactGroups
    BY <1>2, <1>5, <1>6, <1>7, <1>8 DEF InExactGroups
  <1>9. QED
    BY <1>1, <1>3, <1>5, <1>6, <1>7, <1>8

\* A reference to an issue names the block of that issue.
Names(reference, q) == reference \in Places \X (0 .. MaxIssues) /\ reference[1] = q[1]

LEMMA ReferencesFit ==
    ASSUME FindingsAssumption, TypeOK, NEW r \in Reportable(held), NEW q \in Reportable(held)
    PROVE  /\ r \in Refs(held) /\ q \in Refs(held)
           /\ Names(ExactReference(r, q), q)
           /\ Names(<<q[1], q[2] - 1>>, q)
  <1>1. r \in Refs(held) /\ q \in Refs(held)
    BY DEF Reportable
  <1>2. q[1] \in Places /\ r[2] \in 1 .. MaxIssues /\ q[2] \in 1 .. MaxIssues /\ MaxIssues \in Nat
    BY <1>1, RefFacts DEF TypeOK, FindingsAssumption
  <1>3. PICK p, k : p = q[1] /\ k = IF q[2] = 1 THEN r[2] ELSE q[2] - 1
    OBVIOUS
  <1>4. k \in 0 .. MaxIssues /\ q[2] - 1 \in 0 .. MaxIssues
    BY <1>2, <1>3
  <1>5. ExactReference(r, q) = <<p, k>>
    BY <1>3 DEF ExactReference
  <1>6. QED
    BY <1>1, <1>2, <1>3, <1>4, <1>5 DEF Names

LEMMA ExactDuplicatesStep ==
    ASSUME FindingsAssumption, IssueInv, ExactDuplicates
    PROVE  IssueInv'
  <1>1. TypeOK /\ HeldInv /\ marked = {}
    BY DEF IssueInv, DuplicateInv, ExactDuplicates
  <1> DEFINE first(r) == FirstOf(ExactGroup(r))
             of == [r \in InExactGroups |->
                       IF r = first(r) THEN NoDuplicate ELSE ExactReference(r, first(r))]
  <1>2. InExactGroups \subseteq Reportable(held)
    BY DEF InExactGroups, Found
  <1>3. \A r \in InExactGroups : /\ first(r) \in Reportable(held)
                                 /\ Group[At(held, first(r)).what] = Group[At(held, r).what]
                                 /\ first(r) # r => /\ first(r) \in InExactGroups
                                                    /\ first(first(r)) = first(r)
    BY <1>1, FirstOfExactGroup
  <1>4. Mark(of) /\ marked' = (marked \ DOMAIN of) \cup {r \in DOMAIN of : of[r] # NoDuplicate}
    BY DEF ExactDuplicates, Mark
  <1> HIDE DEF first
  <1>5. /\ DOMAIN of = InExactGroups
        /\ \A r \in DOMAIN of : of[r] = IF r = first(r) THEN NoDuplicate ELSE ExactReference(r, first(r))
    OBVIOUS
  <1> HIDE DEF of
  <1>6. ASSUME NEW r \in DOMAIN of
        PROVE  of[r] \in {NoDuplicate} \cup (Places \X (0 .. MaxIssues))
    <2>1. r \in Reportable(held) /\ first(r) \in Reportable(held)
      BY <1>2, <1>3, <1>5
    <2>2. Names(ExactReference(r, first(r)), first(r))
      BY <1>1, <2>1, ReferencesFit
    <2>3. ExactReference(r, first(r)) \in Places \X (0 .. MaxIssues)
      BY <2>2 DEF Names
    <2>4. QED
      BY <1>5, <2>3
  <1>7. /\ UNCHANGED <<state, file, members, runs, notes>> /\ batch' = "exact"
        /\ \A f \in members : file[f] = "closed"
    BY DEF ExactDuplicates
  <1>8. TypeOK' /\ HeldInv' /\ MarkedAs(of)
    BY <1>1, <1>4, <1>6, <1>7, MarkEffect
  <1>9. marked' \subseteq InExactGroups /\ marked' \subseteq Refs(held')
    BY <1>1, <1>2, <1>4, <1>5, <1>8 DEF MarkedAs, Reportable
  <1>10. ASSUME NEW r \in marked'
         PROVE  \E q \in Refs(held') : Refers(r, q)' /\ Original(q)'
    <2>1. r \in InExactGroups /\ of[r] # NoDuplicate
      BY <1>1, <1>4, <1>9
    <2>2. PICK q : q = first(r)
      OBVIOUS
    <2>3. q # r /\ of[r] = ExactReference(r, q)
      BY <1>5, <2>1, <2>2
    <2>4. /\ q \in Reportable(held) /\ r \in Reportable(held)
          /\ q \in DOMAIN of /\ of[q] = NoDuplicate
          /\ Group[At(held, q).what] = Group[At(held, r).what]
      BY <1>2, <1>3, <1>5, <2>1, <2>2, <2>3
    <2>5. r \in Refs(held) /\ q \in Refs(held) /\ of[r][1] = q[1]
      <3>1. r \in Refs(held) /\ q \in Refs(held) /\ Names(ExactReference(r, q), q)
        BY <1>1, <2>4, ReferencesFit
      <3>2. Names(of[r], q)
        BY <2>3, <3>1
      <3>3. QED
        BY <3>1, <3>2 DEF Names
    <2>6. /\ At(held', r).of = of[r] /\ At(held', q).of = NoDuplicate
          /\ Group[At(held', q).what] = Group[At(held', r).what]
          /\ q \in Reportable(held') /\ q \in Refs(held')
      BY <1>5, <1>8, <2>1, <2>4, <2>5 DEF MarkedAs
    <2>7. Refers(r, q)' /\ Original(q)'
      BY <2>5, <2>6 DEF Refers, Original, SaysTheSame
    <2>8. QED
      BY <2>6, <2>7
  <1>11. DuplicateInv'
    BY <1>7, <1>9, <1>10 DEF DuplicateInv
  <1>12. QED
    BY <1>8, <1>11 DEF IssueInv

\* The members of a semantic group lead to its first one; of what was marked before, an
\* original may be in a group, so that one more step leads to the first one.
LEMMA SemanticDuplicatesStep ==
    ASSUME FindingsAssumption, IssueInv, SemanticDuplicates
    PROVE  IssueInv'
  <1>1. TypeOK /\ HeldInv /\ DuplicateInv
    BY DEF IssueInv
  <1> DEFINE group(first, r) == {q \in Found : first[q] = first[r]}
             safe(first) == {r \in Found :
                               /\ group(first, r) # {r}
                               /\ <<At(held, first[r]).what,
                                    {At(held, q).what : q \in group(first, r)}>> \in Safe}
             given(first) == [r \in safe(first) |->
                                IF r = first[r] THEN NoDuplicate ELSE <<first[r][1], first[r][2] - 1>>]
  <1>2. PICK first \in [Found -> Found] :
           /\ \A r \in Found : first[first[r]] = first[r]
           /\ Mark(given(first))
    BY DEF SemanticDuplicates
  <1> DEFINE F == safe(first)
             of == given(first)
  <1>3. F \subseteq Found /\ Found \subseteq Reportable(held)
    BY DEF Found
  <1>4. ASSUME NEW r \in F
        PROVE  /\ first[r] \in Found
               /\ SaysTheSame(At(held, first[r]).what, At(held, r).what)
               /\ first[r] # r => first[r] \in F
    <2>1. PICK q : q = first[r]
      OBVIOUS
    <2>2. q \in Found /\ r \in Found /\ first[q] = q
      BY <1>2, <2>1
    <2>3. group(first, q) = group(first, r) /\ r \in group(first, r)
      BY <2>1, <2>2
    <2>4. PICK whats : whats = {At(held, i).what : i \in group(first, r)}
      OBVIOUS
    <2>5. <<At(held, q).what, whats>> \in Safe
      BY <2>1, <2>4
    <2>6. At(held, r).what \in whats
      BY <2>3, <2>4
    <2>7. SaysTheSame(At(held, q).what, At(held, r).what)
      BY <2>5, <2>6 DEF SaysTheSame
    <2>8. ASSUME q # r
          PROVE  q \in F
      <3>1. group(first, q) # {q}
        BY <2>3, <2>8
      <3>2. <<At(held, first[q]).what, {At(held, i).what : i \in group(first, q)}>> \in Safe
        BY <2>2, <2>3, <2>4, <2>5
      <3> HIDE DEF group
      <3>3. QED
        BY <2>2, <3>1, <3>2
    <2> HIDE DEF F
    <2>9. QED
      BY <2>1, <2>2, <2>7, <2>8
  <1>5. /\ DOMAIN of = F
        /\ \A r \in F : of[r] = IF r = first[r] THEN NoDuplicate ELSE <<first[r][1], first[r][2] - 1>>
    OBVIOUS
  <1>6. Mark(of) /\ marked' = (marked \ DOMAIN of) \cup {r \in DOMAIN of : of[r] # NoDuplicate}
    BY <1>2 DEF Mark
  <1> HIDE DEF safe, F, of
  <1>7. ASSUME NEW r \in DOMAIN of
        PROVE  of[r] \in {NoDuplicate} \cup (Places \X (0 .. MaxIssues))
    <2>1. r \in Reportable(held) /\ first[r] \in Reportable(held)
      BY <1>3, <1>4, <1>5
    <2>2. Names(<<first[r][1], first[r][2] - 1>>, first[r])
      BY <1>1, <2>1, ReferencesFit
    <2>3. <<first[r][1], first[r][2] - 1>> \in Places \X (0 .. MaxIssues)
      BY <2>2 DEF Names
    <2>4. QED
      BY <1>5, <2>3
  <1>8. /\ UNCHANGED <<state, file, members, runs, notes>> /\ batch = "exact" /\ batch' = "done"
    BY DEF SemanticDuplicates
  <1>9. TypeOK' /\ HeldInv' /\ MarkedAs(of)
    BY <1>1, <1>6, <1>7, <1>8, MarkEffect
  <1>10. /\ marked' \subseteq Refs(held')
         /\ \A r \in marked' : (r \in F /\ first[r] # r) \/ (r \in marked /\ r \notin F)
    BY <1>1, <1>3, <1>5, <1>6, <1>9 DEF MarkedAs, Reportable, DuplicateInv
  <1>11. ASSUME NEW r \in F, first[r] # r
         PROVE  \E o \in Refs(held') : Refers(r, o)' /\ Original(o)'
    <2>1. PICK o : o = first[r]
      OBVIOUS
    <2>2. /\ o \in F /\ first[o] = o
          /\ SaysTheSame(At(held, o).what, At(held, r).what)
      BY <1>2, <1>3, <1>4, <1>11, <2>1
    <2>3. r \in Reportable(held) /\ o \in Reportable(held)
      BY <1>3, <2>2
    <2>4. of[r] = <<o[1], o[2] - 1>> /\ of[o] = NoDuplicate
      BY <1>5, <1>11, <2>1, <2>2
    <2>5. r \in Refs(held) /\ o \in Refs(held) /\ of[r][1] = o[1]
      BY <1>1, <2>3, <2>4, ReferencesFit DEF Names
    <2>6. /\ At(held', r).of = of[r] /\ At(held', o).of = NoDuplicate
          /\ At(held', o).what = At(held, o).what /\ At(held', r).what = At(held, r).what
          /\ o \in Reportable(held') /\ o \in Refs(held')
      BY <1>5, <1>9, <2>2, <2>3, <2>4, <2>5 DEF MarkedAs
    <2>7. Refers(r, o)' /\ Original(o)'
      BY <2>2, <2>5, <2>6 DEF Refers, Original, SaysTheSame
    <2>8. QED
      BY <2>6, <2>7
  <1>12. ASSUME NEW r \in marked, r \notin F
         PROVE  \E q \in Refs(held') :
                   /\ Refers(r, q)'
                   /\ Original(q)' \/ \E o \in Refs(held') : Refers(q, o)' /\ Original(o)'
    <2>1. PICK q \in Refs(held) : Refers(r, q) /\ Original(q)
      BY <1>1, <1>8, <1>12 DEF DuplicateInv
    <2>2. r \in Refs(held) /\ q \in Reportable(held)
      BY <1>1, <1>12, <2>1 DEF DuplicateInv, Refers
    <2>3. /\ At(held', r).of = At(held, r).of /\ At(held', r).what = At(held, r).what
          /\ At(held', q).what = At(held, q).what
          /\ q \in Reportable(held') /\ q \in Refs(held')
          /\ q \in F => At(held', q).of = of[q]
          /\ q \notin F => At(held', q).of = At(held, q).of
      BY <1>5, <1>9, <1>12, <2>1, <2>2 DEF MarkedAs
    <2>4. Refers(r, q)'
      BY <2>1, <2>3 DEF Refers, SaysTheSame
    <2>5. CASE q \notin F \/ first[q] = q
      <3>1. Original(q)'
        BY <1>5, <2>1, <2>3, <2>5 DEF Original
      <3>2. QED
        BY <2>3, <2>4, <3>1
    <2>6. CASE q \in F /\ first[q] # q
      BY <1>11, <2>3, <2>4, <2>6
    <2>7. QED
      BY <2>5, <2>6
  <1>13. DuplicateInv'
    BY <1>8, <1>10, <1>11, <1>12 DEF DuplicateInv
  <1>14. QED
    BY <1>9, <1>13 DEF IssueInv

\* After the exact search one step leads to an original.
LEMMA NoSemanticDuplicatesStep ==
    ASSUME FindingsAssumption, IssueInv, NoSemanticDuplicates
    PROVE  IssueInv'
  <1>1. TypeOK /\ HeldInv /\ DuplicateInv
    BY DEF IssueInv
  <1>2. TypeOK'
    BY <1>1 DEF TypeOK, NoSemanticDuplicates
  <1>3. HeldInv'
    BY <1>1 DEF HeldInv, HeldAsStored, NoSemanticDuplicates
  <1>4. DuplicateInv'
    BY <1>1 DEF DuplicateInv, Refers, Original, NoSemanticDuplicates
  <1>5. QED
    BY <1>2, <1>3, <1>4 DEF IssueInv

\* Feedback changes nothing else of an issue, and only in the database.
LEMMA SaveFeedbackEffect ==
    ASSUME FindingsAssumption, TypeOK, NEW r \in Reportable(stored), SaveFeedback(r)
    PROVE  /\ stored' \in Lists
           /\ \A p \in Places : /\ Len(stored'[p]) = Len(stored[p])
                                 /\ DOMAIN stored'[p] = DOMAIN stored[p]
                                 /\ \A k \in DOMAIN stored[p] :
                                       SameButNote(stored[p][k], stored'[p][k])
  <1>1. stored \in Lists /\ r \in Refs(stored) /\ r[1] \in Places /\ r[2] \in DOMAIN stored[r[1]]
    BY RefFacts DEF TypeOK, Reportable
  <1>2. PICK p \in Places : p = r[1]
    BY <1>1
  <1>3. PICK issues, k : issues = stored[p] /\ k = r[2]
    OBVIOUS
  <1>4. PICK n \in Nat : n = Len(issues) /\ n <= MaxIssues
    BY <1>1, <1>3, RefFacts
  <1>5. issues \in Seq(Issue) /\ DOMAIN issues = 1 .. n /\ k \in 1 .. n
    BY <1>1, <1>2, <1>3, <1>4, RefFacts
  <1>6. PICK i \in Issue : i = issues[k]
    BY <1>5
  <1>7. PICK noted : noted = [i EXCEPT !.note = TRUE]
    OBVIOUS
  <1>8. noted \in Issue /\ noted.of = i.of /\ noted.what = i.what
    BY <1>6, <1>7 DEF Issue
  <1>9. noted.reportable = i.reportable
    BY <1>6, <1>7, Zenon DEF Issue
  <1>10. PICK list : list = [issues EXCEPT ![k] = noted]
    OBVIOUS
  <1>11. /\ list \in Seq(Issue) /\ Len(list) = n /\ DOMAIN list = 1 .. n
         /\ \A j \in 1 .. n : list[j] = IF j = k THEN noted ELSE issues[j]
    BY <1>4, <1>5, <1>8, <1>10
  <1>12. stored' = [stored EXCEPT ![p] = list]
    BY <1>2, <1>3, <1>6, <1>7, <1>10 DEF SaveFeedback
  <1>13. stored'[p] = list /\ \A b \in Places : b # p => stored'[b] = stored[b]
    BY <1>1, <1>12 DEF Lists
  <1>14. stored' \in Lists
    <2>1. stored' = [b \in Places |-> stored'[b]]
      BY <1>1, <1>12 DEF Lists
    <2>2. ASSUME NEW b \in Places
          PROVE  stored'[b] \in Seq(Issue) /\ Len(stored'[b]) <= MaxIssues
      BY <1>1, <1>4, <1>11, <1>13, RefFacts
    <2>3. QED
      BY <2>1, <2>2, ListsOf
  <1>15. ASSUME NEW b \in Places
         PROVE  /\ Len(stored'[b]) = Len(stored[b]) /\ DOMAIN stored'[b] = DOMAIN stored[b]
                /\ \A j \in DOMAIN stored[b] : SameButNote(stored[b][j], stored'[b][j])
    <2>1. CASE b = p
      <3>1. stored'[b] = list /\ stored[b] = issues
        BY <1>3, <1>13, <2>1
      <3>2. SameButNote(i, noted) /\ \A j \in 1 .. n : SameButNote(issues[j], issues[j])
        BY <1>8, <1>9, Zenon DEF SameButNote
      <3>3. \A j \in 1 .. n : SameButNote(issues[j], list[j])
        BY <1>6, <1>11, <3>2
      <3>4. QED
        BY <1>4, <1>5, <1>11, <3>1, <3>3
    <2>2. CASE b # p
      BY <1>13, <2>2 DEF SameButNote
    <2>3. QED
      BY <2>1, <2>2
  <1>16. QED
    BY <1>14, <1>15

LEMMA SaveFeedbackStep ==
    ASSUME FindingsAssumption, IssueInv, NEW r \in Reportable(stored), SaveFeedback(r)
    PROVE  IssueInv'
  <1>1. TypeOK /\ HeldInv /\ DuplicateInv
    BY DEF IssueInv
  <1>2. /\ stored' \in Lists
        /\ \A p \in Places : /\ Len(stored'[p]) = Len(stored[p])
                              /\ DOMAIN stored'[p] = DOMAIN stored[p]
                              /\ \A k \in DOMAIN stored[p] : SameButNote(stored[p][k], stored'[p][k])
    BY <1>1, SaveFeedbackEffect
  <1>3. UNCHANGED <<state, held, file, members, batch, marked, runs>>
    BY DEF SaveFeedback
  <1>4. notes' \in 0 .. MaxNotes
    BY <1>1 DEF TypeOK, SaveFeedback, FindingsAssumption
  <1>5. TypeOK'
    BY <1>1, <1>2, <1>3, <1>4 DEF TypeOK
  <1>6. ASSUME NEW p \in Places
        PROVE  HeldAsStored(p)'
    <2>1. HeldAsStored(p)
      BY <1>1 DEF HeldInv
    <2>2. CASE p[1] \in members /\ file[p[1]] # "queued"
      <3>1. Len(held[p]) = Len(stored[p]) /\ DOMAIN held[p] = DOMAIN stored[p]
        <4>1. DOMAIN held[p] = 1 .. Len(held[p]) /\ DOMAIN stored[p] = 1 .. Len(stored[p])
          BY <1>1, RefFacts DEF TypeOK
        <4>2. QED
          BY <2>1, <2>2, <4>1 DEF HeldAsStored
      <3>2. ASSUME NEW k \in DOMAIN held[p]
            PROVE  \/ SameButNote(held[p][k], stored'[p][k])
                   \/ file[p[1]] = "closed" /\ Unsaved(held[p][k], stored'[p][k])
        <4>1. \/ SameButNote(held[p][k], stored[p][k])
              \/ file[p[1]] = "closed" /\ Unsaved(held[p][k], stored[p][k])
          BY <2>1, <2>2 DEF HeldAsStored
        <4>2. SameButNote(stored[p][k], stored'[p][k])
          BY <1>2, <3>1
        <4>3. CASE SameButNote(held[p][k], stored[p][k])
          BY <4>2, <4>3, Zenon DEF SameButNote
        <4>4. CASE file[p[1]] = "closed" /\ Unsaved(held[p][k], stored[p][k])
          BY <4>2, <4>4, Zenon DEF SameButNote, Unsaved
        <4>5. QED
          BY <4>1, <4>3, <4>4
      <3>3. QED
        BY <1>2, <1>3, <2>2, <3>1, <3>2 DEF HeldAsStored
    <2>3. CASE ~(p[1] \in members /\ file[p[1]] # "queued")
      <3>1. held[p] = <<>>
        BY <2>1, <2>3, Zenon DEF HeldAsStored
      <3>2. QED
        BY <1>3, <2>3, <3>1 DEF HeldAsStored
    <2>4. QED
      BY <2>2, <2>3
  <1>7. HeldInv'
    BY <1>1, <1>3, <1>6 DEF HeldInv
  <1>8. DuplicateInv'
    BY <1>1, <1>3 DEF DuplicateInv, Refers, Original
  <1>9. QED
    BY <1>5, <1>7, <1>8 DEF IssueInv

-----------------------------------------------------------------------------
(* The theorems                                                            *)

LEMMA InitSatisfies ==
    ASSUME FindingsAssumption, Init
    PROVE  IssueInv
  <1>1. MaxIssues \in Nat /\ MaxRuns \in Nat /\ MaxNotes \in Nat
    BY DEF FindingsAssumption
  <1>2. /\ stored = [p \in Places |-> <<>>] /\ held = [p \in Places |-> <<>>]
        /\ state = [p \in Places |-> "pending"] /\ file = [f \in Files |-> "queued"]
        /\ members \subseteq Files /\ batch = "review" /\ marked = {} /\ runs = 0 /\ notes = 0
    BY DEF Init
  <1>3. stored \in Lists /\ held \in Lists
    BY <1>1, <1>2 DEF Lists
  <1>4. TypeOK
    BY <1>1, <1>2, <1>3 DEF TypeOK
  <1>5. \A p \in Places : p[1] \in Files
    BY PlacesAreFinite
  <1>6. HeldInv
    BY <1>2, <1>5 DEF HeldInv, HeldAsStored
  <1>7. DuplicateInv
    BY <1>2 DEF DuplicateInv
  <1>8. QED
    BY <1>4, <1>6, <1>7 DEF IssueInv

LEMMA StepPreserves ==
    ASSUME FindingsAssumption, IssueInv, [Next]_fileVars
    PROVE  IssueInv'
  <1>1. ASSUME NEW f \in Files, Open(f)
        PROVE  IssueInv'
    BY <1>1, OpenStep
  <1>2. ASSUME NEW f \in Files, Close(f)
        PROVE  IssueInv'
    BY <1>2, CloseStep
  <1>3. ASSUME NEW p \in Places, Review(p)
        PROVE  IssueInv'
    BY <1>3, ReviewStep
  <1>4. CASE ExactDuplicates
    BY <1>4, ExactDuplicatesStep
  <1>5. CASE SemanticDuplicates
    BY <1>5, SemanticDuplicatesStep
  <1>6. CASE NoSemanticDuplicates
    BY <1>6, NoSemanticDuplicatesStep
  <1>7. CASE NextBatch
    BY <1>7, NextBatchStep
  <1>8. ASSUME NEW r \in Reportable(stored), SaveFeedback(r)
        PROVE  IssueInv'
    BY <1>8, SaveFeedbackStep
  <1>9. CASE UNCHANGED fileVars
    <2>1. TypeOK'
      BY <1>9 DEF fileVars, IssueInv, TypeOK
    <2>2. HeldInv'
      BY <1>9 DEF fileVars, IssueInv, HeldInv, HeldAsStored
    <2>3. DuplicateInv'
      BY <1>9 DEF fileVars, IssueInv, DuplicateInv, Refers, Original
    <2>4. QED
      BY <2>1, <2>2, <2>3 DEF IssueInv
  <1>10. QED
    BY <1>1, <1>2, <1>3, <1>4, <1>5, <1>6, <1>7, <1>8, <1>9 DEF Next

\* However many batches and runs have opened, reviewed, closed and searched the files: the
\* run holds what is stored of them, but for feedback and what the save of a closed file
\* passes over, and what it has marked leads to originals (_review_file and the steps
\* of review_task around it).
THEOREM IssueInvariant == ASSUME FindingsAssumption PROVE Spec => []IssueInv
  <1>1. Init => IssueInv
    BY InitSatisfies
  <1>2. IssueInv /\ [Next]_fileVars => IssueInv'
    BY StepPreserves
  <1>3. QED
    BY <1>1, <1>2, PTL DEF Spec

\* What the run holds of an issue that is referred to is in the database as well.
LEMMA RefersLeads ==
    ASSUME FindingsAssumption, IssueInv, batch = "done", NEW r, NEW q \in Refs(held), Refers(r, q)
    PROVE  Leads(r, q)
  <1>1. held \in Lists /\ stored \in Lists
    BY DEF IssueInv, TypeOK
  <1>2. PICK p \in Places, k \in DOMAIN held[q[1]] : q = <<p, k>> /\ k \in DOMAIN held[p]
    BY <1>1, RefFacts
  <1>3. HeldAsStored(p)
    BY DEF IssueInv, HeldInv
  <1>4. /\ DOMAIN held[p] = 1 .. Len(held[p]) /\ DOMAIN stored[p] = 1 .. Len(stored[p])
    BY <1>1, RefFacts
  <1>5. held[p] # <<>>
    BY <1>2
  <1>6. /\ Len(held[p]) = Len(stored[p])
        /\ SameButNote(held[p][k], stored[p][k]) \/ Unsaved(held[p][k], stored[p][k])
    BY <1>2, <1>3, <1>5 DEF HeldAsStored
  <1>7. k \in DOMAIN stored[p] /\ q \in Refs(stored)
    BY <1>1, <1>2, <1>4, <1>6, RefFacts
  <1>8. At(held, q) = held[p][k] /\ At(stored, q) = stored[p][k]
    BY <1>2 DEF At
  <1>9. ASSUME q \in Reportable(stored)
        PROVE  At(stored, q).what = At(held, q).what /\ At(stored, q).of = At(held, q).of
    <2>1. stored[p][k].reportable
      BY <1>8, <1>9 DEF Reportable
    <2>2. SameButNote(held[p][k], stored[p][k])
      BY <1>6, <2>1, Zenon DEF Unsaved
    <2>3. QED
      BY <1>8, <2>2 DEF SameButNote
  <1>10. QED
    BY <1>7, <1>9 DEF Leads

\* However files were reviewed, retried and merged, in this batch and in those before it,
\* and however the model grouped what is left of them: an issue that is marked as a
\* duplicate leads to a block that reports an original which says the same, as the run
\* holds it and as it is stored (_deduplicate_batch_issues, _semantic_batch_deduplicate).
THEOREM DuplicatesLeadToOriginalsHolds ==
    ASSUME FindingsAssumption PROVE Spec => []DuplicatesLeadToOriginals
  <1>1. ASSUME IssueInv, batch = "done", NEW r \in marked
        PROVE  \E q \in Refs(held) :
                  /\ Leads(r, q)
                  /\ Original(q) \/ \E o \in Refs(held) : Leads(q, o) /\ Original(o)
    <2>1. PICK q \in Refs(held) :
             /\ Refers(r, q)
             /\ Original(q) \/ \E o \in Refs(held) : Refers(q, o) /\ Original(o)
      BY <1>1 DEF IssueInv, DuplicateInv
    <2>2. Leads(r, q)
      BY <1>1, <2>1, RefersLeads
    <2>3. ASSUME NEW o \in Refs(held), Refers(q, o)
          PROVE  Leads(q, o)
      BY <1>1, <2>3, RefersLeads
    <2>4. QED
      BY <2>1, <2>2, <2>3
  <1>2. IssueInv => DuplicatesLeadToOriginals
    BY <1>1 DEF DuplicatesLeadToOriginals
  <1>3. QED
    BY <1>2, IssueInvariant, PTL

\* Only the close of a file closes it.
LEMMA StepKeepsFindings ==
    ASSUME FindingsAssumption, IssueInv, [Next]_fileVars,
           NEW f \in Files, file[f] = "open" /\ file'[f] = "closed",
           NEW r \in Reportable(held), r[1][1] = f
    PROVE  /\ Reports(held', f, At(held, r).what)
           /\ Reports(stored', f, At(held, r).what) \/ PassedOver(r)
  <1>1. file \in [Files -> {"queued", "open", "closed"}] /\ file[f] # file'[f]
    BY DEF IssueInv, TypeOK
  <1>2. CASE Close(f)
    BY <1>2, CloseKeepsFindings
  <1>3. CASE ~Close(f)
    <2>1. ASSUME NEW g \in Files, Open(g)
          PROVE  FALSE
      BY <1>1, <2>1 DEF Open
    <2>2. ASSUME NEW g \in Files, Close(g), g # f
          PROVE  FALSE
      BY <1>1, <2>2 DEF Close
    <2>3. ASSUME NextBatch
          PROVE  FALSE
      BY <2>3 DEF NextBatch
    <2>4. ASSUME file' = file
          PROVE  FALSE
      BY <1>1, <2>4
    <2>5. QED
      BY <1>3, <2>1, <2>2, <2>3, <2>4
      DEF Next, Review, ExactDuplicates, SemanticDuplicates, NoSemanticDuplicates, SaveFeedback,
          fileVars
  <1>4. QED
    BY <1>2, <1>3

\* Merging the issues of a file as it is closed loses no finding of what the run holds,
\* whichever findings are equivalent and however often the file has been reviewed; and
\* none of what is stored but where the save passes over a replacement in the block
\* that lost no issue of its own (_merge_duplicate_file_issues, the save of _review_file).
THEOREM MergeKeepsFindingsHolds ==
    ASSUME FindingsAssumption PROVE Spec => MergeKeepsFindings
  <1>1. IssueInv /\ [Next]_fileVars =>
           [\A f \in Files : file[f] = "open" /\ file'[f] = "closed" =>
              \A r \in Reportable(held) : r[1][1] = f =>
                 /\ Reports(held', f, At(held, r).what)
                 /\ Reports(stored', f, At(held, r).what) \/ PassedOver(r)]_fileVars
    BY StepKeepsFindings
  <1>2. QED
    BY <1>1, IssueInvariant, PTL DEF Spec, MergeKeepsFindings
=============================================================================
