-------------------------- MODULE BlockIssuesProofs --------------------------
(***************************************************************************)
(* Machine-checked proofs about BlockIssues, for any changes, findings and *)
(* settings: a finding that is kept is anchored in the change, its place   *)
(* is not guessed, a faultless one about a single line is kept, and no     *)
(* block is skipped or reviewed for the wrong reason where the diff hides  *)
(* nothing.                                                                *)
(***************************************************************************)
EXTENDS BlockIssues, TLAPS, FiniteSetTheorems, SequenceTheorems, WellFoundedInduction

-----------------------------------------------------------------------------
(* Natural numbers                                                         *)

\* A set of natural numbers that is not empty has a least one.
LEMMA LeastExists ==
    ASSUME NEW S, S \subseteq Nat, S # {}
    PROVE  Min(S) \in S /\ \A y \in S : Min(S) <= y
  <1> DEFINE D == {0 .. x : x \in S}
             R == StrictSubsetOrdering(Nat)
  <1>1. D \subseteq FiniteSubsetsOf(Nat) /\ D # {}
    <2>1. ASSUME NEW x \in S PROVE (0 .. x) \subseteq Nat /\ IsFiniteSet(0 .. x)
      BY FS_Interval, 0 \in Int, x \in Int
    <2>2. QED
      BY <2>1 DEF FiniteSubsetsOf
  <1>2. IsWellFoundedOn(R, FiniteSubsetsOf(Nat))
    BY FS_StrictSubsetOrderingWellFounded
  <1>3. PICK d \in D : \A e \in D : ~ (<<e, d>> \in R)
    <2> HIDE DEF D, R
    <2>1. QED
      BY <1>1, <1>2, WFMin
  <1>4. PICK x \in S : d = 0 .. x
    OBVIOUS
  <1>5. ASSUME NEW y \in S, y < x
        PROVE  FALSE
    <2>1. (0 .. y) \subseteq (0 .. x) /\ x \in 0 .. x /\ x \notin 0 .. y
      BY <1>5
    <2>2. <<0 .. y, 0 .. x>> \in R
      BY <1>1, <2>1 DEF StrictSubsetOrdering
    <2>3. QED
      BY <1>3, <1>4, <2>2
  <1>6. \A y \in S : x <= y
    BY <1>5
  <1>7. QED
    BY <1>6 DEF Min

\* Induction up to a bound, with the set of the numbers that have the property.
LEMMA UpTo ==
    ASSUME NEW n \in Nat, NEW S, 0 \in S, \A m \in 0 .. n : m < n /\ m \in S => m + 1 \in S
    PROVE  \A m \in 0 .. n : m \in S
  <1> DEFINE T == (0 .. n) \ S
  <1>1. SUFFICES ASSUME T # {} PROVE FALSE
    OBVIOUS
  <1>2. Min(T) \in T /\ \A y \in T : Min(T) <= y
    BY <1>1, LeastExists, T \subseteq Nat
  <1>3. PICK m : m = Min(T)
    OBVIOUS
  <1>4. m \in 1 .. n /\ m \notin S /\ m - 1 \notin T
    BY <1>2, <1>3
  <1>5. m - 1 \in S /\ m - 1 \in 0 .. n /\ m - 1 < n
    BY <1>4
  <1>6. m - 1 + 1 \in S
    BY <1>5
  <1>7. QED
    BY <1>4, <1>6

\* A set of natural numbers up to a bound that is not empty has a greatest one.
LEMMA GreatestExists ==
    ASSUME NEW n \in Nat, NEW S, S \subseteq 0 .. n, S # {}
    PROVE  Max(S) \in S /\ \A y \in S : Max(S) >= y
  <1> DEFINE D == {n - x : x \in S}
  <1>1. D \subseteq Nat /\ D # {}
    OBVIOUS
  <1>2. Min(D) \in D /\ \A d \in D : Min(D) <= d
    BY <1>1, LeastExists
  <1>3. PICK x \in S : Min(D) = n - x
    BY <1>2
  <1>4. \A y \in S : n - x <= n - y
    BY <1>2, <1>3
  <1>5. \A y \in S : x >= y
    BY <1>4
  <1>6. QED
    BY <1>5 DEF Max

-----------------------------------------------------------------------------
(* Subsequences                                                            *)

\* The number of places up to i.
Count(S, i) == Cardinality({j \in S : j <= i})

CountsUp(S, n) ==
    /\ IsFiniteSet(S) /\ Cardinality(S) \in Nat
    /\ \A i \in 0 .. n : Count(S, i) \in Nat
    /\ Count(S, 0) = 0
    /\ Count(S, n) = Cardinality(S)
    /\ \A i \in 1 .. n :
         Count(S, i) = IF i \in S THEN Count(S, i - 1) + 1 ELSE Count(S, i - 1)

LEMMA CountUp ==
    ASSUME NEW n \in Nat, NEW S, S \subseteq 1 .. n
    PROVE  CountsUp(S, n)
  <1>0. \A j \in S : j \in Int /\ 1 <= j /\ j <= n
    OBVIOUS
  <1>1. IsFiniteSet(1 .. n)
    BY FS_Interval, 1 \in Int, n \in Int
  <1>2. IsFiniteSet(S)
    BY <1>1, FS_Subset
  <1>3. \A T : T \subseteq S => IsFiniteSet(T) /\ Cardinality(T) \in Nat
    BY <1>2, FS_Subset, FS_CardinalityType
  <1>4. \A i : {j \in S : j <= i} \subseteq S
    OBVIOUS
  <1>5. Count(S, 0) = 0
    <2>0. \A j \in S : ~(j <= 0)
      BY <1>0
    <2>1. {j \in S : j <= 0} = {}
      BY <2>0
    <2>2. QED
      BY <2>1, FS_EmptySet DEF Count
  <1>6. Count(S, n) = Cardinality(S)
    <2>1. {j \in S : j <= n} = S
      BY <1>0
    <2>2. QED
      BY <2>1 DEF Count
  <1>7. ASSUME NEW i \in 1 .. n
        PROVE  Count(S, i) = IF i \in S THEN Count(S, i - 1) + 1 ELSE Count(S, i - 1)
    <2> DEFINE A == {j \in S : j <= i - 1}
    <2>0. \A j \in S : j <= i <=> j <= i - 1 \/ j = i
      BY <1>0
    <2>1. {j \in S : j <= i} = IF i \in S THEN A \cup {i} ELSE A
      BY <2>0
    <2>2. IsFiniteSet(A) /\ i \notin A
      BY <1>3, <1>4
    <2>3. Cardinality(A \cup {i}) = Cardinality(A) + 1
      BY <2>2, FS_AddElement
    <2>4. QED
      BY <2>1, <2>3 DEF Count
  <1>8. QED
    BY <1>2, <1>3, <1>4, <1>5, <1>6, <1>7 DEF Count, CountsUp

Grows(S, i, j) ==
    /\ Count(S, i) <= Count(S, j)
    /\ i < j /\ j \in S => Count(S, i) < Count(S, j)
    /\ (\A k \in i + 1 .. j : k \in S) => Count(S, j) = Count(S, i) + (j - i)
    /\ (\A k \in i + 1 .. j : k \notin S) => Count(S, j) = Count(S, i)

LEMMA CountGrows ==
    ASSUME NEW n \in Nat, NEW S, S \subseteq 1 .. n, NEW i \in 0 .. n, NEW j \in 0 .. n, i <= j
    PROVE  Grows(S, i, j)
  <1> DEFINE P(d) == /\ Count(S, i) <= Count(S, i + d)
                     /\ d > 0 /\ i + d \in S => Count(S, i) < Count(S, i + d)
                     /\ (\A k \in i + 1 .. i + d : k \in S) => Count(S, i + d) = Count(S, i) + d
                     /\ (\A k \in i + 1 .. i + d : k \notin S) => Count(S, i + d) = Count(S, i)
             U == {d \in Nat : P(d)}
  <1>0. CountsUp(S, n)
    BY CountUp
  <1>1. \A k \in 0 .. n : Count(S, k) \in Nat
    BY <1>0 DEF CountsUp
  <1>2. 0 \in U
    BY <1>1
  <1>3. ASSUME NEW d \in 0 .. j - i, d < j - i, d \in U
        PROVE  d + 1 \in U
    <2>1. i + d + 1 \in 1 .. n /\ i + d \in 0 .. n
      BY <1>3
    <2>2. Count(S, i + d + 1) = IF i + d + 1 \in S THEN Count(S, i + d) + 1 ELSE Count(S, i + d)
      <3>1. \A k \in 1 .. n : Count(S, k) = IF k \in S THEN Count(S, k - 1) + 1 ELSE Count(S, k - 1)
        BY <1>0 DEF CountsUp
      <3>2. (i + d + 1) - 1 = i + d
        BY <1>3
      <3>3. QED
        BY <2>1, <3>1, <3>2
    <2>3. PICK a \in Nat : a = Count(S, i)
      BY <1>1
    <2>4. PICK b \in Nat : b = Count(S, i + d)
      BY <1>1, <2>1
    <2>5. P(d)
      BY <1>3
    <2>6. i + (d + 1) = i + d + 1 /\ i + d \in i .. j - 1
      BY <1>3
    <2>7. (\A k \in i + 1 .. i + d + 1 : k \in S) => b = a + d /\ i + d + 1 \in S
      BY <2>3, <2>4, <2>5, <2>6
    <2>8. (\A k \in i + 1 .. i + d + 1 : k \notin S) => b = a /\ i + d + 1 \notin S
      BY <2>3, <2>4, <2>5, <2>6
    <2>9. a <= b
      BY <2>3, <2>4, <2>5
    <2>10. PICK c : c = Count(S, i + d + 1)
      OBVIOUS
    <2>11. c = IF i + d + 1 \in S THEN b + 1 ELSE b
      BY <2>2, <2>4, <2>10
    <2>12. a <= c /\ (i + d + 1 \in S => a < c)
      BY <2>9, <2>11
    <2>13. P(d + 1)
      BY <2>3, <2>6, <2>7, <2>8, <2>9, <2>10, <2>11, <2>12
    <2>14. QED
      BY <2>13
  <1>4. j - i \in U
    <2> HIDE DEF U
    <2>1. j - i \in Nat
      OBVIOUS
    <2>2. QED
      BY <1>2, <1>3, <2>1, UpTo
  <1>5. P(j - i) /\ i + (j - i) = j
    BY <1>4
  <1>6. QED
    BY <1>5 DEF Grows

\* Every number up to the number of places is reached by one place.
LEMMA CountReaches ==
    ASSUME NEW n \in Nat, NEW S, S \subseteq 1 .. n, NEW k \in 1 .. Cardinality(S)
    PROVE  \E i \in S : Count(S, i) = k
  <1> DEFINE T == {i \in 0 .. n : Count(S, i) >= k}
  <1>0. CountsUp(S, n)
    BY CountUp
  <1>1. n \in T
    BY <1>0 DEF CountsUp
  <1>2. Min(T) \in T /\ \A y \in T : Min(T) <= y
    BY <1>1, LeastExists, T \subseteq Nat
  <1>3. PICK i : i = Min(T)
    OBVIOUS
  <1>4. Cardinality(S) \in Nat /\ k \in Int /\ k >= 1
    BY <1>0 DEF CountsUp
  <1>5. i \in 1 .. n
    <2>1. i # 0
      BY <1>0, <1>2, <1>3, <1>4 DEF CountsUp
    <2>2. QED
      BY <1>2, <1>3, <2>1
  <1>6. i - 1 \notin T /\ i - 1 \in 0 .. n
    BY <1>2, <1>3, <1>5
  <1>7. Count(S, i) >= k /\ ~(Count(S, i - 1) >= k)
    BY <1>2, <1>3, <1>6
  <1>8. Count(S, i) = IF i \in S THEN Count(S, i - 1) + 1 ELSE Count(S, i - 1)
    BY <1>0, <1>5 DEF CountsUp
  <1>9. Count(S, i - 1) \in Nat
    BY <1>0, <1>6 DEF CountsUp
  <1>10. i \in S /\ Count(S, i) = k
    BY <1>4, <1>7, <1>8, <1>9
  <1>11. QED
    BY <1>10

\* What is picked stands at the number of its place, and nothing else does.
PicksOut(s, S) ==
    /\ Cardinality(S) \in Nat
    /\ DOMAIN Picked(s, S) = 1 .. Cardinality(S)
    /\ Picked(s, S) \in Seq({s[i] : i \in S})
    /\ Len(Picked(s, S)) = Cardinality(S)
    /\ \A i \in S : /\ Count(S, i) \in 1 .. Cardinality(S)
                    /\ Picked(s, S)[Count(S, i)] = s[i]
    /\ \A k \in 1 .. Cardinality(S) :
         \E i \in S : Count(S, i) = k /\ Picked(s, S)[k] = s[i]
    /\ \A i, j \in S : Count(S, i) < Count(S, j) <=> i < j

LEMMA PickedAt ==
    ASSUME NEW n \in Nat, NEW S, S \subseteq 1 .. n, NEW s
    PROVE  PicksOut(s, S)
  <1>0. CountsUp(S, n)
    BY CountUp
  <1>1. Cardinality(S) \in Nat
    BY <1>0 DEF CountsUp
  <1>2. ASSUME NEW i \in S
        PROVE  Count(S, i) \in 1 .. Cardinality(S)
    <2>1. i \in 1 .. n /\ 0 \in 0 .. n /\ n \in 0 .. n /\ i \in 0 .. n /\ 0 <= i /\ i <= n /\ 0 < i
      OBVIOUS
    <2>2. Grows(S, 0, i)
      BY <2>1, CountGrows
    <2>3. Grows(S, i, n)
      BY <2>1, CountGrows
    <2>4. QED
      BY <1>0, <2>1, <2>2, <2>3 DEF Grows, CountsUp
  <1>3. ASSUME NEW i \in S, NEW j \in S, i < j
        PROVE  Count(S, i) < Count(S, j)
    <2>1. i \in 0 .. n /\ j \in 0 .. n /\ i <= j
      BY <1>3
    <2>2. Grows(S, i, j)
      BY <2>1, CountGrows
    <2>3. QED
      BY <1>3, <2>2 DEF Grows
  <1>4. ASSUME NEW i \in S, NEW j \in S
        PROVE  /\ Count(S, i) < Count(S, j) <=> i < j
               /\ Count(S, i) = Count(S, j) => i = j
    <2>1. i \in Int /\ j \in Int /\ Count(S, i) \in Int /\ Count(S, j) \in Int
      BY <1>1, <1>2
    <2>2. QED
      BY <1>3, <2>1
  <1>5. ASSUME NEW k \in 1 .. Cardinality(S)
        PROVE  \E i \in S : Count(S, i) = k /\ Picked(s, S)[k] = s[i]
    <2>1. PICK i \in S : Count(S, i) = k
      BY CountReaches
    <2>2. (CHOOSE p \in S : Count(S, p) = k) = i
      BY <1>4, <2>1
    <2>3. QED
      BY <2>1, <2>2 DEF Picked, Count
  <1>6. \A i \in S : Picked(s, S)[Count(S, i)] = s[i]
    BY <1>2, <1>4, <1>5
  <1>7. DOMAIN Picked(s, S) = 1 .. Cardinality(S)
    BY DEF Picked
  <1>8. Picked(s, S) \in [1 .. Cardinality(S) -> {s[i] : i \in S}]
    <2> DEFINE f == Picked(s, S)
    <2>1. f = [k \in 1 .. Cardinality(S) |-> f[k]]
      BY DEF Picked
    <2>2. \A k \in 1 .. Cardinality(S) : f[k] \in {s[i] : i \in S}
      BY <1>5
    <2> HIDE DEF f
    <2>3. f \in [1 .. Cardinality(S) -> {s[i] : i \in S}]
      BY <2>1, <2>2
    <2>4. QED
      BY <2>3 DEF f
  <1>9. Picked(s, S) \in Seq({s[i] : i \in S})
    BY <1>1, <1>8, IsASeq
  <1>10. Len(Picked(s, S)) = Cardinality(S)
    BY <1>1, <1>7, <1>9, LenProperties
  <1>11. QED
    BY <1>1, <1>2, <1>4, <1>5, <1>6, <1>7, <1>9, <1>10 DEF PicksOut

-----------------------------------------------------------------------------
(* A change and its two files                                              *)

Line == [mark : {" ", "-", "+"}, text : STRING]

\* The places of a change that stay when the lines marked gone are left out.
Stay(c, gone) == {i \in DOMAIN c : c[i].mark # gone}

LEMMA LinesOf ==
    ASSUME NEW c \in Seq(Line)
    PROVE  /\ Len(c) \in Nat /\ DOMAIN c = 1 .. Len(c)
           /\ \A i \in 1 .. Len(c) : c[i] \in Line /\ c[i].mark \in {" ", "-", "+"}
           /\ \A gone : Stay(c, gone) \subseteq 1 .. Len(c)
  <1>1. Len(c) \in Nat /\ DOMAIN c = 1 .. Len(c) /\ \A i \in 1 .. Len(c) : c[i] \in Line
    BY LenProperties, ElementOfSeq
  <1>2. QED
    BY <1>1 DEF Line, Stay

LEMMA NumberCounts ==
    ASSUME NEW c \in Seq(Line), NEW i \in 1 .. Len(c)
    PROVE  /\ c[i].mark = "-" => Number(c, i) = Count(Stay(c, "+"), i)
           /\ c[i].mark # "-" => Number(c, i) = Count(Stay(c, "-"), i)
  <1>0. Len(c) \in Nat /\ DOMAIN c = 1 .. Len(c)
    BY LinesOf
  <1>1. \A j : j \in 1 .. i <=> j \in DOMAIN c /\ j <= i
    BY <1>0
  <1>2. \A gone : {j \in 1 .. i : c[j].mark # gone} = {j \in Stay(c, gone) : j <= i}
    BY <1>1 DEF Stay
  <1>3. QED
    BY <1>2 DEF Number, Count

\* A line stands in its file at its number, and the numbers are in its order.
SideHas(c, gone) ==
    /\ Len(Side(c, gone)) \in Nat
    /\ DOMAIN Side(c, gone) = 1 .. Len(Side(c, gone))
    /\ Side(c, gone) \in Seq(Line)
    /\ \A i \in Stay(c, gone) : /\ Count(Stay(c, gone), i) \in 1 .. Len(Side(c, gone))
                                /\ Side(c, gone)[Count(Stay(c, gone), i)] = c[i]
    /\ \A n \in 1 .. Len(Side(c, gone)) :
         \E i \in Stay(c, gone) : Count(Stay(c, gone), i) = n /\ Side(c, gone)[n] = c[i]
    /\ \A i, j \in Stay(c, gone) :
         Count(Stay(c, gone), i) < Count(Stay(c, gone), j) <=> i < j

LEMMA SideLines ==
    ASSUME NEW c \in Seq(Line), NEW gone
    PROVE  SideHas(c, gone)
  <1>1. Len(c) \in Nat /\ Stay(c, gone) \subseteq 1 .. Len(c)
    BY LinesOf
  <1>2. PicksOut(c, Stay(c, gone))
    BY <1>1, PickedAt
  <1>3. Side(c, gone) = Picked(c, Stay(c, gone))
    BY DEF Side, Stay
  <1>4. Side(c, gone) \in Seq(Line)
    <2>1. {c[i] : i \in Stay(c, gone)} \subseteq Line
      BY <1>1, LinesOf
    <2>2. Picked(c, Stay(c, gone)) \in Seq({c[i] : i \in Stay(c, gone)})
      BY <1>2 DEF PicksOut
    <2>3. QED
      BY <1>3, <2>1, <2>2, SeqMonotonic
  <1>5. QED
    BY <1>2, <1>3, <1>4 DEF PicksOut, SideHas

\* The numbers of the lines that are not deleted.
NewHas(c) ==
    /\ Len(New(c)) \in Nat
    /\ DOMAIN New(c) = 1 .. Len(New(c))
    /\ New(c) \in Seq(Line)
    /\ \A i \in 1 .. Len(c) : c[i].mark # "-" => /\ Number(c, i) \in 1 .. Len(New(c))
                                                 /\ New(c)[Number(c, i)] = c[i]
    /\ \A n \in 1 .. Len(New(c)) :
         \E i \in 1 .. Len(c) : /\ c[i].mark # "-"
                                /\ Number(c, i) = n /\ New(c)[n] = c[i]
    /\ \A i, j \in 1 .. Len(c) :
         c[i].mark # "-" /\ c[j].mark # "-" => (Number(c, i) < Number(c, j) <=> i < j)

LEMMA NewLines ==
    ASSUME NEW c \in Seq(Line)
    PROVE  NewHas(c)
  <1>1. SideHas(c, "-")
    BY SideLines
  <1>2. \A i \in 1 .. Len(c) : c[i].mark # "-" <=> i \in Stay(c, "-")
    BY LinesOf DEF Stay
  <1>3. \A i \in 1 .. Len(c) : c[i].mark # "-" => Number(c, i) = Count(Stay(c, "-"), i)
    BY NumberCounts
  <1>4. \A i \in Stay(c, "-") : i \in 1 .. Len(c)
    BY LinesOf
  <1>5. QED
    BY <1>1, <1>2, <1>3, <1>4 DEF SideHas, NewHas, New

-----------------------------------------------------------------------------
(* The blocks of a change                                                  *)

\* A sequence of lines of a change, in their order, without a gap among the lines
\* that are shown.
PartOf(w, c) ==
    /\ Len(w) \in Nat /\ DOMAIN w = 1 .. Len(w)
    /\ \A i \in 1 .. Len(w) : /\ w[i].at \in 1 .. Len(c)
                              /\ w[i] = Numbered(c)[w[i].at]
                              /\ Shown(c, w[i].at)
    /\ \A i, j \in 1 .. Len(w) : i < j <=> w[i].at < w[j].at
    /\ \A i, j \in 1 .. Len(w), k \in 1 .. Len(c) :
         w[i].at < k /\ k < w[j].at /\ Shown(c, k) => \E m \in 1 .. Len(w) : w[m].at = k

LEMMA NumberedAt ==
    ASSUME NEW c \in Seq(Line)
    PROVE  /\ Len(Numbered(c)) = Len(c) /\ DOMAIN Numbered(c) = 1 .. Len(c)
           /\ \A i \in 1 .. Len(c) : /\ Numbered(c)[i].mark = c[i].mark
                                     /\ Numbered(c)[i].text = c[i].text
                                     /\ Numbered(c)[i].number = Number(c, i)
                                     /\ Numbered(c)[i].at = i
  <1>1. Len(c) \in Nat /\ DOMAIN c = 1 .. Len(c)
    BY LinesOf
  <1>2. QED
    BY <1>1 DEF Numbered

LEMMA DiffLinesPart ==
    ASSUME NEW c \in Seq(Line)
    PROVE  PartOf(DiffLines(c), c)
  <1> DEFINE S == {i \in DOMAIN c : Shown(c, i)}
             D == DiffLines(c)
  <1>1. Len(c) \in Nat /\ DOMAIN c = 1 .. Len(c) /\ S \subseteq 1 .. Len(c)
    BY LinesOf
  <1>2. PicksOut(Numbered(c), S)
    BY <1>1, PickedAt
  <1>3. D = Picked(Numbered(c), S)
    BY DEF DiffLines
  <1>4. \A i \in S : i \in 1 .. Len(c) /\ Shown(c, i) /\ Numbered(c)[i].at = i
    BY <1>1, NumberedAt
  <1>5. \A i \in 1 .. Len(c) : Shown(c, i) => i \in S
    BY <1>1
  <1> HIDE DEF S, D
  <1>6. Len(D) \in Nat /\ DOMAIN D = 1 .. Len(D)
    BY <1>2, <1>3 DEF PicksOut
  <1>7. ASSUME NEW k \in 1 .. Len(D)
        PROVE  D[k].at \in S /\ D[k] = Numbered(c)[D[k].at] /\ Count(S, D[k].at) = k
    BY <1>2, <1>3, <1>4 DEF PicksOut
  <1>8. \A i, j \in 1 .. Len(D) : i < j <=> D[i].at < D[j].at
    BY <1>2, <1>7 DEF PicksOut
  <1>9. ASSUME NEW k \in S
        PROVE  \E m \in 1 .. Len(D) : D[m].at = k
    BY <1>2, <1>3, <1>4 DEF PicksOut
  <1>10. QED
    BY <1>4, <1>5, <1>6, <1>7, <1>8, <1>9 DEF PartOf, D

LEMMA SubSeqPart ==
    ASSUME NEW c \in Seq(Line), NEW D, PartOf(D, c),
           NEW m \in Nat \ {0}, NEW n \in Nat, n <= Len(D)
    PROVE  PartOf(SubSeq(D, m, n), c)
  <1> DEFINE w == SubSeq(D, m, n)
             R == {D[i] : i \in 1 .. Len(D)}
  <1>0. Len(D) \in Nat
    BY DEF PartOf
  <1>1. /\ w \in Seq(R)
        /\ Len(w) = IF m <= n THEN n - m + 1 ELSE 0
        /\ \A i \in 1 .. n - m + 1 : w[i] = D[m + i - 1]
    <2>1. \A i \in m .. n : D[i] \in R
      BY <1>0
    <2> HIDE DEF R
    <2>2. m \in Int /\ n \in Int
      OBVIOUS
    <2>3. QED
      BY <2>1, <2>2, SubSeqProperties
  <1>2. Len(w) \in Nat /\ DOMAIN w = 1 .. Len(w)
    BY <1>1, LenProperties
  <1> HIDE DEF w
  <1>3. \A i \in 1 .. Len(w) : w[i] = D[m + i - 1] /\ m + i - 1 \in 1 .. Len(D)
    BY <1>0, <1>1
  <1>4. ASSUME NEW i \in 1 .. Len(w), NEW j \in 1 .. Len(w)
        PROVE  i < j <=> w[i].at < w[j].at
    <2>1. i < j <=> m + i - 1 < m + j - 1
      BY <1>1
    <2>2. \A p, q \in 1 .. Len(D) : p < q <=> D[p].at < D[q].at
      BY DEF PartOf
    <2>3. m + i - 1 < m + j - 1 <=> D[m + i - 1].at < D[m + j - 1].at
      BY <1>3, <2>2
    <2>4. QED
      BY <1>3, <2>1, <2>3
  <1>5. ASSUME NEW i \in 1 .. Len(w), NEW j \in 1 .. Len(w), NEW k \in 1 .. Len(c),
               w[i].at < k, k < w[j].at, Shown(c, k)
        PROVE  \E p \in 1 .. Len(w) : w[p].at = k
    <2>1. PICK x \in 1 .. Len(D) : x = m + i - 1 /\ w[i] = D[x]
      BY <1>3
    <2>2. PICK y \in 1 .. Len(D) : y = m + j - 1 /\ w[j] = D[y]
      BY <1>3
    <2>10. \A q, r \in 1 .. Len(D), o \in 1 .. Len(c) :
             D[q].at < o /\ o < D[r].at /\ Shown(c, o) => \E p \in 1 .. Len(D) : D[p].at = o
      BY DEF PartOf
    <2>3. PICK p \in 1 .. Len(D) : D[p].at = k
      BY <1>5, <2>1, <2>2, <2>10
    <2>4. x < p /\ p < y
      BY <1>5, <2>1, <2>2, <2>3 DEF PartOf
    <2>11. i \in Int /\ j \in Int /\ 1 <= i /\ j <= n - m + 1 /\ Len(w) = n - m + 1
      BY <1>1, <1>2
    <2>5. p - m + 1 \in 1 .. Len(w) /\ m + (p - m + 1) - 1 = p
      BY <1>0, <2>1, <2>2, <2>4, <2>11
    <2>6. QED
      BY <1>3, <2>3, <2>5
  <1>6. ASSUME NEW i \in 1 .. Len(w)
        PROVE  w[i].at \in 1 .. Len(c) /\ w[i] = Numbered(c)[w[i].at] /\ Shown(c, w[i].at)
    BY <1>3 DEF PartOf
  <1>7. QED
    BY <1>2, <1>4, <1>5, <1>6 DEF PartOf, w

\* A block is a part of the change it comes from.
LEMMA BlockPart ==
    ASSUME DiffAssumption, NEW c \in Seq(Line), NEW b \in DOMAIN Split(DiffLines(c))
    PROVE  PartOf(Split(DiffLines(c))[b], c)
  <1> DEFINE D == DiffLines(c)
             n == Min({b * Threshold, Len(D)})
             m == (b - 1) * Threshold + 1
  <1>1. PartOf(D, c)
    BY DiffLinesPart
  <1>3. Split(D)[b] = SubSeq(D, m, n)
    BY DEF Split
  <1> HIDE DEF D
  <1>4. b \in 1 .. (Len(D) + Threshold - 1) \div Threshold
    BY DEF Split, D
  <1>5. b \in Nat \ {0} /\ Threshold \in Nat \ {0}
    BY <1>4, DiffAssumption
  <1>6. b * Threshold \in Nat /\ m \in Nat \ {0}
    BY <1>5
  <1>7. Len(D) \in Nat
    BY <1>1 DEF PartOf
  <1>8. n \in {b * Threshold, Len(D)} /\ n <= Len(D)
    BY <1>6, <1>7, LeastExists, {b * Threshold, Len(D)} \subseteq Nat
  <1>9. n \in Nat
    BY <1>6, <1>7, <1>8
  <1> HIDE DEF m, n
  <1>10. PartOf(SubSeq(D, m, n), c)
    BY <1>1, <1>6, <1>8, <1>9, SubSeqPart
  <1>11. QED
    BY <1>3, <1>10 DEF D

-----------------------------------------------------------------------------
(* Reviewable lines                                                        *)

Between(i, k, j) == (i < k /\ k < j) \/ (j < k /\ k < i)

LEMMA GreatestIs ==
    ASSUME NEW S, S \subseteq Int, NEW x \in S, \A y \in S : x >= y
    PROVE  Max(S) = x
  <1>1. \A z \in S : z \in Int
    OBVIOUS
  <1>2. \A z \in S : (\A y \in S : z >= y) => z = x
    BY <1>1
  <1>3. QED
    BY <1>2 DEF Max

LEMMA LeastIs ==
    ASSUME NEW S, S \subseteq Int, NEW x \in S, \A y \in S : x <= y
    PROVE  Min(S) = x
  <1>1. \A z \in S : z \in Int
    OBVIOUS
  <1>2. \A z \in S : (\A y \in S : z <= y) => z = x
    BY <1>1
  <1>3. QED
    BY <1>2 DEF Min

\* The survivors of a line are the nearest lines that are not deleted.
LEMMA SurvivorsAre ==
    ASSUME NEW v, Len(v) \in Nat, NEW i \in 1 .. Len(v), NEW j
    PROVE  j \in Survivors(v, i) <=>
             /\ j \in 1 .. Len(v) /\ j # i /\ v[j].mark # "-"
             /\ \A k \in 1 .. Len(v) : Between(i, k, j) => v[k].mark = "-"
  <1> DEFINE A == {k \in i + 1 .. Len(v) : v[k].mark # "-"}
             B == {k \in 1 .. i - 1 : v[k].mark # "-"}
  <1>1. A \subseteq Int /\ B \subseteq Int /\ A \subseteq Nat /\ B \subseteq 0 .. Len(v)
    OBVIOUS
  <1>2. \A k : /\ k \in A <=> k \in 1 .. Len(v) /\ i < k /\ v[k].mark # "-"
               /\ k \in B <=> k \in 1 .. Len(v) /\ k < i /\ v[k].mark # "-"
    OBVIOUS
  <1>3. A # {} => Min(A) \in A /\ \A y \in A : Min(A) <= y
    BY <1>1, LeastExists
  <1>4. B # {} => Max(B) \in B /\ \A y \in B : Max(B) >= y
    BY <1>1, GreatestExists
  <1>5. Survivors(v, i) = (IF A = {} THEN {} ELSE {Min(A)}) \cup (IF B = {} THEN {} ELSE {Max(B)})
    BY DEF Survivors
  <1> HIDE DEF A, B
  <1>6. ASSUME j \in Survivors(v, i)
        PROVE  /\ j \in 1 .. Len(v) /\ j # i /\ v[j].mark # "-"
               /\ \A k \in 1 .. Len(v) : Between(i, k, j) => v[k].mark = "-"
    <2>1. CASE A # {} /\ j = Min(A)
      BY <1>2, <1>3, <2>1 DEF Between
    <2>2. CASE B # {} /\ j = Max(B)
      BY <1>2, <1>4, <2>2 DEF Between
    <2>3. QED
      BY <1>5, <1>6, <2>1, <2>2
  <1>7. ASSUME j \in 1 .. Len(v), j # i, v[j].mark # "-",
               \A k \in 1 .. Len(v) : Between(i, k, j) => v[k].mark = "-"
        PROVE  j \in Survivors(v, i)
    <2>1. CASE i < j
      <3>1. j \in A
        BY <1>2, <1>7, <2>1
      <3>2. ASSUME NEW y \in A
            PROVE  j <= y
        <4>1. y \in 1 .. Len(v) /\ i < y /\ v[y].mark # "-" /\ y \in Int
          BY <1>2
        <4>2. ~Between(i, y, j)
          BY <1>7, <4>1
        <4>3. QED
          BY <1>7, <4>1, <4>2 DEF Between
      <3>3. Min(A) = j
        BY <1>1, <3>1, <3>2, LeastIs
      <3>4. QED
        BY <1>5, <3>1, <3>3
    <2>2. CASE j < i
      <3>1. j \in B
        BY <1>2, <1>7, <2>2
      <3>2. ASSUME NEW y \in B
            PROVE  j >= y
        <4>1. y \in 1 .. Len(v) /\ y < i /\ v[y].mark # "-" /\ y \in Int
          BY <1>2
        <4>2. ~Between(i, y, j)
          BY <1>7, <4>1
        <4>3. QED
          BY <1>7, <4>1, <4>2 DEF Between
      <3>3. Max(B) = j
        BY <1>1, <3>1, <3>2, GreatestIs
      <3>4. QED
        BY <1>5, <3>1, <3>3
    <2>3. QED
      BY <1>7, <2>1, <2>2
  <1>8. QED
    BY <1>6, <1>7

\* With any context at all, the diff shows the survivors of a deleted line.
LEMMA SurvivorShown ==
    ASSUME NEW c \in Seq(Line), NEW p \in 1 .. Len(c), NEW q \in 1 .. Len(c), p # q,
           c[p].mark = "-", \A k \in 1 .. Len(c) : Between(p, k, q) => c[k].mark = "-",
           0 < Context
    PROVE  Shown(c, q)
  <1>1. Len(c) \in Nat /\ DOMAIN c = 1 .. Len(c)
    BY LinesOf
  <1>2. PICK m : m = Min({q, p})
    OBVIOUS
  <1>3. PICK n : n = Max({q, p})
    OBVIOUS
  <1>4. m \in {q, p} /\ m <= p /\ m <= q
    BY <1>2, LeastExists, {q, p} \subseteq Nat
  <1>5. n \in {q, p} /\ n >= p /\ n >= q
    BY <1>3, GreatestExists, {q, p} \subseteq 0 .. Len(c)
  <1>6. \A j \in m + 1 .. n - 1 : c[j].mark = "-"
    <2>0. (p < q /\ m = p /\ n = q) \/ (q < p /\ m = q /\ n = p)
      BY <1>4, <1>5
    <2>1. \A j \in m + 1 .. n - 1 : j \in 1 .. Len(c) /\ Between(p, j, q)
      BY <1>1, <2>0 DEF Between
    <2>2. QED
      BY <2>1
  <1>7. {j \in m + 1 .. n - 1 : c[j].mark # "-"} = {}
    BY <1>6
  <1>8. Cardinality({j \in m + 1 .. n - 1 : c[j].mark # "-"}) = 0
    BY <1>7, FS_EmptySet
  <1>9. p \in DOMAIN c /\ c[p].mark # " "
    BY <1>1
  <1>10. Cardinality({j \in m + 1 .. n - 1 : c[j].mark # "-"}) < Context
    BY <1>8
  <1>11. QED
    BY <1>2, <1>3, <1>9, <1>10 DEF Shown

\* Without context, the diff shows changed lines only.
LEMMA ShownChanged ==
    ASSUME NEW c \in Seq(Line), NEW q \in 1 .. Len(c), Shown(c, q), Context = 0
    PROVE  c[q].mark # " "
  <1>1. Len(c) \in Nat /\ DOMAIN c = 1 .. Len(c)
    BY LinesOf
  <1>2. PICK k \in 1 .. Len(c) :
            /\ c[k].mark # " "
            /\ \/ k = q
               \/ Cardinality({j \in Min({q, k}) + 1 .. Max({q, k}) - 1 : c[j].mark # "-"}) < Context
    BY <1>1 DEF Shown
  <1>3. PICK m : m = Min({q, k})
    OBVIOUS
  <1>4. PICK n : n = Max({q, k})
    OBVIOUS
  <1>5. m \in {q, k} /\ n \in {q, k}
    BY <1>1, <1>3, <1>4, LeastExists, GreatestExists, {q, k} \subseteq Nat, {q, k} \subseteq 0 .. Len(c)
  <1>6. IsFiniteSet(m + 1 .. n - 1)
    <2>1. m + 1 \in Int /\ n - 1 \in Int
      BY <1>5
    <2>2. QED
      BY <2>1, FS_Interval
  <1>7. Cardinality({j \in m + 1 .. n - 1 : c[j].mark # "-"}) \in Nat
    BY <1>6, FS_Subset, FS_CardinalityType
  <1>8. ~(Cardinality({j \in m + 1 .. n - 1 : c[j].mark # "-"}) < Context)
    BY <1>7
  <1>9. QED
    BY <1>2, <1>3, <1>4, <1>8

LEMMA ReviewableIs ==
    ASSUME NEW v, Len(v) \in Nat, DOMAIN v = 1 .. Len(v), NEW x
    PROVE  x \in Reviewable(v) <=>
             \E j \in 1 .. Len(v) :
                /\ x = v[j].number
                /\ \/ v[j].mark = "+"
                   \/ \E i \in 1 .. Len(v) : v[i].mark = "-" /\ j \in Survivors(v, i)
  <1>1. \A i \in 1 .. Len(v) : \A j \in Survivors(v, i) : j \in 1 .. Len(v)
    BY SurvivorsAre
  <1>2. QED
    BY <1>1 DEF Reviewable

\* What a block lets be reviewed is reviewable in the change as a whole.
LEMMA ReviewableGrows ==
    ASSUME DiffAssumption, NEW c \in Seq(Line), NEW w, PartOf(w, c)
    PROVE  Reviewable(w) \subseteq Reviewable(Numbered(c))
  <1> DEFINE v == Numbered(c)
  <1>1. Len(w) \in Nat /\ DOMAIN w = 1 .. Len(w)
    BY DEF PartOf
  <1>2. Len(c) \in Nat /\ Len(v) = Len(c) /\ DOMAIN v = 1 .. Len(c)
    BY LinesOf, NumberedAt
  <1>3. \A j \in 1 .. Len(c) : v[j].mark = c[j].mark
    BY NumberedAt
  <1>4. \A j \in 1 .. Len(w) : w[j].at \in 1 .. Len(c) /\ w[j] = v[w[j].at] /\ Shown(c, w[j].at)
    BY DEF PartOf
  <1> HIDE DEF v
  <1>5. SUFFICES ASSUME NEW x \in Reviewable(w) PROVE x \in Reviewable(v)
    BY DEF v
  <1>6. PICK j \in 1 .. Len(w) :
            /\ x = w[j].number
            /\ \/ w[j].mark = "+"
               \/ \E i \in 1 .. Len(w) : w[i].mark = "-" /\ j \in Survivors(w, i)
    BY <1>1, ReviewableIs
  <1>7. PICK q \in 1 .. Len(c) : q = w[j].at /\ w[j] = v[q] /\ Shown(c, q)
    BY <1>4
  <1>8. CASE v[q].mark = "+"
    <2>1. x = v[q].number /\ q \in 1 .. Len(v) /\ Len(v) \in Nat /\ DOMAIN v = 1 .. Len(v)
      BY <1>2, <1>6, <1>7
    <2>2. QED
      BY <1>8, <2>1, ReviewableIs
  <1>9. CASE v[q].mark # "+"
    <2>1. PICK i \in 1 .. Len(w) : w[i].mark = "-" /\ j \in Survivors(w, i)
      BY <1>6, <1>7, <1>9
    <2>2. PICK p \in 1 .. Len(c) : p = w[i].at /\ w[i] = v[p]
      BY <1>4
    <2>3. /\ j # i /\ w[j].mark # "-"
          /\ \A k \in 1 .. Len(w) : Between(i, k, j) => w[k].mark = "-"
      BY <1>1, <2>1, SurvivorsAre
    <2>4. c[q].mark = " "
      BY <1>3, <1>7, <1>9, <2>3, LinesOf
    <2>5. 0 < Context
      <3>1. Context # 0
        BY <1>7, <2>4, ShownChanged
      <3>2. QED
        BY <3>1, DiffAssumption
    <2>6. p # q /\ c[p].mark = "-" /\ v[q].mark # "-"
      BY <1>3, <1>7, <2>1, <2>2, <2>3
    <2>7. ASSUME NEW a \in 1 .. Len(c), Between(p, a, q), c[a].mark # "-"
          PROVE  FALSE
      <3> DEFINE A == {k \in 1 .. Len(c) : (k = a \/ Between(p, k, a)) /\ c[k].mark # "-"}
      <3>1. \A k \in A : Between(p, k, q) /\ k # p
        BY <2>7 DEF Between
      \* the one of them that is nearest to p
      <3>2. PICK r \in A : \A k \in A : ~Between(p, k, r)
        <4>0. A \subseteq Nat /\ A \subseteq 0 .. Len(c) /\ A # {}
          BY <1>2, <2>7
        <4>1. Min(A) \in A /\ \A y \in A : Min(A) <= y
          BY <4>0, LeastExists
        <4>2. Max(A) \in A /\ \A y \in A : Max(A) >= y
          BY <1>2, <4>0, GreatestExists
        <4>3. CASE p < a
          <5>1. \A k \in A : p < k
            BY <2>7, <4>3 DEF Between
          <5>2. PICK r \in A : \A y \in A : r <= y
            BY <4>1
          <5>3. \A k \in A : p < k /\ r <= k /\ k \in Int /\ r \in Int /\ p \in Int
            BY <4>0, <5>1, <5>2
          <5>4. \A k \in A : ~Between(p, k, r)
            BY <5>3 DEF Between
          <5>5. QED
            BY <5>4
        <4>4. CASE ~(p < a)
          <5>1. \A k \in A : k < p
            BY <2>7, <4>4 DEF Between
          <5>2. PICK r \in A : \A y \in A : r >= y
            BY <4>2
          <5>3. \A k \in A : k < p /\ r >= k /\ k \in Int /\ r \in Int /\ p \in Int
            BY <4>0, <5>1, <5>2
          <5>4. \A k \in A : ~Between(p, k, r)
            BY <5>3 DEF Between
          <5>5. QED
            BY <5>4
        <4>5. QED
          BY <4>3, <4>4
      <3>3. r \in 1 .. Len(c) /\ c[r].mark # "-" /\ Between(p, r, q) /\ p # r
        BY <3>1
      <3>4. \A k \in 1 .. Len(c) : Between(p, k, r) => c[k].mark = "-"
        BY <2>7, <3>2 DEF Between
      <3>5. Shown(c, r)
        BY <2>5, <2>6, <3>3, <3>4, SurvivorShown
      <3>6. PICK m \in 1 .. Len(w) : w[m].at = r
        <4>1. \A y, z \in 1 .. Len(w), k \in 1 .. Len(c) :
                w[y].at < k /\ k < w[z].at /\ Shown(c, k) => \E m \in 1 .. Len(w) : w[m].at = k
          BY DEF PartOf
        <4>2. (w[i].at < r /\ r < w[j].at) \/ (w[j].at < r /\ r < w[i].at)
          BY <1>7, <2>2, <3>3 DEF Between
        <4>3. QED
          BY <3>3, <3>5, <4>1, <4>2
      <3>7. Between(i, m, j)
        <4>1. \A y, z \in 1 .. Len(w) : y < z <=> w[y].at < w[z].at
          BY DEF PartOf
        <4>2. QED
          BY <1>7, <2>2, <3>3, <3>6, <4>1 DEF Between
      <3>8. w[m].mark = c[r].mark
        BY <1>3, <1>4, <3>6
      <3>9. QED
        BY <2>3, <3>3, <3>7, <3>8
    <2>8. \A k \in 1 .. Len(v) : Between(p, k, q) => v[k].mark = "-"
      BY <1>2, <1>3, <2>7
    <2>9. q \in Survivors(v, p)
      BY <1>2, <2>6, <2>8, SurvivorsAre
    <2>10. /\ x = v[q].number /\ q \in 1 .. Len(v) /\ p \in 1 .. Len(v) /\ v[p].mark = "-"
           /\ Len(v) \in Nat /\ DOMAIN v = 1 .. Len(v)
      BY <1>2, <1>3, <1>6, <1>7, <2>6
    <2>11. QED
      BY <2>9, <2>10, ReviewableIs
  <1>10. QED
    BY <1>8, <1>9

-----------------------------------------------------------------------------
(* The lines in which code is looked for                                   *)

\* Lines of the new file, with their numbers and in their order.
LinesIn(s, f) ==
    /\ Len(s) \in Nat /\ DOMAIN s = 1 .. Len(s)
    /\ \A k \in 1 .. Len(s) : s[k].number \in 1 .. Len(f) /\ s[k].text = f[s[k].number].text
    /\ \A j, k \in 1 .. Len(s) : j < k => s[j].number < s[k].number

LEMMA PickedLinesIn ==
    ASSUME NEW n \in Nat, NEW S, S \subseteq 1 .. n, NEW s, NEW f,
           \A i \in S : s[i].number \in 1 .. Len(f) /\ s[i].text = f[s[i].number].text,
           \A i, j \in S : i < j => s[i].number < s[j].number
    PROVE  LinesIn(Picked(s, S), f)
  <1> DEFINE P == Picked(s, S)
  <1>1. PicksOut(s, S)
    BY PickedAt
  <1>2. Len(P) \in Nat /\ DOMAIN P = 1 .. Len(P) /\ Len(P) = Cardinality(S)
    BY <1>1 DEF PicksOut
  <1>3. \A k \in 1 .. Len(P) : \E i \in S : Count(S, i) = k /\ P[k] = s[i]
    BY <1>1, <1>2 DEF PicksOut
  <1>4. \A i, j \in S : Count(S, i) < Count(S, j) <=> i < j
    BY <1>1 DEF PicksOut
  <1> HIDE DEF P
  <1>5. ASSUME NEW j \in 1 .. Len(P), NEW k \in 1 .. Len(P), j < k
        PROVE  P[j].number < P[k].number
    <2>1. PICK x \in S : Count(S, x) = j /\ P[j] = s[x]
      BY <1>3
    <2>2. PICK y \in S : Count(S, y) = k /\ P[k] = s[y]
      BY <1>3
    <2>3. x < y
      BY <1>4, <1>5, <2>1, <2>2
    <2>4. QED
      BY <2>1, <2>2, <2>3
  <1>6. \A k \in 1 .. Len(P) : P[k].number \in 1 .. Len(f) /\ P[k].text = f[P[k].number].text
    BY <1>3
  <1>7. QED
    BY <1>2, <1>5, <1>6 DEF LinesIn, P

LEMMA DiffSourceLines ==
    ASSUME NEW c \in Seq(Line), NEW w, PartOf(w, c)
    PROVE  LinesIn(DiffSource(w), New(c))
  <1> DEFINE S == {i \in DOMAIN w : w[i].mark # "-" /\ w[i].text # Blank}
  <1>1. Len(w) \in Nat /\ DOMAIN w = 1 .. Len(w)
    BY DEF PartOf
  <1>2. S \subseteq 1 .. Len(w)
    BY <1>1
  <1>3. \A i \in S : i \in 1 .. Len(w) /\ w[i].mark # "-"
    BY <1>1
  <1> HIDE DEF S
  <1>4. ASSUME NEW i \in S
        PROVE  /\ w[i].at \in 1 .. Len(c) /\ c[w[i].at].mark # "-"
               /\ w[i].number = Number(c, w[i].at) /\ w[i].text = c[w[i].at].text
    <2>1. w[i].at \in 1 .. Len(c) /\ w[i] = Numbered(c)[w[i].at]
      BY <1>3 DEF PartOf
    <2>2. PICK p \in 1 .. Len(c) : p = w[i].at
      BY <2>1
    <2>3. QED
      BY <1>3, <2>1, <2>2, NumberedAt
  <1>5. \A i \in S : w[i].number \in 1 .. Len(New(c)) /\ w[i].text = New(c)[w[i].number].text
    BY <1>4, NewLines DEF NewHas
  <1>6. ASSUME NEW i \in S, NEW j \in S, i < j
        PROVE  w[i].number < w[j].number
    <2>1. w[i].at < w[j].at
      BY <1>3, <1>6 DEF PartOf
    <2>2. PICK p \in 1 .. Len(c) : p = w[i].at /\ c[p].mark # "-" /\ w[i].number = Number(c, p)
      BY <1>4
    <2>3. PICK q \in 1 .. Len(c) : q = w[j].at /\ c[q].mark # "-" /\ w[j].number = Number(c, q)
      BY <1>4
    <2>4. NewHas(c)
      BY NewLines
    <2>5. Number(c, p) < Number(c, q)
      BY <2>1, <2>2, <2>3, <2>4 DEF NewHas
    <2>6. QED
      BY <2>2, <2>3, <2>5
  <1>7. LinesIn(Picked(w, S), New(c))
    BY <1>1, <1>2, <1>5, <1>6, PickedLinesIn
  <1>8. QED
    BY <1>7 DEF DiffSource, S

LEMMA FileSourceLines ==
    ASSUME NEW f \in Seq(Line)
    PROVE  LinesIn(FileSource(f), f)
  <1> DEFINE S == {n \in DOMAIN f : f[n].text # Blank}
             s == [n \in DOMAIN f |-> [number |-> n, text |-> f[n].text]]
  <1>1. Len(f) \in Nat /\ DOMAIN f = 1 .. Len(f)
    BY LinesOf
  <1>2. S \subseteq 1 .. Len(f)
    BY <1>1
  <1>3. \A i \in S : s[i].number = i /\ s[i].text = f[i].text /\ i \in 1 .. Len(f)
    BY <1>1
  <1> HIDE DEF S, s
  <1>4. \A i \in S : s[i].number \in 1 .. Len(f) /\ s[i].text = f[s[i].number].text
    BY <1>3
  <1>5. \A i, j \in S : i < j => s[i].number < s[j].number
    BY <1>3
  <1>6. LinesIn(Picked(s, S), f)
    BY <1>1, <1>2, <1>4, <1>5, PickedLinesIn
  <1>7. QED
    BY <1>6 DEF FileSource, S, s

\* A window is a part of the lines it is taken from.
LEMMA WindowLines ==
    ASSUME NEW s, NEW f, LinesIn(s, f), NEW width \in Nat \ {0}, NEW w \in Windows(s, width)
    PROVE  LinesIn(w, f) /\ Len(w) = width
  <1> DEFINE R == {s[i] : i \in 1 .. Len(s)}
  <1>0. Len(s) \in Nat
    BY DEF LinesIn
  <1>1. PICK i \in 1 .. Len(s) - width + 1 : w = SubSeq(s, i, i + width - 1)
    BY DEF Windows
  <1>2. \A k \in i .. i + width - 1 : s[k] \in R
    BY <1>0
  <1> HIDE DEF R
  <1>3. i \in Int /\ i + width - 1 \in Int
    BY <1>0
  <1>4. /\ w \in Seq(R)
        /\ Len(w) = IF i <= i + width - 1 THEN (i + width - 1) - i + 1 ELSE 0
        /\ \A k \in 1 .. (i + width - 1) - i + 1 : w[k] = s[i + k - 1]
    BY <1>1, <1>2, <1>3, SubSeqProperties
  <1>5. Len(w) = width /\ DOMAIN w = 1 .. Len(w)
    BY <1>0, <1>4, LenProperties
  <1>6. \A k \in 1 .. width : w[k] = s[i + k - 1] /\ i + k - 1 \in 1 .. Len(s)
    BY <1>0, <1>4
  <1>7. ASSUME NEW j \in 1 .. width, NEW k \in 1 .. width, j < k
        PROVE  w[j].number < w[k].number
    <2>1. i + j - 1 < i + k - 1
      BY <1>0, <1>7
    <2>2. QED
      BY <1>6, <2>1 DEF LinesIn
  <1>8. \A k \in 1 .. width : w[k].number \in 1 .. Len(f) /\ w[k].text = f[w[k].number].text
    BY <1>6 DEF LinesIn
  <1>9. QED
    BY <1>5, <1>7, <1>8 DEF LinesIn

-----------------------------------------------------------------------------
(* Candidates                                                              *)

Code == Seq(STRING \ {Blank}) \ {<<>>}

LEMMA CodeLines ==
    ASSUME NEW code \in Code
    PROVE  /\ Len(code) \in Nat \ {0} /\ DOMAIN code = 1 .. Len(code)
           /\ \A k \in 1 .. Len(code) : code[k] # Blank
  <1>1. code \in Seq(STRING \ {Blank}) /\ code # <<>>
    BY DEF Code
  <1>2. Len(code) \in Nat /\ DOMAIN code = 1 .. Len(code)
    BY <1>1, LenProperties
  <1>3. Len(code) # 0
    BY <1>1, EmptySeq
  <1>4. \A k \in 1 .. Len(code) : code[k] \in STRING \ {Blank}
    BY <1>1, ElementOfSeq
  <1>5. QED
    BY <1>2, <1>3, <1>4

\* The agreement is a number of lines, and complete just when all of them agree.
LEMMA AgreeingIs ==
    ASSUME NEW code \in Code, NEW v
    PROVE  /\ Agreeing(v, code) \in 0 .. Len(code)
           /\ Agreeing(v, code) = Len(code) <=> \A k \in 1 .. Len(code) : v[k].text = code[k]
  <1> DEFINE D == 1 .. Len(code)
             A == {k \in D : v[k].text = code[k]}
  <1>1. Len(code) \in Nat /\ DOMAIN code = D
    BY CodeLines
  <1>2. IsFiniteSet(D) /\ Cardinality(D) = Len(code)
    <2>1. 1 \in Int /\ Len(code) \in Int /\ Len(code) >= 1
      BY CodeLines
    <2>2. /\ IsFiniteSet(1 .. Len(code))
          /\ Cardinality(1 .. Len(code)) = IF 1 > Len(code) THEN 0 ELSE Len(code) - 1 + 1
      BY <2>1, FS_Interval
    <2>3. QED
      BY <2>1, <2>2
  <1>3. Agreeing(v, code) = Cardinality(A)
    BY <1>1 DEF Agreeing
  <1>4. A \in SUBSET D
    OBVIOUS
  <1>5. IsFiniteSet(A) /\ Cardinality(A) <= Cardinality(D) /\ (Cardinality(D) = Cardinality(A) => D = A)
    BY <1>2, <1>4, FS_Subset
  <1>6. Cardinality(A) \in Nat
    BY <1>5, FS_CardinalityType
  <1>7. D = A <=> \A k \in D : v[k].text = code[k]
    OBVIOUS
  <1> HIDE DEF A, D
  <1>8. Cardinality(A) = Len(code) <=> D = A
    BY <1>2, <1>5
  <1>9. Agreeing(v, code) \in 0 .. Len(code)
    BY <1>1, <1>2, <1>3, <1>5, <1>6
  <1>10. QED
    BY <1>3, <1>7, <1>8, <1>9 DEF D

\* The candidate that a window is.
Candidate(v, w, code) ==
    [first |-> v[1].number, last |-> v[Len(v)].number, score |-> Agreeing(v, code),
     overlap |-> \E k \in DOMAIN v : v[k].number \in Reviewable(w)]

WindowsOf(w, f, code) ==
    Windows(DiffSource(w), Len(code)) \cup Windows(FileSource(f), Len(code))

LEMMA CandidatesAre ==
    ASSUME NEW w, NEW f, NEW code
    PROVE  Candidates(w, f, code) = {Candidate(v, w, code) : v \in WindowsOf(w, f, code)}
  BY DEF Candidates, Candidate, WindowsOf

LEMMA CandidateWindow ==
    ASSUME NEW c \in Seq(Line), NEW w, PartOf(w, c), NEW code \in Code,
           NEW d \in Candidates(w, New(c), code)
    PROVE  \E v : LinesIn(v, New(c)) /\ Len(v) = Len(code) /\ d = Candidate(v, w, code)
  <1>1. PICK v \in WindowsOf(w, New(c), code) : d = Candidate(v, w, code)
    BY CandidatesAre
  <1>2. LinesIn(DiffSource(w), New(c))
    BY DiffSourceLines
  <1>3. LinesIn(FileSource(New(c)), New(c))
    BY FileSourceLines, NewLines DEF NewHas
  <1>4. Len(code) \in Nat \ {0}
    BY CodeLines
  <1>5. LinesIn(v, New(c)) /\ Len(v) = Len(code)
    <2>1. CASE v \in Windows(DiffSource(w), Len(code))
      BY <1>2, <1>4, <2>1, WindowLines
    <2>2. CASE v \in Windows(FileSource(New(c)), Len(code))
      BY <1>3, <1>4, <2>2, WindowLines
    <2>3. QED
      BY <1>1, <2>1, <2>2 DEF WindowsOf
  <1>6. QED
    BY <1>1, <1>5

\* A candidate is a range of lines of the new file.
IsCandidate(d, c, code) ==
    /\ d.first \in Nat \ {0} /\ d.last \in Nat /\ d.first <= d.last /\ d.last <= Len(New(c))
    /\ d.score \in 0 .. Len(code)
    /\ d.overlap \in BOOLEAN
    /\ d = [first |-> d.first, last |-> d.last, score |-> d.score, overlap |-> d.overlap]

LEMMA LinesInRange ==
    ASSUME NEW c \in Seq(Line), NEW v, LinesIn(v, New(c)), Len(v) \in Nat \ {0}
    PROVE  /\ v[1].number \in Nat \ {0} /\ v[Len(v)].number \in Nat
           /\ v[Len(v)].number <= Len(New(c)) /\ v[1].number <= v[Len(v)].number
           /\ \A k \in 1 .. Len(v) : v[k].number \in v[1].number .. v[Len(v)].number
  <1>1. Len(New(c)) \in Nat
    BY NewLines DEF NewHas
  <1>2. 1 \in 1 .. Len(v) /\ Len(v) \in 1 .. Len(v)
    OBVIOUS
  <1>3. \A k \in 1 .. Len(v) : v[k].number \in 1 .. Len(New(c)) /\ v[k].number \in Nat \ {0}
    BY <1>1 DEF LinesIn
  <1>4. \A j, k \in 1 .. Len(v) : j < k => v[j].number < v[k].number
    BY DEF LinesIn
  <1>5. ASSUME NEW k \in 1 .. Len(v)
        PROVE  v[1].number <= v[k].number /\ v[k].number <= v[Len(v)].number
    <2>1. (k = 1 \/ 1 < k) /\ (k = Len(v) \/ k < Len(v))
      OBVIOUS
    <2>2. QED
      BY <1>2, <1>3, <1>4, <2>1
  <1>6. QED
    BY <1>1, <1>2, <1>3, <1>5

LEMMA CandidateType ==
    ASSUME NEW c \in Seq(Line), NEW w, PartOf(w, c), NEW code \in Code,
           NEW d \in Candidates(w, New(c), code)
    PROVE  IsCandidate(d, c, code)
  <1>1. PICK v : LinesIn(v, New(c)) /\ Len(v) = Len(code) /\ d = Candidate(v, w, code)
    BY CandidateWindow
  <1>2. Len(v) \in Nat \ {0}
    BY <1>1, CodeLines
  <1>3. /\ v[1].number \in Nat \ {0} /\ v[Len(v)].number \in Nat
        /\ v[Len(v)].number <= Len(New(c)) /\ v[1].number <= v[Len(v)].number
    BY <1>1, <1>2, LinesInRange
  <1>4. Agreeing(v, code) \in 0 .. Len(code)
    BY AgreeingIs
  <1>5. PICK o \in BOOLEAN : o = (\E k \in DOMAIN v : v[k].number \in Reviewable(w))
    OBVIOUS
  <1>6. d = [first |-> v[1].number, last |-> v[Len(v)].number, score |-> Agreeing(v, code),
             overlap |-> o]
    BY <1>1, <1>5 DEF Candidate
  <1>7. /\ d.first = v[1].number /\ d.last = v[Len(v)].number /\ d.score = Agreeing(v, code)
        /\ d.overlap = o
    BY <1>6
  <1>8. QED
    BY <1>3, <1>4, <1>6, <1>7 DEF IsCandidate

-----------------------------------------------------------------------------
(* The best candidate                                                      *)

Distance(e, claim) ==
    IF claim = 0 THEN e.first ELSE Max({e.first - claim, claim - e.first})

LEMMA BetterIs ==
    ASSUME NEW d, NEW e, NEW claim
    PROVE  Better(d, e, claim) <=>
             \/ d.overlap /\ ~e.overlap
             \/ /\ d.overlap = e.overlap
                /\ \/ d.score > e.score
                   \/ /\ d.score = e.score
                      /\ \/ Distance(d, claim) < Distance(e, claim)
                         \/ /\ Distance(d, claim) = Distance(e, claim)
                            /\ d.first < e.first
  BY DEF Better, Distance

LEMMA DistanceType ==
    ASSUME NEW e, e.first \in Nat, NEW claim \in Nat
    PROVE  Distance(e, claim) \in Nat
  <1>1. CASE claim = 0
    BY <1>1 DEF Distance
  <1>2. CASE claim # 0
    <2> DEFINE S == {e.first - claim, claim - e.first}
    <2>1. S \subseteq Int
      OBVIOUS
    <2>2. PICK x \in S : x \in Nat /\ \A y \in S : x >= y
      <3>1. CASE e.first >= claim
        BY <3>1
      <3>2. CASE ~(e.first >= claim)
        BY <3>2
      <3>3. QED
        BY <3>1, <3>2
    <2> HIDE DEF S
    <2>3. Max(S) = x
      BY <2>1, <2>2, GreatestIs
    <2>4. QED
      BY <1>2, <2>2, <2>3 DEF Distance, S
  <1>3. QED
    BY <1>1, <1>2

\* Among candidates there is one that none is better than.
LEMMA BestExists ==
    ASSUME NEW c \in Seq(Line), NEW code \in Code, NEW claim \in Nat,
           NEW S, S # {}, \A d \in S : IsCandidate(d, c, code)
    PROVE  \E b \in S : \A d \in S : ~Better(d, b, claim)
  <1>1. \A d \in S : /\ d.first \in Nat /\ d.score \in 0 .. Len(code) /\ d.overlap \in BOOLEAN
                     /\ Distance(d, claim) \in Nat
    BY DistanceType DEF IsCandidate
  <1>2. Len(code) \in Nat
    BY CodeLines
  <1>3. PICK A : /\ A \subseteq S /\ A # {}
                 /\ \A a \in A, d \in S : d.overlap => a.overlap
                 /\ \A a \in A, d \in S : d.overlap = a.overlap => d \in A
    <2>1. CASE \E d \in S : d.overlap
      <3> DEFINE T == {d \in S : d.overlap}
      <3>1. T \subseteq S /\ T # {} /\ (\A a \in T, d \in S : d.overlap => a.overlap)
        BY <2>1
      <3>2. \A a \in T, d \in S : d.overlap = a.overlap => d \in T
        OBVIOUS
      <3>3. QED
        BY <3>1, <3>2
    <2>2. CASE ~\E d \in S : d.overlap
      BY <2>2
    <2>3. QED
      BY <2>1, <2>2
  <1>4. PICK B : /\ B \subseteq A /\ B # {}
                 /\ \A b \in B, d \in A : d.score <= b.score
                 /\ \A b \in B, d \in A : d.score = b.score => d \in B
    <2> DEFINE D == {Len(code) - d.score : d \in A}
    <2>1. D \subseteq Nat /\ D # {}
      BY <1>1, <1>2, <1>3
    <2>2. Min(D) \in D /\ \A y \in D : Min(D) <= y
      BY <2>1, LeastExists
    <2>3. PICK a \in A : \A d \in A : Len(code) - a.score <= Len(code) - d.score
      BY <2>2
    <2>4. \A d \in A : d.score <= a.score
      BY <1>1, <1>2, <1>3, <2>3
    <2>5. \A b \in {d \in A : d.score = a.score} : b \in A /\ b.score = a.score
      OBVIOUS
    <2>6. QED
      BY <2>4, <2>5
  <1>5. PICK C : /\ C \subseteq B /\ C # {}
                 /\ \A b \in C, d \in B : Distance(b, claim) <= Distance(d, claim)
                 /\ \A b \in C, d \in B : Distance(d, claim) = Distance(b, claim) => d \in C
    <2> DEFINE D == {Distance(d, claim) : d \in B}
    <2>1. D \subseteq Nat /\ D # {}
      BY <1>1, <1>3, <1>4
    <2>2. Min(D) \in D /\ \A y \in D : Min(D) <= y
      BY <2>1, LeastExists
    <2>3. PICK a \in B : \A d \in B : Distance(a, claim) <= Distance(d, claim)
      BY <2>2
    <2>4. \A b \in {d \in B : Distance(d, claim) = Distance(a, claim)} :
            b \in B /\ Distance(b, claim) = Distance(a, claim)
      OBVIOUS
    <2>5. QED
      BY <2>3, <2>4
  <1>6. PICK b \in C : \A d \in C : b.first <= d.first
    <2> DEFINE D == {d.first : d \in C}
    <2>1. D \subseteq Nat /\ D # {}
      BY <1>1, <1>3, <1>4, <1>5
    <2>2. Min(D) \in D /\ \A y \in D : Min(D) <= y
      BY <2>1, LeastExists
    <2>3. QED
      BY <2>2
  <1>7. b \in S /\ b \in A /\ b \in B
    BY <1>3, <1>4, <1>5
  <1>8. ASSUME NEW d \in S, Better(d, b, claim)
        PROVE  FALSE
    <2>1. d.overlap = b.overlap /\ d \in A
      BY <1>1, <1>3, <1>7, <1>8, BetterIs
    <2>2. ~(d.overlap /\ ~b.overlap)
      BY <2>1
    <2>3. ~(d.score > b.score) /\ d.score = b.score /\ d \in B
      BY <1>1, <1>4, <1>7, <1>8, <2>1, <2>2, BetterIs
    <2>4. Distance(d, claim) = Distance(b, claim) /\ d \in C
      BY <1>1, <1>5, <1>7, <1>8, <2>2, <2>3, BetterIs
    <2>5. ~(d.first < b.first)
      BY <1>1, <1>6, <1>7, <2>4
    <2>6. QED
      BY <1>1, <1>7, <1>8, <2>2, <2>3, <2>4, <2>5, BetterIs
  <1>9. QED
    BY <1>7, <1>8

\* A match that was made from the candidate b among S.
MadeFrom(m, b, S) ==
    /\ m.first = b.first /\ m.last = b.last /\ m.score = b.score /\ m.overlap = b.overlap
    /\ m.ambiguous = (Cardinality({e \in S : e.overlap = b.overlap /\ e.score = b.score}) > 1)

LEMMA SelectIs ==
    ASSUME NEW c \in Seq(Line), NEW code \in Code, NEW claim \in Nat,
           NEW S, S # {}, \A d \in S : IsCandidate(d, c, code)
    PROVE  \E b \in S : /\ MadeFrom(Select(S, claim), b, S)
                        /\ \A d \in S : ~Better(d, b, claim)
  <1>1. PICK b : b = CHOOSE x \in S : \A d \in S : ~Better(d, x, claim)
    OBVIOUS
  <1>2. b \in S /\ \A d \in S : ~Better(d, b, claim)
    <2>1. \E x \in S : \A d \in S : ~Better(d, x, claim)
      BY BestExists
    <2>2. QED
      BY <1>1, <2>1
  <1>3. Select(S, claim) =
          [first |-> b.first, last |-> b.last, score |-> b.score, overlap |-> b.overlap,
           ambiguous |-> Cardinality({e \in S : e.overlap = b.overlap /\ e.score = b.score}) > 1]
    BY <1>1 DEF Select
  <1>4. MadeFrom(Select(S, claim), b, S)
    <2>1. PICK amb : amb = (Cardinality({e \in S : e.overlap = b.overlap /\ e.score = b.score}) > 1)
      OBVIOUS
    <2>2. Select(S, claim) = [first |-> b.first, last |-> b.last, score |-> b.score,
                              overlap |-> b.overlap, ambiguous |-> amb]
      BY <1>3, <2>1
    <2>3. QED
      BY <2>1, <2>2 DEF MadeFrom
  <1>5. QED
    BY <1>2, <1>4

\* A complete match is always similar enough.
LEMMA WholeIsEnough ==
    ASSUME EvidenceAssumption, NEW code \in Code
    PROVE  Enough(Len(code), code)
  <1>1. PICK l \in Nat : l = Len(code)
    BY CodeLines
  <1>2. PICK s \in 1 .. 100 : s = Similarity
    BY EvidenceAssumption
  <1>3. 100 * l >= s * l
    <2>1. (100 - s) * l >= 0
      OBVIOUS
    <2>2. (100 - s) * l = 100 * l - s * l
      OBVIOUS
    <2>3. s * l \in Nat
      OBVIOUS
    <2>4. QED
      BY <2>1, <2>2, <2>3
  <1>4. QED
    BY <1>1, <1>2, <1>3 DEF Enough

Exact(w, c, code) == {d \in Candidates(w, New(c), code) : d.score = Len(code)}

\* A place that is found is that of a candidate that agrees well enough, and of one
\* that agrees completely if there is any.
LEMMA LocateIs ==
    ASSUME EvidenceAssumption, NEW c \in Seq(Line), NEW w, PartOf(w, c), NEW code \in Code,
           NEW claim \in Nat
    PROVE  LET m == Locate(w, New(c), code, claim)
               S == Candidates(w, New(c), code)
               E == Exact(w, c, code)
           IN  /\ Found(m) => \E b \in S : /\ Enough(b.score, code)
                                           /\ b.first = m.first /\ b.last = m.last
                                           /\ b.score = m.score /\ b.overlap = m.overlap
               /\ E # {} => \E b \in E : /\ MadeFrom(m, b, E)
                                         /\ \A d \in E : ~Better(d, b, claim)
  <1> DEFINE m == Locate(w, New(c), code, claim)
             S == Candidates(w, New(c), code)
             E == {d \in S : d.score = Len(code)}
             F == {d \in S : Enough(d.score, code)}
             worst == Max({d.score : d \in S} \cup {0})
  <1>1. m = IF E # {} THEN Select(E, claim)
            ELSE IF F # {} THEN Select(F, claim)
            ELSE [NoMatch EXCEPT !.score = worst]
    BY DEF Locate
  <1>2. \A d \in S : IsCandidate(d, c, code)
    BY CandidateType
  <1>3. E \subseteq S /\ F \subseteq S /\ E \subseteq F
    BY WholeIsEnough
  <1>4. \A d \in F : Enough(d.score, code)
    OBVIOUS
  <1>5. E = Exact(w, c, code)
    BY DEF Exact
  <1> HIDE DEF m, S, E, F, worst
  <1>6. CASE E # {}
    <2>1. m = Select(E, claim)
      BY <1>1, <1>6
    <2>2. \A d \in E : IsCandidate(d, c, code)
      BY <1>2, <1>3
    <2>3. PICK b \in E : /\ MadeFrom(Select(E, claim), b, E)
                         /\ \A d \in E : ~Better(d, b, claim)
      BY <1>6, <2>2, SelectIs
    <2>4. b \in S /\ Enough(b.score, code)
      BY <1>3, <1>4
    <2>5. QED
      BY <1>5, <2>1, <2>3, <2>4 DEF MadeFrom, m, S
  <1>7. CASE E = {} /\ F # {}
    <2>1. m = Select(F, claim)
      BY <1>1, <1>7
    <2>2. \A d \in F : IsCandidate(d, c, code)
      BY <1>2, <1>3
    <2>3. PICK b \in F : MadeFrom(Select(F, claim), b, F)
      BY <1>7, <2>2, SelectIs
    <2>4. b \in S /\ Enough(b.score, code)
      BY <1>3, <1>4
    <2>5. QED
      BY <1>5, <1>7, <2>1, <2>3, <2>4 DEF MadeFrom, m, S
  <1>8. CASE E = {} /\ F = {}
    <2>1. m = [NoMatch EXCEPT !.score = worst]
      BY <1>1, <1>8
    <2>2. ~Found(m)
      BY <2>1 DEF NoMatch, Found
    <2>3. QED
      BY <1>5, <1>8, <2>2 DEF m
  <1>9. QED
    BY <1>6, <1>7, <1>8

LEMMA MatchMade ==
    ASSUME NEW m, NEW b, NEW S, MadeFrom(m, b, S), NEW c, NEW code, IsCandidate(b, c, code),
           Len(code) \in Nat,
           m = [first |-> m.first, last |-> m.last, score |-> m.score,
                overlap |-> m.overlap, ambiguous |-> m.ambiguous]
    PROVE  m \in Matches
  <1>1. m.first \in Nat /\ m.last \in Nat /\ m.score \in Nat
    BY DEF MadeFrom, IsCandidate
  <1>2. m.overlap \in BOOLEAN /\ m.ambiguous \in BOOLEAN
    <2>1. m.overlap = b.overlap /\ b.overlap \in BOOLEAN
      BY Zenon DEF MadeFrom, IsCandidate
    <2>2. m.ambiguous = (Cardinality({e \in S : e.overlap = b.overlap /\ e.score = b.score}) > 1)
      BY Zenon DEF MadeFrom
    <2>3. (Cardinality({e \in S : e.overlap = b.overlap /\ e.score = b.score}) > 1) \in BOOLEAN
      OBVIOUS
    <2>4. m.ambiguous \in BOOLEAN
      BY <2>2, <2>3, Zenon
    <2>5. QED
      BY <2>1, <2>4, Zenon
  <1>3. [first |-> m.first, last |-> m.last, score |-> m.score,
         overlap |-> m.overlap, ambiguous |-> m.ambiguous] \in Matches
    BY <1>1, <1>2, Zenon DEF Matches
  <1>4. QED
    BY <1>3

LEMMA SelectType ==
    ASSUME NEW c \in Seq(Line), NEW code \in Code, NEW claim \in Nat,
           NEW S, S # {}, \A d \in S : IsCandidate(d, c, code)
    PROVE  Select(S, claim) \in Matches
  <1>1. PICK b \in S : MadeFrom(Select(S, claim), b, S)
    BY SelectIs
  <1>2. PICK x, l, o, s, a : Select(S, claim) = [first |-> x, last |-> l, score |-> s,
                                                 overlap |-> o, ambiguous |-> a]
    BY DEF Select
  <1>3. PICK m : m = Select(S, claim)
    OBVIOUS
  <1>4. m = [first |-> m.first, last |-> m.last, score |-> m.score,
             overlap |-> m.overlap, ambiguous |-> m.ambiguous]
    BY <1>2, <1>3
  <1>5. Len(code) \in Nat
    BY CodeLines
  <1>6. QED
    BY <1>1, <1>3, <1>4, <1>5, MatchMade

LEMMA LocateType ==
    ASSUME EvidenceAssumption, NEW c \in Seq(Line), NEW w, PartOf(w, c), NEW code \in Code,
           NEW claim \in Nat
    PROVE  Locate(w, New(c), code, claim) \in Matches
  <1> DEFINE m == Locate(w, New(c), code, claim)
             S == Candidates(w, New(c), code)
             E == {d \in S : d.score = Len(code)}
             F == {d \in S : Enough(d.score, code)}
             worst == Max({d.score : d \in S} \cup {0})
  <1>1. m = IF E # {} THEN Select(E, claim)
            ELSE IF F # {} THEN Select(F, claim)
            ELSE [NoMatch EXCEPT !.score = worst]
    BY DEF Locate
  <1>2. \A d \in S : IsCandidate(d, c, code)
    BY CandidateType
  <1>3. worst \in Nat
    <2>1. Len(code) \in Nat
      BY CodeLines
    <2>2. \A d \in S : d.score \in 0 .. Len(code)
      BY <1>2 DEF IsCandidate
    <2>3. {d.score : d \in S} \cup {0} \subseteq 0 .. Len(code)
      BY <2>1, <2>2
    <2>4. QED
      BY <2>1, <2>3, GreatestExists
  <1>4. E \subseteq S /\ F \subseteq S
    OBVIOUS
  <1> HIDE DEF m, S, E, F, worst
  <1>5. CASE E # {}
    BY <1>1, <1>2, <1>4, <1>5, SelectType DEF m
  <1>6. CASE E = {} /\ F # {}
    BY <1>1, <1>2, <1>4, <1>6, SelectType DEF m
  <1>7. CASE E = {} /\ F = {}
    <2>1. NoMatch \in Matches
      BY Zenon, 0 \in Nat DEF NoMatch, Matches
    <2>2. m = [NoMatch EXCEPT !.score = worst]
      BY <1>1, <1>7
    <2>3. m \in Matches
      BY <1>3, <2>1, <2>2 DEF Matches
    <2>4. QED
      BY <2>3 DEF m
  <1>8. QED
    BY <1>5, <1>6, <1>7

-----------------------------------------------------------------------------
(* A finding is located                                                    *)

LEMMA Assumed ==
    /\ Changes \subseteq Seq(Line)
    /\ Quotes \subseteq Code
    /\ Claims \subseteq Seq(Nat)
    /\ \A lines \in Seq(Nat) : Claimed(lines) \in Nat
  <1>1. ASSUME NEW lines \in Seq(Nat), lines # <<>>
        PROVE  lines[1] \in Nat
    <2>0. Len(lines) \in Nat
      BY LenProperties
    <2>1. Len(lines) # 0
      BY <1>1, EmptySeq
    <2>2. 1 \in 1 .. Len(lines)
      BY <2>0, <2>1
    <2>3. QED
      BY <2>2, ElementOfSeq
  <1>2. \A lines \in Seq(Nat) : Claimed(lines) \in Nat
    BY <1>1 DEF Claimed
  <1>3. Changes \subseteq Seq(Line) /\ Quotes \subseteq Code /\ Claims \subseteq Seq(Nat)
    BY IssueAssumption, Zenon DEF Line, Code
  <1>4. QED
    BY <1>2, <1>3

\* Whether a match is taken, for a finding with these lines.
Accepted(m, lines) ==
    /\ Found(m) /\ m.overlap
    /\ m.ambiguous => {k \in DOMAIN lines : lines[k] \in m.first .. m.last} # {}

LEMMA RangeEndsType ==
    ASSUME NEW a \in Nat, NEW b \in Nat
    PROVE  <<a>> \in Seq(Nat) /\ <<a, b>> \in Seq(Nat)
  OBVIOUS

LEMMA LocatedIs ==
    ASSUME EvidenceAssumption, change \in Seq(Line), PartOf(block, change),
           NEW i \in Issues, i.code \in Quotes
    PROVE  LET m == Locate(block, New(change), i.code, Claimed(i.lines))
               j == Located(i)
           IN  /\ j \in Issues
               /\ j.code = i.code /\ j.trusted = i.trusted /\ j.filter = i.filter
               /\ j.match = m /\ m \in Matches
               /\ j.similar = Enough(m.score, i.code)
               /\ Accepted(m, i.lines) => /\ j.lines = RangeEnds(m)
                                          /\ j.relocation \in {"unchanged", "relocated"}
                                          /\ j.relocation = "relocated" => ~m.ambiguous
               /\ ~Accepted(m, i.lines) => j.lines = i.lines /\ j.relocation = "failed"
  <1>0. /\ i.code \in Quotes \cup {<<>>} /\ i.lines \in Seq(Nat) /\ i.trusted \in BOOLEAN
        /\ i.filter \in {"", "kept", "filtered"}
    BY Zenon DEF Issues
  <1>1. i.code \in Code /\ Claimed(i.lines) \in Nat
    BY <1>0, Assumed
  <1>2. PICK m \in Matches : m = Locate(block, New(change), i.code, Claimed(i.lines))
    BY <1>1, LocateType
  <1>3. m.first \in Nat /\ m.last \in Nat
    BY Zenon DEF Matches
  <1>4. PICK rest \in BOOLEAN : rest = ({k \in DOMAIN i.lines : i.lines[k] \in m.first .. m.last} # {})
    OBVIOUS
  <1>5. PICK sim \in BOOLEAN : sim = Enough(m.score, i.code)
    <2>1. PICK s \in Nat : s = m.score
      BY DEF Matches
    <2>2. PICK l \in Nat : l = Len(i.code)
      BY <1>1, CodeLines
    <2>3. PICK p \in 1 .. 100 : p = Similarity
      BY EvidenceAssumption
    <2>4. PICK a \in Int : a = 100 * s
      OBVIOUS
    <2>5. PICK b \in Int : b = p * l
      OBVIOUS
    <2>6. Enough(m.score, i.code) = (a >= b)
      BY <2>1, <2>2, <2>3, <2>4, <2>5 DEF Enough
    <2>7. (a >= b) \in BOOLEAN
      OBVIOUS
    <2>8. QED
      BY <2>6, <2>7
  <1>6. PICK placed \in BOOLEAN : placed = Accepted(m, i.lines)
    BY DEF Accepted
  <1>7. placed = (Found(m) /\ m.overlap /\ (m.ambiguous => rest))
    BY <1>4, <1>6, Zenon DEF Accepted
  <1>8. PICK lines : lines = IF placed THEN RangeEnds(m) ELSE i.lines
    OBVIOUS
  <1>9. PICK rel : rel = IF ~placed THEN "failed" ELSE IF rest THEN "unchanged" ELSE "relocated"
    OBVIOUS
  <1>10. lines \in Seq(Nat)
    <2>0. PICK a \in Nat : a = m.first
      BY <1>3
    <2>3. PICK b \in Nat : b = m.last
      BY <1>3
    <2>4. <<a>> \in Seq(Nat) /\ <<a, b>> \in Seq(Nat)
      BY RangeEndsType
    <2>1. <<m.first>> \in Seq(Nat) /\ <<m.first, m.last>> \in Seq(Nat)
      BY <2>0, <2>3, <2>4
    <2>2. QED
      BY <1>0, <1>8, <2>1 DEF RangeEnds
  <1>11. rel \in {"", "failed", "unchanged", "relocated"}
    BY <1>9
  <1>12. Located(i) = [i EXCEPT !.match = m, !.similar = sim, !.lines = lines, !.relocation = rel]
    <2>1. Located(i) = [i EXCEPT !.match = m, !.similar = Enough(m.score, i.code),
              !.lines = IF Found(m) /\ m.overlap
                           /\ (m.ambiguous => {k \in DOMAIN i.lines : i.lines[k] \in m.first .. m.last} # {})
                        THEN RangeEnds(m) ELSE @,
              !.relocation = IF ~(Found(m) /\ m.overlap
                                  /\ (m.ambiguous => {k \in DOMAIN i.lines : i.lines[k] \in m.first .. m.last} # {}))
                             THEN "failed"
                             ELSE IF {k \in DOMAIN i.lines : i.lines[k] \in m.first .. m.last} # {}
                                  THEN "unchanged" ELSE "relocated"]
      BY <1>2 DEF Located
    <2>2. QED
      BY <1>4, <1>5, <1>7, <1>8, <1>9, <2>1
  <1>13. /\ Located(i) \in Issues
         /\ Located(i).code = i.code /\ Located(i).trusted = i.trusted
         /\ Located(i).filter = i.filter /\ Located(i).match = m /\ Located(i).similar = sim
         /\ Located(i).lines = lines /\ Located(i).relocation = rel
    BY <1>10, <1>11, <1>12 DEF Issues
  <1>14. rel = "relocated" => ~m.ambiguous
    BY <1>7, <1>9
  <1>15. QED
    BY <1>2, <1>5, <1>6, <1>8, <1>9, <1>13, <1>14

-----------------------------------------------------------------------------
(* The invariant of a finding                                              *)

LEMMA NumberType ==
    ASSUME NEW c \in Seq(Line), NEW i \in 1 .. Len(c)
    PROVE  Number(c, i) \in Nat
  <1>1. Len(c) \in Nat /\ \A gone : Stay(c, gone) \subseteq 1 .. Len(c)
    BY LinesOf
  <1>2. \A gone : CountsUp(Stay(c, gone), Len(c))
    BY <1>1, CountUp
  <1>3. \A gone : Count(Stay(c, gone), i) \in Nat
    BY <1>1, <1>2 DEF CountsUp
  <1>4. QED
    BY <1>3, NumberCounts

LEMMA BlockNumbers ==
    ASSUME NEW c \in Seq(Line), NEW w, PartOf(w, c)
    PROVE  \A i \in DOMAIN w : w[i].number \in Nat
  <1>1. ASSUME NEW i \in 1 .. Len(w)
        PROVE  w[i].number \in Nat
    <2>1. PICK p \in 1 .. Len(c) : w[i] = Numbered(c)[p]
      BY DEF PartOf
    <2>2. QED
      BY <2>1, NumberedAt, NumberType
  <1>2. QED
    BY <1>1 DEF PartOf

\* A block under review is a part of its change.
LEMMA ReviewedPart ==
    ASSUME TypeOK, BlockInv
    PROVE  /\ change \in Seq(Line)
           /\ stage # "new" => PartOf(block, change)
  <1>1. change \in Seq(Line)
    BY Assumed DEF TypeOK
  <1>2. ASSUME stage # "new"
        PROVE  PartOf(block, change)
    <2>1. PICK b \in DOMAIN Blocks : block = Blocks[b]
      BY <1>2 DEF BlockInv
    <2>2. PartOf(Blocks[b], change)
      BY <1>1, DiffAssumption, BlockPart DEF Blocks
    <2>3. QED
      BY <2>1, <2>2
  <1>3. QED
    BY <1>1, <1>2

LEMMA BlocksPart ==
    ASSUME TypeOK, NEW b \in DOMAIN Blocks
    PROVE  \A i \in DOMAIN Blocks[b] : Blocks[b][i].number \in Nat
  <1>1. change \in Seq(Line)
    BY Assumed DEF TypeOK
  <1>2. PartOf(Blocks[b], change)
    BY <1>1, DiffAssumption, BlockPart DEF Blocks
  <1>3. QED
    BY <1>1, <1>2, BlockNumbers

LEMMA NoIssueType ==
    NoIssue \in Issues
  <1>1. NoMatch \in Matches
    BY Zenon, 0 \in Nat DEF NoMatch, Matches
  <1>2. <<>> \in Quotes \cup {<<>>} /\ <<>> \in Seq(Nat)
    OBVIOUS
  <1>3. QED
    BY <1>1, <1>2, Zenon DEF NoIssue, Issues

LEMMA InitInv ==
    Init => FindingInv
  <1>1. SUFFICES ASSUME Init PROVE FindingInv
    OBVIOUS
  <1>2. issue = NoIssue /\ issue \in Issues /\ issue.relocation = "" /\ issue.filter = ""
    BY <1>1, NoIssueType DEF Init, NoIssue
  <1>3. TypeOK
    <2>1. \A i \in DOMAIN block : block[i].number \in Nat
      <3>1. block = <<>>
        BY <1>1 DEF Init
      <3>2. DOMAIN <<>> = {}
        OBVIOUS
      <3>3. QED
        BY <3>1, <3>2
    <2>2. {refuted, doubted} \subseteq BOOLEAN
      BY <1>1, Zenon DEF Init
    <2>3. change \in Changes /\ stage = "new"
      BY <1>1, Zenon DEF Init
    <2>4. QED
      BY <1>2, <2>1, <2>2, <2>3, Zenon DEF TypeOK
  <1>4. BlockInv /\ LocationInv /\ FilterInv
    BY <1>1 DEF Init, BlockInv, LocationInv, FilterInv
  <1>5. QED
    BY <1>3, <1>4 DEF FindingInv

\* The parts of the invariant follow from what a step did to the finding.
LEMMA SkipInv ==
    ASSUME FindingInv, SkipBlock
    PROVE  FindingInv'
  <1>1. PICK b \in DOMAIN Blocks : block' = Blocks[b]
    BY DEF SkipBlock
  <1>2. /\ change' = change /\ stage = "new" /\ stage' = "skipped" /\ issue' = issue
        /\ refuted' = refuted /\ doubted' = doubted
    BY DEF SkipBlock
  <1>3. Blocks' = Blocks
    BY <1>2 DEF Blocks
  <1>4. TypeOK /\ \A i \in DOMAIN block' : block'[i].number \in Nat
    BY <1>1, BlocksPart DEF FindingInv
  <1>5. TypeOK'
    BY <1>2, <1>4 DEF TypeOK
  <1>6. BlockInv'
    BY <1>1, <1>2, <1>3 DEF BlockInv
  <1>7. LocationInv' /\ FilterInv'
    BY <1>2 DEF LocationInv, FilterInv
  <1>8. QED
    BY <1>5, <1>6, <1>7 DEF FindingInv

LEMMA ReportInv ==
    ASSUME FindingInv, Report
    PROVE  FindingInv'
  <1>1. PICK b \in DOMAIN Blocks : block' = Blocks[b]
    BY DEF Report
  <1>2. /\ change' = change /\ stage = "new" /\ stage' = "reported"
        /\ refuted' = refuted /\ doubted' = doubted
    BY DEF Report
  <1>3. PICK code \in Quotes, lines \in Claims, trusted \in BOOLEAN :
            issue' = [NoIssue EXCEPT !.code = code, !.lines = lines, !.trusted = trusted]
    BY DEF Report
  <1>4. Blocks' = Blocks
    BY <1>2 DEF Blocks
  <1>5. TypeOK /\ \A i \in DOMAIN block' : block'[i].number \in Nat
    BY <1>1, BlocksPart DEF FindingInv
  <1>6. lines \in Seq(Nat)
    BY Assumed
  <1>7. /\ issue' \in Issues /\ issue'.code = code /\ issue'.lines = lines
        /\ issue'.relocation = NoIssue.relocation /\ issue'.filter = NoIssue.filter
    BY <1>3, <1>6, NoIssueType DEF Issues
  <1>8. issue'.relocation = "" /\ issue'.filter = ""
    BY <1>7 DEF NoIssue
  <1>9. TypeOK'
    BY <1>2, <1>5, <1>7, <1>8 DEF TypeOK
  <1>10. BlockInv'
    BY <1>1, <1>2, <1>4, <1>7 DEF BlockInv
  <1>11. LocationInv' /\ FilterInv'
    BY <1>2 DEF LocationInv, FilterInv
  <1>12. QED
    BY <1>9, <1>10, <1>11 DEF FindingInv

\* Locating a finding with lines as it claims them establishes the invariant.
LEMMA PlacedInv ==
    ASSUME TypeOK, BlockInv, stage \notin {"new", "skipped"},
           NEW i \in Issues, i.code \in Quotes, i.lines \in Claims, i.filter = "",
           issue' = Located(i), change' = change, block' = block,
           stage' \in {"unresolved", "located"},
           stage' = "unresolved" => issue'.relocation = "failed",
           refuted' = refuted, doubted' \in BOOLEAN
    PROVE  FindingInv'
  <1> DEFINE m == Locate(block, New(change), i.code, Claimed(i.lines))
  <1>1. change \in Seq(Line) /\ PartOf(block, change)
    BY ReviewedPart
  <1>2. /\ issue' \in Issues
        /\ issue'.code = i.code /\ issue'.trusted = i.trusted /\ issue'.filter = i.filter
        /\ issue'.match = m /\ m \in Matches
        /\ issue'.similar = Enough(m.score, i.code)
        /\ Accepted(m, i.lines) => /\ issue'.lines = RangeEnds(m)
                                   /\ issue'.relocation \in {"unchanged", "relocated"}
                                   /\ issue'.relocation = "relocated" => ~m.ambiguous
        /\ ~Accepted(m, i.lines) => issue'.lines = i.lines /\ issue'.relocation = "failed"
    BY <1>1, EvidenceAssumption, LocatedIs
  <1>3. m = Locate(block', New(change'), issue'.code, Claimed(i.lines))
    BY <1>2
  <1> HIDE DEF m
  <1>4. issue'.relocation # ""
    BY <1>2
  <1>5. TypeOK'
    <2>1. \A k \in DOMAIN block' : block'[k].number \in Nat
      BY DEF TypeOK
    <2>2. {refuted', doubted'} \subseteq BOOLEAN
      BY DEF TypeOK
    <2>3. QED
      BY <1>2, <1>4, <2>1, <2>2 DEF TypeOK
  <1>6. BlockInv'
    <2>1. Blocks' = Blocks
      BY DEF Blocks
    <2>2. PICK b \in DOMAIN Blocks : block = Blocks[b]
      BY DEF BlockInv
    <2>3. \E q \in DOMAIN Blocks' : block' = Blocks'[q]
      BY <2>1, <2>2
    <2>4. issue'.relocation \in {"", "failed"} => issue'.lines \in Claims
      BY <1>2
    <2>5. QED
      BY <1>2, <2>3, <2>4 DEF BlockInv
  <1>7. LocationInv'
    <2>1. issue'.relocation = "failed" => ~Accepted(m, i.lines)
      BY <1>2
    <2>2. issue'.relocation # "failed" => Accepted(m, i.lines)
      BY <1>2
    <2>3. issue'.relocation = "failed" => (Found(m) /\ m.overlap => m.ambiguous)
      BY <2>1 DEF Accepted
    <2>4. issue'.relocation # "failed" => Found(m) /\ m.overlap /\ issue'.lines = RangeEnds(m)
      BY <1>2, <2>2 DEF Accepted
    <2>5. issue'.relocation = "relocated" => ~m.ambiguous
      BY <1>2
    <2>6. Enough(m.score, issue'.code) => issue'.similar
      BY <1>2
    <2>7. QED
      BY <1>2, <1>3, <2>3, <2>4, <2>5, <2>6 DEF LocationInv
  <1>8. FilterInv'
    BY DEF FilterInv
  <1>9. QED
    BY <1>5, <1>6, <1>7, <1>8 DEF FindingInv

LEMMA RelocateInv ==
    ASSUME FindingInv, Relocate
    PROVE  FindingInv'
  <1>1. TypeOK /\ BlockInv
    BY DEF FindingInv
  <1>2. /\ stage = "reported" /\ issue' = Located(issue) /\ change' = change /\ block' = block
        /\ refuted' = refuted /\ doubted' = doubted
        /\ stage' = IF issue'.relocation = "failed" THEN "unresolved" ELSE "located"
    BY DEF Relocate
  <1>3. /\ issue \in Issues /\ issue.code \in Quotes /\ issue.lines \in Claims
        /\ issue.filter = "" /\ doubted \in BOOLEAN
    BY <1>1, <1>2 DEF TypeOK, BlockInv
  <1>4. stage' \in {"unresolved", "located"} /\ doubted' \in BOOLEAN
        /\ (stage' = "unresolved" => issue'.relocation = "failed")
        /\ stage \notin {"new", "skipped"}
    BY <1>2, <1>3
  <1>5. QED
    BY <1>1, <1>2, <1>3, <1>4, PlacedInv

LEMMA AskRelocationInv ==
    ASSUME FindingInv, AskRelocation
    PROVE  FindingInv'
  <1>1. TypeOK /\ BlockInv
    BY DEF FindingInv
  <1>2. /\ stage = "unresolved" /\ stage' = "located" /\ change' = change /\ block' = block
        /\ refuted' = refuted
    BY DEF AskRelocation
  <1>3. /\ issue \in Issues /\ issue.code \in Quotes /\ issue.lines \in Claims
        /\ issue.filter = "" /\ doubted \in BOOLEAN
    BY <1>1, <1>2 DEF TypeOK, BlockInv
  <1>4. PICK code \in Quotes \cup {issue.code}, lines \in Claims \cup {issue.lines},
             trusted \in BOOLEAN :
            /\ issue' = Located([issue EXCEPT !.code = code,
                                              !.lines = IF lines = <<>> THEN @ ELSE lines,
                                              !.trusted = trusted])
            /\ doubted' = (doubted \/ (issue.trusted /\ ~trusted))
    BY DEF AskRelocation
  <1>5. PICK claimed : claimed = IF lines = <<>> THEN issue.lines ELSE lines
    OBVIOUS
  <1>6. code \in Quotes /\ claimed \in Claims /\ claimed \in Seq(Nat)
    BY <1>3, <1>5, Assumed
  <1>7. PICK i : i = [issue EXCEPT !.code = code, !.lines = claimed, !.trusted = trusted]
    OBVIOUS
  <1>8. i \in Issues /\ i.code = code /\ i.lines = claimed /\ i.filter = issue.filter
    BY <1>3, <1>6, <1>7 DEF Issues
  <1>9. issue' = Located(i)
    BY <1>4, <1>5, <1>7
  <1>10. doubted' \in BOOLEAN
    BY <1>4
  <1>11. /\ i.code \in Quotes /\ i.lines \in Claims /\ i.filter = ""
         /\ stage \notin {"new", "skipped"} /\ stage' \in {"unresolved", "located"}
         /\ (stage' = "unresolved" => issue'.relocation = "failed")
    BY <1>2, <1>3, <1>6, <1>8
  <1>12. QED
    BY <1>1, <1>2, <1>8, <1>9, <1>10, <1>11, PlacedInv

LEMMA NoRelocationInv ==
    ASSUME FindingInv, NoRelocation
    PROVE  FindingInv'
  <1>1. /\ stage = "unresolved" /\ stage' = "located" /\ change' = change /\ block' = block
        /\ issue' = issue /\ refuted' = refuted /\ doubted' = doubted
    BY DEF NoRelocation
  <1>2. TypeOK'
    BY <1>1 DEF FindingInv, TypeOK
  <1>3. BlockInv'
    BY <1>1 DEF FindingInv, BlockInv, Blocks
  <1>4. LocationInv'
    BY <1>1 DEF FindingInv, LocationInv
  <1>5. FilterInv'
    BY <1>1 DEF FilterInv
  <1>6. QED
    BY <1>2, <1>3, <1>4, <1>5 DEF FindingInv

LEMMA CorroborateInv ==
    ASSUME FindingInv, Corroborate
    PROVE  FindingInv'
  <1>1. /\ stage = "located" /\ stage' = "located" /\ change' = change /\ block' = block
        /\ issue' = [issue EXCEPT !.trusted = TRUE] /\ refuted' = refuted /\ doubted' = doubted
    BY DEF Corroborate
  <1>2. issue \in Issues
    BY DEF FindingInv, TypeOK
  <1>3. /\ issue' \in Issues /\ issue'.code = issue.code /\ issue'.lines = issue.lines
        /\ issue'.similar = issue.similar /\ issue'.match = issue.match
        /\ issue'.relocation = issue.relocation /\ issue'.filter = issue.filter
    BY <1>1, <1>2 DEF Issues
  <1>4. TypeOK'
    BY <1>1, <1>3 DEF FindingInv, TypeOK
  <1>5. BlockInv'
    BY <1>1, <1>3 DEF FindingInv, BlockInv, Blocks
  <1>6. LocationInv'
    BY <1>1, <1>3 DEF FindingInv, LocationInv
  <1>7. FilterInv'
    BY <1>1 DEF FilterInv
  <1>8. QED
    BY <1>4, <1>5, <1>6, <1>7 DEF FindingInv

LEMMA FaultSame ==
    ASSUME NEW i, NEW j, j.lines = i.lines, j.relocation = i.relocation,
           j.trusted = i.trusted, j.similar = i.similar
    PROVE  HasFault(j) <=> HasFault(i)
  BY DEF HasFault

LEMMA SiftedIs ==
    ASSUME NEW i \in Issues
    PROVE  /\ Sifted(i) \in Issues
           /\ Sifted(i).code = i.code /\ Sifted(i).lines = i.lines
           /\ Sifted(i).trusted = i.trusted /\ Sifted(i).similar = i.similar
           /\ Sifted(i).match = i.match /\ Sifted(i).relocation = i.relocation
           /\ Sifted(i).filter =
                IF HasFault(i) \/ i.filter = "filtered" THEN "filtered" ELSE "kept"
           /\ HasFault(Sifted(i)) <=> HasFault(i)
  <1>1. PICK f : f = IF HasFault(i) \/ i.filter = "filtered" THEN "filtered" ELSE "kept"
    OBVIOUS
  <1>2. f \in {"", "kept", "filtered"}
    BY <1>1
  <1>3. Sifted(i) = [i EXCEPT !.filter = f]
    BY <1>1 DEF Sifted
  <1>4. /\ Sifted(i) \in Issues
        /\ Sifted(i).code = i.code /\ Sifted(i).lines = i.lines
        /\ Sifted(i).trusted = i.trusted /\ Sifted(i).similar = i.similar
        /\ Sifted(i).match = i.match /\ Sifted(i).relocation = i.relocation
        /\ Sifted(i).filter = f
    BY <1>2, <1>3 DEF Issues
  <1>5. HasFault(Sifted(i)) <=> HasFault(i)
    BY <1>4, FaultSame
  <1>6. QED
    BY <1>1, <1>4, <1>5

\* Sifting a located finding, whatever the model said of it, keeps the invariant.
LEMMA SiftInv ==
    ASSUME FindingInv, stage \in {"located", "checked"},
           NEW i \in Issues, i.code = issue.code, i.lines = issue.lines, i.match = issue.match,
           i.relocation = issue.relocation,
           issue' = Sifted(i), change' = change, block' = block,
           stage' \in {"checked", "done"}, stage' = "checked" => issue'.filter = "kept",
           refuted' \in BOOLEAN, doubted' \in BOOLEAN,
           i.filter = "filtered" => refuted',
           doubted => doubted',
           ~doubted' => i.similar = issue.similar \/ i.similar
    PROVE  FindingInv'
  <1>1. /\ issue' \in Issues
        /\ issue'.code = i.code /\ issue'.lines = i.lines
        /\ issue'.trusted = i.trusted /\ issue'.similar = i.similar
        /\ issue'.match = i.match /\ issue'.relocation = i.relocation
        /\ issue'.filter = IF HasFault(i) \/ i.filter = "filtered" THEN "filtered" ELSE "kept"
        /\ HasFault(Sifted(i)) <=> HasFault(i)
    BY SiftedIs
  <1>2. TypeOK /\ BlockInv /\ LocationInv /\ doubted \in BOOLEAN
    BY DEF FindingInv, TypeOK
  <1>3. HasFault(issue)' <=> HasFault(i)
    <2>1. HasFault(issue)' <=>
            \/ issue'.lines = <<>>
            \/ issue'.relocation = "failed"
            \/ ~issue'.trusted
            \/ ~issue'.similar
            \/ /\ Reviewable(block) # {}
               /\ \A k \in DOMAIN issue'.lines : issue'.lines[k] \notin Reviewable(block)
      BY DEF HasFault
    <2>2. HasFault(issue)' <=> HasFault(Sifted(i))
      BY <2>1 DEF HasFault
    <2>3. QED
      BY <1>1, <2>2
  <1>4. TypeOK'
    <2>1. \A k \in DOMAIN block' : block'[k].number \in Nat
      BY <1>2 DEF TypeOK
    <2>2. {refuted', doubted'} \subseteq BOOLEAN
      OBVIOUS
    <2>3. issue'.filter # "" /\ issue'.relocation # ""
      BY <1>1, <1>2 DEF TypeOK
    <2>4. QED
      BY <1>1, <1>2, <2>1, <2>2, <2>3 DEF TypeOK
  <1>5. BlockInv'
    <2>1. Blocks' = Blocks
      BY DEF Blocks
    <2>2. QED
      BY <1>1, <1>2, <2>1 DEF BlockInv
  <1>6. LocationInv'
    <2>1. PICK lines \in Claims :
              issue.match = Locate(block, New(change), issue.code, Claimed(lines))
      BY <1>2 DEF LocationInv
    <2>2. issue'.match = Locate(block', New(change'), issue'.code, Claimed(lines))
      BY <1>1, <2>1
    <2>3. Enough(issue.match.score, issue.code) /\ ~doubted' => issue'.similar
      BY <1>1, <1>2 DEF LocationInv
    <2>4. /\ issue.relocation = "failed" =>
               (Found(issue.match) /\ issue.match.overlap => issue.match.ambiguous)
          /\ issue.relocation # "failed" =>
               /\ Found(issue.match) /\ issue.match.overlap
               /\ issue.lines = RangeEnds(issue.match)
          /\ issue.relocation = "relocated" => ~issue.match.ambiguous
      BY <1>2 DEF LocationInv
    <2>5. issue'.match = issue.match /\ issue'.code = issue.code /\ issue'.lines = issue.lines
          /\ issue'.relocation = issue.relocation
      BY <1>1
    <2>6. QED
      BY <2>2, <2>3, <2>4, <2>5 DEF LocationInv
  <1>7. FilterInv'
    <2>1. issue'.filter = "kept" => ~HasFault(issue)'
      BY <1>1, <1>3
    <2>2. issue'.filter = "filtered" => HasFault(issue)' \/ refuted'
      BY <1>1, <1>3
    <2>3. issue'.filter = "filtered" => stage' = "done"
      OBVIOUS
    <2>4. QED
      BY <2>1, <2>2, <2>3 DEF FilterInv
  <1>8. QED
    BY <1>4, <1>5, <1>6, <1>7 DEF FindingInv

LEMMA FilterStepInv ==
    ASSUME FindingInv, Filter
    PROVE  FindingInv'
  <1>1. /\ stage = "located" /\ issue' = Sifted(issue) /\ change' = change /\ block' = block
        /\ refuted' = refuted /\ doubted' = doubted
        /\ stage' = IF issue'.filter = "kept" THEN "checked" ELSE "done"
    BY DEF Filter
  <1>2. issue \in Issues /\ issue.filter = "" /\ refuted \in BOOLEAN /\ doubted \in BOOLEAN
    BY <1>1 DEF FindingInv, TypeOK
  <1>3. stage' \in {"checked", "done"} /\ (stage' = "checked" => issue'.filter = "kept")
    BY <1>1
  <1>4. refuted' \in BOOLEAN /\ doubted' \in BOOLEAN /\ issue.filter # "filtered"
    BY <1>1, <1>2
  <1>5. QED
    BY <1>1, <1>2, <1>3, <1>4, SiftInv

LEMMA AskFilterInv ==
    ASSUME FindingInv, AskFilter
    PROVE  FindingInv'
  <1>1. stage = "checked" /\ stage' = "done" /\ change' = change /\ block' = block
    BY DEF AskFilter
  <1>2. issue \in Issues /\ doubted \in BOOLEAN
    BY DEF FindingInv, TypeOK
  <1>3. PICK filtered \in BOOLEAN, counter \in BOOLEAN, trusted \in BOOLEAN, similar \in BOOLEAN :
            /\ issue' = Sifted([issue EXCEPT
                            !.filter = IF filtered /\ counter THEN "filtered" ELSE "kept",
                            !.trusted = trusted, !.similar = similar])
            /\ refuted' = (filtered /\ counter)
            /\ doubted' = (doubted \/ ~trusted \/ ~similar)
    BY DEF AskFilter
  <1>4. PICK f : f = IF filtered /\ counter THEN "filtered" ELSE "kept"
    OBVIOUS
  <1>5. PICK i : i = [issue EXCEPT !.filter = f, !.trusted = trusted, !.similar = similar]
    OBVIOUS
  <1>6. /\ i \in Issues /\ i.code = issue.code /\ i.lines = issue.lines /\ i.match = issue.match
        /\ i.relocation = issue.relocation /\ i.filter = f /\ i.similar = similar
    BY <1>2, <1>4, <1>5 DEF Issues
  <1>7. issue' = Sifted(i)
    BY <1>3, <1>4, <1>5
  <1>8. refuted' \in BOOLEAN /\ doubted' \in BOOLEAN
    BY <1>3
  <1>9. i.filter = "filtered" => refuted'
    BY <1>3, <1>4, <1>6
  <1>10. (doubted => doubted') /\ (~doubted' => i.similar)
    BY <1>3, <1>6
  <1>11. QED
    BY <1>1, <1>6, <1>7, <1>8, <1>9, <1>10, SiftInv

LEMMA NoFilterInv ==
    ASSUME FindingInv, NoFilter
    PROVE  FindingInv'
  <1>1. /\ stage = "checked" /\ stage' = "done" /\ issue' = Sifted(issue) /\ change' = change
        /\ block' = block /\ refuted' = refuted /\ doubted' = doubted
    BY DEF NoFilter
  <1>2. issue \in Issues /\ refuted \in BOOLEAN /\ doubted \in BOOLEAN
    BY DEF FindingInv, TypeOK
  <1>3. issue.filter # "filtered"
    BY <1>1 DEF FindingInv, FilterInv
  <1>4. refuted' \in BOOLEAN /\ doubted' \in BOOLEAN
    BY <1>1, <1>2
  <1>5. QED
    BY <1>1, <1>2, <1>3, <1>4, SiftInv

\* Every reachable state satisfies the invariant: the finding has the place that was
\* found for its code in its block, its lines are those of this place or as they
\* were claimed, and it is kept or filtered as the rules and the model decided.
THEOREM FindingInvariant ==
    Spec => []FindingInv
  <1>1. FindingInv /\ [Next]_vars => FindingInv'
    <2>1. SUFFICES ASSUME FindingInv, [Next]_vars PROVE FindingInv'
      OBVIOUS
    <2>2. CASE SkipBlock
      BY <2>1, <2>2, SkipInv
    <2>3. CASE Report
      BY <2>1, <2>3, ReportInv
    <2>4. CASE Relocate
      BY <2>1, <2>4, RelocateInv
    <2>5. CASE AskRelocation
      BY <2>1, <2>5, AskRelocationInv
    <2>6. CASE NoRelocation
      BY <2>1, <2>6, NoRelocationInv
    <2>7. CASE Corroborate
      BY <2>1, <2>7, CorroborateInv
    <2>8. CASE Filter
      BY <2>1, <2>8, FilterStepInv
    <2>9. CASE AskFilter
      BY <2>1, <2>9, AskFilterInv
    <2>10. CASE NoFilter
      BY <2>1, <2>10, NoFilterInv
    <2>11. CASE UNCHANGED vars
      BY <2>1, <2>11 DEF vars, FindingInv, TypeOK, BlockInv, Blocks, LocationInv, FilterInv,
                         HasFault
    <2>12. QED
      BY <2>1, <2>2, <2>3, <2>4, <2>5, <2>6, <2>7, <2>8, <2>9, <2>10, <2>11 DEF Next
  <1>2. QED
    BY <1>1, InitInv, PTL DEF Spec

-----------------------------------------------------------------------------
(* A kept finding is anchored                                              *)

\* The lines at which the code of a finding was found.
LEMMA MatchWindow ==
    ASSUME FindingInv, stage \in {"unresolved", "located", "checked", "done"},
           Found(issue.match)
    PROVE  /\ change \in Seq(Line) /\ PartOf(block, change) /\ issue.code \in Code
           /\ \E v : /\ LinesIn(v, New(change))
                     /\ Len(v) = Len(issue.code) /\ Len(v) \in Nat \ {0}
                     /\ issue.match.first = v[1].number /\ issue.match.last = v[Len(v)].number
                     /\ issue.match.score = Agreeing(v, issue.code)
                     /\ Enough(Agreeing(v, issue.code), issue.code)
                     /\ issue.match.overlap <=> \E k \in 1 .. Len(v) : v[k].number \in Reviewable(block)
  <1>1. TypeOK /\ BlockInv /\ LocationInv
    BY DEF FindingInv
  <1>2. change \in Seq(Line) /\ PartOf(block, change)
    BY <1>1, ReviewedPart
  <1>3. issue.code \in Code
    BY <1>1, Assumed DEF BlockInv
  <1>4. PICK lines \in Claims :
            issue.match = Locate(block, New(change), issue.code, Claimed(lines))
    BY <1>1 DEF LocationInv
  <1>5. Claimed(lines) \in Nat
    BY Assumed
  <1>6. PICK m : m = issue.match
    OBVIOUS
  <1>7. PICK b \in Candidates(block, New(change), issue.code) :
            /\ Enough(b.score, issue.code)
            /\ b.first = m.first /\ b.last = m.last /\ b.score = m.score /\ b.overlap = m.overlap
    BY <1>2, <1>3, <1>4, <1>5, <1>6, LocateIs, EvidenceAssumption
  <1>8. PICK v : /\ LinesIn(v, New(change)) /\ Len(v) = Len(issue.code)
                 /\ b = Candidate(v, block, issue.code)
    BY <1>2, <1>3, CandidateWindow
  <1>9. Len(v) \in Nat \ {0} /\ DOMAIN v = 1 .. Len(v)
    BY <1>3, <1>8, CodeLines DEF LinesIn
  <1>10. b.first = v[1].number /\ b.last = v[Len(v)].number
         /\ b.score = Agreeing(v, issue.code)
    BY <1>8 DEF Candidate
  <1>11. b.overlap <=> \E k \in 1 .. Len(v) : v[k].number \in Reviewable(block)
    BY <1>8, <1>9 DEF Candidate
  <1>12. QED
    BY <1>2, <1>3, <1>6, <1>7, <1>8, <1>9, <1>10, <1>11

LEMMA EnoughGrows ==
    ASSUME EvidenceAssumption, NEW code \in Code, NEW s \in Nat, NEW t \in Nat, s <= t,
           Enough(s, code)
    PROVE  Enough(t, code)
  <1>1. PICK x : x = Similarity * Len(code)
    OBVIOUS
  <1>2. Similarity \in Nat /\ Len(code) \in Nat
    BY EvidenceAssumption, CodeLines
  <1>3. x \in Int
    BY <1>1, <1>2
  <1>4. 100 * s >= x
    BY <1>1 DEF Enough
  <1>5. 100 * t >= x
    BY <1>3, <1>4
  <1>6. QED
    BY <1>1, <1>5 DEF Enough

LEMMA AnchoredByInv ==
    ASSUME FindingInv
    PROVE  KeptIsAnchored
  <1>1. SUFFICES ASSUME Kept
                 PROVE  /\ Place(issue) # {}
                        /\ Place(issue) \cap Reviewable(Numbered(change)) # {}
                        /\ Place(issue) \subseteq DOMAIN New(change)
                        /\ \A k \in DOMAIN issue.lines : issue.lines[k] \in Place(issue)
                        /\ Enough(Cardinality({k \in DOMAIN issue.code :
                              \E n \in Place(issue) : New(change)[n].text = issue.code[k]}),
                              issue.code)
    BY DEF KeptIsAnchored
  <1>2. stage = "done" /\ issue.filter = "kept" /\ ~HasFault(issue)
    BY <1>1 DEF FindingInv, FilterInv, Kept
  <1>3. issue.relocation # "failed"
    BY <1>2 DEF HasFault
  <1>4. Found(issue.match) /\ issue.match.overlap /\ issue.lines = RangeEnds(issue.match)
    BY <1>2, <1>3 DEF FindingInv, LocationInv
  <1>5. change \in Seq(Line) /\ PartOf(block, change) /\ issue.code \in Code
    BY <1>2, <1>4, MatchWindow
  <1>6. PICK v : /\ LinesIn(v, New(change))
                 /\ Len(v) = Len(issue.code) /\ Len(v) \in Nat \ {0}
                 /\ issue.match.first = v[1].number /\ issue.match.last = v[Len(v)].number
                 /\ issue.match.score = Agreeing(v, issue.code)
                 /\ Enough(Agreeing(v, issue.code), issue.code)
                 /\ issue.match.overlap <=> \E k \in 1 .. Len(v) : v[k].number \in Reviewable(block)
    BY <1>2, <1>4, MatchWindow
  <1>7. PICK f : f = v[1].number
    OBVIOUS
  <1>8. PICK l : l = v[Len(v)].number
    OBVIOUS
  <1>9. /\ f \in Nat \ {0} /\ l \in Nat /\ l <= Len(New(change)) /\ f <= l
        /\ \A k \in 1 .. Len(v) : v[k].number \in f .. l
    BY <1>5, <1>6, <1>7, <1>8, LinesInRange
  <1>10. Place(issue) = f .. l
    BY <1>6, <1>7, <1>8 DEF Place
  <1>11. Len(New(change)) \in Nat /\ DOMAIN New(change) = 1 .. Len(New(change))
    BY <1>5, NewLines DEF NewHas
  <1>12. f .. l # {} /\ f .. l \subseteq DOMAIN New(change)
    <2>1. f \in f .. l
      BY <1>9
    <2>2. PICK n \in Nat : n = Len(New(change))
      BY <1>11
    <2>3. \A x \in f .. l : x \in 1 .. n
      BY <1>9, <2>2
    <2>4. QED
      BY <1>11, <2>1, <2>2, <2>3
  <1>13. Place(issue) \cap Reviewable(Numbered(change)) # {}
    <2>1. PICK k \in 1 .. Len(v) : v[k].number \in Reviewable(block)
      BY <1>4, <1>6
    <2>2. v[k].number \in Reviewable(Numbered(change))
      BY <1>5, <2>1, ReviewableGrows, DiffAssumption
    <2>3. QED
      BY <1>9, <1>10, <2>2
  <1>14. ASSUME NEW k \in DOMAIN issue.lines
         PROVE  issue.lines[k] \in Place(issue)
    <2>1. issue.lines = IF f = l THEN <<f>> ELSE <<f, l>>
      BY <1>4, <1>6, <1>7, <1>8 DEF RangeEnds
    <2>2. issue.lines[k] \in {f, l}
      BY <2>1
    <2>3. QED
      BY <1>9, <1>10, <2>2
  <1>15. Enough(Cardinality({k \in DOMAIN issue.code :
                    \E n \in Place(issue) : New(change)[n].text = issue.code[k]}), issue.code)
    <2> DEFINE A == {k \in DOMAIN issue.code : v[k].text = issue.code[k]}
               B == {k \in DOMAIN issue.code :
                        \E n \in Place(issue) : New(change)[n].text = issue.code[k]}
    <2>1. DOMAIN issue.code = 1 .. Len(v) /\ Len(v) \in Int /\ 1 \in Int
      BY <1>5, <1>6, CodeLines
    <2>2. A \subseteq B
      <3>1. ASSUME NEW k \in 1 .. Len(v), v[k].text = issue.code[k]
            PROVE  \E n \in Place(issue) : New(change)[n].text = issue.code[k]
        <4>1. v[k].number \in Place(issue)
          BY <1>9, <1>10
        <4>2. v[k].text = New(change)[v[k].number].text
          BY <1>6 DEF LinesIn
        <4>3. QED
          BY <3>1, <4>1, <4>2
      <3>2. QED
        BY <2>1, <3>1
    <2>3. IsFiniteSet(1 .. Len(v))
      BY <2>1, FS_Interval
    <2>4. B \subseteq 1 .. Len(v)
      BY <2>1
    <2>5. Agreeing(v, issue.code) = Cardinality(A)
      BY DEF Agreeing
    <2> HIDE DEF A, B
    <2>6. IsFiniteSet(B)
      BY <2>3, <2>4, FS_Subset
    <2>7. IsFiniteSet(A) /\ Cardinality(A) <= Cardinality(B)
      BY <2>2, <2>6, FS_Subset
    <2>8. Cardinality(A) \in Nat /\ Cardinality(B) \in Nat
      BY <2>6, <2>7, FS_CardinalityType
    <2>9. Enough(Cardinality(B), issue.code)
      BY <1>5, <1>6, <2>5, <2>7, <2>8, EnoughGrows, EvidenceAssumption
    <2>10. QED
      BY <2>9 DEF B
  <1>16. QED
    BY <1>10, <1>12, <1>13, <1>14, <1>15

\* A reported finding stands in the new file, at or next to a change, where most of
\* the code it quotes is: whatever the models answer, for every change and finding.
THEOREM KeptAnchored ==
    Spec => []KeptIsAnchored
  <1>1. FindingInv => KeptIsAnchored
    BY AnchoredByInv
  <1>2. QED
    BY <1>1, FindingInvariant, PTL

-----------------------------------------------------------------------------
(* No place is guessed                                                     *)

\* Where all lines of the code stand one after the other in the new file, there is a
\* candidate.
StandsAt(c, code, n) ==
    /\ n \in 1 .. Len(New(c)) /\ n + Len(code) - 1 <= Len(New(c))
    /\ \A k \in 1 .. Len(code) : New(c)[n + k - 1].text = code[k]

IsAt(d, w, code, n) ==
    /\ d.first = n /\ d.last = n + Len(code) - 1
    /\ d.overlap = (\E k \in 1 .. Len(code) : n + k - 1 \in Reviewable(w))

LEMMA WholeIsCandidate ==
    ASSUME EvidenceAssumption, NEW c \in Seq(Line), NEW w, NEW code \in Code,
           NEW n \in Nat, StandsAt(c, code, n)
    PROVE  \E d \in Exact(w, c, code) : IsAt(d, w, code, n)
  <1> DEFINE f == New(c)
             S == {m \in DOMAIN f : f[m].text # Blank}
             g == [m \in DOMAIN f |-> [number |-> m, text |-> f[m].text]]
             s == FileSource(f)
  <1>0. /\ n \in 1 .. Len(New(c)) /\ n + Len(code) - 1 <= Len(New(c))
        /\ \A k \in 1 .. Len(code) : New(c)[n + k - 1].text = code[k]
    BY DEF StandsAt
  <1>1. Len(f) \in Nat /\ DOMAIN f = 1 .. Len(f)
    BY NewLines DEF NewHas
  <1>2. PICK L \in Nat \ {0} : L = Len(code)
    BY CodeLines
  <1>3. \A k \in 1 .. L : code[k] # Blank
    BY <1>2, CodeLines
  <1>4. S \subseteq 1 .. Len(f)
    BY <1>1
  <1>5. \A m \in S : g[m].number = m /\ g[m].text = f[m].text
    OBVIOUS
  <1>6. \A m \in 1 .. Len(f) : f[m].text # Blank => m \in S
    BY <1>1
  <1>7. s = Picked(g, S)
    BY DEF FileSource
  <1>8. \A k \in 1 .. L : f[n + k - 1].text = code[k]
    BY <1>0, <1>2
  <1> HIDE DEF S, g, s, f
  <1>9. n \in 1 .. Len(f) /\ n + L - 1 <= Len(f) /\ n \in Int
    BY <1>0, <1>1, <1>2 DEF f
  <1>10. \A k \in 1 .. L : n + k - 1 \in 1 .. Len(f) /\ n + k - 1 \in S
    <2>1. ASSUME NEW k \in 1 .. L
          PROVE  n + k - 1 \in 1 .. Len(f) /\ n + k - 1 \in S
      <3>1. n + k - 1 \in 1 .. Len(f)
        BY <1>1, <1>9
      <3>2. f[n + k - 1].text # Blank
        BY <1>3, <1>8
      <3>3. QED
        BY <1>6, <3>1, <3>2
    <2>2. QED
      BY <2>1
  <1>11. PicksOut(g, S)
    BY <1>1, <1>4, PickedAt
  <1>12. Len(s) = Cardinality(S) /\ DOMAIN s = 1 .. Len(s) /\ Len(s) \in Nat
    BY <1>7, <1>11 DEF PicksOut
  <1>13. \A m \in S : Count(S, m) \in 1 .. Len(s) /\ s[Count(S, m)] = g[m]
    BY <1>7, <1>11, <1>12 DEF PicksOut
  <1>14. PICK i : i = Count(S, n)
    OBVIOUS
  <1>15. 1 \in 1 .. L /\ n + 1 - 1 = n /\ L \in 1 .. L
    BY <1>9
  <1>16. i \in 1 .. Len(s) /\ i \in Int
    BY <1>10, <1>12, <1>13, <1>14, <1>15
  <1>17. ASSUME NEW k \in 1 .. L
         PROVE  /\ i + k - 1 \in 1 .. Len(s)
                /\ s[i + k - 1].number = n + k - 1
                /\ s[i + k - 1].text = f[n + k - 1].text
    <2>1. PICK m : m = n + k - 1
      OBVIOUS
    <2>2. m \in 0 .. Len(f) /\ n \in 0 .. Len(f) /\ n <= m /\ m \in S
      <3>1. m \in 1 .. Len(f) /\ m \in S
        BY <1>10, <2>1
      <3>2. QED
        BY <1>1, <1>9, <2>1, <3>1
    <2>3. Grows(S, n, m)
      BY <1>1, <1>4, <2>2, CountGrows
    <2>4. \A x \in n + 1 .. m : x \in S
      <3>1. ASSUME NEW x \in n + 1 .. m
            PROVE  x \in S
        <4>1. x - n + 1 \in 1 .. L /\ n + (x - n + 1) - 1 = x
          BY <1>9, <2>1
        <4>2. QED
          BY <1>10, <4>1
      <3>2. QED
        BY <3>1
    <2>5. Count(S, m) = i + (m - n)
      BY <1>14, <2>3, <2>4 DEF Grows
    <2>6. i + (m - n) = i + k - 1
      BY <1>9, <1>16, <2>1
    <2>7. QED
      BY <1>5, <1>13, <2>1, <2>2, <2>5, <2>6
  <1> DEFINE v == SubSeq(s, i, i + L - 1)
             R == {s[k] : k \in 1 .. Len(s)}
  <1>18. i + L - 1 \in 1 .. Len(s)
    BY <1>15, <1>17
  <1>19. /\ v \in Seq(R) /\ Len(v) = L /\ \A k \in 1 .. L : v[k] = s[i + k - 1]
    <2>1. \A k \in i .. i + L - 1 : s[k] \in R
      BY <1>12, <1>16, <1>18
    <2> HIDE DEF R
    <2>2. i \in Int /\ i + L - 1 \in Int
      BY <1>16
    <2>3. /\ v \in Seq(R)
          /\ Len(v) = IF i <= i + L - 1 THEN (i + L - 1) - i + 1 ELSE 0
          /\ \A k \in 1 .. (i + L - 1) - i + 1 : v[k] = s[i + k - 1]
      BY <2>1, <2>2, SubSeqProperties
    <2>4. i <= i + L - 1 /\ (i + L - 1) - i + 1 = L
      BY <1>16
    <2>5. QED
      BY <2>3, <2>4
  <1>20. DOMAIN v = 1 .. L
    BY <1>19, LenProperties
  <1>21. v \in {SubSeq(s, k, k + L - 1) : k \in 1 .. Len(s) - L + 1}
    <2>1. i \in 1 .. Len(s) - L + 1
      BY <1>12, <1>16, <1>18
    <2>2. QED
      BY <2>1
  <1> HIDE DEF v, R
  <1>22. \A k \in 1 .. L : v[k].number = n + k - 1 /\ v[k].text = code[k]
    BY <1>8, <1>17, <1>19
  <1>23. ASSUME NEW k \in 1 .. L - 1
         PROVE  v[k + 1].number - v[k].number \in 1 .. MaxGap
    <2>1. k \in 1 .. L /\ k + 1 \in 1 .. L
      OBVIOUS
    <2>2. v[k + 1].number = n + (k + 1) - 1 /\ v[k].number = n + k - 1
      BY <1>22, <2>1
    <2>3. v[k + 1].number - v[k].number = 1
      BY <1>9, <2>1, <2>2
    <2>4. QED
      BY <2>3, EvidenceAssumption
  <1>24. v \in Windows(s, L)
    BY <1>21, <1>23 DEF Windows
  <1>25. Candidate(v, w, code) \in Candidates(w, f, code)
    BY <1>2, <1>24, CandidatesAre DEF WindowsOf, s
  <1>26. Agreeing(v, code) = Len(code)
    BY <1>2, <1>22, AgreeingIs
  <1>27. PICK o : o = (\E k \in DOMAIN v : v[k].number \in Reviewable(w))
    OBVIOUS
  <1>28. o = (\E k \in 1 .. Len(code) : n + k - 1 \in Reviewable(w))
    BY <1>2, <1>20, <1>22, <1>27
  <1>29. PICK d : d = Candidate(v, w, code)
    OBVIOUS
  <1>30. d = [first |-> v[1].number, last |-> v[L].number, score |-> Agreeing(v, code),
              overlap |-> o]
    BY <1>19, <1>27, <1>29 DEF Candidate
  <1>31. d.first = v[1].number /\ d.last = v[L].number /\ d.score = Agreeing(v, code) /\ d.overlap = o
    BY <1>30
  <1>32. d.first = n /\ d.last = n + L - 1
    BY <1>15, <1>22, <1>31
  <1>33. d \in Exact(w, c, code)
    BY <1>25, <1>26, <1>29, <1>31 DEF Exact, f
  <1>34. IsAt(d, w, code, n)
    BY <1>2, <1>28, <1>31, <1>32 DEF IsAt
  <1>35. QED
    BY <1>33, <1>34

\* Candidates with the same score, in the same relation to the change, are told apart
\* by their ranges.
LEMMA EqualsFinite ==
    ASSUME NEW c \in Seq(Line), NEW code, NEW S, \A d \in S : IsCandidate(d, c, code), NEW b
    PROVE  IsFiniteSet({e \in S : e.overlap = b.overlap /\ e.score = b.score})
  <1> DEFINE E == {e \in S : e.overlap = b.overlap /\ e.score = b.score}
             T == (0 .. Len(New(c))) \X (0 .. Len(New(c)))
             g == [e \in E |-> <<e.first, e.last>>]
  <1>1. Len(New(c)) \in Int /\ 0 \in Int /\ Len(New(c)) \in Nat
    BY NewLines DEF NewHas
  <1>2. IsFiniteSet(0 .. Len(New(c)))
    BY <1>1, FS_Interval
  <1>3. IsFiniteSet(T)
    BY <1>2, FS_Product
  <1>4. \A e \in E : /\ e.first \in 0 .. Len(New(c)) /\ e.last \in 0 .. Len(New(c))
                     /\ e = [first |-> e.first, last |-> e.last, score |-> b.score,
                             overlap |-> b.overlap]
    BY <1>1 DEF IsCandidate
  <1>5. g \in [E -> T]
    BY <1>4
  <1>6. \A d, e \in E : g[d] = g[e] => d = e
    <2>1. ASSUME NEW d \in E, NEW e \in E, g[d] = g[e]
          PROVE  d.first = e.first /\ d.last = e.last
      BY <2>1
    <2>2. QED
      BY <1>4, <2>1
  <1> HIDE DEF E, T, g
  <1>7. g \in Injection(E, T)
    BY <1>5, <1>6 DEF Injection, IsInjective
  <1>8. IsFiniteSet(E)
    BY <1>3, <1>7, FS_Injection
  <1>9. QED
    BY <1>8 DEF E

\* A match that is not ambiguous leaves no other candidate as good as the one it is
\* made from.
LEMMA OnlyOne ==
    ASSUME NEW c \in Seq(Line), NEW code, NEW S, \A d \in S : IsCandidate(d, c, code),
           NEW b \in S, NEW d \in S, NEW m, MadeFrom(m, b, S), ~m.ambiguous,
           d.overlap = b.overlap, d.score = b.score
    PROVE  d = b
  <1> DEFINE E == {e \in S : e.overlap = b.overlap /\ e.score = b.score}
  <1>1. IsFiniteSet(E)
    BY EqualsFinite
  <1>2. ~(Cardinality(E) > 1)
    BY Zenon DEF MadeFrom
  <1>3. {b, d} \subseteq E
    OBVIOUS
  <1> HIDE DEF E
  <1>4. PICK B : B = {b}
    OBVIOUS
  <1>5. IsFiniteSet(B) /\ Cardinality(B) = 1
    BY <1>4, FS_Singleton
  <1>6. PICK D : D = B \cup {d}
    OBVIOUS
  <1>7. Cardinality(D) = IF d \in B THEN 1 ELSE 1 + 1
    <2>1. Cardinality(B \cup {d}) = IF d \in B THEN Cardinality(B) ELSE Cardinality(B) + 1
      BY <1>5, FS_AddElement
    <2>2. QED
      BY <1>5, <1>6, <2>1
  <1>8. D \in SUBSET E
    BY <1>3, <1>4, <1>6
  <1>9. Cardinality(D) <= Cardinality(E) /\ Cardinality(E) \in Nat
    BY <1>1, <1>8, FS_Subset, FS_CardinalityType
  <1>10. d \in B
    BY <1>2, <1>7, <1>9
  <1>11. QED
    BY <1>4, <1>10

\* How a finding was located.
LEMMA MatchOf ==
    ASSUME FindingInv, stage \in {"unresolved", "located", "checked", "done"}
    PROVE  /\ change \in Seq(Line) /\ PartOf(block, change) /\ issue.code \in Code
           /\ \A d \in Exact(block, change, issue.code) : IsCandidate(d, change, issue.code)
           /\ Exact(block, change, issue.code) # {} =>
                \E b \in Exact(block, change, issue.code), claim \in Nat :
                   /\ MadeFrom(issue.match, b, Exact(block, change, issue.code))
                   /\ \A d \in Exact(block, change, issue.code) : ~Better(d, b, claim)
  <1>1. TypeOK /\ BlockInv /\ LocationInv
    BY DEF FindingInv
  <1>2. change \in Seq(Line) /\ PartOf(block, change)
    BY <1>1, ReviewedPart
  <1>3. issue.code \in Code
    BY <1>1, Assumed DEF BlockInv
  <1>4. PICK lines \in Claims :
            issue.match = Locate(block, New(change), issue.code, Claimed(lines))
    BY <1>1 DEF LocationInv
  <1>5. PICK claim \in Nat : claim = Claimed(lines)
    BY Assumed
  <1>6. PICK m : m = issue.match
    OBVIOUS
  <1>7. m = Locate(block, New(change), issue.code, claim)
    BY <1>4, <1>5, <1>6
  <1>8. PICK E : E = Exact(block, change, issue.code)
    OBVIOUS
  <1>9. E # {} => \E b \in E : MadeFrom(m, b, E) /\ \A d \in E : ~Better(d, b, claim)
    BY <1>2, <1>3, <1>7, <1>8, LocateIs, EvidenceAssumption
  <1>10. \A d \in E : IsCandidate(d, change, issue.code)
    BY <1>2, <1>3, <1>8, CandidateType DEF Exact
  <1>11. QED
    BY <1>2, <1>3, <1>6, <1>8, <1>9, <1>10

LEMMA NotGuessedByInv ==
    ASSUME FindingInv
    PROVE  NothingIsGuessed
  <1>1. SUFFICES ASSUME Kept, issue.relocation = "relocated",
                        NEW n \in DOMAIN New(change),
                        NEW w, w = SubSeq(New(change), n, n + Len(issue.code) - 1),
                        n + Len(issue.code) - 1 <= Len(New(change)),
                        \E k \in DOMAIN w : n + k - 1 \in Reviewable(block),
                        \A k \in DOMAIN w : w[k].text = issue.code[k]
                 PROVE  n = issue.match.first
    BY DEF NothingIsGuessed
  <1> DEFINE f == New(change)
             code == issue.code
             E == Exact(block, change, code)
  <1>2. stage = "done"
    BY <1>1 DEF Kept
  <1>3. change \in Seq(Line) /\ code \in Code /\ \A d \in E : IsCandidate(d, change, code)
    BY <1>2, MatchOf
  <1>4. ~issue.match.ambiguous /\ issue.match.overlap
    BY <1>1, <1>2 DEF FindingInv, LocationInv
  <1>5. Len(f) \in Nat /\ DOMAIN f = 1 .. Len(f) /\ f \in Seq(Line)
    BY <1>3, NewLines DEF NewHas
  <1>6. PICK L \in Nat \ {0} : L = Len(code)
    BY <1>3, CodeLines
  <1>7. n \in 1 .. Len(f) /\ n + L - 1 <= Len(f)
    BY <1>1, <1>5, <1>6
  <1>8. Len(w) = L /\ DOMAIN w = 1 .. L /\ \A k \in 1 .. L : w[k] = f[n + k - 1]
    <2>0. \A k \in 1 .. Len(f) : f[k] \in Line
      BY <1>5, LinesOf
    <2>1. \A k \in n .. n + L - 1 : f[k] \in Line
      BY <1>5, <1>7, <2>0
    <2>2. n \in Int /\ n + L - 1 \in Int
      BY <1>7
    <2> HIDE DEF f
    <2>3. w = SubSeq(f, n, n + L - 1)
      BY <1>1, <1>6 DEF f
    <2>4. /\ w \in Seq(Line)
          /\ Len(w) = IF n <= n + L - 1 THEN (n + L - 1) - n + 1 ELSE 0
          /\ \A k \in 1 .. (n + L - 1) - n + 1 : w[k] = f[n + k - 1]
      BY <2>1, <2>2, <2>3, SubSeqProperties
    <2>5. n <= n + L - 1 /\ (n + L - 1) - n + 1 = L
      BY <1>7
    <2>6. QED
      BY <2>4, <2>5, LenProperties
  <1>9. \A k \in 1 .. Len(code) : f[n + k - 1].text = code[k]
    BY <1>1, <1>6, <1>8
  <1>10. \E k \in 1 .. Len(code) : n + k - 1 \in Reviewable(block)
    BY <1>1, <1>6, <1>8
  <1>11. PICK d \in E : IsAt(d, block, code, n)
    <2>1. StandsAt(change, code, n) /\ n \in Nat
      BY <1>1, <1>7, <1>9 DEF StandsAt
    <2>2. QED
      BY <1>3, <2>1, WholeIsCandidate, EvidenceAssumption
  <1>12. d.overlap /\ d.first = n
    BY <1>10, <1>11 DEF IsAt
  <1>13. PICK b \in E : MadeFrom(issue.match, b, E)
    BY <1>2, MatchOf
  <1>14. b.overlap
    BY <1>4, <1>13, Zenon DEF MadeFrom
  <1>15. d.overlap = b.overlap /\ d.score = b.score
    <2>1. d.overlap \in BOOLEAN /\ b.overlap \in BOOLEAN
      BY <1>3, Zenon DEF IsCandidate
    <2>2. d.overlap = b.overlap
      BY <1>12, <1>14, <2>1, Zenon
    <2>3. QED
      BY <2>2 DEF Exact
  <1> HIDE DEF E
  <1>16. d = b
    BY <1>3, <1>4, <1>13, <1>15, OnlyOne
  <1>17. issue.match.first = b.first
    BY <1>13, Zenon DEF MadeFrom
  <1>18. QED
    BY <1>12, <1>16, <1>17

\* Of places that agree with the quoted code as well, none is picked: a finding is
\* moved only to the one place where its code stands among the changed lines.
THEOREM NotGuessed ==
    Spec => []NothingIsGuessed
  <1>1. FindingInv => NothingIsGuessed
    BY NotGuessedByInv
  <1>2. QED
    BY <1>1, FindingInvariant, PTL

-----------------------------------------------------------------------------
(* A finding about one line is kept                                        *)

\* The only candidate that agrees with a line of code that occurs once is the line.
LEMMA OneLineExact ==
    ASSUME NEW c \in Seq(Line), NEW w, PartOf(w, c), NEW code \in Code, Len(code) = 1,
           NEW n \in Reviewable(w),
           {m \in DOMAIN New(c) : New(c)[m].text = code[1]} = {n},
           NEW e \in Exact(w, c, code)
    PROVE  e = [first |-> n, last |-> n, score |-> Len(code), overlap |-> TRUE]
  <1>1. e \in Candidates(w, New(c), code) /\ e.score = Len(code)
    BY DEF Exact
  <1>2. IsCandidate(e, c, code)
    BY <1>1, CandidateType
  <1>3. PICK v : LinesIn(v, New(c)) /\ Len(v) = Len(code) /\ e = Candidate(v, w, code)
    BY <1>1, CandidateWindow
  <1>4. Len(v) = 1 /\ DOMAIN v = {1}
    <2>1. DOMAIN v = 1 .. Len(v)
      BY <1>3 DEF LinesIn
    <2>2. QED
      BY <1>3, <2>1
  <1>5. PICK o : o = (\E k \in DOMAIN v : v[k].number \in Reviewable(w))
    OBVIOUS
  <1>6. e = [first |-> v[1].number, last |-> v[1].number, score |-> Agreeing(v, code), overlap |-> o]
    BY <1>3, <1>4, <1>5 DEF Candidate
  <1>7. e.first = v[1].number /\ e.last = v[1].number /\ e.score = Agreeing(v, code) /\ e.overlap = o
    BY <1>6
  <1>8. v[1].text = code[1]
    <2>1. Agreeing(v, code) = Len(code)
      BY <1>1, <1>7
    <2>2. \A k \in 1 .. Len(code) : v[k].text = code[k]
      BY <2>1, AgreeingIs
    <2>3. 1 \in 1 .. Len(code)
      OBVIOUS
    <2>4. QED
      BY <2>2, <2>3
  <1>9. v[1].number = n
    <2>1. 1 \in 1 .. Len(v)
      BY <1>4
    <2>2. v[1].number \in 1 .. Len(New(c)) /\ v[1].text = New(c)[v[1].number].text
      BY <1>3, <2>1 DEF LinesIn
    <2>3. DOMAIN New(c) = 1 .. Len(New(c))
      BY NewLines DEF NewHas
    <2>4. v[1].number \in {m \in DOMAIN New(c) : New(c)[m].text = code[1]}
      BY <1>8, <2>2, <2>3
    <2>5. QED
      BY <2>4
  <1>10. o
    BY <1>4, <1>5, <1>9
  <1>11. o \in BOOLEAN
    BY <1>2, <1>7, Zenon DEF IsCandidate
  <1>12. o = TRUE
    BY <1>10, <1>11
  <1>13. QED
    BY <1>1, <1>6, <1>7, <1>9, <1>12

LEMMA OneLineByInv ==
    ASSUME FindingInv
    PROVE  OneLineIsKept
  <1>1. SUFFICES ASSUME Faultless, Len(issue.code) = 1, NEW n \in Reviewable(block),
                        {m \in DOMAIN New(change) : New(change)[m].text = issue.code[1]} = {n}
                 PROVE  issue.filter = "kept" /\ issue.lines = <<n>>
    BY DEF OneLineIsKept
  <1> DEFINE f == New(change)
             code == issue.code
             E == Exact(block, change, code)
             x == [first |-> n, last |-> n, score |-> Len(code), overlap |-> TRUE]
  <1>2. stage = "done" /\ issue.trusted /\ ~refuted /\ ~doubted
    BY <1>1 DEF Faultless
  <1>3. change \in Seq(Line) /\ PartOf(block, change) /\ code \in Code
    BY <1>2, MatchOf
  <1>4. DOMAIN f = 1 .. Len(f) /\ Len(f) \in Nat
    BY <1>3, NewLines DEF NewHas
  <1>5. n \in DOMAIN f /\ f[n].text = code[1]
    BY <1>1
  <1>6. n \in Nat \ {0} /\ n <= Len(f)
    BY <1>4, <1>5
  <1>7. StandsAt(change, code, n)
    <2>1. \A k \in 1 .. Len(code) : k = 1 /\ n + k - 1 = n
      BY <1>1, <1>6
    <2>2. n + Len(code) - 1 <= Len(f)
      BY <1>1, <1>4, <1>6
    <2>3. QED
      BY <1>4, <1>5, <2>1, <2>2 DEF StandsAt
  <1>8. E # {}
    BY <1>3, <1>6, <1>7, WholeIsCandidate, EvidenceAssumption
  <1>9. PICK b \in E : MadeFrom(issue.match, b, E)
    BY <1>2, <1>8, MatchOf
  <1>10. \A e \in E : e = x
    BY <1>1, <1>3, OneLineExact
  <1> HIDE DEF E
  <1>11. E = {x} /\ b = x
    BY <1>9, <1>10
  <1>12. b.first = n /\ b.last = n /\ b.score = Len(code) /\ b.overlap = TRUE
    BY <1>11
  <1>13. /\ issue.match.first = n /\ issue.match.last = n /\ issue.match.score = Len(code)
         /\ issue.match.overlap = TRUE
    BY <1>9, <1>12, Zenon DEF MadeFrom
  <1>14. ~issue.match.ambiguous
    <2>1. PICK S : S = {e \in E : e.overlap = b.overlap /\ e.score = b.score}
      OBVIOUS
    <2>2. S = {x}
      BY <1>11, <2>1
    <2>3. Cardinality(S) = 1
      BY <2>2, FS_Singleton
    <2>4. ~(Cardinality(S) > 1)
      BY <2>3
    <2>5. issue.match.ambiguous = (Cardinality(S) > 1)
      BY <1>9, <2>1, Zenon DEF MadeFrom
    <2>6. QED
      BY <2>4, <2>5, Zenon
  <1>15. Found(issue.match) /\ issue.match.overlap
    BY <1>6, <1>13 DEF Found
  <1>16. issue.relocation # "failed"
    BY <1>2, <1>14, <1>15, Zenon DEF FindingInv, LocationInv
  <1>17. issue.lines = RangeEnds(issue.match)
    BY <1>2, <1>16 DEF FindingInv, LocationInv
  <1>18. issue.lines = <<n>>
    BY <1>13, <1>17 DEF RangeEnds
  <1>19. issue.similar
    <2>1. Enough(issue.match.score, issue.code)
      BY <1>3, <1>13, WholeIsEnough, EvidenceAssumption
    <2>2. QED
      BY <1>2, <2>1 DEF FindingInv, LocationInv
  <1>20. ~HasFault(issue)
    <2>1. issue.lines # <<>> /\ 1 \in DOMAIN issue.lines /\ issue.lines[1] = n
      BY <1>18
    <2>2. ~(\A k \in DOMAIN issue.lines : issue.lines[k] \notin Reviewable(block))
      BY <1>1, <2>1
    <2>3. QED
      BY <1>2, <1>16, <1>19, <2>1, <2>2, Zenon DEF HasFault
  <1>21. issue.filter \in {"kept", "filtered"}
    <2>1. issue.filter \in {"", "kept", "filtered"}
      BY Zenon DEF FindingInv, TypeOK, Issues
    <2>2. issue.filter # ""
      BY <1>2 DEF FindingInv, TypeOK
    <2>3. QED
      BY <2>1, <2>2
  <1>22. issue.filter # "filtered"
    BY <1>2, <1>20 DEF FindingInv, FilterInv
  <1>23. QED
    BY <1>18, <1>21, <1>22

\* A finding that has the confidence it needs and quotes one changed line that occurs
\* once is reported, at that line, if the model has nothing against it.
THEOREM OneLineKept ==
    Spec => []OneLineIsKept
  <1>1. FindingInv => OneLineIsKept
    BY OneLineByInv
  <1>2. QED
    BY <1>1, FindingInvariant, PTL

-----------------------------------------------------------------------------
(* The scan of a block                                                     *)

\* The function that the recursive definition of the states describes exists.
LEMMA ScanStatesIs ==
    ASSUME NEW start, NEW lines, Len(lines) \in Nat
    PROVE  /\ ScanStates(start, lines)[0] = start
           /\ \A n \in 1 .. Len(lines) :
                ScanStates(start, lines)[n] = ScanLine(ScanStates(start, lines)[n - 1], lines[n])
  <1> DEFINE Steps(g, m) == g = [n \in 0 .. m |-> IF n = 0 THEN start
                                                  ELSE ScanLine(g[n - 1], lines[n])]
             U == {m \in 0 .. Len(lines) : \E g : Steps(g, m)}
             s == ScanStates(start, lines)
  <1>1. 0 \in U
    <2> DEFINE g == [n \in 0 .. 0 |-> start]
    <2>1. Steps(g, 0)
      OBVIOUS
    <2> HIDE DEF Steps, g
    <2>2. QED
      BY <2>1
  <1>2. ASSUME NEW m \in 0 .. Len(lines), m < Len(lines), m \in U
        PROVE  m + 1 \in U
    <2>1. PICK g : Steps(g, m)
      BY <1>2
    <2> DEFINE h == [n \in 0 .. m + 1 |-> IF n = m + 1 THEN ScanLine(g[m], lines[m + 1]) ELSE g[n]]
    <2>2. ASSUME NEW n \in 0 .. m + 1
          PROVE  h[n] = IF n = 0 THEN start ELSE ScanLine(h[n - 1], lines[n])
      <3>1. CASE n = 0
        <4>1. 0 \in 0 .. m /\ 0 # m + 1
          OBVIOUS
        <4>2. g[0] = start
          BY <2>1, <4>1
        <4>3. QED
          BY <3>1, <4>1, <4>2
      <3>2. CASE n = m + 1
        <4>1. n - 1 = m /\ m \in 0 .. m + 1 /\ m # m + 1 /\ n # 0
          BY <3>2
        <4>2. h[n - 1] = g[m] /\ h[n] = ScanLine(g[m], lines[m + 1])
          BY <3>2, <4>1
        <4>3. QED
          BY <3>2, <4>1, <4>2
      <3>3. CASE n # 0 /\ n # m + 1
        <4>1. n \in 0 .. m /\ n - 1 \in 0 .. m /\ n - 1 # m + 1 /\ n - 1 \in 0 .. m + 1
          BY <3>3
        <4>2. g[n] = ScanLine(g[n - 1], lines[n])
          BY <2>1, <3>3, <4>1
        <4>3. h[n] = g[n] /\ h[n - 1] = g[n - 1]
          BY <3>3, <4>1
        <4>4. QED
          BY <3>3, <4>2, <4>3
      <3>4. QED
        BY <3>1, <3>2, <3>3
    <2>3. Steps(h, m + 1)
      <3>1. h = [n \in 0 .. m + 1 |-> h[n]]
        OBVIOUS
      <3> HIDE DEF h
      <3>2. QED
        BY <2>2, <3>1
    <2>4. m + 1 \in 0 .. Len(lines)
      BY <1>2
    <2> HIDE DEF Steps, h
    <2>5. \E f : Steps(f, m + 1)
      BY <2>3
    <2>6. QED
      BY <2>4, <2>5
  <1>3. Len(lines) \in U
    <2> HIDE DEF U
    <2>1. PICK N \in Nat : N = Len(lines)
      OBVIOUS
    <2>2. \A m \in 0 .. N : m < N /\ m \in U => m + 1 \in U
      BY <1>2, <2>1
    <2>3. \A m \in 0 .. N : m \in U
      BY <1>1, <2>2, UpTo
    <2>4. QED
      BY <2>1, <2>3
  <1>4. s = CHOOSE g : Steps(g, Len(lines))
    BY DEF ScanStates
  <1>5. \E g : Steps(g, Len(lines))
    BY <1>3
  <1>6. Steps(s, Len(lines))
    <2> HIDE DEF Steps, s
    <2>1. QED
      BY <1>4, <1>5
  <1>7. QED
    <2> HIDE DEF s
    <2>1. s[0] = start /\ \A n \in 1 .. Len(lines) : s[n] = ScanLine(s[n - 1], lines[n])
      BY <1>6
    <2>2. QED
      BY <2>1 DEF s

LEMMA ScanBlocksIs ==
    ASSUME NEW blocks, Len(blocks) \in Nat
    PROVE  /\ ScanBlocks(blocks)[0] = [old |-> FALSE, new |-> FALSE, flag |-> FALSE]
           /\ \A n \in 1 .. Len(blocks) :
                ScanBlocks(blocks)[n] = ScanBlock(ScanBlocks(blocks)[n - 1], blocks[n])
  <1> DEFINE start == [old |-> FALSE, new |-> FALSE, flag |-> FALSE]
             Steps(g, m) == g = [n \in 0 .. m |-> IF n = 0 THEN start
                                                  ELSE ScanBlock(g[n - 1], blocks[n])]
             U == {m \in 0 .. Len(blocks) : \E g : Steps(g, m)}
             s == ScanBlocks(blocks)
  <1>1. 0 \in U
    <2> DEFINE g == [n \in 0 .. 0 |-> start]
    <2>1. Steps(g, 0)
      OBVIOUS
    <2> HIDE DEF Steps, g
    <2>2. QED
      BY <2>1
  <1>2. ASSUME NEW m \in 0 .. Len(blocks), m < Len(blocks), m \in U
        PROVE  m + 1 \in U
    <2>1. PICK g : Steps(g, m)
      BY <1>2
    <2> DEFINE h == [n \in 0 .. m + 1 |-> IF n = m + 1 THEN ScanBlock(g[m], blocks[m + 1]) ELSE g[n]]
    <2>2. ASSUME NEW n \in 0 .. m + 1
          PROVE  h[n] = IF n = 0 THEN start ELSE ScanBlock(h[n - 1], blocks[n])
      <3>1. CASE n = 0
        <4>1. 0 \in 0 .. m /\ 0 # m + 1
          OBVIOUS
        <4>2. g[0] = start
          BY <2>1, <4>1
        <4>3. QED
          BY <3>1, <4>1, <4>2
      <3>2. CASE n = m + 1
        <4>1. n - 1 = m /\ m \in 0 .. m + 1 /\ m # m + 1 /\ n # 0
          BY <3>2
        <4>2. h[n - 1] = g[m] /\ h[n] = ScanBlock(g[m], blocks[m + 1])
          BY <3>2, <4>1
        <4>3. QED
          BY <3>2, <4>1, <4>2
      <3>3. CASE n # 0 /\ n # m + 1
        <4>1. n \in 0 .. m /\ n - 1 \in 0 .. m /\ n - 1 # m + 1 /\ n - 1 \in 0 .. m + 1
          BY <3>3
        <4>2. g[n] = ScanBlock(g[n - 1], blocks[n])
          BY <2>1, <3>3, <4>1
        <4>3. h[n] = g[n] /\ h[n - 1] = g[n - 1]
          BY <3>3, <4>1
        <4>4. QED
          BY <3>3, <4>2, <4>3
      <3>4. QED
        BY <3>1, <3>2, <3>3
    <2>3. Steps(h, m + 1)
      <3>1. h = [n \in 0 .. m + 1 |-> h[n]]
        OBVIOUS
      <3> HIDE DEF h
      <3>2. QED
        BY <2>2, <3>1
    <2>4. m + 1 \in 0 .. Len(blocks)
      BY <1>2
    <2> HIDE DEF Steps, h
    <2>5. \E f : Steps(f, m + 1)
      BY <2>3
    <2>6. QED
      BY <2>4, <2>5
  <1>3. Len(blocks) \in U
    <2> HIDE DEF U
    <2>1. PICK N \in Nat : N = Len(blocks)
      OBVIOUS
    <2>2. \A m \in 0 .. N : m < N /\ m \in U => m + 1 \in U
      BY <1>2, <2>1
    <2>3. \A m \in 0 .. N : m \in U
      BY <1>1, <2>2, UpTo
    <2>4. QED
      BY <2>1, <2>3
  <1>4. s = CHOOSE g : Steps(g, Len(blocks))
    BY DEF ScanBlocks
  <1>5. \E g : Steps(g, Len(blocks))
    BY <1>3
  <1>6. Steps(s, Len(blocks))
    <2> HIDE DEF Steps, s
    <2>1. QED
      BY <1>4, <1>5
  <1>7. QED
    <2> HIDE DEF s, start
    <2>1. s[0] = start /\ \A n \in 1 .. Len(blocks) : s[n] = ScanBlock(s[n - 1], blocks[n])
      BY <1>6
    <2>2. QED
      BY <2>1 DEF s, start

-----------------------------------------------------------------------------
(* The comments of a file, line by line                                    *)

\* Whether the next line stands in a comment follows from the line and whether it
\* stands in one itself.
LEMMA CommentStep ==
    ASSUME NEW f, NEW n \in Nat \ {0}
    PROVE  InComment(f, n + 1) <=> Leaves(f[n].text, InComment(f, n))
  <1>1. n + 1 - 1 = n /\ n \in 1 .. n /\ \A k \in 1 .. n : k \in 1 .. n - 1 \/ k = n
    OBVIOUS
  <1>2. \A k : k \in 1 .. n - 1 => k \in 1 .. n /\ k # n /\ n \in k + 1 .. n
    OBVIOUS
  <1>3. \A k, j : j \in k + 1 .. n - 1 => j \in k + 1 .. n
    OBVIOUS
  <1>4. ASSUME NEW k \in 1 .. n - 1, NEW j \in k + 1 .. n
        PROVE  j \in k + 1 .. n - 1 \/ j = n
    OBVIOUS
  <1>5. ~\E j : j \in n + 1 .. n
    OBVIOUS
  <1>6. InComment(f, n + 1) <=>
          \E k \in 1 .. n : f[k].text = "open" /\ \A j \in k + 1 .. n : f[j].text # "close"
    BY <1>1 DEF InComment
  <1>7. CASE InComment(f, n)
    <2>1. PICK k \in 1 .. n - 1 : f[k].text = "open" /\ \A j \in k + 1 .. n - 1 : f[j].text # "close"
      BY <1>7 DEF InComment
    <2>2. f[n].text # "close" => InComment(f, n + 1)
      BY <1>2, <1>4, <1>6, <2>1
    <2>3. InComment(f, n + 1) => f[n].text # "close"
      <3>1. SUFFICES ASSUME NEW i \in 1 .. n, f[i].text = "open",
                            \A j \in i + 1 .. n : f[j].text # "close"
                     PROVE  f[n].text # "close"
        BY <1>6
      <3>2. CASE i = n
        BY <3>1, <3>2
      <3>3. CASE i \in 1 .. n - 1
        BY <1>2, <3>1, <3>3
      <3>4. QED
        BY <1>1, <3>2, <3>3
    <2>4. QED
      BY <1>7, <2>2, <2>3 DEF Leaves
  <1>8. CASE ~InComment(f, n)
    <2>1. f[n].text = "open" => InComment(f, n + 1)
      BY <1>1, <1>5, <1>6
    <2>2. InComment(f, n + 1) => f[n].text = "open"
      <3>1. SUFFICES ASSUME NEW i \in 1 .. n, f[i].text = "open",
                            \A j \in i + 1 .. n : f[j].text # "close"
                     PROVE  f[n].text = "open"
        BY <1>6
      <3>2. CASE i = n
        BY <3>1, <3>2
      <3>3. CASE i \in 1 .. n - 1
        <4>1. \A j \in i + 1 .. n - 1 : f[j].text # "close"
          BY <1>3, <3>1
        <4>2. InComment(f, n)
          BY <3>1, <3>3, <4>1 DEF InComment
        <4>3. QED
          BY <1>8, <4>2
      <3>4. QED
        BY <1>1, <3>2, <3>3
    <2>3. QED
      BY <1>8, <2>1, <2>2 DEF Leaves
  <1>9. QED
    BY <1>7, <1>8

\* Whether the line after the first p lines of a change stands in a comment, in the
\* file that the lines marked gone are no part of.
Inside(c, gone, p) == InComment(Side(c, gone), Count(Stay(c, gone), p) + 1)

LEMMA InsideStep ==
    ASSUME NEW c \in Seq(Line), NEW gone, NEW p \in 1 .. Len(c)
    PROVE  /\ c[p].mark = gone => (Inside(c, gone, p) <=> Inside(c, gone, p - 1))
           /\ c[p].mark # gone => (Inside(c, gone, p) <=> Leaves(c[p].text, Inside(c, gone, p - 1)))
  <1> DEFINE S == Stay(c, gone)
             f == Side(c, gone)
  <1>1. Len(c) \in Nat /\ DOMAIN c = 1 .. Len(c) /\ S \subseteq 1 .. Len(c)
    BY LinesOf
  <1>2. p \in S <=> c[p].mark # gone
    BY <1>1 DEF Stay
  <1>3. SideHas(c, gone)
    BY SideLines
  <1>4. CountsUp(S, Len(c))
    BY <1>1, CountUp
  <1> HIDE DEF S, f
  <1>5. Count(S, p) = IF p \in S THEN Count(S, p - 1) + 1 ELSE Count(S, p - 1)
    BY <1>4 DEF CountsUp
  <1>6. CASE c[p].mark = gone
    BY <1>2, <1>5, <1>6 DEF Inside, S
  <1>7. CASE c[p].mark # gone
    <2>1. PICK n : n = Count(S, p)
      OBVIOUS
    <2>2. n = Count(S, p - 1) + 1 /\ f[n] = c[p] /\ n \in Nat \ {0}
      <3>1. Count(S, p) \in 1 .. Len(f) /\ f[Count(S, p)] = c[p] /\ Len(f) \in Nat
        BY <1>2, <1>3, <1>7 DEF SideHas, S, f
      <3>2. QED
        BY <1>2, <1>5, <1>7, <2>1, <3>1
    <2>3. InComment(f, n + 1) <=> Leaves(f[n].text, InComment(f, n))
      BY <2>2, CommentStep
    <2>4. Inside(c, gone, p) = InComment(f, n + 1) /\ Inside(c, gone, p - 1) = InComment(f, n)
      BY <2>1, <2>2 DEF Inside, S, f
    <2>5. QED
      BY <1>7, <2>2, <2>3, <2>4
  <1>8. QED
    BY <1>6, <1>7

LEMMA ActsAt ==
    ASSUME change \in Seq(Line), NEW p \in 1 .. Len(change)
    PROVE  LET line == Numbered(change)[p]
           IN  TrulyActs(line) <=>
                 \/ line.mark = "-" /\ Acts(line.text, Inside(change, "+", p - 1))
                 \/ line.mark = "+" /\ Acts(line.text, Inside(change, "-", p - 1))
  <1>1. Len(change) \in Nat /\ DOMAIN change = 1 .. Len(change)
        /\ Stay(change, "+") \subseteq 1 .. Len(change)
        /\ Stay(change, "-") \subseteq 1 .. Len(change)
    BY LinesOf
  <1>2. PICK line : line = Numbered(change)[p]
    OBVIOUS
  <1>3. line.mark = change[p].mark /\ line.number = Number(change, p)
    BY <1>2, NumberedAt
  <1>4. CountsUp(Stay(change, "+"), Len(change)) /\ CountsUp(Stay(change, "-"), Len(change))
    BY <1>1, CountUp
  <1>5. /\ line.mark = "-" => line.number = Count(Stay(change, "+"), p)
        /\ line.mark = "+" => line.number = Count(Stay(change, "-"), p)
    BY <1>3, NumberCounts
  <1>6. /\ line.mark = "-" => p \in Stay(change, "+")
        /\ line.mark = "+" => p \in Stay(change, "-")
    BY <1>1, <1>3 DEF Stay
  <1>7. line.mark = "-" => line.number = Count(Stay(change, "+"), p - 1) + 1
    BY <1>4, <1>5, <1>6 DEF CountsUp
  <1>8. line.mark = "+" => line.number = Count(Stay(change, "-"), p - 1) + 1
    BY <1>4, <1>5, <1>6 DEF CountsUp
  <1>9. TrulyActs(line) <=>
          \/ line.mark = "-" /\ Acts(line.text, Inside(change, "+", p - 1))
          \/ line.mark = "+" /\ Acts(line.text, Inside(change, "-", p - 1))
    BY <1>7, <1>8 DEF TrulyActs, Inside, Old, New
  <1>10. QED
    BY <1>2, <1>9

\* A state of the scan knows whether the line after the first p stands in a comment.
Follows(state, p) ==
    /\ state.old \in BOOLEAN /\ state.new \in BOOLEAN
    /\ state.old <=> Inside(change, "+", p)
    /\ state.new <=> Inside(change, "-", p)

\* The state after one line more.
Advances(next, state, line, p) ==
    /\ Follows(next, p)
    /\ next.seen \in BOOLEAN /\ next.acts \in BOOLEAN
    /\ next.seen <=> state.seen \/ line.mark # " "
    /\ next.acts <=> state.acts \/ TrulyActs(line)

LEMMA ScanLineIs ==
    ASSUME change \in Seq(Line), NEW p \in 1 .. Len(change), NEW state, Follows(state, p - 1),
           state.seen \in BOOLEAN, state.acts \in BOOLEAN
    PROVE  Advances(ScanLine(state, Numbered(change)[p]), state, Numbered(change)[p], p)
  <1>1. PICK line : line = Numbered(change)[p]
    OBVIOUS
  <1>2. line.mark = change[p].mark /\ line.text = change[p].text /\ line.mark \in {" ", "-", "+"}
    BY <1>1, NumberedAt, LinesOf
  <1>3. PICK x \in BOOLEAN : x = state.old
    BY DEF Follows
  <1>4. PICK y \in BOOLEAN : y = state.new
    BY DEF Follows
  <1>5. (x <=> Inside(change, "+", p - 1)) /\ (y <=> Inside(change, "-", p - 1))
    BY <1>3, <1>4 DEF Follows
  <1>6. PICK a \in BOOLEAN : a = IF line.mark # "+" THEN Leaves(line.text, x) ELSE x
    BY DEF Leaves
  <1>7. PICK b \in BOOLEAN : b = IF line.mark # "-" THEN Leaves(line.text, y) ELSE y
    BY DEF Leaves
  <1>8. PICK s \in BOOLEAN : s = (state.seen \/ line.mark # " ")
    OBVIOUS
  <1>9. PICK t \in BOOLEAN : t = (\/ state.acts
                                  \/ line.mark = "-" /\ Acts(line.text, x)
                                  \/ line.mark = "+" /\ Acts(line.text, y))
    OBVIOUS
  <1>10. ScanLine(state, line) = [old |-> a, new |-> b, seen |-> s, acts |-> t]
    <2>1. (line.mark \in {" ", "-"} <=> line.mark # "+") /\ (line.mark \in {" ", "+"} <=> line.mark # "-")
      BY <1>2
    <2>2. a = IF line.mark \in {" ", "-"} THEN Leaves(line.text, state.old) ELSE state.old
      BY <1>3, <1>6, <2>1
    <2>3. b = IF line.mark \in {" ", "+"} THEN Leaves(line.text, state.new) ELSE state.new
      BY <1>4, <1>7, <2>1
    <2>4. t = (\/ state.acts
               \/ line.mark = "-" /\ Acts(line.text, state.old)
               \/ line.mark = "+" /\ Acts(line.text, state.new))
      BY <1>3, <1>4, <1>9
    <2>5. QED
      BY <1>8, <2>2, <2>3, <2>4 DEF ScanLine
  <1>11. PICK next : next = ScanLine(state, line)
    OBVIOUS
  <1>12. next.old = a /\ next.new = b /\ next.seen = s /\ next.acts = t
    BY <1>10, <1>11
  <1>13. a <=> Inside(change, "+", p)
    BY <1>2, <1>5, <1>6, InsideStep DEF Leaves
  <1>14. b <=> Inside(change, "-", p)
    BY <1>2, <1>5, <1>7, InsideStep DEF Leaves
  <1>15. TrulyActs(line) <=>
           \/ line.mark = "-" /\ Acts(line.text, Inside(change, "+", p - 1))
           \/ line.mark = "+" /\ Acts(line.text, Inside(change, "-", p - 1))
    BY <1>1, ActsAt
  <1>16. t <=> state.acts \/ TrulyActs(line)
    BY <1>5, <1>9, <1>15 DEF Acts, HasCode
  <1>17. QED
    BY <1>1, <1>8, <1>11, <1>12, <1>13, <1>14, <1>16 DEF Follows, Advances

\* The lines of the change after the first q.
Run(w, q) ==
    /\ Len(w) \in Nat /\ DOMAIN w = 1 .. Len(w) /\ q + Len(w) <= Len(change)
    /\ \A i \in 1 .. Len(w) : w[i] = Numbered(change)[q + i]

\* The state after n lines of a block.
Scanned(state, w, q, n) ==
    /\ Follows(state, q + n)
    /\ state.seen \in BOOLEAN /\ state.acts \in BOOLEAN
    /\ state.seen <=> \E i \in 1 .. n : w[i].mark # " "
    /\ state.acts <=> \E i \in 1 .. n : TrulyActs(w[i])

LEMMA ScannedStep ==
    ASSUME change \in Seq(Line), NEW w, NEW q \in Nat, Run(w, q), NEW n \in Nat, n < Len(w),
           NEW state, Scanned(state, w, q, n)
    PROVE  Scanned(ScanLine(state, w[n + 1]), w, q, n + 1)
  <1>1. Len(change) \in Nat /\ Len(w) \in Nat
    BY LinesOf DEF Run
  <1>2. PICK p \in 1 .. Len(change) : p = q + (n + 1) /\ p - 1 = q + n /\ w[n + 1] = Numbered(change)[p]
    <2>1. q + (n + 1) \in 1 .. Len(change) /\ q + (n + 1) - 1 = q + n /\ n + 1 \in 1 .. Len(w)
      BY <1>1 DEF Run
    <2>2. QED
      BY <2>1 DEF Run
  <1>3. PICK line : line = w[n + 1]
    OBVIOUS
  <1>4. PICK next : next = ScanLine(state, line)
    OBVIOUS
  <1>5. Follows(state, p - 1) /\ state.seen \in BOOLEAN /\ state.acts \in BOOLEAN
    BY <1>2 DEF Scanned
  <1>6. Advances(next, state, line, p)
    BY <1>2, <1>3, <1>4, <1>5, ScanLineIs
  <1>7. \A i : i \in 1 .. n + 1 <=> i \in 1 .. n \/ i = n + 1
    OBVIOUS
  <1>8. next.seen <=> \E i \in 1 .. n + 1 : w[i].mark # " "
    BY <1>3, <1>6, <1>7 DEF Scanned, Advances
  <1>9. next.acts <=> \E i \in 1 .. n + 1 : TrulyActs(w[i])
    BY <1>3, <1>6, <1>7 DEF Scanned, Advances
  <1>10. Scanned(next, w, q, n + 1)
    BY <1>2, <1>6, <1>8, <1>9 DEF Scanned, Advances
  <1>11. QED
    BY <1>3, <1>4, <1>10

\* What is known after a block of the lines before it and of its own.
LEMMA ScanBlockIs ==
    ASSUME change \in Seq(Line), NEW w, NEW q \in Nat, Run(w, q),
           NEW scan, Follows(scan, q)
    PROVE  /\ Follows(ScanBlock(scan, w), q + Len(w))
           /\ ScanBlock(scan, w).flag <=> /\ \E i \in 1 .. Len(w) : w[i].mark # " "
                                          /\ \A i \in 1 .. Len(w) : ~TrulyActs(w[i])
  <1> DEFINE start == [old |-> scan.old, new |-> scan.new, seen |-> FALSE, acts |-> FALSE]
             s == ScanStates(start, w)
             U == {n \in 0 .. Len(w) : Scanned(s[n], w, q, n)}
  <1>1. PICK N \in Nat : N = Len(w)
    BY DEF Run
  <1>2. s[0] = start /\ \A n \in 1 .. N : s[n] = ScanLine(s[n - 1], w[n])
    BY <1>1, ScanStatesIs
  <1>3. 0 \in U
    <2>1. start.old = scan.old /\ start.new = scan.new /\ start.seen = FALSE /\ start.acts = FALSE
      OBVIOUS
    <2>2. q + 0 = q /\ 1 .. 0 = {}
      OBVIOUS
    <2> HIDE DEF start
    <2>3. Scanned(start, w, q, 0)
      BY <2>1, <2>2 DEF Scanned, Follows
    <2>4. QED
      BY <1>1, <1>2, <2>3
  <1> HIDE DEF start, s
  <1>4. ASSUME NEW n \in 0 .. N, n < N, n \in U
        PROVE  n + 1 \in U
    <2>1. n \in Nat /\ n < Len(w) /\ Scanned(s[n], w, q, n)
      BY <1>1, <1>4
    <2>2. Scanned(ScanLine(s[n], w[n + 1]), w, q, n + 1)
      BY <2>1, ScannedStep
    <2>3. n + 1 \in 1 .. N /\ n + 1 - 1 = n
      BY <1>4
    <2>4. s[n + 1] = ScanLine(s[n], w[n + 1])
      BY <1>2, <2>3
    <2>5. QED
      BY <1>1, <2>2, <2>3, <2>4
  <1>5. N \in U
    <2> HIDE DEF U
    <2>1. \A n \in 0 .. N : n < N /\ n \in U => n + 1 \in U
      BY <1>4
    <2>2. \A n \in 0 .. N : n \in U
      BY <1>3, <2>1, UpTo
    <2>3. QED
      BY <2>2
  <1>6. Scanned(s[N], w, q, N)
    BY <1>5
  <1>7. PICK state : state = s[N]
    OBVIOUS
  <1>8. ScanBlock(scan, w) = [old |-> state.old, new |-> state.new,
                              flag |-> state.seen /\ ~state.acts]
    BY <1>1, <1>7 DEF ScanBlock, s, start
  <1>9. PICK next : next = ScanBlock(scan, w)
    OBVIOUS
  <1>10. next.old = state.old /\ next.new = state.new /\ next.flag = (state.seen /\ ~state.acts)
    BY <1>8, <1>9
  <1>11. Follows(next, q + Len(w))
    BY <1>1, <1>6, <1>7, <1>10 DEF Scanned, Follows
  <1>12. next.flag <=> /\ \E i \in 1 .. Len(w) : w[i].mark # " "
                       /\ \A i \in 1 .. Len(w) : ~TrulyActs(w[i])
    BY <1>1, <1>6, <1>7, <1>10 DEF Scanned
  <1>13. QED
    BY <1>9, <1>11, <1>12

-----------------------------------------------------------------------------
(* The blocks of a change that is shown as a whole                         *)

LEMMA AllShown ==
    ASSUME NEW c \in Seq(Line), Len(DiffLines(c)) = Len(c)
    PROVE  \A i \in 1 .. Len(c) : DiffLines(c)[i] = Numbered(c)[i]
  <1> DEFINE S == {i \in DOMAIN c : Shown(c, i)}
             D == DiffLines(c)
  <1>1. Len(c) \in Nat /\ DOMAIN c = 1 .. Len(c) /\ S \subseteq 1 .. Len(c)
    BY LinesOf
  <1>2. PicksOut(Numbered(c), S)
    BY <1>1, PickedAt
  <1>3. D = Picked(Numbered(c), S)
    BY DEF DiffLines
  <1>4. CountsUp(S, Len(c))
    BY <1>1, CountUp
  <1> HIDE DEF S
  <1>5. Cardinality(S) = Len(c)
    BY <1>2, <1>3 DEF PicksOut
  <1>6. S = 1 .. Len(c)
    <2>1. 1 \in Int /\ Len(c) \in Int
      BY <1>1
    <2>2. IsFiniteSet(1 .. Len(c)) /\ Cardinality(1 .. Len(c)) = IF 1 > Len(c) THEN 0 ELSE Len(c) - 1 + 1
      BY <2>1, FS_Interval
    <2>3. Cardinality(1 .. Len(c)) = Len(c)
      BY <1>1, <2>2
    <2>4. S \in SUBSET (1 .. Len(c))
      BY <1>1
    <2>5. QED
      BY <1>5, <2>2, <2>3, <2>4, FS_Subset
  <1>7. ASSUME NEW i \in 1 .. Len(c)
        PROVE  D[i] = Numbered(c)[i]
    <2>1. 0 \in 0 .. Len(c) /\ i \in 0 .. Len(c) /\ 0 <= i
      BY <1>1
    <2>2. Grows(S, 0, i)
      BY <1>1, <2>1, CountGrows
    <2>3. \A k \in 0 + 1 .. i : k \in S
      BY <1>1, <1>6
    <2>4. Count(S, i) = Count(S, 0) + (i - 0) /\ Count(S, 0) = 0
      BY <1>4, <2>2, <2>3 DEF Grows, CountsUp
    <2>5. Count(S, i) = i
      BY <2>4
    <2>6. QED
      BY <1>2, <1>3, <1>6, <2>5 DEF PicksOut
  <1>8. QED
    BY <1>7

\* Every block but the last is as long as the threshold allows.
LEMMA Blockwise ==
    ASSUME NEW L \in Nat, NEW T \in Nat \ {0}, NEW K, K = (L + T - 1) \div T
    PROVE  K \in Nat /\ \A b \in 0 .. K - 1 : b * T \in Nat /\ b * T < L
  <1>1. PICK x \in Nat : x = L + T - 1
    OBVIOUS
  <1>2. K \in Nat /\ K * T <= x
    BY <1>1
  <1>3. PICK k \in Nat : k = K
    BY <1>2
  <1>4. ASSUME NEW b \in Nat, b <= k - 1
        PROVE  b * T \in Nat /\ b * T < L
    <2>1. PICK d \in Nat : d = k - 1 - b
      BY <1>4
    <2>2. b = k - 1 - d
      BY <2>1
    <2>3. b * T = k * T - T - d * T
      BY <2>2
    <2>4. d * T \in Nat /\ b * T \in Nat /\ k * T \in Nat
      OBVIOUS
    <2>5. k * T <= x
      BY <1>2, <1>3
    <2>6. QED
      BY <1>1, <2>3, <2>4, <2>5
  <1>5. QED
    BY <1>2, <1>3, <1>4

\* Block b holds the lines after the first b - 1 blocks.
BlockAt(b) ==
    /\ (b - 1) * Threshold \in Nat
    /\ Run(Blocks[b], (b - 1) * Threshold)
    /\ b < Len(Blocks) => (b - 1) * Threshold + Len(Blocks[b]) = b * Threshold

LEMMA BlocksAre ==
    ASSUME DiffAssumption, change \in Seq(Line), Len(DiffLines(change)) = Len(change)
    PROVE  /\ Len(Blocks) \in Nat /\ DOMAIN Blocks = 1 .. Len(Blocks)
           /\ \A b \in 1 .. Len(Blocks) : BlockAt(b)
  <1> DEFINE D == DiffLines(change)
             B == Blocks
  <1>1. PICK L \in Nat : L = Len(D) /\ L = Len(change)
    BY LinesOf
  <1>2. PICK T \in Nat \ {0} : T = Threshold
    BY DiffAssumption
  <1>3. PICK K : K = (L + T - 1) \div T
    OBVIOUS
  <1>4. K \in Nat /\ \A b \in 0 .. K - 1 : b * T \in Nat /\ b * T < L
    BY <1>3, Blockwise
  <1>5. PartOf(D, change)
    BY DiffLinesPart
  <1>6. \A i \in 1 .. L : D[i] = Numbered(change)[i]
    BY <1>1, AllShown
  <1> HIDE DEF D
  <1>7. B = [b \in 1 .. K |-> SubSeq(D, (b - 1) * T + 1, Min({b * T, L}))]
    BY <1>1, <1>2, <1>3 DEF Blocks, Split, D
  <1> HIDE DEF B
  <1>8. DOMAIN B = 1 .. K /\ Len(B) = K
    BY <1>4, <1>7
  <1>9. ASSUME NEW b \in 1 .. K
        PROVE  BlockAt(b)
    <2>1. PICK q \in Nat : q = (b - 1) * T /\ q < L
      <3>1. b - 1 \in 0 .. K - 1
        BY <1>4
      <3>2. QED
        BY <1>4, <3>1
    <2>2. PICK e \in Nat : e = b * T /\ e = q + T
      <3>1. b * T = (b - 1) * T + T
        OBVIOUS
      <3>2. QED
        BY <2>1, <3>1
    <2>3. PICK n \in {e, L} : n <= e /\ n <= L /\ n = Min({b * T, L})
      <3>1. Min({e, L}) \in {e, L} /\ Min({e, L}) <= e /\ Min({e, L}) <= L
        BY LeastExists, {e, L} \subseteq Nat
      <3>2. QED
        BY <2>2, <3>1
    <2>4. q + 1 <= n /\ n \in Nat
      BY <2>1, <2>2, <2>3
    <2>5. PICK w : w = B[b]
      OBVIOUS
    <2>6. w = SubSeq(D, q + 1, n)
      BY <1>7, <2>1, <2>3, <2>5
    <2> DEFINE R == {D[i] : i \in 1 .. L}
    <2>7. \A i \in q + 1 .. n : D[i] \in R
      BY <2>1, <2>3
    <2> HIDE DEF R
    <2>8. /\ w \in Seq(R)
          /\ Len(w) = IF q + 1 <= n THEN n - (q + 1) + 1 ELSE 0
          /\ \A i \in 1 .. n - (q + 1) + 1 : w[i] = D[(q + 1) + i - 1]
      <3>1. q + 1 \in Int /\ n \in Int
        BY <2>4
      <3>2. QED
        BY <2>6, <2>7, <3>1, SubSeqProperties
    <2>9. Len(w) = n - q /\ \A i \in 1 .. n - q : w[i] = D[q + i]
      <3>1. n - (q + 1) + 1 = n - q /\ \A i \in 1 .. n - q : (q + 1) + i - 1 = q + i
        BY <2>4
      <3>2. QED
        BY <2>4, <2>8, <3>1
    <2>10. Run(w, q)
      <3>1. Len(w) \in Nat /\ DOMAIN w = 1 .. Len(w)
        BY <2>8, LenProperties
      <3>2. q + Len(w) <= Len(change)
        BY <1>1, <2>3, <2>4, <2>9
      <3>3. \A i \in 1 .. n - q : q + i \in 1 .. L
        BY <2>3, <2>4
      <3>4. \A i \in 1 .. Len(w) : w[i] = Numbered(change)[q + i]
        BY <1>6, <2>9, <3>3
      <3>5. QED
        BY <3>1, <3>2, <3>4 DEF Run
    <2>11. b < K => q + Len(w) = b * T
      <3>1. SUFFICES ASSUME b < K PROVE q + Len(w) = b * T
        OBVIOUS
      <3>2. b * T < L
        <4>1. b \in 0 .. K - 1
          BY <1>4, <3>1
        <4>2. QED
          BY <1>4, <4>1
      <3>3. n = e
        BY <2>2, <2>3, <3>2
      <3>4. QED
        BY <2>2, <2>9, <3>3
    <2>12. QED
      BY <1>2, <1>8, <2>1, <2>5, <2>10, <2>11 DEF BlockAt, B
  <1>10. QED
    BY <1>4, <1>8, <1>9 DEF B

\* Where the whole change is shown, the scan of the blocks follows the comments of
\* both files.
LEMMA FollowsBlocks ==
    ASSUME DiffAssumption, change \in Seq(Line), Len(DiffLines(change)) = Len(change)
    PROVE  \A b \in 1 .. Len(Blocks) : Follows(ScanBlocks(Blocks)[b - 1], (b - 1) * Threshold)
  <1> DEFINE s == ScanBlocks(Blocks)
             U == {b \in 0 .. Len(Blocks) : b < Len(Blocks) => Follows(s[b], b * Threshold)}
  <1>1. PICK K \in Nat : K = Len(Blocks)
    BY BlocksAre
  <1>2. \A b \in 1 .. K : BlockAt(b)
    BY <1>1, BlocksAre
  <1>3. /\ s[0] = [old |-> FALSE, new |-> FALSE, flag |-> FALSE]
        /\ \A b \in 1 .. K : s[b] = ScanBlock(s[b - 1], Blocks[b])
    BY <1>1, ScanBlocksIs
  <1> HIDE DEF s
  <1>4. 0 \in U
    <2>1. s[0].old = FALSE /\ s[0].new = FALSE /\ 0 * Threshold = 0
      BY <1>3, DiffAssumption
    <2>2. ~Inside(change, "+", 0) /\ ~Inside(change, "-", 0)
      <3>1. Stay(change, "+") \subseteq 1 .. Len(change) /\ Stay(change, "-") \subseteq 1 .. Len(change)
            /\ Len(change) \in Nat
        BY LinesOf
      <3>2. CountsUp(Stay(change, "+"), Len(change)) /\ CountsUp(Stay(change, "-"), Len(change))
        BY <3>1, CountUp
      <3>3. Count(Stay(change, "+"), 0) = 0 /\ Count(Stay(change, "-"), 0) = 0
        BY <3>2 DEF CountsUp
      <3>4. \A f : ~InComment(f, 0 + 1)
        BY DEF InComment
      <3>5. QED
        BY <3>3, <3>4 DEF Inside
    <2>3. Follows(s[0], 0 * Threshold)
      BY <2>1, <2>2 DEF Follows
    <2>4. QED
      BY <1>1, <2>3
  <1>5. ASSUME NEW b \in 0 .. K, b < K, b \in U
        PROVE  b + 1 \in U
    <2>1. b + 1 \in 1 .. K /\ b + 1 - 1 = b
      BY <1>5
    <2>2. SUFFICES ASSUME b + 1 < K PROVE Follows(s[b + 1], (b + 1) * Threshold)
      BY <1>1, <2>1
    <2>3. Follows(s[b], b * Threshold)
      BY <1>1, <1>5
    <2>4. PICK q \in Nat : /\ q = b * Threshold /\ Run(Blocks[b + 1], q)
                           /\ q + Len(Blocks[b + 1]) = (b + 1) * Threshold
      <3>1. PICK a : a = b + 1 /\ a \in 1 .. K /\ a - 1 = b /\ a < K
        BY <2>1, <2>2
      <3>2. BlockAt(a)
        BY <1>2, <3>1
      <3>3. /\ (a - 1) * Threshold \in Nat /\ Run(Blocks[a], (a - 1) * Threshold)
            /\ (a - 1) * Threshold + Len(Blocks[a]) = a * Threshold
        BY <1>1, <3>1, <3>2 DEF BlockAt
      <3>4. QED
        BY <3>1, <3>3
    <2>5. Follows(ScanBlock(s[b], Blocks[b + 1]), q + Len(Blocks[b + 1]))
      BY <2>3, <2>4, ScanBlockIs
    <2>6. s[b + 1] = ScanBlock(s[b], Blocks[b + 1])
      BY <1>3, <2>1
    <2>7. QED
      BY <2>4, <2>5, <2>6
  <1>6. \A b \in 0 .. K : b \in U
    <2> HIDE DEF U
    <2>1. \A b \in 0 .. K : b < K /\ b \in U => b + 1 \in U
      BY <1>5
    <2>2. QED
      BY <1>4, <2>1, UpTo
  <1>7. \A b \in 1 .. K : b - 1 \in 0 .. K /\ b - 1 < K
    OBVIOUS
  <1>8. \A b \in 1 .. K : Follows(s[b - 1], (b - 1) * Threshold)
    BY <1>1, <1>6, <1>7
  <1>9. QED
    BY <1>1, <1>8 DEF s

LEMMA NothingMissed ==
    ASSUME DiffAssumption, change \in Seq(Line)
    PROVE  NothingHiddenNothingMissed
  <1>1. SUFFICES ASSUME Len(DiffLines(change)) = Len(change), NEW b \in DOMAIN Blocks
                 PROVE  CommentOnlyFlags(Blocks)[b] <=>
                          /\ \E i \in DOMAIN Blocks[b] : Blocks[b][i].mark # " "
                          /\ \A i \in DOMAIN Blocks[b] : ~TrulyActs(Blocks[b][i])
    BY DEF NothingHiddenNothingMissed
  <1>2. PICK K \in Nat : K = Len(Blocks)
    BY <1>1, BlocksAre
  <1>3. DOMAIN Blocks = 1 .. K /\ b \in 1 .. K /\ BlockAt(b)
    BY <1>1, <1>2, BlocksAre
  <1>4. PICK q \in Nat : q = (b - 1) * Threshold /\ Run(Blocks[b], q)
    BY <1>3 DEF BlockAt
  <1>5. PICK scan : scan = ScanBlocks(Blocks)[b - 1]
    OBVIOUS
  <1>6. Follows(scan, q)
    BY <1>1, <1>2, <1>3, <1>4, <1>5, FollowsBlocks
  <1>7. PICK w : w = Blocks[b]
    OBVIOUS
  <1>8. ScanBlock(scan, w).flag <=> /\ \E i \in 1 .. Len(w) : w[i].mark # " "
                                    /\ \A i \in 1 .. Len(w) : ~TrulyActs(w[i])
    BY <1>4, <1>6, <1>7, ScanBlockIs
  <1>9. CommentOnlyFlags(Blocks)[b] = ScanBlock(scan, w).flag
    <2>1. ScanBlocks(Blocks)[b] = ScanBlock(scan, w)
      BY <1>2, <1>3, <1>5, <1>7, ScanBlocksIs
    <2>2. CommentOnlyFlags(Blocks)[b] = ScanBlocks(Blocks)[b].flag
      BY <1>3 DEF CommentOnlyFlags
    <2>3. QED
      BY <2>1, <2>2
  <1>10. DOMAIN w = 1 .. Len(w)
    BY <1>4, <1>7 DEF Run
  <1>11. QED
    BY <1>7, <1>8, <1>9, <1>10

\* Where the diff hides no line, a block is skipped just when it changes something and
\* none of its changes acts, though the scan reads the change block by block: for every
\* change, and wherever the blocks begin.
THEOREM SkipsExactly ==
    Spec => []NothingHiddenNothingMissed
  <1>1. FindingInv => NothingHiddenNothingMissed
    <2>1. SUFFICES ASSUME FindingInv PROVE NothingHiddenNothingMissed
      OBVIOUS
    <2>2. change \in Seq(Line)
      <3>1. change \in Changes /\ Changes \subseteq Seq(Line)
        BY <2>1, Assumed DEF FindingInv, TypeOK
      <3>2. QED
        BY <3>1
    <2>3. QED
      BY <2>2, NothingMissed, DiffAssumption
  <1>2. QED
    BY <1>1, FindingInvariant, PTL

=============================================================================
