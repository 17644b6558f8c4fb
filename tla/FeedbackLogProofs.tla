--------------------------- MODULE FeedbackLogProofs ---------------------------
(***************************************************************************)
(* Machine-checked proofs about FeedbackLog, for any groups, any size of a *)
(* page and any number of entries: who turns all pages misses nothing.     *)
(***************************************************************************)
EXTENDS FeedbackLog, TLAPS, FiniteSetTheorems, WellFoundedInduction

-----------------------------------------------------------------------------
(* Numbers of pages                                                        *)

LEMMA ProductIsMonotone ==
    ASSUME NEW a \in Int, NEW b \in Int, a <= b, NEW m \in Nat
    PROVE  a * m \in Int /\ b * m \in Int /\ a * m <= b * m
  OBVIOUS

\* There are enough pages.
LEMMA PagesSuffice ==
    ASSUME LogAssumption, NEW n \in Nat
    PROVE  Pages(n) \in Nat /\ n <= Pages(n) * PageSize
  <1>1. PageSize \in Nat /\ PageSize > 0
    BY DEF LogAssumption
  <1> DEFINE q == (n + PageSize - 1) \div PageSize
  <1>2. q \in Nat /\ q * PageSize <= n + PageSize - 1 /\ n + PageSize - 1 < (q + 1) * PageSize
    BY <1>1
  <1>3. (q + 1) * PageSize = q * PageSize + PageSize
    BY <1>1, <1>2
  <1> HIDE DEF q
  <1>4. q * PageSize \in Nat
    BY <1>1, <1>2
  <1>5. n <= q * PageSize
    BY <1>1, <1>2, <1>3, <1>4
  <1>6. QED
    BY <1>2, <1>5 DEF Pages, q

\* A set of naturals that is not empty has a least element: strict inclusion of
\* finite sets is well-founded, and the larger of two numbers has more below it.
LEMMA LeastExists ==
    ASSUME NEW S, S \subseteq Nat, S # {}
    PROVE  Min(S) \in S /\ \A y \in S : Min(S) <= y
  <1> DEFINE D == {0 .. x : x \in S}
             R == StrictSubsetOrdering(Nat)
  <1>1. D \subseteq FiniteSubsetsOf(Nat) /\ D # {}
    <2>1. ASSUME NEW x \in S PROVE (0 .. x) \subseteq Nat /\ IsFiniteSet(0 .. x)
      BY FS_Interval, 0 \in Int, x \in Int
    <2>2. QED
      BY <2>1 DEF FiniteSubsetsOf
  <1>2. IsWellFoundedOn(R, FiniteSubsetsOf(Nat))
    BY FS_StrictSubsetOrderingWellFounded
  <1>3. PICK d \in D : \A e \in D : ~ (<<e, d>> \in R)
    <2> HIDE DEF D, R
    <2>1. QED
      BY <1>1, <1>2, WFMin
  <1>4. PICK x \in S : d = 0 .. x
    OBVIOUS
  <1>5. ASSUME NEW y \in S, y < x
        PROVE  FALSE
    <2>1. (0 .. y) \subseteq (0 .. x) /\ x \in 0 .. x /\ x \notin 0 .. y
      BY <1>5
    <2>2. <<0 .. y, 0 .. x>> \in R
      BY <1>1, <2>1 DEF StrictSubsetOrdering
    <2>3. QED
      BY <1>3, <1>4, <2>2
  <1>6. \A y \in S : x <= y
    BY <1>5
  <1>7. QED
    BY <1>6 DEF Min

\* A page beyond the last one is the last one.
LEMMA PageIsClipped ==
    ASSUME NEW page \in Nat \ {0}, NEW pages \in Nat
    PROVE  /\ Page(page, pages) \in Nat \ {0}
           /\ Page(page, pages) <= page
  <1>1. CASE pages = 0
    BY <1>1 DEF Page
  <1>2. CASE pages # 0
    <2>1. Min({page, pages}) \in {page, pages} /\ \A y \in {page, pages} : Min({page, pages}) <= y
      BY LeastExists
    <2>2. QED
      BY <1>2, <2>1 DEF Page
  <1>3. QED
    BY <1>1, <1>2

-----------------------------------------------------------------------------
(* The list of items                                                       *)

LEMMA EntryFields ==
    ASSUME NEW e \in Entry
    PROVE  e.time \in 1 .. MaxEntries /\ e.group \in Groups
  BY DEF Entry

\* When an item was first seen is the time of an entry, and of no later one of its group.
LEMMA FirstSeenType ==
    ASSUME LogAssumption, TypeOK, NEW view \in Views, NEW item \in Listed(view)
    PROVE  /\ FirstSeen(item, view) \in 1 .. MaxEntries
           /\ view = "none" => item \in log /\ FirstSeen(item, view) = item.time
           /\ view = "group" =>
                 /\ item \in Groups
                 /\ \E e \in log : e.group = item /\ e.time = FirstSeen(item, view)
                 /\ \A e \in log : e.group = item => FirstSeen(item, view) <= e.time
  <1>1. CASE view = "none"
    BY <1>1, EntryFields DEF Listed, FirstSeen, TypeOK
  <1>2. CASE view = "group"
    <2>1. item \in Groups /\ Times(item) # {} /\ FirstSeen(item, view) = Min(Times(item))
      BY <1>2 DEF Listed, FirstSeen
    <2>2. Times(item) \subseteq 1 .. MaxEntries
      BY EntryFields DEF Times, TypeOK
    <2>3. Min(Times(item)) \in Times(item) /\ \A y \in Times(item) : Min(Times(item)) <= y
      <3>1. Times(item) \subseteq Nat
        BY <2>2 DEF LogAssumption
      <3>2. QED
        BY <2>1, <3>1, LeastExists
    <2>4. \E e \in log : e.group = item /\ e.time = FirstSeen(item, view)
      BY <2>1, <2>3 DEF Times
    <2>5. \A e \in log : e.group = item => FirstSeen(item, view) <= e.time
      BY <2>1, <2>3 DEF Times
    <2>6. QED
      BY <1>2, <2>1, <2>2, <2>3, <2>4, <2>5
  <1>3. QED
    BY <1>1, <1>2 DEF Views

LEMMA ListedIsFinite ==
    ASSUME TypeOK, NEW view \in Views
    PROVE  /\ IsFiniteSet(Listed(view)) /\ Cardinality(Listed(view)) \in Nat
           /\ Listed(view) \subseteq Item
  <1>1. CASE view = "none"
    BY <1>1, FS_CardinalityType DEF Listed, TypeOK, Item
  <1>2. CASE view = "group"
    <2> DEFINE groupOf == [e \in log |-> e.group]
               image == {e.group : e \in log}
    <2>1. IsFiniteSet(image)
      <3>1. groupOf \in Surjection(log, image)
        BY DEF Surjection
      <3> HIDE DEF groupOf, image
      <3>2. QED
        BY <3>1, FS_Surjection DEF TypeOK
    <2>2. Listed(view) \in SUBSET image
      BY <1>2 DEF Listed, Times
    <2> HIDE DEF image
    <2>3. IsFiniteSet(Listed(view))
      BY <2>1, <2>2, FS_Subset
    <2>4. Listed(view) \subseteq Groups
      BY <1>2 DEF Listed
    <2>5. QED
      BY <2>3, <2>4, FS_CardinalityType DEF Item
  <1>3. QED
    BY <1>1, <1>2 DEF Views

\* A part of a finite set has a number of elements.
LEMMA CountIsNatural ==
    ASSUME NEW S, IsFiniteSet(S), NEW T, T \subseteq S
    PROVE  Cardinality(T) \in Nat /\ Cardinality(T) <= Cardinality(S) /\ IsFiniteSet(T)
  BY FS_Subset, FS_CardinalityType

LEMMA PositionType ==
    ASSUME TypeOK, NEW view \in Views, NEW item
    PROVE  Position(item, view) \in Nat /\ Position(item, view) <= Cardinality(Listed(view))
  <1> DEFINE before == {other \in Listed(view) : FirstSeen(other, view) <= FirstSeen(item, view)}
  <1>1. before \in SUBSET Listed(view)
    OBVIOUS
  <1> HIDE DEF before
  <1>2. IsFiniteSet(before) /\ Cardinality(before) <= Cardinality(Listed(view))
    BY <1>1, ListedIsFinite, FS_Subset
  <1>3. Cardinality(before) \in Nat
    BY <1>2, FS_CardinalityType
  <1>4. QED
    BY <1>2, <1>3 DEF Position, before

\* The above, of every list: to be used of a state and of the next one.
ListFacts ==
    \A view \in Views :
        /\ IsFiniteSet(Listed(view))
        /\ \A item \in Listed(view) :
              /\ FirstSeen(item, view) \in 1 .. MaxEntries
              /\ view = "none" => item \in log /\ FirstSeen(item, view) = item.time
              /\ view = "group" =>
                    /\ item \in Groups
                    /\ \E e \in log : e.group = item /\ e.time = FirstSeen(item, view)
                    /\ \A e \in log : e.group = item => FirstSeen(item, view) <= e.time

LEMMA ListIsSound == LogAssumption /\ TypeOK => ListFacts
  BY FirstSeenType, ListedIsFinite DEF ListFacts

LEMMA NextListIsSound == LogAssumption /\ TypeOK' => ListFacts'
  <1>1. LogAssumption => LogAssumption'
    BY DEF LogAssumption
  <1>2. QED
    BY <1>1, ListIsSound, PTL

-----------------------------------------------------------------------------
(* What an insertion does to the list                                      *)

LEMMA InsertEffect ==
    ASSUME LogAssumption, LogInv, NEW e \in drafts, Insert(e),
           NEW view \in Views, NEW item \in Listed(view)
    PROVE  /\ item \in Listed(view)'
           /\ FirstSeen(item, view)' <= FirstSeen(item, view)
           /\ FirstSeen(item, view)' = FirstSeen(item, view) =>
                 Position(item, view)' >= Position(item, view)
           /\ view = "none" /\ ~Late(e) => Position(item, view)' = Position(item, view)
  <1>1. TypeOK /\ TypeOK'
    <2>1. TypeOK
      BY DEF LogInv
    <2>2. log' \subseteq Entry /\ IsFiniteSet(log')
      BY <2>1, FS_AddElement DEF Insert, TypeOK
    <2>3. drafts' \subseteq Entry /\ IsFiniteSet(drafts')
      BY <2>1, FS_RemoveElement DEF Insert, TypeOK
    <2>4. reader' \in Reader
      BY <2>1, Zenon DEF Insert, TypeOK, Reader
    <2>5. QED
      BY <2>1, <2>2, <2>3, <2>4 DEF Insert, TypeOK
  <1>2. log' = log \cup {e} /\ e \in Entry
    BY <1>1 DEF Insert, TypeOK
  <1>0. ListFacts /\ ListFacts'
    BY <1>1, ListIsSound, NextListIsSound
  <1>3. ASSUME NEW other \in Listed(view)
        PROVE  /\ other \in Listed(view)'
               /\ FirstSeen(other, view)' <= FirstSeen(other, view)
               /\ view = "none" => FirstSeen(other, view)' = FirstSeen(other, view)
    <2>1. other \in Listed(view)'
      <3>1. Times(other) \subseteq Times(other)'
        BY <1>2 DEF Times
      <3>2. QED
        BY <1>2, <3>1 DEF Listed
    <2>2. /\ FirstSeen(other, view) \in Int /\ FirstSeen(other, view)' \in Int
          /\ view = "none" => FirstSeen(other, view) = other.time
          /\ view = "group" => \E f \in log :
                f.group = other /\ f.time = FirstSeen(other, view)
      BY <1>0, <2>1 DEF ListFacts
    <2>3. /\ view = "none" => FirstSeen(other, view)' = other.time
          /\ view = "group" => \A f \in log' :
                f.group = other => FirstSeen(other, view)' <= f.time
      BY <1>0, <2>1 DEF ListFacts
    <2>4. QED
      BY <1>2, <2>1, <2>2, <2>3 DEF Views
  <1> DEFINE before == {other \in Listed(view) : FirstSeen(other, view) <= FirstSeen(item, view)}
             after == {other \in Listed(view)' : FirstSeen(other, view)' <= FirstSeen(item, view)'}
  <1>4. Position(item, view) = Cardinality(before) /\ Position(item, view)' = Cardinality(after)
    BY DEF Position
  <1>5. before \in SUBSET Listed(view) /\ after \in SUBSET Listed(view)'
    OBVIOUS
  <1>6. IsFiniteSet(before) /\ IsFiniteSet(after)
    <2> HIDE DEF before, after
    <2>1. IsFiniteSet(Listed(view)) /\ IsFiniteSet(Listed(view)')
      BY <1>0 DEF ListFacts
    <2>2. QED
      BY <1>5, <2>1, FS_Subset
  <1>7. ASSUME FirstSeen(item, view)' = FirstSeen(item, view)
        PROVE  Position(item, view)' >= Position(item, view)
    <2>1. before \in SUBSET after
      <3>1. ASSUME NEW other \in Listed(view), FirstSeen(other, view) <= FirstSeen(item, view)
            PROVE  other \in Listed(view)' /\ FirstSeen(other, view)' <= FirstSeen(item, view)'
        <4>1. /\ FirstSeen(other, view) \in Int /\ FirstSeen(item, view) \in Int
              /\ FirstSeen(other, view)' \in Int
          BY <1>0, <1>3 DEF ListFacts
        <4>2. QED
          BY <1>3, <1>7, <3>1, <4>1
      <3>2. QED
        BY <3>1
    <2> HIDE DEF before, after
    <2>2. Cardinality(before) <= Cardinality(after)
      BY <1>6, <2>1, FS_Subset
    <2>3. Cardinality(before) \in Nat /\ Cardinality(after) \in Nat
      BY <1>6, FS_CardinalityType
    <2>4. QED
      BY <1>4, <2>2, <2>3
  <1>8. ASSUME view = "none", ~Late(e)
        PROVE  Position(item, view)' = Position(item, view)
    <2>1. item \in log /\ item # e /\ item.time <= e.time /\ item.time # e.time
      <3>1. item \in log
        BY <1>8 DEF Listed
      <3>2. item.time \in Int /\ e.time \in Int
        BY <1>1, <1>2, <3>1, EntryFields DEF TypeOK
      <3>3. e \notin log
        BY DEF LogInv, TimeInv
      <3>4. QED
        BY <1>8, <3>1, <3>2 DEF Late, LogInv, TimeInv
    <2>2. Listed(view) = log /\ Listed(view)' = log'
      BY <1>8 DEF Listed
    <2>3. \A other : FirstSeen(other, view) = other.time /\ FirstSeen(other, view)' = other.time
      BY <1>8 DEF FirstSeen
    <2>4. before = after
      <3>1. ~(e.time <= item.time)
        <4>1. item.time \in Int /\ e.time \in Int
          BY <1>1, <1>2, <2>1, EntryFields DEF TypeOK
        <4>2. QED
          BY <2>1, <4>1
      <3>2. QED
        BY <1>2, <2>2, <2>3, <3>1
    <2>5. QED
      BY <1>4, <2>4
  <1>9. QED
    BY <1>3, <1>7, <1>8

-----------------------------------------------------------------------------
(* The steps                                                               *)

LEMMA ReaderFields ==
    ASSUME TypeOK
    PROVE  /\ reader.pc \in {"away", "asked", "counted", "shown", "done"}
           /\ reader.view \in Views /\ reader.page \in Nat \ {0} /\ reader.pages \in Nat
           /\ reader.base \subseteq Item \X (1 .. MaxEntries) /\ reader.seen \subseteq Item
  <1>1. reader \in Reader
    BY DEF TypeOK
  <1>2. QED
    BY <1>1 DEF Reader

LEMMA PageStays ==
    ASSUME PageInv, UNCHANGED <<log, reader>>
    PROVE  PageInv'
  BY DEF PageInv, Missing, Turned, Position, Listed, FirstSeen, Times

LEMMA DraftStep ==
    ASSUME LogAssumption, LogInv, NEW g \in Groups, Draft(g)
    PROVE  LogInv'
  <1>1. TypeOK /\ TimeInv /\ PageInv
    BY DEF LogInv
  <1> DEFINE e == [time |-> clock + 1, group |-> g]
  <1>2. clock \in Nat /\ clock < MaxEntries /\ MaxEntries \in Nat
    BY <1>1 DEF Draft, TypeOK, LogAssumption
  <1>3. clock' = clock + 1 /\ drafts' = drafts \cup {e} /\ UNCHANGED <<log, reader>>
    BY DEF Draft
  <1>4. e \in Entry /\ e.time = clock + 1
    BY <1>2 DEF Entry
  <1>5. \A f \in log \cup drafts : f.time \in Int /\ f.time <= clock
    BY <1>1, EntryFields DEF TimeInv, TypeOK
  <1> HIDE DEF e
  <1>6. TypeOK'
    <2>1. drafts' \subseteq Entry /\ IsFiniteSet(drafts')
      BY <1>1, <1>3, <1>4, FS_AddElement DEF TypeOK
    <2>2. QED
      BY <1>1, <1>2, <1>3, <2>1 DEF TypeOK
  <1>7. TimeInv'
    BY <1>1, <1>2, <1>3, <1>4, <1>5 DEF TimeInv
  <1>8. PageInv'
    BY <1>1, <1>3, PageStays
  <1>9. QED
    BY <1>6, <1>7, <1>8 DEF LogInv

LEMMA DropStep ==
    ASSUME LogInv, NEW e \in drafts, Drop(e)
    PROVE  LogInv'
  <1>1. TypeOK /\ TimeInv /\ PageInv
    BY DEF LogInv
  <1>2. TypeOK'
    <2>1. drafts' \subseteq Entry /\ IsFiniteSet(drafts')
      BY <1>1, FS_RemoveElement DEF TypeOK, Drop
    <2>2. QED
      BY <1>1, <2>1 DEF TypeOK, Drop
  <1>3. TimeInv'
    BY <1>1 DEF TimeInv, Drop
  <1>4. PageInv'
    BY <1>1, PageStays DEF Drop
  <1>5. QED
    BY <1>2, <1>3, <1>4 DEF LogInv

LEMMA InsertStep ==
    ASSUME LogAssumption, LogInv, NEW e \in drafts, Insert(e)
    PROVE  LogInv'
  <1>1. TypeOK /\ TimeInv /\ PageInv /\ e \in Entry
    BY DEF LogInv, TypeOK
  <1>2. TypeOK'
    <2>1. log' \subseteq Entry /\ IsFiniteSet(log')
      BY <1>1, FS_AddElement DEF Insert, TypeOK
    <2>2. drafts' \subseteq Entry /\ IsFiniteSet(drafts')
      BY <1>1, FS_RemoveElement DEF Insert, TypeOK
    <2>3. reader' \in Reader
      BY <1>1, Zenon DEF Insert, TypeOK, Reader
    <2>4. QED
      BY <1>1, <2>1, <2>2, <2>3 DEF Insert, TypeOK
  <1>3. TimeInv'
    BY <1>1 DEF TimeInv, Insert
  <1>4. /\ reader'.pc = reader.pc /\ reader'.view = reader.view /\ reader'.page = reader.page
        /\ reader'.pages = reader.pages /\ reader'.base = reader.base
        /\ reader'.seen = reader.seen
    BY <1>1 DEF Insert, TypeOK, Reader
  <1>5. ~reader'.shifted => ~reader.shifted /\ (reader.pc = "counted" => ~Late(e))
    <2>1. CASE reader.pc = "counted" /\ Late(e)
      <3>1. reader'.shifted = TRUE
        BY <1>1, <2>1, Zenon DEF Insert, TypeOK, Reader
      <3>2. QED
        BY <3>1
    <2>2. CASE ~(reader.pc = "counted" /\ Late(e))
      BY <2>2 DEF Insert
    <2>3. QED
      BY <2>1, <2>2
  <1>6. PICK view \in Views : view = reader.view
    BY <1>1, ReaderFields
  <1>7. ListFacts /\ ListFacts'
    BY <1>1, <1>2, ListIsSound, NextListIsSound
  <1>8. ASSUME NEW b \in reader.base
        PROVE  /\ b[1] \in Listed(view)'
               /\ FirstSeen(b[1], view)' <= b[2]
               /\ Missing(b)' /\ ~reader'.shifted =>
                     /\ reader.pc \in {"asked", "counted", "shown"}
                     /\ Position(b[1], view)' > Turned * PageSize
                     /\ reader.pc = "counted" => Position(b[1], view)' <= reader.pages * PageSize
                     /\ reader.pc = "shown" => reader.page < reader.pages
    <2>1. b[1] \in Listed(view) /\ FirstSeen(b[1], view) <= b[2]
      BY <1>1, <1>6 DEF PageInv
    <2>2. b[2] \in Int
      BY <1>1, ReaderFields
    <2>3. PICK item \in Listed(view) : item = b[1]
      BY <2>1
    <2>4. /\ item \in Listed(view)'
          /\ FirstSeen(item, view)' <= FirstSeen(item, view)
          /\ FirstSeen(item, view)' = FirstSeen(item, view) =>
                Position(item, view)' >= Position(item, view)
          /\ view = "none" /\ ~Late(e) => Position(item, view)' = Position(item, view)
      BY InsertEffect
    <2>5. FirstSeen(item, view) \in Int /\ FirstSeen(item, view)' \in Int
      BY <1>7, <2>4 DEF ListFacts
    <2>6. FirstSeen(item, view)' <= b[2]
      BY <2>1, <2>2, <2>3, <2>4, <2>5
    <2>7. ASSUME Missing(b)', ~reader'.shifted
          PROVE  /\ reader.pc \in {"asked", "counted", "shown"}
                 /\ Position(item, view)' > Turned * PageSize
                 /\ reader.pc = "counted" => Position(item, view)' <= reader.pages * PageSize
                 /\ reader.pc = "shown" => reader.page < reader.pages
      <3>1. FirstSeen(item, view)' = b[2] /\ item \notin reader.seen
        BY <1>4, <1>6, <2>3, <2>7 DEF Missing
      <3>2. FirstSeen(item, view) = b[2]
        BY <2>1, <2>2, <2>3, <2>4, <2>5, <3>1
      <3>3. Missing(b)
        BY <1>6, <2>3, <3>1, <3>2 DEF Missing
      <3>4. /\ reader.pc \in {"asked", "counted", "shown"}
            /\ Position(item, view) > Turned * PageSize
            /\ reader.pc = "counted" =>
                  Position(item, view) <= reader.pages * PageSize /\ view = "none"
            /\ reader.pc = "shown" => reader.page < reader.pages
        BY <1>1, <1>5, <1>6, <2>3, <2>7, <3>3 DEF PageInv
      <3>5. Position(item, view)' >= Position(item, view)
        BY <2>4, <3>1, <3>2
      <3>6. Turned * PageSize \in Int
        BY <1>1, ReaderFields DEF Turned, LogAssumption
      <3>7. Position(item, view) \in Int /\ Position(item, view)' \in Int
        <4>1. IsFiniteSet(Listed(view)) /\ IsFiniteSet(Listed(view)')
          BY <1>7 DEF ListFacts
        <4>2. QED
          BY <4>1, CountIsNatural DEF Position
      <3>8. QED
        BY <1>5, <2>4, <2>7, <3>4, <3>5, <3>6, <3>7
    <2>8. QED
      BY <2>3, <2>4, <2>6, <2>7
  <1>9. Turned' = Turned
    BY <1>4 DEF Turned
  <1>10. PageInv'
    <2>1. view = reader'.view /\ (reader'.pc = "counted" => reader'.view = "none")
      BY <1>1, <1>4, <1>6 DEF PageInv
    <2>2. QED
      BY <1>4, <1>8, <1>9, <2>1 DEF PageInv
  <1>11. QED
    BY <1>2, <1>3, <1>10 DEF LogInv

\* A step of the reader, who is next afterwards.
LEMMA ReaderStep ==
    ASSUME LogInv, UNCHANGED <<clock, drafts, log>>, NEW next \in Reader, reader' = next,
           next.pc = "counted" => next.view = "none",
           NEW turned,
           turned = IF next.pc \in {"asked", "counted"} THEN next.page - 1 ELSE next.page,
           \A b \in next.base :
              /\ b[1] \in Listed(next.view)
              /\ FirstSeen(b[1], next.view) <= b[2]
              /\ FirstSeen(b[1], next.view) = b[2] /\ b[1] \notin next.seen /\ ~next.shifted =>
                    /\ next.pc \in {"asked", "counted", "shown"}
                    /\ Position(b[1], next.view) > turned * PageSize
                    /\ next.pc = "counted" =>
                          Position(b[1], next.view) <= next.pages * PageSize
                    /\ next.pc = "shown" => next.page < next.pages
    PROVE  LogInv'
  <1>1. TypeOK' /\ TimeInv'
    BY DEF LogInv, TypeOK, TimeInv
  <1>2. /\ Listed(next.view)' = Listed(next.view)
        /\ \A item : /\ FirstSeen(item, next.view)' = FirstSeen(item, next.view)
                     /\ Position(item, next.view)' = Position(item, next.view)
    BY DEF Listed, FirstSeen, Times, Position
  <1>3. PageInv'
    BY <1>2 DEF PageInv, Missing, Turned
  <1>4. QED
    BY <1>1, <1>3 DEF LogInv

LEMMA OpenStep ==
    ASSUME LogAssumption, LogInv, NEW view \in Views, Open(view)
    PROVE  LogInv'
  <1>1. TypeOK /\ ListFacts
    BY ListIsSound DEF LogInv
  <1> DEFINE base == {<<item, FirstSeen(item, view)>> : item \in Listed(view)}
             next == [Away EXCEPT !.pc = "asked", !.view = view, !.base = base]
  <1>2. reader' = next /\ UNCHANGED <<clock, drafts, log>>
    BY DEF Open
  <1>3. base \subseteq Item \X (1 .. MaxEntries)
    BY <1>1, ListedIsFinite DEF ListFacts
  <1>4. \A b \in base : /\ b[1] \in Listed(view) /\ b[2] = FirstSeen(b[1], view)
                        /\ b[2] \in Int
    BY <1>1 DEF ListFacts
  <1>5. ASSUME NEW item \in Listed(view)
        PROVE  Position(item, view) > 0
    <2> DEFINE before == {other \in Listed(view) : FirstSeen(other, view) <= FirstSeen(item, view)}
    <2>1. item \in before
      BY <1>1 DEF ListFacts
    <2>2. IsFiniteSet(before) /\ Cardinality(before) \in Nat
      BY <1>1, CountIsNatural DEF ListFacts
    <2> HIDE DEF before
    <2>3. Cardinality(before) # 0
      BY <2>1, <2>2, FS_EmptySet
    <2>4. QED
      BY <2>2, <2>3 DEF Position, before
  <1> HIDE DEF base
  <1>6. /\ next.pc = "asked" /\ next.view = view /\ next.page = 1 /\ next.pages = 0
        /\ next.base = base /\ next.seen = {}
    BY DEF Away
  <1>7. next \in Reader
    <2>1. /\ "away" \in {"away", "asked", "counted", "shown", "done"} /\ 1 \in Nat \ {0}
          /\ 0 \in Nat /\ {} \in SUBSET (Item \X (1 .. MaxEntries))
          /\ {} \in SUBSET Item /\ "none" \in Views
      BY DEF Views
    <2>2. FALSE \in BOOLEAN
      BY Zenon
    <2>3. Away \in Reader
      BY <2>1, <2>2, Zenon DEF Reader, Away
    <2>4. [Away EXCEPT !.pc = "asked", !.view = view, !.base = base] \in Reader
      BY <1>3, <2>3 DEF Reader
    <2>5. QED
      BY <2>4
  <1> HIDE DEF next
  <1>8. PageSize \in Nat /\ 0 * PageSize = 0
    BY DEF LogAssumption
  <1>9. \A b \in next.base :
            /\ b[1] \in Listed(next.view)
            /\ FirstSeen(b[1], next.view) <= b[2]
            /\ Position(b[1], next.view) > 0 * PageSize
    BY <1>4, <1>5, <1>6, <1>8
  <1>10. QED
    BY <1>2, <1>6, <1>7, <1>9, ReaderStep

\* What the invariant says of an item that is missing.
LEMMA WhatIsMissing ==
    ASSUME LogAssumption, LogInv
    PROVE  /\ \A b \in reader.base :
                 /\ b[1] \in Listed(reader.view)
                 /\ FirstSeen(b[1], reader.view) <= b[2]
                 /\ Position(b[1], reader.view) \in Nat
                 /\ Position(b[1], reader.view) <= Pages(Cardinality(Listed(reader.view))) * PageSize
           /\ Pages(Cardinality(Listed(reader.view))) \in Nat
  <1>1. TypeOK /\ reader.view \in Views
    BY ReaderFields DEF LogInv
  <1>2. PICK n \in Nat : n = Cardinality(Listed(reader.view))
    BY <1>1, ListedIsFinite
  <1>3. Pages(n) \in Nat /\ n <= Pages(n) * PageSize
    BY PagesSuffice
  <1>4. Pages(n) * PageSize \in Nat
    BY <1>3 DEF LogAssumption
  <1>5. \A b \in reader.base : Position(b[1], reader.view) \in Nat /\ Position(b[1], reader.view) <= n
    BY <1>1, <1>2, PositionType
  <1>6. QED
    BY <1>2, <1>3, <1>4, <1>5 DEF LogInv, PageInv

LEMMA CountEntriesStep ==
    ASSUME LogAssumption, LogInv, CountEntries
    PROVE  LogInv'
  <1> DEFINE pages == Pages(Cardinality(log))
             page == Page(reader.page, pages)
             next == [reader EXCEPT !.pc = "counted", !.pages = pages, !.page = page]
  <1>1. /\ TypeOK /\ PageInv /\ reader \in Reader
        /\ reader.pc = "asked" /\ reader.view = "none" /\ Listed(reader.view) = log
    BY DEF LogInv, TypeOK, CountEntries, Listed
  <1>2. pages \in Nat
    BY <1>1, WhatIsMissing
  <1>3. page \in Nat \ {0} /\ page <= reader.page /\ reader.page \in Nat \ {0}
    BY <1>1, <1>2, PageIsClipped, ReaderFields
  <1>4. reader' = next /\ UNCHANGED <<clock, drafts, log>>
    BY DEF CountEntries
  <1>5. \A b \in reader.base : Position(b[1], reader.view) <= pages * PageSize
    BY <1>1, WhatIsMissing
  <1> HIDE DEF pages, page
  <1>6. next \in Reader
    BY <1>1, <1>2, <1>3 DEF Reader
  <1>7. /\ next.pc = "counted" /\ next.view = "none" /\ next.page = page /\ next.pages = pages
        /\ next.base = reader.base /\ next.seen = reader.seen
    BY <1>1 DEF Reader
  <1>8. next.shifted = reader.shifted
    BY <1>1, Zenon DEF Reader
  <1> HIDE DEF next
  <1>9. (page - 1) * PageSize <= (reader.page - 1) * PageSize
        /\ (page - 1) * PageSize \in Int /\ (reader.page - 1) * PageSize \in Int
    BY <1>3, ProductIsMonotone DEF LogAssumption
  <1>10. \A b \in next.base :
            /\ b[1] \in Listed(next.view)
            /\ FirstSeen(b[1], next.view) <= b[2]
            /\ FirstSeen(b[1], next.view) = b[2] /\ b[1] \notin next.seen /\ ~next.shifted =>
                  /\ Position(b[1], next.view) > (page - 1) * PageSize
                  /\ Position(b[1], next.view) <= next.pages * PageSize
    <2>1. ASSUME NEW b \in reader.base
          PROVE  /\ b[1] \in Listed(reader.view)
                 /\ FirstSeen(b[1], reader.view) <= b[2]
                 /\ FirstSeen(b[1], reader.view) = b[2] /\ b[1] \notin reader.seen
                       /\ ~reader.shifted => Position(b[1], reader.view) > (page - 1) * PageSize
      <3>1. Position(b[1], reader.view) \in Int
        BY WhatIsMissing
      <3>2. QED
        BY <1>1, <1>9, <3>1 DEF PageInv, Missing, Turned
    <2>2. QED
      BY <1>1, <1>5, <1>7, <1>8, <2>1
  <1>11. QED
    BY <1>4, <1>6, <1>7, <1>10, ReaderStep

\* An item that is on no page up to one is on a later one, of those that there are.
LEMMA WhatIsNotShown ==
    ASSUME LogAssumption, NEW view, NEW item \in Listed(view), Position(item, view) \in Nat,
           NEW page \in Nat \ {0}, NEW pages \in Nat,
           Position(item, view) > (page - 1) * PageSize, item \notin OnPage(view, page),
           Position(item, view) <= pages * PageSize
    PROVE  Position(item, view) > page * PageSize /\ page < pages
  <1>1. PageSize \in Nat
    BY DEF LogAssumption
  <1>2. (page - 1) * PageSize \in Int /\ page * PageSize \in Int /\ pages * PageSize \in Int
    BY <1>1
  <1>3. ~(Position(item, view) <= page * PageSize)
    BY <1>2 DEF OnPage
  <1>4. page < pages
    <2>1. ASSUME pages <= page
          PROVE  FALSE
      <3>1. pages * PageSize <= page * PageSize
        BY <1>1, <2>1, ProductIsMonotone
      <3>2. QED
        BY <1>2, <1>3, <3>1
    <2>2. QED
      BY <2>1
  <1>5. QED
    BY <1>2, <1>3, <1>4

LEMMA FetchEntriesStep ==
    ASSUME LogAssumption, LogInv, FetchEntries
    PROVE  LogInv'
  <1> DEFINE shown == OnPage("none", reader.page)
             next == [reader EXCEPT !.pc = "shown", !.seen = reader.seen \cup shown]
  <1>1. /\ TypeOK /\ PageInv /\ reader \in Reader
        /\ reader.pc = "counted" /\ reader.view = "none"
    BY DEF LogInv, TypeOK, FetchEntries, PageInv
  <1>2. shown \subseteq Item
    BY <1>1, ListedIsFinite DEF OnPage, Views
  <1>3. reader' = next /\ UNCHANGED <<clock, drafts, log>>
    BY DEF FetchEntries
  <1>4. reader.page \in Nat \ {0} /\ reader.pages \in Nat
    BY <1>1, ReaderFields
  <1> HIDE DEF shown
  <1>5. next \in Reader
    BY <1>1, <1>2 DEF Reader
  <1>6. /\ next.pc = "shown" /\ next.view = "none" /\ next.page = reader.page
        /\ next.pages = reader.pages /\ next.base = reader.base
        /\ next.seen = reader.seen \cup shown
    BY <1>1 DEF Reader
  <1>7. next.shifted = reader.shifted
    BY <1>1, Zenon DEF Reader
  <1> HIDE DEF next
  <1>8. ASSUME NEW b \in reader.base
        PROVE  /\ b[1] \in Listed("none")
               /\ FirstSeen(b[1], "none") <= b[2]
               /\ FirstSeen(b[1], "none") = b[2] /\ b[1] \notin reader.seen \cup shown
                     /\ ~reader.shifted =>
                     /\ Position(b[1], "none") > reader.page * PageSize
                     /\ reader.page < reader.pages
    <2>1. b[1] \in Listed("none") /\ FirstSeen(b[1], "none") <= b[2]
          /\ Position(b[1], "none") \in Nat
      BY <1>1, WhatIsMissing
    <2>2. ASSUME FirstSeen(b[1], "none") = b[2], b[1] \notin reader.seen \cup shown,
                 ~reader.shifted
          PROVE  /\ Position(b[1], "none") > reader.page * PageSize
                 /\ reader.page < reader.pages
      <3>1. /\ Position(b[1], "none") > (reader.page - 1) * PageSize
            /\ Position(b[1], "none") <= reader.pages * PageSize
        BY <1>1, <2>2 DEF PageInv, Missing, Turned
      <3>2. QED
        BY <1>4, <2>1, <2>2, <3>1, WhatIsNotShown DEF shown
    <2>3. QED
      BY <2>1, <2>2
  <1>9. QED
    BY <1>3, <1>5, <1>6, <1>7, <1>8, ReaderStep

LEMMA FetchGroupsStep ==
    ASSUME LogAssumption, LogInv, FetchGroups
    PROVE  LogInv'
  <1> DEFINE pages == Pages(Cardinality(Listed("group")))
             page == Page(reader.page, pages)
             shown == OnPage("group", page)
             next == [reader EXCEPT !.pc = "shown", !.pages = pages, !.page = page,
                                    !.seen = reader.seen \cup shown]
  <1>1. /\ TypeOK /\ PageInv /\ reader \in Reader
        /\ reader.pc = "asked" /\ reader.view = "group"
    BY DEF LogInv, TypeOK, FetchGroups
  <1>2. pages \in Nat
    BY <1>1, WhatIsMissing
  <1>3. page \in Nat \ {0} /\ page <= reader.page /\ reader.page \in Nat \ {0}
    BY <1>1, <1>2, PageIsClipped, ReaderFields
  <1>4. shown \subseteq Item
    BY <1>1, ListedIsFinite DEF OnPage, Views
  <1>5. reader' = next /\ UNCHANGED <<clock, drafts, log>>
    BY DEF FetchGroups
  <1>6. \A b \in reader.base : Position(b[1], "group") <= pages * PageSize
    BY <1>1, WhatIsMissing
  <1> HIDE DEF pages, page, shown
  <1>7. next \in Reader
    BY <1>1, <1>2, <1>3, <1>4 DEF Reader
  <1>8. /\ next.pc = "shown" /\ next.view = "group" /\ next.page = page
        /\ next.pages = pages /\ next.base = reader.base
        /\ next.seen = reader.seen \cup shown
    BY <1>1 DEF Reader
  <1>9. next.shifted = reader.shifted
    BY <1>1, Zenon DEF Reader
  <1> HIDE DEF next
  <1>10. (page - 1) * PageSize <= (reader.page - 1) * PageSize
         /\ (page - 1) * PageSize \in Int /\ (reader.page - 1) * PageSize \in Int
    BY <1>3, ProductIsMonotone DEF LogAssumption
  <1>11. ASSUME NEW b \in reader.base
         PROVE  /\ b[1] \in Listed("group")
                /\ FirstSeen(b[1], "group") <= b[2]
                /\ FirstSeen(b[1], "group") = b[2] /\ b[1] \notin reader.seen \cup shown
                      /\ ~reader.shifted =>
                      /\ Position(b[1], "group") > page * PageSize
                      /\ page < pages
    <2>1. b[1] \in Listed("group") /\ FirstSeen(b[1], "group") <= b[2]
          /\ Position(b[1], "group") \in Nat
      BY <1>1, WhatIsMissing
    <2>2. ASSUME FirstSeen(b[1], "group") = b[2], b[1] \notin reader.seen \cup shown,
                 ~reader.shifted
          PROVE  Position(b[1], "group") > page * PageSize /\ page < pages
      <3>1. Position(b[1], "group") > (reader.page - 1) * PageSize
        BY <1>1, <2>2 DEF PageInv, Missing, Turned
      <3>2. Position(b[1], "group") > (page - 1) * PageSize
        BY <1>10, <2>1, <3>1
      <3>3. Position(b[1], "group") <= pages * PageSize
        BY <1>6
      <3>4. QED
        BY <1>2, <1>3, <2>1, <2>2, <3>2, <3>3, WhatIsNotShown DEF shown
    <2>3. QED
      BY <2>1, <2>2
  <1>12. QED
    BY <1>5, <1>7, <1>8, <1>9, <1>11, ReaderStep

LEMMA TurnStep ==
    ASSUME LogAssumption, LogInv, Turn
    PROVE  LogInv'
  <1>1. TypeOK /\ PageInv /\ reader \in Reader /\ reader.pc = "shown"
    BY DEF LogInv, TypeOK, Turn
  <1>2. reader.page \in Nat \ {0} /\ reader.pages \in Nat /\ reader.page + 1 - 1 = reader.page
        /\ reader.page + 1 \in Nat \ {0}
    BY <1>1, ReaderFields
  <1>3. \A b \in reader.base :
            /\ b[1] \in Listed(reader.view)
            /\ FirstSeen(b[1], reader.view) <= b[2]
            /\ FirstSeen(b[1], reader.view) = b[2] /\ b[1] \notin reader.seen
                  /\ ~reader.shifted =>
                  /\ Position(b[1], reader.view) > reader.page * PageSize
                  /\ reader.page < reader.pages
    BY <1>1 DEF PageInv, Missing, Turned
  <1>4. CASE reader.page < reader.pages
    <2> DEFINE page == reader.page + 1
               next == [reader EXCEPT !.pc = "asked", !.page = page]
    <2>1. reader' = next /\ UNCHANGED <<clock, drafts, log>>
      BY <1>4 DEF Turn
    <2> HIDE DEF page
    <2>2. next \in Reader
      <3>1. page \in Nat \ {0}
        BY <1>2 DEF page
      <3>2. QED
        BY <1>1, <3>1 DEF Reader
    <2>3. /\ next.pc = "asked" /\ next.view = reader.view /\ next.page = page
          /\ next.base = reader.base /\ next.seen = reader.seen
      BY <1>1 DEF Reader
    <2>4. next.shifted = reader.shifted
      BY <1>1, Zenon DEF Reader
    <2> HIDE DEF next
    <2>5. QED
      BY <1>2, <1>3, <2>1, <2>2, <2>3, <2>4, ReaderStep DEF page
  <1>5. CASE ~(reader.page < reader.pages)
    <2> DEFINE next == [reader EXCEPT !.pc = "done"]
    <2>1. reader' = next /\ UNCHANGED <<clock, drafts, log>>
      BY <1>5 DEF Turn
    <2>2. next \in Reader
      BY <1>1, <1>2 DEF Reader
    <2>3. /\ next.pc = "done" /\ next.view = reader.view /\ next.page = reader.page
          /\ next.base = reader.base /\ next.seen = reader.seen
      BY <1>1 DEF Reader
    <2>4. next.shifted = reader.shifted
      BY <1>1, Zenon DEF Reader
    <2> HIDE DEF next
    <2>5. QED
      BY <1>2, <1>3, <1>5, <2>1, <2>2, <2>3, <2>4, ReaderStep
  <1>6. QED
    BY <1>4, <1>5

-----------------------------------------------------------------------------
(* The theorems                                                            *)

LEMMA InitEstablishesLogInv == LogAssumption /\ Init => LogInv
  <1> SUFFICES ASSUME LogAssumption, Init
               PROVE  LogInv
    OBVIOUS
  <1>1. reader \in Reader
    <2>1. /\ "away" \in {"away", "asked", "counted", "shown", "done"} /\ 1 \in Nat \ {0}
          /\ 0 \in Nat /\ {} \in SUBSET (Item \X (1 .. MaxEntries))
          /\ {} \in SUBSET Item /\ "none" \in Views
      BY DEF Views
    <2>2. FALSE \in BOOLEAN
      BY Zenon
    <2>3. QED
      BY <2>1, <2>2, Zenon DEF Init, Away, Reader
  <1>2. TypeOK
    BY <1>1, FS_EmptySet DEF Init, TypeOK, LogAssumption
  <1>3. TimeInv /\ PageInv
    BY DEF Init, TimeInv, PageInv, Away
  <1>4. QED
    BY <1>2, <1>3 DEF LogInv

LEMMA NextPreservesLogInv == LogAssumption /\ LogInv /\ [Next]_logVars => LogInv'
  <1> SUFFICES ASSUME LogAssumption, LogInv, [Next]_logVars
               PROVE  LogInv'
    OBVIOUS
  <1>1. ASSUME NEW g \in Groups, Draft(g)
        PROVE  LogInv'
    BY <1>1, DraftStep
  <1>2. ASSUME NEW entry \in drafts, Insert(entry)
        PROVE  LogInv'
    BY <1>2, InsertStep
  <1>3. ASSUME NEW entry \in drafts, Drop(entry)
        PROVE  LogInv'
    BY <1>3, DropStep
  <1>4. ASSUME NEW view \in Views, Open(view)
        PROVE  LogInv'
    BY <1>4, OpenStep
  <1>5. ASSUME UNCHANGED logVars
        PROVE  LogInv'
    <2>1. PageInv'
      BY <1>5, PageStays DEF logVars, LogInv
    <2>2. TypeOK' /\ TimeInv'
      BY <1>5 DEF logVars, LogInv, TypeOK, TimeInv
    <2>3. QED
      BY <2>1, <2>2 DEF LogInv
  <1>6. QED
    BY <1>1, <1>2, <1>3, <1>4, <1>5, CountEntriesStep, FetchEntriesStep, FetchGroupsStep,
       TurnStep DEF Next

\* The inductive invariant: entries have times of their own (save_feedback), what is
\* listed stays listed and moves only towards the beginning, and what the reader has
\* not seen is on a page to come (the queries of feedback_log_service.py, and the
\* page numbers of feedback_logs.js).
THEOREM LogInvariant ==
    ASSUME LogAssumption
    PROVE  Spec => []LogInv
  <1>1. LogAssumption => []LogAssumption
    <2>1. LogAssumption => LogAssumption'
      BY DEF LogAssumption
    <2>2. QED
      BY <2>1, PTL
  <1>2. QED
    BY <1>1, InitEstablishesLogInv, NextPreservesLogInv, PTL DEF Spec

\* Who goes through all pages of the log sees every item that was listed at the
\* beginning and has kept its place in time, whatever arrives meanwhile and in
\* whatever order, unless a late entry came between the two queries of a page.
THEOREM PagingMissesNothingHolds ==
    ASSUME LogAssumption
    PROVE  Spec => []PagingMissesNothing
  <1>1. LogInv => PagingMissesNothing
    BY DEF LogInv, PageInv, Missing, PagingMissesNothing
  <1>2. QED
    BY <1>1, LogInvariant, PTL

=============================================================================
