--------------------------- MODULE DispatchProofs ---------------------------
(***************************************************************************)
(* Machine-checked proofs about Dispatch, for any tasks, servers, retries  *)
(* and crashes: claims keep the order of the queue and take what is due,   *)
(* and the schedulers implement TaskQueue.                                 *)
(***************************************************************************)
EXTENDS Dispatch, TLAPS, FiniteSetTheorems, SequenceTheorems

-----------------------------------------------------------------------------
(* Tokens: there is always one that nobody recalls                         *)

LEMMA Sizes ==
    /\ IsFiniteSet(Tasks) /\ Cardinality(Tasks) \in Nat
    /\ IsFiniteSet(Servers) /\ Cardinality(Servers) \in Nat
  BY DispatchAssumption, FS_CardinalityType

LeaseOfTask == [t \in Tasks |-> doc[t].lease]

LeaseOfServer == [s \in Servers |-> server[s].lease]

\* The places of candidates, and the leases there.
ListPlaces == {p \in Servers \X (1 .. Cardinality(Tasks)) : p[2] \in DOMAIN server[p[1]].candidates}

LeaseOfPlace == [p \in ListPlaces |-> server[p[1]].candidates[p[2]].lease]

\* A finite function has no more values than arguments.
LEMMA FewValues ==
    ASSUME NEW S, IsFiniteSet(S), NEW f, f = [x \in S |-> f[x]],
           NEW T, T = {f[x] : x \in S}
    PROVE  IsFiniteSet(T) /\ Cardinality(T) \in Nat /\ Cardinality(T) <= Cardinality(S)
  <1>1. f \in Surjection(S, T)
    BY DEF Surjection
  <1>2. QED
    BY <1>1, FS_Surjection, FS_CardinalityType

LEMMA ProductOfSuccessors ==
    ASSUME NEW m \in Nat, NEW n \in Nat
    PROVE  /\ (m + 1) * (n + 1) = n * m + m + n + 1
           /\ (m + 1) * (n + 1) \in Nat
           /\ n * m \in Nat
  OBVIOUS

LEMMA UnionIsBounded ==
    ASSUME NEW S, IsFiniteSet(S), NEW T, IsFiniteSet(T)
    PROVE  /\ IsFiniteSet(S \cup T) /\ Cardinality(S \cup T) \in Nat
           /\ Cardinality(S \cup T) <= Cardinality(S) + Cardinality(T)
  <1>1. /\ IsFiniteSet(S \cup T)
        /\ Cardinality(S \cup T) = Cardinality(S) + Cardinality(T) - Cardinality(S \cap T)
    BY FS_Union
  <1>2. Cardinality(S \cap T) \in Nat
    BY FS_Intersection, FS_CardinalityType
  <1>3. Cardinality(S) \in Nat /\ Cardinality(T) \in Nat /\ Cardinality(S \cup T) \in Nat
    BY <1>1, FS_CardinalityType
  <1>4. QED
    BY <1>1, <1>2, <1>3

LEMMA FreshTokenExists ==
    ASSUME TypeOK, CandidateInv
    PROVE  NewToken \in Tokens /\ Fresh(NewToken)
  <1> DEFINE Held == {LeaseOfTask[t] : t \in Tasks}
             Slots == {LeaseOfServer[s] : s \in Servers}
             InLists == {LeaseOfPlace[p] : p \in ListPlaces}
             Used == (Held \cup Slots) \cup InLists
             m == Cardinality(Tasks)
             n == Cardinality(Servers)
  <1>1. m \in Nat /\ n \in Nat
    BY Sizes
  <1>2. IsFiniteSet(Held) /\ Cardinality(Held) \in Nat /\ Cardinality(Held) <= m
    BY Sizes, FewValues DEF LeaseOfTask
  <1>3. IsFiniteSet(Slots) /\ Cardinality(Slots) \in Nat /\ Cardinality(Slots) <= n
    BY Sizes, FewValues DEF LeaseOfServer
  <1>4. IsFiniteSet(InLists) /\ Cardinality(InLists) \in Nat /\ Cardinality(InLists) <= n * m
    <2>1. IsFiniteSet(1 .. m) /\ Cardinality(1 .. m) = m
      BY <1>1, FS_Interval
    <2>2. /\ IsFiniteSet(Servers \X (1 .. m))
          /\ Cardinality(Servers \X (1 .. m)) = n * m
      BY <2>1, Sizes, FS_Product
    <2>3. ListPlaces \in SUBSET (Servers \X (1 .. m))
      BY DEF ListPlaces
    <2>4. IsFiniteSet(ListPlaces) /\ Cardinality(ListPlaces) <= n * m
      BY <2>2, <2>3, FS_Subset
    <2>5. Cardinality(ListPlaces) \in Nat
      BY <2>4, FS_CardinalityType
    <2>6. IsFiniteSet(InLists) /\ Cardinality(InLists) \in Nat
          /\ Cardinality(InLists) <= Cardinality(ListPlaces)
      BY <2>4, FewValues DEF LeaseOfPlace
    <2> HIDE DEF InLists, m, n
    <2>7. QED
      BY <1>1, <2>4, <2>5, <2>6, ProductOfSuccessors
  <1>5. IsFiniteSet(Used) /\ Cardinality(Used) \in Nat /\ Cardinality(Used) <= n * m + m + n
    <2> HIDE DEF Held, Slots, InLists, m, n
    <2>1. /\ IsFiniteSet(Held \cup Slots) /\ Cardinality(Held \cup Slots) \in Nat
          /\ Cardinality(Held \cup Slots) <= Cardinality(Held) + Cardinality(Slots)
      BY <1>2, <1>3, UnionIsBounded
    <2>2. /\ IsFiniteSet(Used) /\ Cardinality(Used) \in Nat
          /\ Cardinality(Used) <= Cardinality(Held \cup Slots) + Cardinality(InLists)
      BY <1>4, <2>1, UnionIsBounded
    <2>3. QED
      BY <1>1, <1>2, <1>3, <1>4, <2>1, <2>2, ProductOfSuccessors
  <1>6. IsFiniteSet(Tokens) /\ Cardinality(Tokens) = n * m + m + n + 1
    <2>1. Tokens = 1 .. (m + 1) * (n + 1)
      BY DEF Tokens
    <2> HIDE DEF m, n
    <2>2. PICK k \in Nat : k = (m + 1) * (n + 1) /\ k = n * m + m + n + 1
      BY <1>1, ProductOfSuccessors
    <2>3. IsFiniteSet(1 .. k) /\ Cardinality(1 .. k) = k
      BY <2>2, FS_Interval
    <2>4. QED
      BY <2>1, <2>2, <2>3
  <1>7. PICK token \in Tokens : token \notin Used
    <2> HIDE DEF Used, m, n
    <2>1. CASE Tokens \subseteq Used
      <3>1. Cardinality(Tokens) <= Cardinality(Used)
        BY <1>5, <2>1, FS_Subset
      <3>2. n * m \in Nat
        BY <1>1, ProductOfSuccessors
      <3>3. QED
        BY <1>1, <1>5, <1>6, <3>1, <3>2
    <2>2. QED
      BY <2>1
  <1>8. Fresh(token)
    <2>1. \A t \in Tasks : doc[t].lease # token
      BY <1>7 DEF LeaseOfTask
    <2>2. \A s \in Servers : server[s].lease # token
      BY <1>7 DEF LeaseOfServer
    <2>3. ASSUME NEW s \in Servers, NEW i \in DOMAIN server[s].candidates
          PROVE  server[s].candidates[i].lease # token
      <3>1. i \in 1 .. Cardinality(Tasks)
        <4>1. server[s].candidates \in Seq(Candidate)
          BY DEF TypeOK, Slot
        <4>2. Len(server[s].candidates) <= Cardinality(Tasks)
          BY DEF CandidateInv
        <4>3. QED
          BY <1>1, <4>1, <4>2
      <3>2. <<s, i>> \in ListPlaces
        BY <3>1 DEF ListPlaces
      <3>3. LeaseOfPlace[<<s, i>>] = server[s].candidates[i].lease
        BY <3>2 DEF LeaseOfPlace
      <3>4. QED
        BY <1>7, <3>2, <3>3
    <2>4. QED
      BY <2>1, <2>2, <2>3 DEF Fresh
  <1>9. QED
    BY <1>7, <1>8 DEF NewToken

-----------------------------------------------------------------------------
(* The order of tasks is a strict total one, and can be listed             *)

LEMMA CreationOrders ==
    ASSUME TypeOK, CreatedInv
    PROVE  /\ \A t \in Tasks : ~CreatedBefore(t, t)
           /\ \A t, u, v \in Tasks :
                 CreatedBefore(t, u) /\ CreatedBefore(u, v) => CreatedBefore(t, v)
           /\ \A t, u \in Tasks :
                 doc[t].state # "absent" /\ doc[u].state # "absent" /\ t # u
                    => CreatedBefore(t, u) \/ CreatedBefore(u, t)
  <1>1. DOMAIN created \subseteq Nat
    <2>1. created \in Seq(Tasks)
      BY DEF TypeOK
    <2>2. QED
      BY <2>1
  <1>2. \A t \in Tasks : ~CreatedBefore(t, t)
    BY <1>1 DEF CreatedBefore, CreatedInv
  <1>3. ASSUME NEW t \in Tasks, NEW u \in Tasks, NEW v \in Tasks,
               CreatedBefore(t, u), CreatedBefore(u, v)
        PROVE  CreatedBefore(t, v)
    <2>1. PICK i \in DOMAIN created : \E j \in DOMAIN created :
            i < j /\ created[i] = t /\ created[j] = u
      BY <1>3 DEF CreatedBefore
    <2>2. PICK j \in DOMAIN created : i < j /\ created[i] = t /\ created[j] = u
      BY <2>1
    <2>3. PICK k \in DOMAIN created : \E l \in DOMAIN created :
            k < l /\ created[k] = u /\ created[l] = v
      BY <1>3 DEF CreatedBefore
    <2>4. PICK l \in DOMAIN created : k < l /\ created[k] = u /\ created[l] = v
      BY <2>3
    <2>5. j = k
      BY <2>2, <2>4 DEF CreatedInv
    <2>6. i < l
      BY <1>1, <2>2, <2>4, <2>5
    <2>7. QED
      BY <2>2, <2>4, <2>6 DEF CreatedBefore
  <1>4. ASSUME NEW t \in Tasks, NEW u \in Tasks, t # u,
               doc[t].state # "absent", doc[u].state # "absent"
        PROVE  CreatedBefore(t, u) \/ CreatedBefore(u, t)
    <2>1. PICK i \in DOMAIN created : created[i] = t
      BY <1>4 DEF CreatedInv
    <2>2. PICK j \in DOMAIN created : created[j] = u
      BY <1>4 DEF CreatedInv
    <2>3. i < j \/ j < i
      BY <1>1, <1>4, <2>1, <2>2
    <2>4. QED
      BY <2>1, <2>2, <2>3 DEF CreatedBefore
  <1>5. QED
    BY <1>2, <1>3, <1>4

LEMMA WaitingExists ==
    /\ Waiting \subseteq Tasks
    /\ \A t \in Waiting : doc[t].state # "absent"
    /\ IsFiniteSet(Waiting) /\ Cardinality(Waiting) \in Nat
    /\ Cardinality(Waiting) <= Cardinality(Tasks)
  <1>1. Waiting \subseteq Tasks
    BY DEF Waiting
  <1>2. \A t \in Waiting : doc[t].state # "absent"
    BY DEF Waiting, Eligible
  <1>3. QED
    BY <1>1, <1>2, Sizes, FS_Subset, FS_CardinalityType

LEMMA PrecedesOrders ==
    ASSUME TypeOK, CreatedInv
    PROVE  /\ \A t \in Waiting : ~Precedes(t, t)
           /\ \A t, u, v \in Waiting : Precedes(t, u) /\ Precedes(u, v) => Precedes(t, v)
           /\ \A t, u \in Waiting : t # u => Precedes(t, u) \/ Precedes(u, t)
  <1>1. \A t \in Waiting : t \in Tasks /\ doc[t].state # "absent" /\ doc[t].priority \in {0, 1}
    BY WaitingExists DEF TypeOK, Document
  <1>2. \A t \in Waiting : ~Precedes(t, t)
    BY <1>1, CreationOrders DEF Precedes, RanksBefore
  <1>3. ASSUME NEW t \in Waiting, NEW u \in Waiting, NEW v \in Waiting,
               Precedes(t, u), Precedes(u, v)
        PROVE  Precedes(t, v)
    BY <1>1, <1>3, CreationOrders DEF Precedes, RanksBefore
  <1>4. ASSUME NEW t \in Waiting, NEW u \in Waiting, t # u
        PROVE  Precedes(t, u) \/ Precedes(u, t)
    BY <1>1, <1>4, CreationOrders DEF Precedes, RanksBefore
  <1>5. QED
    BY <1>2, <1>3, <1>4

\* The place of a task in the order is one more than the number of tasks before it.
LEMMA OrderExists ==
    ASSUME TypeOK, CreatedInv
    PROVE  \E order \in [1 .. Cardinality(Waiting) -> Waiting] :
              \A i, j \in DOMAIN order : i < j => Precedes(order[i], order[j])
  <1> DEFINE n == Cardinality(Waiting)
             Before(t) == {u \in Waiting : Precedes(u, t)}
             rank == [t \in Waiting |-> Cardinality(Before(t)) + 1]
             order == [i \in 1 .. n |-> CHOOSE t \in Waiting : rank[t] = i]
  <1>1. n \in Nat /\ IsFiniteSet(Waiting)
    BY WaitingExists
  <1>2. ASSUME NEW t \in Waiting
        PROVE  /\ IsFiniteSet(Before(t)) /\ Cardinality(Before(t)) \in Nat
               /\ Cardinality(Before(t)) < n
    <2>1. IsFiniteSet(Before(t)) /\ Cardinality(Before(t)) <= n
          /\ (n = Cardinality(Before(t)) => Waiting = Before(t))
      <3>1. Before(t) \in SUBSET Waiting
        OBVIOUS
      <3> HIDE DEF Before
      <3>2. QED
        BY <1>1, <3>1, FS_Subset
    <2>2. t \notin Before(t)
      BY PrecedesOrders
    <2> HIDE DEF Before
    <2>3. Cardinality(Before(t)) \in Nat
      BY <2>1, FS_CardinalityType
    <2>4. QED
      BY <1>1, <2>1, <2>2, <2>3
  <1>3. ASSUME NEW t \in Waiting, NEW u \in Waiting, Precedes(t, u)
        PROVE  Cardinality(Before(t)) < Cardinality(Before(u))
    <2>1. Before(t) \in SUBSET Before(u)
      BY <1>3, PrecedesOrders
    <2>2. t \in Before(u) /\ t \notin Before(t)
      BY <1>3, PrecedesOrders
    <2> HIDE DEF Before
    <2>3. /\ Cardinality(Before(t)) <= Cardinality(Before(u))
          /\ (Cardinality(Before(u)) = Cardinality(Before(t)) => Before(u) = Before(t))
      BY <1>2, <2>1, FS_Subset
    <2>4. QED
      BY <1>2, <2>2, <2>3
  <1> HIDE DEF Before
  <1>4. \A t, u \in Waiting : rank[t] < rank[u] => Precedes(t, u)
    BY <1>2, <1>3, PrecedesOrders
  <1>5. rank \in Injection(Waiting, 1 .. n)
    <2>1. rank \in [Waiting -> 1 .. n]
      BY <1>1, <1>2
    <2>2. \A t, u \in Waiting : rank[t] = rank[u] => t = u
      BY <1>2, <1>3, PrecedesOrders
    <2> HIDE DEF rank, n
    <2>3. QED
      BY <2>1, <2>2 DEF Injection, IsInjective
  <1> HIDE DEF rank
  <1>6. rank \in Surjection(Waiting, 1 .. n)
    <2>1. IsFiniteSet(1 .. n) /\ Cardinality(1 .. n) = n
      BY <1>1, FS_Interval
    <2>2. Cardinality(Waiting) = Cardinality(1 .. n)
      BY <2>1
    <2> HIDE DEF n
    <2>3. QED
      BY <1>5, <2>1, <2>2, FS_Injection
  <1>7. \A i \in 1 .. n : order[i] \in Waiting /\ rank[order[i]] = i
    <2>1. \A i \in 1 .. n : \E t \in Waiting : rank[t] = i
      BY <1>6 DEF Surjection
    <2>2. QED
      BY <2>1
  <1>8. order \in [1 .. n -> Waiting] /\ DOMAIN order = 1 .. n
    BY <1>7
  <1>9. \A i, j \in DOMAIN order : i < j => Precedes(order[i], order[j])
    <2> HIDE DEF order, n
    <2>1. QED
      BY <1>4, <1>7, <1>8
  <1> HIDE DEF order
  <1>10. QED
    BY <1>8, <1>9

LEMMA OrderedIsSorted ==
    ASSUME TypeOK, CreatedInv
    PROVE  /\ Ordered \in [1 .. Cardinality(Waiting) -> Waiting]
           /\ \A i, j \in DOMAIN Ordered : i < j => Precedes(Ordered[i], Ordered[j])
           /\ \A t \in Waiting : \E i \in DOMAIN Ordered : Ordered[i] = t
  <1> DEFINE n == Cardinality(Waiting)
  <1>1. /\ Ordered \in [1 .. n -> Waiting]
        /\ \A i, j \in DOMAIN Ordered : i < j => Precedes(Ordered[i], Ordered[j])
    BY OrderExists DEF Ordered
  <1>2. n \in Nat /\ IsFiniteSet(Waiting)
    BY WaitingExists
  <1>3. IsFiniteSet(1 .. n) /\ Cardinality(1 .. n) = n
    BY <1>2, FS_Interval
  <1>4. Ordered \in Injection(1 .. n, Waiting)
    <2>1. ASSUME NEW i \in 1 .. n, NEW j \in 1 .. n, Ordered[i] = Ordered[j] PROVE i = j
      <3>1. ~Precedes(Ordered[i], Ordered[j]) /\ ~Precedes(Ordered[j], Ordered[i])
        BY <1>1, <2>1, PrecedesOrders
      <3>2. DOMAIN Ordered = 1 .. n
        BY <1>1
      <3> HIDE DEF n
      <3>3. QED
        BY <1>1, <1>2, <3>1, <3>2
    <2> HIDE DEF n
    <2>2. QED
      BY <1>1, <2>1 DEF Injection, IsInjective
  <1>5. Ordered \in Surjection(1 .. n, Waiting)
    <2>1. Cardinality(1 .. n) = Cardinality(Waiting)
      BY <1>3
    <2> HIDE DEF n
    <2>2. QED
      BY <1>2, <1>4, <2>1, FS_Injection
  <1>6. \A t \in Waiting : \E i \in DOMAIN Ordered : Ordered[i] = t
    BY <1>1, <1>5 DEF Surjection
  <1>7. QED
    BY <1>1, <1>6

-----------------------------------------------------------------------------
(* Steps of a scheduler: the documents stay, one slot changes              *)

\* What may be said of a list of candidates.
GoodList(list) ==
    /\ list \in Seq(Candidate)
    /\ Len(list) <= Cardinality(Tasks)
    /\ \A i \in DOMAIN list : Outdated(list[i])
    /\ InOrder(list)

LEMMA SlotStep ==
    ASSUME ClaimInv, NEW s \in Servers, NEW slot \in Slot,
           server' = [server EXCEPT ![s] = slot],
           UNCHANGED <<doc, created>>, retries' \in Nat, crashes' \in Nat,
           worker' \in [Servers -> {"off", "working"}],
           \A u \in Servers \ {s} : worker'[u] = worker[u] /\ steady'[u] = steady[u],
           worker'[s] = "working" =>
              /\ worker[s] = "working" /\ slot.pc = server[s].pc
              /\ slot.active = server[s].active /\ slot.lease = server[s].lease,
           steady' \in [Servers -> SUBSET Tasks],
           GoodList(slot.candidates),
           slot.pc = "claiming" => \A t \in steady'[s] : Listed(slot.candidates, t)
    PROVE  ClaimInv'
  <1>1. TypeOK
    BY DEF ClaimInv
  <1>2. server'[s] = slot /\ \A u \in Servers \ {s} : server'[u] = server[u]
    BY <1>1 DEF TypeOK
  <1>3. TypeOK'
    BY <1>1 DEF TypeOK
  <1>4. LeaseInv' /\ CreatedInv'
    BY DEF ClaimInv, LeaseInv, CreatedInv
  <1>5. WorkInv'
    BY <1>2 DEF ClaimInv, WorkInv, WorksAlone
  <1>6. CandidateInv'
    <2>1. ASSUME NEW u \in Servers, u # s
          PROVE  /\ Len(server'[u].candidates) <= Cardinality(Tasks)
                 /\ \A i \in DOMAIN server'[u].candidates : Outdated(server[u].candidates[i])'
                 /\ InOrder(server[u].candidates)'
      BY <1>2, <2>1 DEF ClaimInv, CandidateInv, Outdated, InOrder, RanksBefore, CreatedBefore
    <2>2. /\ Len(server'[s].candidates) <= Cardinality(Tasks)
          /\ \A i \in DOMAIN server'[s].candidates : Outdated(server[s].candidates[i])'
          /\ InOrder(server[s].candidates)'
      BY <1>2 DEF GoodList, Outdated, InOrder, RanksBefore, CreatedBefore
    <2>3. QED
      BY <2>1, <2>2 DEF CandidateInv
  <1>7. SteadyInv'
    BY <1>2 DEF ClaimInv, SteadyInv, Listed, Matches
  <1>8. QED
    BY <1>3, <1>4, <1>5, <1>6, <1>7 DEF ClaimInv

LEMMA FreeSlot ==
    /\ Free \in Slot /\ Free.pc = "idle" /\ Free.candidates = <<>>
    /\ [Free EXCEPT !.pc = "down"] \in Slot
    /\ [Free EXCEPT !.pc = "down"].pc = "down"
    /\ [Free EXCEPT !.pc = "down"].candidates = <<>>
  <1>1. <<>> \in Seq(Candidate)
    OBVIOUS
  <1>2. Free \in Slot /\ Free.pc = "idle" /\ Free.candidates = <<>>
    BY <1>1 DEF Free, Slot
  <1>3. [Free EXCEPT !.pc = "down"] \in Slot
    BY <1>1 DEF Free, Slot
  <1>4. /\ [Free EXCEPT !.pc = "down"].pc = "down"
        /\ [Free EXCEPT !.pc = "down"].candidates = <<>>
    BY DEF Free
  <1>5. QED
    BY <1>2, <1>3, <1>4

LEMMA NothingIsGood == GoodList(<<>>)
  BY Sizes DEF GoodList, InOrder

LEMMA PollNothingStep ==
    ASSUME ClaimInv, NEW s \in Servers, PollNothing(s) \/ ClaimNothing(s) \/ Restart(s)
    PROVE  ClaimInv'
  <1>1. /\ worker[s] # "working" /\ server' = [server EXCEPT ![s] = Free]
        /\ UNCHANGED <<doc, created, worker, retries, crashes, steady>>
    BY DEF PollNothing, ClaimNothing, Restart, ClaimInv, WorkInv, WorksAlone
  <1>2. TypeOK
    BY DEF ClaimInv
  <1>3. /\ retries' \in Nat /\ crashes' \in Nat
        /\ worker' \in [Servers -> {"off", "working"}]
        /\ steady' \in [Servers -> SUBSET Tasks]
    BY <1>1, <1>2 DEF TypeOK
  <1>4. QED
    BY <1>1, <1>3, FreeSlot, NothingIsGood, SlotStep

LEMMA CrashStep ==
    ASSUME ClaimInv, NEW s \in Servers, Crash(s)
    PROVE  ClaimInv'
  <1> DEFINE slot == [Free EXCEPT !.pc = "down"]
  <1>1. /\ server' = [server EXCEPT ![s] = slot]
        /\ worker' = [worker EXCEPT ![s] = "off"]
        /\ crashes' = crashes + 1
        /\ UNCHANGED <<doc, created, retries, steady>>
    BY DEF Crash
  <1>2. TypeOK
    BY DEF ClaimInv
  <1>3. /\ retries' \in Nat /\ crashes' \in Nat
        /\ worker' \in [Servers -> {"off", "working"}]
        /\ worker'[s] = "off" /\ \A u \in Servers \ {s} : worker'[u] = worker[u]
        /\ steady' \in [Servers -> SUBSET Tasks]
    BY <1>1, <1>2 DEF TypeOK
  <1>4. slot \in Slot /\ slot.pc = "down" /\ slot.candidates = <<>>
    BY FreeSlot
  <1> HIDE DEF slot
  <1>5. QED
    BY <1>1, <1>3, <1>4, NothingIsGood, SlotStep

LEMMA PreemptStep ==
    ASSUME ClaimInv, NEW s \in Servers, Preempt(s)
    PROVE  ClaimInv'
  <1> DEFINE slot == [server[s] EXCEPT !.stop = TRUE]
  <1>1. TypeOK /\ server[s] \in Slot
    BY DEF ClaimInv, TypeOK
  <1>2. /\ server' = [server EXCEPT ![s] = slot]
        /\ UNCHANGED <<doc, created, worker, retries, crashes, steady>>
    BY <1>1 DEF Preempt, TypeOK
  <1>3. slot \in Slot
    BY <1>1 DEF Slot
  <1>4. /\ slot.pc = server[s].pc /\ slot.active = server[s].active
        /\ slot.lease = server[s].lease /\ slot.candidates = server[s].candidates
    BY <1>1 DEF Slot
  <1> HIDE DEF slot
  <1>5. GoodList(slot.candidates)
    BY <1>1, <1>4 DEF Slot, GoodList, ClaimInv, CandidateInv
  <1>6. slot.pc = "claiming" => \A t \in steady'[s] : Listed(slot.candidates, t)
    BY <1>2, <1>4 DEF ClaimInv, SteadyInv
  <1>7. /\ retries' \in Nat /\ crashes' \in Nat
        /\ worker' \in [Servers -> {"off", "working"}]
        /\ steady' \in [Servers -> SUBSET Tasks]
    BY <1>1, <1>2 DEF TypeOK
  <1>8. QED
    BY <1>2, <1>3, <1>4, <1>5, <1>6, <1>7, SlotStep

\* What remains of a good list is good, and a task that is not the first remains.
LEMMA TailIsGood ==
    ASSUME NEW list, GoodList(list), list # <<>>
    PROVE  /\ GoodList(Tail(list))
           /\ \A t : Listed(list, t) /\ ~(list[1].task = t /\ Matches(list[1]))
                        => Listed(Tail(list), t)
  <1>1. list \in Seq(Candidate) /\ Len(list) \in Nat /\ Len(list) # 0
    BY DEF GoodList
  <1>2. /\ Tail(list) \in Seq(Candidate)
        /\ Len(Tail(list)) = Len(list) - 1
        /\ \A i \in 1 .. Len(list) - 1 : Tail(list)[i] = list[i + 1]
    BY <1>1
  <1>3. DOMAIN list = 1 .. Len(list) /\ DOMAIN Tail(list) = 1 .. Len(list) - 1
    BY <1>1, <1>2
  <1> DEFINE rest == Tail(list)
             n == Len(list)
  <1> HIDE DEF rest, n
  <1>4. /\ rest \in Seq(Candidate) /\ Len(rest) = n - 1 /\ n \in Nat /\ n # 0
        /\ DOMAIN list = 1 .. n /\ DOMAIN rest = 1 .. n - 1
        /\ \A i \in 1 .. n - 1 : rest[i] = list[i + 1]
    BY <1>1, <1>2, <1>3 DEF rest, n
  <1>5. GoodList(rest)
    <2>1. Len(rest) <= Cardinality(Tasks)
      BY <1>4, Sizes DEF GoodList, n
    <2>2. \A i \in DOMAIN rest : Outdated(rest[i])
      BY <1>4 DEF GoodList
    <2>3. InOrder(rest)
      <3>1. ASSUME NEW i \in 1 .. n - 1, NEW j \in 1 .. n - 1, i < j
            PROVE  /\ i + 1 \in 1 .. n /\ j + 1 \in 1 .. n /\ i + 1 < j + 1
                   /\ rest[i] = list[i + 1] /\ rest[j] = list[j + 1]
        BY <1>4, <3>1
      <3>2. QED
        BY <1>4, <3>1 DEF GoodList, InOrder
    <2>4. QED
      BY <1>4, <2>1, <2>2, <2>3 DEF GoodList
  <1>6. ASSUME NEW t, Listed(list, t), ~(list[1].task = t /\ Matches(list[1]))
        PROVE  Listed(rest, t)
    <2>1. PICK i \in DOMAIN list : list[i].task = t /\ Matches(list[i])
      BY <1>6 DEF Listed
    <2>2. i # 1
      BY <1>6, <2>1
    <2>3. i - 1 \in 1 .. n - 1 /\ rest[i - 1] = list[i]
      BY <1>4, <2>1, <2>2
    <2>4. QED
      BY <1>4, <2>1, <2>3 DEF Listed
  <1>7. QED
    BY <1>5, <1>6 DEF rest

LEMMA PassOverStep ==
    ASSUME ClaimInv, NEW s \in Servers, PassOver(s)
    PROVE  ClaimInv'
  <1> DEFINE list == server[s].candidates
             slot == [server[s] EXCEPT !.candidates = Tail(list)]
  <1>1. /\ TypeOK /\ server[s] \in Slot /\ server[s].pc = "claiming" /\ list # <<>>
        /\ ~Matches(list[1])
    <2>1. /\ TypeOK /\ server[s] \in Slot /\ server[s].pc = "claiming" /\ list # <<>>
      BY DEF ClaimInv, TypeOK, PassOver
    <2>2. list \in Seq(Candidate)
      BY <2>1 DEF Slot
    <2>3. Head(list) = list[1]
      BY <2>1, <2>2
    <2>4. QED
      BY <2>1, <2>3 DEF PassOver, Claimable, First
  <1>2. /\ server' = [server EXCEPT ![s] = slot]
        /\ UNCHANGED <<doc, created, worker, retries, crashes, steady>>
    BY <1>1 DEF PassOver, TypeOK
  <1>3. GoodList(list)
    BY <1>1 DEF Slot, GoodList, ClaimInv, CandidateInv
  <1>4. GoodList(Tail(list)) /\ \A t \in steady[s] : Listed(Tail(list), t)
    <2>1. \A t \in steady[s] : Listed(list, t)
      BY <1>1 DEF ClaimInv, SteadyInv
    <2> HIDE DEF list
    <2>2. QED
      BY <1>1, <1>3, <2>1, TailIsGood
  <1>5. PICK rest \in Seq(Candidate) : rest = Tail(list)
    BY <1>4 DEF GoodList
  <1>6. slot = [server[s] EXCEPT !.candidates = rest]
    BY <1>5
  <1> HIDE DEF slot, list
  <1>7. slot \in Slot
    BY <1>1, <1>6 DEF Slot
  <1>8. slot.candidates = rest /\ slot.pc = "claiming"
    BY <1>1, <1>6 DEF Slot
  <1>9. worker[s] # "working"
    BY <1>1 DEF ClaimInv, WorkInv, WorksAlone
  <1>10. /\ retries' \in Nat /\ crashes' \in Nat
         /\ worker' \in [Servers -> {"off", "working"}]
         /\ steady' \in [Servers -> SUBSET Tasks]
    BY <1>1, <1>2 DEF TypeOK
  <1>11. QED
    BY <1>2, <1>4, <1>5, <1>7, <1>8, <1>9, <1>10, SlotStep

LEMMA CandidatesAreGood ==
    ASSUME ClaimInv
    PROVE  GoodList(Candidates) /\ \A t \in Waiting : Listed(Candidates, t)
  <1>1. TypeOK /\ CreatedInv /\ LeaseInv
    BY DEF ClaimInv
  <1> DEFINE n == Cardinality(Waiting)
  <1>2. n \in Nat /\ n <= Cardinality(Tasks)
    BY WaitingExists
  <1>3. /\ Ordered \in [1 .. n -> Waiting] /\ DOMAIN Ordered = 1 .. n
        /\ \A i, j \in 1 .. n : i < j => Precedes(Ordered[i], Ordered[j])
        /\ \A t \in Waiting : \E i \in 1 .. n : Ordered[i] = t
    BY <1>1, OrderedIsSorted
  <1> HIDE DEF n
  <1>4. ASSUME NEW i \in 1 .. n
        PROVE  /\ Candidates[i] \in Candidate
               /\ Candidates[i].task = Ordered[i]
               /\ Candidates[i].priority = doc[Ordered[i]].priority
               /\ Matches(Candidates[i])
               /\ Outdated(Candidates[i])
    <2>1. Ordered[i] \in Tasks /\ Eligible(doc[Ordered[i]]) /\ doc[Ordered[i]] \in Document
      BY <1>1, <1>3 DEF Waiting, TypeOK
    <2>2. Candidates[i] = [task |-> Ordered[i], state |-> doc[Ordered[i]].state,
                           priority |-> doc[Ordered[i]].priority,
                           lease |-> doc[Ordered[i]].lease]
      BY <1>3 DEF Candidates
    <2>3. doc[Ordered[i]].state \in {"pending", "running", "partial"}
      BY <2>1 DEF Eligible
    <2>4. Candidates[i] \in Candidate
      BY <2>1, <2>2, <2>3 DEF Candidate, Document
    <2>5. doc[Ordered[i]].state = "running" => doc[Ordered[i]].expired
      BY <1>1, <2>1 DEF Eligible, LeaseExpired, LeaseInv
    <2>6. QED
      BY <2>2, <2>4, <2>5 DEF Matches, Outdated
  <1>5. DOMAIN Candidates = 1 .. n /\ Candidates \in Seq(Candidate) /\ Len(Candidates) = n
    <2>1. DOMAIN Candidates = 1 .. n /\ Candidates = [i \in 1 .. n |-> Candidates[i]]
      BY <1>3 DEF Candidates
    <2>2. Candidates \in [1 .. n -> Candidate]
      BY <1>4, <2>1
    <2>3. QED
      BY <1>2, <2>2
  <1>6. InOrder(Candidates)
    BY <1>3, <1>4, <1>5 DEF InOrder, Precedes
  <1>7. GoodList(Candidates)
    BY <1>2, <1>4, <1>5, <1>6 DEF GoodList
  <1>8. \A t \in Waiting : Listed(Candidates, t)
    BY <1>3, <1>4, <1>5 DEF Listed
  <1>9. QED
    BY <1>7, <1>8

LEMMA ReadCandidatesStep ==
    ASSUME ClaimInv, NEW s \in Servers, ReadCandidates(s)
    PROVE  ClaimInv'
  <1> DEFINE slot == [Free EXCEPT !.pc = "claiming", !.candidates = Candidates]
  <1>1. TypeOK /\ worker[s] # "working"
    BY DEF ClaimInv, WorkInv, WorksAlone, ReadCandidates
  <1>2. /\ server' = [server EXCEPT ![s] = slot]
        /\ steady' = [steady EXCEPT ![s] = Waiting]
        /\ UNCHANGED <<doc, created, worker, retries, crashes>>
    BY DEF ReadCandidates
  <1>3. GoodList(Candidates) /\ \A t \in Waiting : Listed(Candidates, t)
    BY CandidatesAreGood
  <1>4. PICK list \in Seq(Candidate) : list = Candidates
    BY <1>3 DEF GoodList
  <1>5. slot = [Free EXCEPT !.pc = "claiming", !.candidates = list]
    BY <1>4
  <1> HIDE DEF slot
  <1>6. slot \in Slot
    BY <1>5 DEF Free, Slot
  <1>7. slot.pc = "claiming" /\ slot.candidates = list
    BY <1>5 DEF Free
  <1>8. /\ retries' \in Nat /\ crashes' \in Nat
        /\ worker' \in [Servers -> {"off", "working"}]
        /\ steady' \in [Servers -> SUBSET Tasks]
        /\ steady'[s] = Waiting /\ \A u \in Servers \ {s} : steady'[u] = steady[u]
    BY <1>1, <1>2, WaitingExists DEF TypeOK
  <1>9. /\ GoodList(slot.candidates)
        /\ slot.pc = "claiming" => \A t \in steady'[s] : Listed(slot.candidates, t)
    BY <1>3, <1>4, <1>7, <1>8
  <1>10. /\ \A u \in Servers \ {s} : worker'[u] = worker[u] /\ steady'[u] = steady[u]
         /\ worker'[s] # "working" /\ UNCHANGED <<doc, created>>
    BY <1>1, <1>2, <1>8
  <1>11. QED
    BY <1>2, <1>6, <1>8, <1>9, <1>10, SlotStep

-----------------------------------------------------------------------------
(* Steps that change a document: what the copies of it are worth           *)

LEMMA DocumentStep ==
    ASSUME ClaimInv, NEW t \in Tasks, NEW d \in Document,
           doc' = [doc EXCEPT ![t] = d],
           d.state = "running" <=> d.lease # 0,
           created' \in Seq(Tasks), CreatedInv',
           \A u, v \in Tasks : CreatedBefore(u, v) => CreatedBefore(u, v)',
           server' \in [Servers -> Slot],
           worker' \in [Servers -> {"off", "working"}], WorkInv',
           retries' \in Nat, crashes' \in Nat,
           steady' \in [Servers -> SUBSET Tasks],
           \A s \in Servers :
              /\ steady'[s] \subseteq steady[s]
              /\ \/ /\ server'[s].candidates = server[s].candidates
                    /\ server'[s].pc = server[s].pc
                 \/ server'[s].candidates = <<>> /\ server'[s].pc # "claiming"
              /\ server[s].pc = "claiming" /\ t \in steady'[s] =>
                    /\ d.state = doc[t].state
                    /\ d.priority = doc[t].priority
                    /\ d.lease = doc[t].lease
              /\ \/ d.state # "running" \/ d.expired
                 \/ \A i \in DOMAIN server[s].candidates :
                       server[s].candidates[i].lease # d.lease
    PROVE  ClaimInv'
  <1>1. TypeOK
    BY DEF ClaimInv
  <1>2. doc' \in [Tasks -> Document] /\ doc'[t] = d
        /\ \A u \in Tasks \ {t} : doc'[u] = doc[u]
    BY <1>1 DEF TypeOK
  <1>3. TypeOK'
    BY <1>2 DEF TypeOK
  <1>4. LeaseInv'
    BY <1>2 DEF ClaimInv, LeaseInv
  <1>5. CandidateInv'
    <2>1. ASSUME NEW s \in Servers
          PROVE  /\ Len(server'[s].candidates) <= Cardinality(Tasks)
                 /\ \A i \in DOMAIN server'[s].candidates : Outdated(server[s].candidates[i])'
                 /\ InOrder(server[s].candidates)'
      <3>1. CASE server'[s].candidates = <<>>
        BY <3>1, Sizes DEF InOrder
      <3>2. CASE server'[s].candidates = server[s].candidates
        <4>1. /\ server[s].candidates \in Seq(Candidate)
              /\ Len(server[s].candidates) <= Cardinality(Tasks)
              /\ \A i \in DOMAIN server[s].candidates : Outdated(server[s].candidates[i])
              /\ InOrder(server[s].candidates)
          BY <1>1 DEF TypeOK, Slot, ClaimInv, CandidateInv
        <4>2. \A i \in DOMAIN server[s].candidates : server[s].candidates[i].task \in Tasks
          <5>1. \A i \in DOMAIN server[s].candidates : server[s].candidates[i] \in Candidate
            BY <4>1
          <5>2. QED
            BY <5>1 DEF Candidate
        <4>3. \A i \in DOMAIN server'[s].candidates : Outdated(server[s].candidates[i])'
          BY <1>2, <3>2, <4>1, <4>2 DEF Outdated
        <4>4. InOrder(server[s].candidates)'
          BY <3>2, <4>1, <4>2 DEF InOrder, RanksBefore
        <4>5. QED
          BY <3>2, <4>1, <4>3, <4>4
      <3>3. QED
        BY <3>1, <3>2
    <2>2. QED
      BY <2>1 DEF CandidateInv
  <1>6. SteadyInv'
    <2>1. ASSUME NEW s \in Servers, server'[s].pc = "claiming", NEW u \in steady'[s]
          PROVE  Listed(server[s].candidates, u)'
      <3>1. /\ server'[s].candidates = server[s].candidates
            /\ u \in Tasks /\ Listed(server[s].candidates, u)
        BY <1>1, <2>1 DEF ClaimInv, TypeOK, SteadyInv
      <3>2. PICK i \in DOMAIN server[s].candidates :
              server[s].candidates[i].task = u /\ Matches(server[s].candidates[i])
        BY <3>1 DEF Listed
      <3>3. Matches(server[s].candidates[i])'
        BY <1>2, <2>1, <3>1, <3>2 DEF Matches
      <3>4. QED
        BY <3>1, <3>2, <3>3 DEF Listed
    <2>2. QED
      BY <2>1 DEF SteadyInv
  <1>7. QED
    BY <1>3, <1>4, <1>5, <1>6 DEF ClaimInv

LEMMA SubmitStep ==
    ASSUME ClaimInv, NEW t \in Tasks, Submit(t)
    PROVE  ClaimInv'
  <1> DEFINE d == [doc[t] EXCEPT !.state = "pending"]
  <1>1. /\ TypeOK /\ LeaseInv /\ CreatedInv /\ WorkInv /\ doc[t] \in Document
        /\ doc \in [Tasks -> Document] /\ created \in Seq(Tasks)
    BY DEF ClaimInv, TypeOK
  <1>2. /\ doc' = [doc EXCEPT ![t] = d] /\ created' = Append(created, t)
        /\ UNCHANGED <<server, worker, retries, crashes, steady>>
        /\ doc[t].state = "absent"
    BY <1>1 DEF Submit
  <1>3. /\ d \in Document /\ d.state = "pending" /\ d.lease = doc[t].lease
        /\ d.expired = doc[t].expired
    BY <1>1, Zenon DEF Document
  <1> HIDE DEF d
  <1>4. doc'[t] = d /\ \A u \in Tasks \ {t} : doc'[u] = doc[u]
    BY <1>1, <1>2
  <1>5. d.lease = 0
    BY <1>1, <1>2, <1>3 DEF LeaseInv, Document
  <1>6. /\ created' \in Seq(Tasks) /\ DOMAIN created \subseteq DOMAIN created'
        /\ \A i \in DOMAIN created : created'[i] = created[i]
        /\ Len(created) + 1 \in DOMAIN created' /\ created'[Len(created) + 1] = t
        /\ \A i \in DOMAIN created' : i \in DOMAIN created \/ i = Len(created) + 1
    BY <1>1, <1>2
  <1>7. CreatedInv'
    <2>1. \A i \in DOMAIN created : created[i] # t
      BY <1>1, <1>2 DEF CreatedInv
    <2>2. \A i, j \in DOMAIN created' : created'[i] = created'[j] => i = j
      BY <1>1, <1>6, <2>1 DEF CreatedInv
    <2>3. ASSUME NEW u \in Tasks
          PROVE  doc'[u].state # "absent" <=> \E i \in DOMAIN created' : created'[i] = u
      BY <1>1, <1>3, <1>4, <1>6 DEF CreatedInv
    <2>4. QED
      BY <2>2, <2>3 DEF CreatedInv
  <1>8. \A u, v \in Tasks : CreatedBefore(u, v) => CreatedBefore(u, v)'
    BY <1>6 DEF CreatedBefore
  <1>9. WorkInv'
    BY <1>1, <1>2, <1>3, <1>4 DEF WorkInv, WorksAlone
  <1>10. /\ server' \in [Servers -> Slot] /\ worker' \in [Servers -> {"off", "working"}]
         /\ retries' \in Nat /\ crashes' \in Nat /\ steady' \in [Servers -> SUBSET Tasks]
    BY <1>1, <1>2 DEF TypeOK
  <1>11. \A s \in Servers : server[s].pc = "claiming" => t \notin steady[s]
    <2>1. ASSUME NEW s \in Servers, server[s].pc = "claiming", t \in steady[s]
          PROVE  FALSE
      <3>1. PICK i \in DOMAIN server[s].candidates :
              server[s].candidates[i].task = t /\ Matches(server[s].candidates[i])
        BY <2>1 DEF ClaimInv, SteadyInv, Listed
      <3>2. server[s].candidates[i] \in Candidate
        <4>1. server[s].candidates \in Seq(Candidate)
          BY <1>1 DEF TypeOK, Slot
        <4>2. QED
          BY <4>1
      <3>3. server[s].candidates[i].state \in {"pending", "running", "partial"}
        BY <3>2 DEF Candidate
      <3>4. QED
        BY <1>2, <3>1, <3>3 DEF Matches
    <2>2. QED
      BY <2>1
  <1>12. QED
    BY <1>2, <1>3, <1>5, <1>6, <1>7, <1>8, <1>10, <1>9, <1>11, DocumentStep

\* A task that is touched leaves the steady ones.
LEMMA TouchEffect ==
    ASSUME TypeOK, NEW t \in Tasks, Touch(t)
    PROVE  /\ steady' \in [Servers -> SUBSET Tasks]
           /\ \A s \in Servers : steady'[s] \subseteq steady[s] /\ t \notin steady'[s]
  BY DEF TypeOK, Touch

\* What was created stays so, when no document appears.
LEMMA CreatedStays ==
    ASSUME ClaimInv, NEW t \in Tasks, NEW d \in Document,
           doc' = [doc EXCEPT ![t] = d], UNCHANGED created,
           doc[t].state # "absent", d.state # "absent"
    PROVE  /\ created' \in Seq(Tasks) /\ CreatedInv'
           /\ \A u, v \in Tasks : CreatedBefore(u, v) => CreatedBefore(u, v)'
  <1>1. TypeOK /\ CreatedInv
    BY DEF ClaimInv
  <1>2. doc'[t] = d /\ \A u \in Tasks \ {t} : doc'[u] = doc[u]
    BY <1>1 DEF TypeOK
  <1>3. created' \in Seq(Tasks)
    BY <1>1 DEF TypeOK
  <1>4. CreatedInv'
    BY <1>1, <1>2 DEF CreatedInv
  <1>5. \A u, v \in Tasks : CreatedBefore(u, v) => CreatedBefore(u, v)'
    BY DEF CreatedBefore
  <1>6. QED
    BY <1>3, <1>4, <1>5

LEMMA AskRetryStep ==
    ASSUME ClaimInv, NEW t \in Tasks, AskRetry(t)
    PROVE  ClaimInv'
  <1> DEFINE d == [doc[t] EXCEPT !.state = "pending", !.priority = 1, !.due = FALSE]
  <1>1. /\ TypeOK /\ WorkInv /\ doc[t] \in Document /\ doc \in [Tasks -> Document]
    BY DEF ClaimInv, TypeOK
  <1>2. /\ doc' = [doc EXCEPT ![t] = d] /\ retries' = retries + 1 /\ Touch(t)
        /\ UNCHANGED <<created, server, worker, crashes>>
        /\ doc[t].state = "partial" /\ doc[t].lease = 0
    BY <1>1 DEF AskRetry
  <1>3. /\ d \in Document /\ d.state = "pending" /\ d.lease = doc[t].lease
        /\ d.expired = doc[t].expired
    BY <1>1, Zenon DEF Document
  <1> HIDE DEF d
  <1>4. doc'[t] = d /\ \A u \in Tasks \ {t} : doc'[u] = doc[u]
    BY <1>1, <1>2
  <1>5. /\ created' \in Seq(Tasks) /\ CreatedInv'
        /\ \A u, v \in Tasks : CreatedBefore(u, v) => CreatedBefore(u, v)'
    BY <1>2, <1>3, CreatedStays
  <1>6. WorkInv'
    BY <1>1, <1>2, <1>3, <1>4 DEF WorkInv, WorksAlone
  <1>7. /\ server' \in [Servers -> Slot] /\ worker' \in [Servers -> {"off", "working"}]
        /\ retries' \in Nat /\ crashes' \in Nat
    BY <1>1, <1>2 DEF TypeOK
  <1>8. /\ steady' \in [Servers -> SUBSET Tasks]
        /\ \A s \in Servers : steady'[s] \subseteq steady[s] /\ t \notin steady'[s]
    BY <1>1, <1>2, TouchEffect
  <1>9. d.lease = 0 /\ d.state # "running"
    BY <1>2, <1>3
  <1>10. QED
    BY <1>2, <1>3, <1>5, <1>6, <1>7, <1>8, <1>9, DocumentStep

LEMMA ExpireStep ==
    ASSUME ClaimInv, NEW t \in Tasks, Expire(t)
    PROVE  ClaimInv'
  <1> DEFINE d == [doc[t] EXCEPT !.expired = TRUE]
  <1>1. /\ TypeOK /\ WorkInv /\ LeaseInv /\ doc[t] \in Document
        /\ doc \in [Tasks -> Document]
    BY DEF ClaimInv, TypeOK
  <1>2. /\ doc' = [doc EXCEPT ![t] = d]
        /\ UNCHANGED <<created, server, worker, retries, crashes, steady>>
        /\ doc[t].lease # 0
        /\ \A s \in Servers : worker[s] = "working" => server[s].lease # doc[t].lease
    BY <1>1 DEF Expire
  <1>3. /\ d \in Document /\ d.state = doc[t].state /\ d.lease = doc[t].lease
        /\ d.priority = doc[t].priority /\ d.expired = TRUE
    BY <1>1, Zenon DEF Document
  <1> HIDE DEF d
  <1>4. doc'[t] = d /\ \A u \in Tasks \ {t} : doc'[u] = doc[u]
    BY <1>1, <1>2
  <1>5. doc[t].state = "running"
    BY <1>1, <1>2 DEF LeaseInv
  <1>6. /\ created' \in Seq(Tasks) /\ CreatedInv'
        /\ \A u, v \in Tasks : CreatedBefore(u, v) => CreatedBefore(u, v)'
    BY <1>2, <1>3, <1>5, CreatedStays
  <1>7. WorkInv'
    BY <1>1, <1>2, <1>3, <1>4 DEF WorkInv, WorksAlone
  <1>8. /\ server' \in [Servers -> Slot] /\ worker' \in [Servers -> {"off", "working"}]
        /\ retries' \in Nat /\ crashes' \in Nat /\ steady' \in [Servers -> SUBSET Tasks]
    BY <1>1, <1>2 DEF TypeOK
  <1>9. d.state = "running" <=> d.lease # 0
    BY <1>2, <1>3, <1>5
  <1>10. QED
    BY <1>2, <1>3, <1>6, <1>7, <1>8, <1>9, DocumentStep

\* The worker of s leaves its task in a state without a lease.
LEMMA LeaveStep ==
    ASSUME ClaimInv, NEW s \in Servers, worker[s] = "working",
           NEW d \in Document, d.state \in {"pending", "completed", "partial"}, d.lease = 0,
           doc' = [doc EXCEPT ![server[s].active] = d], Touch(server[s].active),
           worker' = [worker EXCEPT ![s] = "off"], retries' \in Nat,
           UNCHANGED <<created, server, crashes>>
    PROVE  ClaimInv'
  <1>1. /\ TypeOK /\ WorkInv /\ LeaseInv /\ doc \in [Tasks -> Document]
        /\ worker \in [Servers -> {"off", "working"}]
    BY DEF ClaimInv, TypeOK
  <1>2. PICK t \in Tasks : t = server[s].active
    BY <1>1 DEF WorkInv, WorksAlone
  <1>3. doc' = [doc EXCEPT ![t] = d] /\ Touch(t)
    BY <1>2
  <1>4. doc'[t] = d /\ \A u \in Tasks \ {t} : doc'[u] = doc[u]
    BY <1>1, <1>3
  <1>5. doc[t].state = "running"
    BY <1>1, <1>2 DEF WorkInv, WorksAlone, LeaseInv
  <1>6. /\ created' \in Seq(Tasks) /\ CreatedInv'
        /\ \A u, v \in Tasks : CreatedBefore(u, v) => CreatedBefore(u, v)'
    BY <1>3, <1>5, CreatedStays
  <1>7. WorkInv'
    <2>1. ASSUME NEW u \in Servers, worker'[u] = "working"
          PROVE  u # s /\ worker[u] = "working" /\ server[u].active # t
      BY <1>1, <1>2, <2>1 DEF WorkInv, WorksAlone
    <2>2. QED
      BY <1>1, <1>4, <2>1 DEF WorkInv, WorksAlone
  <1>8. /\ server' \in [Servers -> Slot] /\ worker' \in [Servers -> {"off", "working"}]
        /\ crashes' \in Nat
    BY <1>1 DEF TypeOK
  <1>9. /\ steady' \in [Servers -> SUBSET Tasks]
        /\ \A u \in Servers : steady'[u] \subseteq steady[u] /\ t \notin steady'[u]
    BY <1>1, <1>3, TouchEffect
  <1>10. QED
    BY <1>3, <1>6, <1>7, <1>8, <1>9, DocumentStep

LEMMA FinishStep ==
    ASSUME ClaimInv, NEW s \in Servers, Finish(s)
    PROVE  ClaimInv'
  <1>1. TypeOK /\ worker[s] = "working" /\ server[s].active \in Tasks
    BY DEF ClaimInv, WorkInv, WorksAlone, Finish
  <1>2. PICK t \in Tasks : t = server[s].active
    BY <1>1
  <1>3. doc[t] \in Document /\ doc \in [Tasks -> Document] /\ retries \in Nat
    BY <1>1 DEF TypeOK
  <1>4. PICK state \in {"completed", "partial"}, due \in BOOLEAN :
            /\ doc' = [doc EXCEPT ![t].state = state, ![t].lease = 0,
                                  ![t].priority = 0, ![t].due = due]
            /\ retries' = IF due THEN retries + 1 ELSE retries
    BY <1>2 DEF Finish
  <1> DEFINE d == [doc[t] EXCEPT !.state = state, !.lease = 0, !.priority = 0, !.due = due]
  <1>5. doc' = [doc EXCEPT ![t] = d]
    BY <1>3, <1>4, Zenon
  <1>6. d.state = state /\ d.lease = 0
    BY <1>3, Zenon DEF Document
  <1>7. d \in Document
    <2> DEFINE left == [doc[t] EXCEPT !.state = state, !.lease = 0, !.priority = 0]
    <2>1. left \in Document
      BY <1>3 DEF Document
    <2>2. d = [left EXCEPT !.due = due]
      BY <1>3, Zenon DEF Document
    <2> HIDE DEF d, left
    <2>3. QED
      BY <1>4, <2>1, <2>2, Zenon DEF Document
  <1> HIDE DEF d
  <1>8. /\ Touch(t) /\ worker' = [worker EXCEPT ![s] = "off"]
        /\ UNCHANGED <<created, server, crashes>>
    BY <1>2 DEF Finish
  <1>9. retries' \in Nat
    BY <1>3, <1>4
  <1>10. /\ doc' = [doc EXCEPT ![server[s].active] = d] /\ Touch(server[s].active)
         /\ d.state \in {"pending", "completed", "partial"}
    BY <1>2, <1>5, <1>6, <1>8
  <1>11. QED
    BY <1>1, <1>6, <1>7, <1>8, <1>9, <1>10, LeaveStep

LEMMA GiveBackStep ==
    ASSUME ClaimInv, NEW s \in Servers, GiveBack(s)
    PROVE  ClaimInv'
  <1>1. TypeOK /\ worker[s] = "working" /\ server[s].active \in Tasks
    BY DEF ClaimInv, WorkInv, WorksAlone, GiveBack
  <1>2. PICK t \in Tasks : t = server[s].active
    BY <1>1
  <1>3. doc[t] \in Document /\ doc \in [Tasks -> Document]
    BY <1>1 DEF TypeOK
  <1> DEFINE d == [doc[t] EXCEPT !.state = "pending", !.lease = 0]
  <1>4. /\ doc' = [doc EXCEPT ![t] = d] /\ Touch(t)
        /\ worker' = [worker EXCEPT ![s] = "off"] /\ retries' \in Nat
        /\ UNCHANGED <<created, server, crashes>>
    BY <1>1, <1>2, <1>3 DEF GiveBack, TypeOK
  <1>5. d \in Document /\ d.state = "pending" /\ d.lease = 0
    BY <1>3, Zenon DEF Document
  <1> HIDE DEF d
  <1>6. doc' = [doc EXCEPT ![server[s].active] = d] /\ Touch(server[s].active)
    BY <1>2, <1>4
  <1>7. QED
    BY <1>1, <1>4, <1>5, <1>6, LeaveStep

\* The first candidate of a server that claims.
LEMMA FirstIsCandidate ==
    ASSUME TypeOK, NEW s \in Servers, server[s].candidates # <<>>
    PROVE  /\ First(s) = server[s].candidates[1] /\ 1 \in DOMAIN server[s].candidates
           /\ First(s) \in Candidate
           /\ First(s).task \in Tasks /\ First(s).priority \in {0, 1}
           /\ First(s).state \in {"pending", "running", "partial"}
  <1>1. server[s].candidates \in Seq(Candidate)
    BY DEF TypeOK, Slot
  <1>2. First(s) = server[s].candidates[1] /\ 1 \in DOMAIN server[s].candidates
    BY <1>1 DEF First
  <1>3. First(s) \in Candidate
    BY <1>1, <1>2
  <1>4. QED
    BY <1>2, <1>3 DEF Candidate

\* What a claim takes has no lease, or one that has run out, and nobody works on it.
LEMMA ClaimIsSafe ==
    ASSUME ClaimInv, NEW s \in Servers, server[s].candidates # <<>>, Claimable(s),
           NEW t \in Tasks, t = First(s).task
    PROVE  /\ Eligible(doc[t]) \/ doc[t].state = "partial"
           /\ doc[t].state \in {"pending", "running", "partial"}
           /\ \A u \in Servers : worker[u] = "working" => server[u].active # t
  <1>1. TypeOK /\ LeaseInv /\ WorkInv /\ CandidateInv
    BY DEF ClaimInv
  <1>2. /\ First(s).state \in {"pending", "running", "partial"}
        /\ Outdated(First(s)) /\ Matches(First(s))
    BY <1>1, FirstIsCandidate DEF CandidateInv, Claimable
  <1>3. doc[t].state \in {"pending", "running", "partial"}
    BY <1>2 DEF Matches
  <1>4. doc[t].state = "running" => doc[t].expired
    BY <1>2 DEF Matches, Outdated
  <1>5. Eligible(doc[t]) \/ doc[t].state = "partial"
    BY <1>1, <1>3, <1>4 DEF Eligible, LeaseExpired, LeaseInv
  <1>6. ASSUME NEW u \in Servers, worker[u] = "working", server[u].active = t
        PROVE  FALSE
    <2>1. doc[t].lease # 0 /\ ~doc[t].expired
      BY <1>1, <1>6 DEF WorkInv, WorksAlone
    <2>2. doc[t].state = "running"
      BY <1>1, <2>1 DEF LeaseInv
    <2>3. QED
      BY <1>4, <2>1, <2>2
  <1>7. QED
    BY <1>3, <1>5, <1>6

LEMMA ClaimStep ==
    ASSUME ClaimInv, NEW s \in Servers, Claim(s)
    PROVE  ClaimInv'
  <1>1. /\ TypeOK /\ WorkInv /\ CandidateInv /\ doc \in [Tasks -> Document]
        /\ server[s].candidates # <<>> /\ Claimable(s)
    BY DEF ClaimInv, TypeOK, Claim
  <1>2. PICK t \in Tasks : t = First(s).task
    BY <1>1, FirstIsCandidate
  <1>3. PICK token \in Nat : token = NewToken /\ token # 0 /\ Fresh(token)
    <2>1. NewToken \in Tokens /\ Fresh(NewToken)
      BY <1>1, FreshTokenExists
    <2>2. NewToken \in Nat /\ NewToken # 0
      BY <2>1, Sizes DEF Tokens
    <2>3. QED
      BY <2>1, <2>2
  <1>4. doc[t] \in Document
    BY <1>1
  <1>5. PICK priority \in {0, 1} : priority = doc[t].priority
    BY <1>4 DEF Document
  <1> DEFINE d == [doc[t] EXCEPT !.state = "running", !.lease = token,
                                 !.expired = FALSE, !.due = FALSE]
             slot == [Free EXCEPT !.pc = "busy", !.active = t, !.lease = token,
                                  !.priority = priority]
  <1>6. /\ doc' = [doc EXCEPT ![t] = d] /\ server' = [server EXCEPT ![s] = slot]
        /\ Touch(t) /\ worker' = [worker EXCEPT ![s] = "working"]
        /\ UNCHANGED <<created, retries, crashes>>
    BY <1>1, <1>2, <1>3, <1>4, <1>5 DEF Claim
  <1>7. /\ d \in Document /\ d.state = "running" /\ d.lease = token
        /\ d.expired = FALSE
    BY <1>4, Zenon DEF Document
  <1>8. /\ slot.pc = "busy" /\ slot.active = t /\ slot.lease = token
        /\ slot.candidates = <<>>
    BY DEF Free
  <1>9. slot \in Slot
    <2>1. <<>> \in Seq(Candidate)
      OBVIOUS
    <2>2. QED
      BY <2>1, <1>3, <1>5 DEF Free, Slot
  <1> HIDE DEF d, slot
  <1>10. /\ doc'[t] = d /\ \A u \in Tasks \ {t} : doc'[u] = doc[u]
         /\ server'[s] = slot /\ \A u \in Servers \ {s} : server'[u] = server[u]
         /\ worker'[s] = "working" /\ \A u \in Servers \ {s} : worker'[u] = worker[u]
         /\ server' \in [Servers -> Slot] /\ worker' \in [Servers -> {"off", "working"}]
         /\ retries' \in Nat /\ crashes' \in Nat
    BY <1>1, <1>6, <1>9 DEF TypeOK
  <1>11. /\ doc[t].state # "absent"
         /\ \A u \in Servers : worker[u] = "working" => server[u].active # t
    BY <1>1, <1>2, ClaimIsSafe
  <1>12. /\ created' \in Seq(Tasks) /\ CreatedInv'
         /\ \A u, v \in Tasks : CreatedBefore(u, v) => CreatedBefore(u, v)'
    BY <1>6, <1>7, <1>11, CreatedStays
  <1>13. WorkInv'
    <2>1. WorksAlone(s)'
      BY <1>3, <1>7, <1>8, <1>10, <1>11 DEF WorksAlone
    <2>2. ASSUME NEW u \in Servers \ {s}
          PROVE  WorksAlone(u)'
      BY <1>1, <1>8, <1>10, <1>11 DEF WorkInv, WorksAlone
    <2>3. QED
      BY <2>1, <2>2 DEF WorkInv
  <1>14. /\ steady' \in [Servers -> SUBSET Tasks]
         /\ \A u \in Servers : steady'[u] \subseteq steady[u] /\ t \notin steady'[u]
    BY <1>1, <1>6, TouchEffect
  <1>15. \A u \in Servers : \A i \in DOMAIN server[u].candidates :
            server[u].candidates[i].lease # d.lease
    BY <1>3, <1>7 DEF Fresh
  <1>16. \A u \in Servers :
            \/ /\ server'[u].candidates = server[u].candidates
               /\ server'[u].pc = server[u].pc
            \/ server'[u].candidates = <<>> /\ server'[u].pc # "claiming"
    BY <1>8, <1>10
  <1>17. d.state = "running" <=> d.lease # 0
    BY <1>3, <1>7
  <1>18. \A u \in Servers :
            /\ steady'[u] \subseteq steady[u]
            /\ \/ /\ server'[u].candidates = server[u].candidates
                  /\ server'[u].pc = server[u].pc
               \/ server'[u].candidates = <<>> /\ server'[u].pc # "claiming"
            /\ server[u].pc = "claiming" /\ t \in steady'[u] =>
                  /\ d.state = doc[t].state
                  /\ d.priority = doc[t].priority
                  /\ d.lease = doc[t].lease
            /\ \/ d.state # "running" \/ d.expired
               \/ \A i \in DOMAIN server[u].candidates :
                     server[u].candidates[i].lease # d.lease
    BY <1>14, <1>15, <1>16
  <1>19. d \in Document /\ doc' = [doc EXCEPT ![t] = d]
    BY <1>6, <1>7
  <1>20. QED
    BY <1>10, <1>12, <1>13, <1>14, <1>17, <1>18, <1>19, DocumentStep

-----------------------------------------------------------------------------
(* The invariant                                                           *)

LEMMA InitClaimInv == Init => ClaimInv
  <1> SUFFICES ASSUME Init PROVE ClaimInv
    OBVIOUS
  <1>1. \A t \in Tasks : doc[t].state = "absent" /\ doc[t].lease = 0
    BY DEF Init
  <1>2. \A s \in Servers : server[s] = Free /\ worker[s] = "off"
    BY DEF Init
  <1>3. TypeOK
    <2>1. doc \in [Tasks -> Document]
      BY DEF Init, Document
    <2>2. server \in [Servers -> Slot] /\ created \in Seq(Tasks)
      BY FreeSlot DEF Init
    <2>3. QED
      BY <2>1, <2>2 DEF Init, TypeOK
  <1>4. LeaseInv /\ WorkInv
    BY <1>1, <1>2 DEF LeaseInv, WorkInv, WorksAlone
  <1>5. CreatedInv
    BY <1>1 DEF Init, CreatedInv
  <1>6. CandidateInv
    BY <1>2, FreeSlot, NothingIsGood DEF CandidateInv, GoodList
  <1>7. SteadyInv
    BY <1>2, FreeSlot DEF SteadyInv
  <1>8. QED
    BY <1>3, <1>4, <1>5, <1>6, <1>7 DEF ClaimInv

LEMMA StutterStep ==
    ASSUME ClaimInv, UNCHANGED vars
    PROVE  ClaimInv'
  <1>1. TypeOK' /\ LeaseInv' /\ CreatedInv' /\ WorkInv'
    BY DEF ClaimInv, vars, TypeOK, LeaseInv, CreatedInv, WorkInv, WorksAlone
  <1>2. CandidateInv' /\ SteadyInv'
    BY DEF ClaimInv, vars, CandidateInv, Outdated, InOrder, RanksBefore, CreatedBefore,
           SteadyInv, Listed, Matches
  <1>3. QED
    BY <1>1, <1>2 DEF ClaimInv

LEMMA NextClaimInv == ClaimInv /\ [Next]_vars => ClaimInv'
  <1> SUFFICES ASSUME ClaimInv, [Next]_vars PROVE ClaimInv'
    OBVIOUS
  <1>1. CASE \E t \in Tasks : Submit(t) \/ AskRetry(t) \/ Expire(t)
    BY <1>1, SubmitStep, AskRetryStep, ExpireStep
  <1>2. ASSUME NEW s \in Servers,
               Poll(s) \/ Preempt(s) \/ Finish(s) \/ GiveBack(s) \/ Crash(s) \/ Restart(s)
        PROVE  ClaimInv'
    <2>1. CASE Poll(s)
      BY <2>1, ReadCandidatesStep, PollNothingStep, ClaimStep, PassOverStep DEF Poll
    <2>2. CASE Preempt(s) \/ Finish(s) \/ GiveBack(s) \/ Crash(s) \/ Restart(s)
      BY <2>2, PreemptStep, FinishStep, GiveBackStep, CrashStep, PollNothingStep
    <2>3. QED
      BY <1>2, <2>1, <2>2
  <1>3. CASE UNCHANGED vars
    BY <1>3, StutterStep
  <1>4. QED
    BY <1>1, <1>2, <1>3 DEF Next

LEMMA ClaimInvariant == Spec => []ClaimInv
  BY InitClaimInv, NextClaimInv, PTL DEF Spec

\* Whoever changes a document, but for the end of its lease, touches the task.
LEMMA UntouchedStep ==
    ASSUME ClaimInv, UntouchedInv, [Next]_vars
    PROVE  UntouchedInv'
  <1>1. TypeOK /\ doc \in [Tasks -> Document] /\ steady \in [Servers -> SUBSET Tasks]
    BY DEF ClaimInv, TypeOK
  <1>2. ASSUME NEW t \in Tasks, Touch(t), NEW d \in Document, doc' = [doc EXCEPT ![t] = d]
        PROVE  UntouchedInv'
    <2>1. \A u \in Tasks \ {t} : doc'[u] = doc[u]
      BY <1>1, <1>2
    <2>2. \A s \in Servers : steady'[s] = steady[s] \ {t}
      BY <1>2 DEF Touch
    <2>3. QED
      BY <2>1, <2>2 DEF UntouchedInv, Waiting
  <1>3. ASSUME doc' = doc, steady' = steady
        PROVE  UntouchedInv'
    BY <1>3 DEF UntouchedInv, Waiting
  <1>4. ASSUME NEW t \in Tasks, Submit(t)
        PROVE  UntouchedInv'
    <2>1. \A u \in Tasks \ {t} : doc'[u] = doc[u]
      BY <1>1, <1>4 DEF Submit
    <2>2. t \notin Waiting
      BY <1>4 DEF Submit, Waiting, Eligible
    <2>3. steady' = steady
      BY <1>4 DEF Submit
    <2>4. QED
      BY <2>1, <2>2, <2>3 DEF UntouchedInv, Waiting
  <1>5. ASSUME NEW t \in Tasks, Expire(t)
        PROVE  UntouchedInv'
    <2>1. PICK d : d = doc[t]
      OBVIOUS
    <2>2. d \in Document /\ doc' = [doc EXCEPT ![t] = [d EXCEPT !.expired = TRUE]]
      BY <1>1, <1>5, <2>1 DEF Expire
    <2>3. Eligible(d) => Eligible([d EXCEPT !.expired = TRUE])
      BY <2>2 DEF Document, Eligible, LeaseExpired
    <2>4. \A u \in Tasks : Eligible(doc[u]) => Eligible(doc'[u])
      BY <1>1, <2>1, <2>2, <2>3
    <2>5. steady' = steady
      BY <1>5 DEF Expire
    <2>6. QED
      BY <2>4, <2>5 DEF UntouchedInv, Waiting
  <1>6. ASSUME NEW t \in Tasks, AskRetry(t)
        PROVE  UntouchedInv'
    <2>1. PICK d \in Document : d = doc[t]
      BY <1>1
    <2>2. PICK e : e = [d EXCEPT !.state = "pending", !.priority = 1, !.due = FALSE]
      OBVIOUS
    <2>3. e \in Document
      BY <2>1, <2>2 DEF Document
    <2>4. doc' = [doc EXCEPT ![t] = e] /\ Touch(t)
      BY <1>6, <2>1, <2>2 DEF AskRetry
    <2>5. QED
      BY <1>2, <2>3, <2>4
  <1>7. ASSUME NEW s \in Servers, Claim(s)
        PROVE  UntouchedInv'
    <2>1. PICK t \in Tasks : t = First(s).task
      BY <1>7, FirstIsCandidate DEF ClaimInv, Claim
    <2>2. Touch(t) /\ \A u \in Tasks \ {t} : doc'[u] = doc[u]
      BY <1>1, <1>7, <2>1 DEF Claim
    <2>3. \A u \in Servers : steady'[u] = steady[u] \ {t}
      BY <2>2 DEF Touch
    <2>4. QED
      BY <2>2, <2>3 DEF UntouchedInv, Waiting
  <1>8. ASSUME NEW s \in Servers, Finish(s) \/ GiveBack(s)
        PROVE  UntouchedInv'
    <2>1. PICK t \in Tasks : t = server[s].active
      BY <1>8 DEF ClaimInv, WorkInv, WorksAlone, Finish, GiveBack
    <2>2. Touch(t) /\ \A u \in Tasks \ {t} : doc'[u] = doc[u]
      BY <1>1, <1>8, <2>1 DEF Finish, GiveBack
    <2>3. \A u \in Servers : steady'[u] = steady[u] \ {t}
      BY <2>2 DEF Touch
    <2>4. QED
      BY <2>2, <2>3 DEF UntouchedInv, Waiting
  <1>9. ASSUME NEW s \in Servers, ReadCandidates(s)
        PROVE  UntouchedInv'
    <2>1. doc' = doc /\ \A u \in Servers : steady'[u] = Waiting \/ steady'[u] = steady[u]
      BY <1>1, <1>9 DEF ReadCandidates
    <2>2. QED
      BY <2>1 DEF UntouchedInv, Waiting
  <1>10. ASSUME NEW s \in Servers,
               PollNothing(s) \/ PassOver(s) \/ ClaimNothing(s) \/ Preempt(s) \/ Crash(s) \/ Restart(s)
        PROVE  UntouchedInv'
    BY <1>3, <1>10 DEF PollNothing, PassOver, ClaimNothing, Preempt, Crash, Restart
  <1>11. CASE UNCHANGED vars
    BY <1>3, <1>11 DEF vars
  <1>12. QED
    BY <1>4, <1>5, <1>6, <1>7, <1>8, <1>9, <1>10, <1>11 DEF Next, Poll

\* In every reachable state a running task has a lease and one review at most works
\* on a task, under the lease of the document; what the schedulers keep of the tasks
\* while they claim says no more than the comparison of a claim makes good, and
\* what nobody has touched since may still be claimed.
THEOREM DispatchInvariant == Spec => []DispatchInv
  <1>1. Init => UntouchedInv
    BY DEF Init, UntouchedInv
  <1>2. QED
    BY <1>1, InitClaimInv, NextClaimInv, UntouchedStep, PTL DEF Spec, DispatchInv

-----------------------------------------------------------------------------
(* The order of claims                                                     *)

\* A task that is listed and is not the first of the list comes after it.
LEMMA FirstComesFirst ==
    ASSUME ClaimInv, NEW s \in Servers, Claim(s), NEW t \in steady[s], t # First(s).task
    PROVE  Precedes(First(s).task, t)
  <1> DEFINE list == server[s].candidates
  <1>1. /\ TypeOK /\ list # <<>> /\ Matches(First(s)) /\ server[s].pc = "claiming"
    BY DEF ClaimInv, Claim, Claimable
  <1>2. First(s) = list[1] /\ 1 \in DOMAIN list
    BY <1>1, FirstIsCandidate
  <1>3. PICK i \in DOMAIN list : list[i].task = t /\ Matches(list[i])
    BY <1>1 DEF ClaimInv, SteadyInv, Listed
  <1>4. 1 < i
    <2>1. list \in Seq(Candidate)
      BY <1>1 DEF TypeOK, Slot
    <2> HIDE DEF list
    <2>2. i \in Nat /\ i >= 1 /\ i # 1
      BY <1>2, <1>3, <2>1
    <2>3. QED
      BY <2>2
  <1>5. RanksBefore(list[1].task, list[1].priority, list[i].task, list[i].priority)
    BY <1>2, <1>3, <1>4 DEF ClaimInv, CandidateInv, InOrder
  <1>6. /\ list[1].priority = doc[First(s).task].priority
        /\ list[i].priority = doc[t].priority
    BY <1>1, <1>2, <1>3 DEF Matches
  <1> HIDE DEF list
  <1>7. QED
    BY <1>2, <1>3, <1>5, <1>6 DEF Precedes

\* Only a claim makes a server that claims busy.
LEMMA ClaimsBusy ==
    ASSUME ClaimInv, Next, NEW s \in Servers, server[s].pc = "claiming", server'[s].pc = "busy"
    PROVE  Claim(s) /\ server'[s].active = First(s).task
  <1>1. TypeOK /\ server \in [Servers -> Slot]
    BY DEF ClaimInv, TypeOK
  <1>2. worker[s] # "working"
    BY DEF ClaimInv, WorkInv, WorksAlone
  <1>3. ~\E u \in Tasks : Submit(u) \/ AskRetry(u) \/ Expire(u)
    BY DEF Submit, AskRetry, Expire
  <1>4. PICK u \in Servers :
          Poll(u) \/ Preempt(u) \/ Finish(u) \/ GiveBack(u) \/ Crash(u) \/ Restart(u)
    BY <1>3 DEF Next
  <1>5. u = s
    BY <1>1, <1>4 DEF Poll, ReadCandidates, PollNothing, Claim, PassOver, ClaimNothing,
                      Preempt, Finish, GiveBack, Crash, Restart
  <1>6. Claim(s)
    <2>1. ~Preempt(s) /\ ~Finish(s) /\ ~GiveBack(s) /\ ~Restart(s)
      BY <1>2 DEF Preempt, Outranked, Finish, GiveBack, Restart
    <2>2. ~Crash(s) /\ ~ReadCandidates(s) /\ ~PollNothing(s) /\ ~ClaimNothing(s)
      BY <1>1 DEF Crash, ReadCandidates, PollNothing, ClaimNothing, Free
    <2>3. ~PassOver(s)
      <3>1. ASSUME PassOver(s) PROVE server'[s].pc = "claiming"
        BY <1>1, <3>1 DEF PassOver, Slot
      <3>2. QED
        BY <3>1
    <2>4. QED
      BY <1>4, <1>5, <2>1, <2>2, <2>3 DEF Poll
  <1>7. server'[s].active = First(s).task
    BY <1>1, <1>6 DEF Claim, Free
  <1>8. QED
    BY <1>6, <1>7

\* A claim takes the first of the tasks that could be claimed ever since the server
\* read its candidates, in the order of claim_next_task.
THEOREM ClaimIsFirstHolds == Spec => ClaimIsFirst
  <1> DEFINE Body ==
        \A s \in Servers :
           server[s].pc = "claiming" /\ server'[s].pc = "busy" =>
              \A t \in steady[s] \ {server'[s].active} : Precedes(server'[s].active, t)
  <1>1. ClaimInv /\ [Next]_vars => [Body]_vars
    <2> SUFFICES ASSUME ClaimInv, Next, NEW s \in Servers,
                        server[s].pc = "claiming", server'[s].pc = "busy",
                        NEW t \in steady[s] \ {server'[s].active}
                 PROVE  Precedes(server'[s].active, t)
      OBVIOUS
    <2>1. Claim(s) /\ server'[s].active = First(s).task
      BY ClaimsBusy
    <2>2. QED
      BY <2>1, FirstComesFirst
  <1>2. Spec => []([Body]_vars)
    BY <1>1, ClaimInvariant, PTL DEF Spec
  <1>3. QED
    BY <1>2 DEF ClaimIsFirst

\* What a claim finds as it was read may be claimed, unless it failed again meanwhile.
LEMMA ClaimedIsDue ==
    ASSUME ClaimInv, UntouchedInv, NEW s \in Servers, Claim(s), NEW t, t = First(s).task
    PROVE  Eligible(doc[t]) \/ (doc[t].state = "partial" /\ ~doc[t].due /\ t \notin steady[s])
  <1>1. /\ TypeOK /\ server[s].candidates # <<>> /\ Matches(First(s))
    BY DEF ClaimInv, Claim, Claimable
  <1>2. PICK c : c = First(s)
    OBVIOUS
  <1>3. /\ c = server[s].candidates[1] /\ 1 \in DOMAIN server[s].candidates
        /\ c \in Candidate /\ t \in Tasks
    BY <1>1, <1>2, FirstIsCandidate DEF Candidate
  <1>4. /\ doc[t].state = c.state /\ doc[t].lease = c.lease
        /\ c.state \in {"pending", "running", "partial"}
    BY <1>1, <1>2, <1>3 DEF Matches, Candidate
  <1>5. Outdated(c)
    BY <1>3 DEF ClaimInv, CandidateInv
  <1>6. CASE c.state = "running"
    BY <1>2, <1>4, <1>5, <1>6 DEF Outdated, Eligible, LeaseExpired
  <1>7. CASE c.state \in {"pending", "partial"}
    <2>1. doc[t].lease = 0
      BY <1>3, <1>4, <1>7 DEF ClaimInv, LeaseInv
    <2>2. CASE c.state = "pending" \/ doc[t].due
      BY <1>4, <1>7, <2>1, <2>2 DEF Eligible, LeaseExpired
    <2>3. CASE c.state = "partial" /\ ~doc[t].due
      <3>1. t \notin Waiting
        BY <1>4, <2>3 DEF Waiting, Eligible
      <3>2. QED
        BY <1>4, <2>3, <3>1 DEF UntouchedInv
    <2>4. QED
      BY <1>7, <2>2, <2>3
  <1>8. QED
    BY <1>4, <1>6, <1>7

\* Whatever others do between the reading of the candidates and the claim of one: what is
\* claimed may be claimed by then, but for a failed task that has failed once more since
\* (the query of claim_next_task).
THEOREM ClaimIsDueHolds == Spec => ClaimIsDue
  <1> DEFINE Body ==
        \A s \in Servers :
           server[s].pc = "claiming" /\ server'[s].pc = "busy" =>
              LET t == server'[s].active
              IN  \/ Eligible(doc[t])
                  \/ doc[t].state = "partial" /\ ~doc[t].due /\ t \notin steady[s]
  <1>1. DispatchInv /\ [Next]_vars => [Body]_vars
    <2>1. ASSUME DispatchInv, Next, NEW s \in Servers,
                 server[s].pc = "claiming", server'[s].pc = "busy"
          PROVE  LET t == server'[s].active
                 IN  \/ Eligible(doc[t])
                     \/ doc[t].state = "partial" /\ ~doc[t].due /\ t \notin steady[s]
      <3>1. ClaimInv /\ UntouchedInv
        BY <2>1 DEF DispatchInv
      <3>2. PICK t : t = server'[s].active
        OBVIOUS
      <3>3. Claim(s) /\ t = First(s).task
        BY <2>1, <3>1, <3>2, ClaimsBusy
      <3>4. Eligible(doc[t]) \/ (doc[t].state = "partial" /\ ~doc[t].due /\ t \notin steady[s])
        BY <3>1, <3>3, ClaimedIsDue
      <3>5. QED
        BY <3>2, <3>4
    <2>2. QED
      BY <2>1
  <1>2. Spec => []([Body]_vars)
    BY <1>1, DispatchInvariant, PTL DEF Spec
  <1>3. QED
    BY <1>2 DEF ClaimIsDue

-----------------------------------------------------------------------------
(* Dispatch implements TaskQueue                                           *)

\* The refinement mapping.
Status == [t \in Tasks |-> StatusOf(t)]

Serves == [s \in Servers |-> ServedBy(s)]

LEMMA StatusStays ==
    ASSUME UNCHANGED doc PROVE Status' = Status
  BY DEF Status, StatusOf, Eligible, LeaseExpired

LEMMA StatusStep ==
    ASSUME TypeOK, NEW t \in Tasks, NEW d, doc' = [doc EXCEPT ![t] = d],
           NEW x, StatusOf(t)' = x
    PROVE  Status' = [Status EXCEPT ![t] = x]
  <1>1. \A u \in Tasks \ {t} : doc'[u] = doc[u]
    BY DEF TypeOK
  <1>2. \A u \in Tasks \ {t} : StatusOf(u)' = StatusOf(u)
    BY <1>1 DEF StatusOf, Eligible, LeaseExpired
  <1>3. QED
    BY <1>2 DEF Status

LEMMA ServesStays ==
    ASSUME UNCHANGED <<server, worker>> PROVE Serves' = Serves
  BY DEF Serves, ServedBy

LEMMA ServesStep ==
    ASSUME NEW s \in Servers, NEW x, ServedBy(s)' = x,
           \A u \in Servers \ {s} : worker'[u] = worker[u] /\ server'[u] = server[u]
    PROVE  Serves' = [Serves EXCEPT ![s] = x]
  BY DEF Serves, ServedBy

LEMMA ArriveStep ==
    ASSUME ClaimInv, NEW t \in Tasks, Submit(t) \/ AskRetry(t)
    PROVE  Queue!Arrive(t) \/ UNCHANGED <<Status, Serves>>
  <1>1. TypeOK /\ LeaseInv /\ doc \in [Tasks -> Document] /\ doc[t] \in Document
    BY DEF ClaimInv, TypeOK
  <1>2. PICK d : doc' = [doc EXCEPT ![t] = d] /\ d.state = "pending" /\ d.lease = doc[t].lease
    <2>1. CASE Submit(t)
      <3> DEFINE next == [doc[t] EXCEPT !.state = "pending"]
      <3>1. doc' = [doc EXCEPT ![t] = next]
        BY <1>1, <2>1 DEF Submit
      <3>2. next.state = "pending" /\ next.lease = doc[t].lease
        BY <1>1, Zenon DEF Document
      <3> HIDE DEF next
      <3>3. QED
        BY <3>1, <3>2
    <2>2. CASE AskRetry(t)
      <3> DEFINE next == [doc[t] EXCEPT !.state = "pending", !.priority = 1, !.due = FALSE]
      <3>1. doc' = [doc EXCEPT ![t] = next]
        BY <1>1, <2>2 DEF AskRetry
      <3>2. next.state = "pending" /\ next.lease = doc[t].lease
        BY <1>1, Zenon DEF Document
      <3> HIDE DEF next
      <3>3. QED
        BY <3>1, <3>2
    <2>3. QED
      BY <2>1, <2>2
  <1>3. /\ doc[t].state \in {"absent", "partial"} /\ UNCHANGED <<server, worker>>
    BY DEF Submit, AskRetry
  <1>4. doc'[t] = d /\ doc[t].lease = 0
    BY <1>1, <1>2, <1>3 DEF LeaseInv
  <1>5. StatusOf(t)' = "waiting"
    BY <1>2, <1>4 DEF StatusOf, Eligible, LeaseExpired
  <1>6. Status' = [Status EXCEPT ![t] = "waiting"] /\ Serves' = Serves
    BY <1>1, <1>2, <1>3, <1>5, StatusStep, ServesStays
  <1>7. StatusOf(t) \in {"absent", "failed", "waiting"}
    BY <1>3 DEF StatusOf
  <1>8. CASE StatusOf(t) = "waiting"
    BY <1>6, <1>8 DEF Status
  <1>9. CASE StatusOf(t) \in {"absent", "failed"}
    BY <1>6, <1>9 DEF Queue!Arrive, Status, Serves
  <1>10. QED
    BY <1>7, <1>8, <1>9

LEMMA RecoverStep ==
    ASSUME ClaimInv, NEW t \in Tasks, Expire(t)
    PROVE  Queue!Recover(t)
  <1> DEFINE d == [doc[t] EXCEPT !.expired = TRUE]
  <1>1. /\ TypeOK /\ LeaseInv /\ WorkInv /\ doc \in [Tasks -> Document]
        /\ doc[t] \in Document
    BY DEF ClaimInv, TypeOK
  <1>2. /\ doc' = [doc EXCEPT ![t] = d] /\ UNCHANGED <<server, worker>>
        /\ doc[t].lease # 0 /\ ~doc[t].expired
        /\ \A s \in Servers : worker[s] = "working" => server[s].lease # doc[t].lease
    BY <1>1 DEF Expire
  <1>3. d.state = doc[t].state /\ d.expired = TRUE
    BY <1>1, Zenon DEF Document
  <1> HIDE DEF d
  <1>4. doc[t].state = "running" /\ doc'[t] = d
    BY <1>1, <1>2 DEF LeaseInv
  <1>5. StatusOf(t) = "served"
    BY <1>2, <1>4 DEF StatusOf, Eligible, LeaseExpired
  <1>6. StatusOf(t)' = "waiting"
    BY <1>3, <1>4 DEF StatusOf, Eligible, LeaseExpired
  <1>7. Status' = [Status EXCEPT ![t] = "waiting"] /\ Serves' = Serves
    BY <1>1, <1>2, <1>6, StatusStep, ServesStays
  <1>8. \A s \in Servers : ServedBy(s) # t
    BY <1>1, <1>2, DispatchAssumption DEF ServedBy, WorkInv, WorksAlone
  <1>9. QED
    BY <1>5, <1>7, <1>8 DEF Queue!Recover, Status, Serves

LEMMA TakeStep ==
    ASSUME ClaimInv, NEW s \in Servers, Claim(s)
    PROVE  \E t \in Tasks : Queue!Take(s, t)
  <1>1. /\ TypeOK /\ WorkInv /\ CandidateInv /\ doc \in [Tasks -> Document]
        /\ server[s].candidates # <<>> /\ Claimable(s) /\ server[s].pc = "claiming"
    BY DEF ClaimInv, TypeOK, Claim
  <1>2. PICK t \in Tasks : t = First(s).task
    BY <1>1, FirstIsCandidate
  <1>3. PICK token \in Nat : token = NewToken /\ token # 0
    <2>1. NewToken \in Tokens
      BY <1>1, FreshTokenExists
    <2>2. NewToken \in Nat /\ NewToken # 0
      BY <2>1, Sizes DEF Tokens
    <2>3. QED
      BY <2>2
  <1> DEFINE d == [doc[t] EXCEPT !.state = "running", !.lease = token,
                                 !.expired = FALSE, !.due = FALSE]
  <1>4. /\ doc' = [doc EXCEPT ![t] = d] /\ worker' = [worker EXCEPT ![s] = "working"]
        /\ server' = [server EXCEPT ![s] =
              [Free EXCEPT !.pc = "busy", !.active = t, !.lease = token,
                           !.priority = doc[t].priority]]
    BY <1>1, <1>2, <1>3 DEF Claim
  <1>5. d.state = "running" /\ d.lease = token /\ d.expired = FALSE
    BY <1>1, Zenon DEF Document
  <1> HIDE DEF d
  <1>6. /\ doc'[t] = d /\ server'[s].active = t /\ worker'[s] = "working"
        /\ \A u \in Servers \ {s} : worker'[u] = worker[u] /\ server'[u] = server[u]
    BY <1>1, <1>4 DEF TypeOK, Free
  <1>7. StatusOf(t)' = "served" /\ ServedBy(s)' = t
    BY <1>3, <1>5, <1>6 DEF StatusOf, ServedBy, Eligible, LeaseExpired
  <1>8. Status' = [Status EXCEPT ![t] = "served"] /\ Serves' = [Serves EXCEPT ![s] = t]
    BY <1>1, <1>4, <1>6, <1>7, StatusStep, ServesStep
  <1>9. StatusOf(t) \in {"waiting", "failed"}
    BY <1>1, <1>2, ClaimIsSafe DEF StatusOf
  <1>10. ServedBy(s) = None
    BY <1>1 DEF ServedBy, WorkInv, WorksAlone
  <1>11. QED
    BY <1>8, <1>9, <1>10 DEF Queue!Take, Status, Serves

\* The worker of s leaves its task t with the document d.
LEMMA LeaveQueueStep ==
    ASSUME ClaimInv, NEW s \in Servers, worker[s] = "working",
           NEW t \in Tasks, t = server[s].active,
           NEW d, doc' = [doc EXCEPT ![t] = d],
           d.state \in {"pending", "completed", "partial"}, d.lease = 0,
           worker' = [worker EXCEPT ![s] = "off"], UNCHANGED server
    PROVE  \E next \in {"done", "failed", "waiting"} : Queue!Leave(s, t, next)
  <1>1. TypeOK /\ doc'[t] = d /\ worker'[s] = "off"
        /\ \A u \in Servers \ {s} : worker'[u] = worker[u]
    BY DEF ClaimInv, TypeOK
  <1>2. PICK next \in {"done", "failed", "waiting"} : StatusOf(t)' = next
    BY <1>1 DEF StatusOf, Eligible, LeaseExpired
  <1>3. ServedBy(s) = t /\ ServedBy(s)' = None
    BY <1>1 DEF ServedBy
  <1>4. Status' = [Status EXCEPT ![t] = next] /\ Serves' = [Serves EXCEPT ![s] = None]
    BY <1>1, <1>2, <1>3, StatusStep, ServesStep
  <1>5. QED
    BY <1>3, <1>4 DEF Queue!Leave, Status, Serves

LEMMA LeaveTaskStep ==
    ASSUME ClaimInv, NEW s \in Servers, Finish(s) \/ GiveBack(s)
    PROVE  \E t \in Tasks, next \in {"done", "failed", "waiting"} : Queue!Leave(s, t, next)
  <1>1. /\ TypeOK /\ doc \in [Tasks -> Document] /\ worker[s] = "working"
        /\ server[s].active \in Tasks
    BY DEF ClaimInv, TypeOK, WorkInv, WorksAlone, Finish, GiveBack
  <1>2. PICK t \in Tasks : t = server[s].active
    BY <1>1
  <1>3. doc[t] \in Document
    BY <1>1
  <1>4. worker' = [worker EXCEPT ![s] = "off"] /\ UNCHANGED server
    BY DEF Finish, GiveBack
  <1>5. PICK d : /\ doc' = [doc EXCEPT ![t] = d] /\ d.lease = 0
                 /\ d.state \in {"pending", "completed", "partial"}
    <2>1. CASE GiveBack(s)
      <3> DEFINE next == [doc[t] EXCEPT !.state = "pending", !.lease = 0]
      <3>1. doc' = [doc EXCEPT ![t] = next]
        BY <1>1, <1>2, <2>1 DEF GiveBack
      <3>2. next.state = "pending" /\ next.lease = 0
        BY <1>3, Zenon DEF Document
      <3> HIDE DEF next
      <3>3. QED
        BY <3>1, <3>2
    <2>2. CASE Finish(s)
      <3>1. PICK state \in {"completed", "partial"}, due \in BOOLEAN :
              doc' = [doc EXCEPT ![t].state = state, ![t].lease = 0,
                                 ![t].priority = 0, ![t].due = due]
        BY <1>2, <2>2 DEF Finish
      <3> DEFINE left == [doc[t] EXCEPT !.state = state, !.lease = 0, !.priority = 0,
                                        !.due = due]
      <3>2. doc' = [doc EXCEPT ![t] = left]
        BY <1>1, <3>1, Zenon
      <3>3. left.state = state /\ left.lease = 0
        BY <1>3, Zenon DEF Document
      <3> HIDE DEF left
      <3>4. QED
        BY <3>2, <3>3
    <2>3. QED
      BY <2>1, <2>2
  <1>6. QED
    BY <1>1, <1>2, <1>4, <1>5, LeaveQueueStep

LEMMA DieStep ==
    ASSUME ClaimInv, NEW s \in Servers, Crash(s)
    PROVE  Queue!Die(s) \/ UNCHANGED <<Status, Serves>>
  <1>1. /\ TypeOK /\ worker'[s] = "off" /\ UNCHANGED doc
        /\ \A u \in Servers \ {s} : worker'[u] = worker[u] /\ server'[u] = server[u]
    BY DEF ClaimInv, TypeOK, Crash
  <1>2. ServedBy(s)' = None
    BY <1>1 DEF ServedBy
  <1>3. Status' = Status /\ Serves' = [Serves EXCEPT ![s] = None]
    BY <1>1, <1>2, StatusStays, ServesStep
  <1>4. CASE ServedBy(s) = None
    BY <1>3, <1>4 DEF Serves
  <1>5. CASE ServedBy(s) # None
    BY <1>3, <1>5 DEF Queue!Die, Status, Serves
  <1>6. QED
    BY <1>4, <1>5

LEMMA QuietStep ==
    ASSUME ClaimInv, NEW s \in Servers,
           ReadCandidates(s) \/ PollNothing(s) \/ PassOver(s) \/ ClaimNothing(s)
              \/ Preempt(s) \/ Restart(s)
    PROVE  UNCHANGED <<Status, Serves>>
  <1>1. TypeOK /\ UNCHANGED <<doc, worker>>
    BY DEF ClaimInv, ReadCandidates, PollNothing, PassOver, ClaimNothing, Preempt, Restart
  <1>2. \A u \in Servers \ {s} : server'[u] = server[u]
    BY <1>1 DEF TypeOK, ReadCandidates, PollNothing, PassOver, ClaimNothing, Preempt, Restart
  <1>3. ServedBy(s)' = ServedBy(s)
    <2>1. CASE Preempt(s)
      <3>1. server[s] \in Slot /\ server'[s] = [server[s] EXCEPT !.stop = TRUE]
        BY <1>1, <2>1 DEF TypeOK, Preempt
      <3>2. server'[s].active = server[s].active
        BY <3>1 DEF Slot
      <3>3. QED
        BY <1>1, <3>2 DEF ServedBy
    <2>2. CASE worker[s] # "working"
      BY <1>1, <2>2 DEF ServedBy
    <2>3. QED
      BY <2>1, <2>2 DEF ClaimInv, WorkInv, WorksAlone, ReadCandidates, PollNothing,
                        PassOver, ClaimNothing, Restart
  <1>4. Serves' = Serves
    BY <1>1, <1>2, <1>3 DEF Serves, ServedBy
  <1>5. QED
    BY <1>1, <1>4, StatusStays

LEMMA NextIsQueueStep ==
    ClaimInv /\ [Next]_vars => [Queue!Next]_(Queue!queueVars)
  <1> SUFFICES ASSUME ClaimInv, [Next]_vars
               PROVE  Queue!Next \/ UNCHANGED <<Status, Serves>>
    BY DEF Queue!queueVars, Status, Serves
  <1>1. ASSUME NEW t \in Tasks, Submit(t) \/ AskRetry(t) \/ Expire(t)
        PROVE  Queue!Next \/ UNCHANGED <<Status, Serves>>
    BY <1>1, ArriveStep, RecoverStep DEF Queue!Next
  <1>2. ASSUME NEW s \in Servers,
               Poll(s) \/ Preempt(s) \/ Finish(s) \/ GiveBack(s) \/ Crash(s) \/ Restart(s)
        PROVE  Queue!Next \/ UNCHANGED <<Status, Serves>>
    <2>1. CASE Claim(s)
      BY <2>1, TakeStep DEF Queue!Next
    <2>2. CASE Finish(s) \/ GiveBack(s)
      BY <2>2, LeaveTaskStep DEF Queue!Next
    <2>3. CASE Crash(s)
      BY <2>3, DieStep DEF Queue!Next
    <2>4. QED
      BY <1>2, <2>1, <2>2, <2>3, QuietStep DEF Poll
  <1>3. CASE UNCHANGED vars
    BY <1>3, StatusStays, ServesStays DEF vars
  <1>4. QED
    BY <1>1, <1>2, <1>3 DEF Next

\* The schedulers implement the queue: a task is served by one server at a time, and
\* every step of theirs is one of the queue's or changes nothing there.
THEOREM ImplementsTaskQueueHolds == Spec => ImplementsTaskQueue
  <1>1. Init => Queue!Init
    <2> SUFFICES ASSUME Init PROVE Queue!Init
      OBVIOUS
    <2>1. \A t \in Tasks : StatusOf(t) = "absent"
      BY DEF Init, StatusOf
    <2>2. \A s \in Servers : ServedBy(s) = None
      BY DEF Init, ServedBy
    <2>3. QED
      BY <2>1, <2>2 DEF Queue!Init
  <1>2. QED
    BY <1>1, NextIsQueueStep, ClaimInvariant, PTL DEF Spec, ImplementsTaskQueue, Queue!Spec

=============================================================================
