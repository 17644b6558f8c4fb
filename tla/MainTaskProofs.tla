--------------------------- MODULE MainTaskProofs ---------------------------
(***************************************************************************)
(* Machine-checked proofs about MainTask, for all limits: how soon it      *)
(* stops, and that its caller gets what MainResult promises.               *)
(***************************************************************************)
EXTENDS MainTask, TLAPS, WellFoundedInduction, FiniteSetTheorems,
        SequenceTheorems

USE LimitAssumption

-----------------------------------------------------------------------------
(* Greatest elements.  The provers have no induction over numbers; strict  *)
(* inclusion of finite sets is well-founded, and 0 .. n - x shrinks as x   *)
(* grows.                                                                  *)

\* A set of naturals that is bounded and not empty has a greatest element.
LEMMA GreatestExists ==
    ASSUME NEW n \in Nat, NEW S, S \subseteq 0 .. n, S # {}
    PROVE  Max(S) \in S
  <1> DEFINE Above(x) == 0 .. n - x
             D == {Above(x) : x \in S}
             R == StrictSubsetOrdering(0 .. n)
  <1>1. D \subseteq FiniteSubsetsOf(0 .. n) /\ D # {}
    <2>1. ASSUME NEW x \in S PROVE Above(x) \subseteq 0 .. n /\ IsFiniteSet(Above(x))
      <3>1. 0 \in Int /\ n - x \in Int
        OBVIOUS
      <3>2. IsFiniteSet(Above(x))
        BY <3>1, FS_Interval
      <3>3. QED
        BY <3>2
    <2>2. QED
      BY <2>1 DEF FiniteSubsetsOf
  <1>2. IsWellFoundedOn(R, FiniteSubsetsOf(0 .. n))
    BY FS_StrictSubsetOrderingWellFounded
  <1>3. PICK d \in D : \A e \in D : ~ (<<e, d>> \in R)
    <2> HIDE DEF D, R
    <2>1. QED
      BY <1>1, <1>2, WFMin
  <1>4. PICK x \in S : d = Above(x)
    OBVIOUS
  <1>5. ASSUME NEW y \in S
        PROVE  x >= y
    <2>1. SUFFICES ASSUME y > x PROVE FALSE
      OBVIOUS
    <2>2. Above(y) \subseteq Above(x) /\ n - x \in Above(x) /\ n - x \notin Above(y)
      BY <2>1
    <2>3. <<Above(y), Above(x)>> \in R
      BY <1>1, <2>2 DEF StrictSubsetOrdering
    <2>4. QED
      BY <1>3, <1>4, <2>3
  <1>6. QED
    BY <1>5 DEF Max

\* A set of naturals that is not empty has a least element.
LEMMA LeastExists ==
    ASSUME NEW S, S \subseteq Nat, S # {}
    PROVE  Min(S) \in S /\ \A y \in S : Min(S) <= y
  <1> DEFINE Below(x) == 0 .. x
             D == {Below(x) : x \in S}
             R == StrictSubsetOrdering(Nat)
  <1>1. D \subseteq FiniteSubsetsOf(Nat) /\ D # {}
    <2>1. ASSUME NEW x \in S PROVE Below(x) \subseteq Nat /\ IsFiniteSet(Below(x))
      <3>1. 0 \in Int /\ x \in Int
        OBVIOUS
      <3>2. IsFiniteSet(Below(x))
        BY <3>1, FS_Interval
      <3>3. QED
        BY <3>2
    <2>2. QED
      BY <2>1 DEF FiniteSubsetsOf
  <1>2. IsWellFoundedOn(R, FiniteSubsetsOf(Nat))
    BY FS_StrictSubsetOrderingWellFounded
  <1>3. PICK d \in D : \A e \in D : ~ (<<e, d>> \in R)
    <2> HIDE DEF D, R
    <2>1. QED
      BY <1>1, <1>2, WFMin
  <1>4. PICK x \in S : d = Below(x)
    OBVIOUS
  <1>5. ASSUME NEW y \in S
        PROVE  x <= y
    <2>1. SUFFICES ASSUME y < x PROVE FALSE
      OBVIOUS
    <2>2. Below(y) \subseteq Below(x) /\ x \in Below(x) /\ x \notin Below(y)
      BY <2>1
    <2>3. <<Below(y), Below(x)>> \in R
      BY <1>1, <2>2 DEF StrictSubsetOrdering
    <2>4. QED
      BY <1>3, <1>4, <2>3
  <1>6. QED
    BY <1>5 DEF Min

\* The greater of two integers.
LEMMA GreaterOfTwo ==
    ASSUME NEW a \in Int, NEW b \in Int
    PROVE  Max({a, b}) = IF a >= b THEN a ELSE b
  <1>1. \E x \in {a, b} : \A y \in {a, b} : x >= y
    OBVIOUS
  <1>2. Max({a, b}) \in {a, b} /\ \A y \in {a, b} : Max({a, b}) >= y
    BY <1>1 DEF Max
  <1>3. QED
    BY <1>2

\* The declaration that counts is a declaration.
LEMMA LastDeclaredIsDeclared ==
    ASSUME NEW calls \in CallSequences, Declares(calls)
    PROVE  LastDeclared(calls) \in Kinds(calls) \cap {"done", "failed"}
  <1> DEFINE S == {i \in DOMAIN calls : calls[i] \in {"done", "failed"}}
  <1>1. PICK n \in 1 .. MaxCalls : calls \in [1 .. n -> CallKinds]
    BY DEF CallSequences
  <1>2. S \subseteq 0 .. n /\ S # {}
    BY <1>1 DEF Declares, Kinds
  <1>3. Max(S) \in S
    BY <1>1, <1>2, GreatestExists
  <1>4. QED
    BY <1>3 DEF LastDeclared, Kinds

-----------------------------------------------------------------------------
(* The inductive invariant                                                 *)

Running == phase \notin {"ended", "raised", "interrupted"}

\* A round begins within the limits, and nothing has been concluded before.
WithinLimits ==
    /\ phase = "preflight" => round = 0
    /\ phase = "round" => round < MaxRounds
    /\ Running => empty < MaxEmpty /\ mode = "none"

\* A conversation that has ended is completed or has its reason.
EndIsExplained ==
    phase = "ended" => Completed \/ failures # {}

\* Nothing is late before the stop.
LateAfterStop == ~stop => late = 0

\* One request at most precedes the next in a round, and a round that begins
\* has seen no stop.
LateBounds ==
    /\ phase = "compress" => late = 0
    /\ phase = "chat" => late <= 1
    /\ phase = "plain" => late <= 2
    /\ late <= 3

\* The results of an answer's calls follow it, all of them, and no others.
Paired(ms, i) ==
    /\ ms[i].role = "tool" =>
           \E j \in 3 .. i - 1 :
               /\ ms[j].calls >= i - j
               /\ \A k \in j + 1 .. i : IsTool(ms, k)
    /\ \A k \in 1 .. ms[i].calls : i + k <= Len(ms) /\ IsTool(ms, i + k)

WellFormed(ms) ==
    /\ Len(ms) >= 2
    /\ ms[1].role = "system"
    /\ ms[2].role = "user" /\ ms[2].round = 0
    /\ \A i \in 3 .. Len(ms) : Paired(ms, i)

IInv ==
    /\ TypeOK
    /\ WithinLimits
    /\ EndIsExplained
    /\ LateAfterStop
    /\ LateBounds
    /\ WellFormed(messages)

-----------------------------------------------------------------------------
(* The history                                                             *)

\* The fields of a message that the cut looks at.
LEMMA MessageFields ==
    ASSUME NEW m \in Message
    PROVE  m.calls \in Nat /\ m.round \in 0 .. MaxRounds /\ m.size \in Nat
  BY DEF Message

\* An answer may be added with the results of its calls, or a message that asks
\* for nothing and answers nothing.
LEMMA AnswerKeepsWellFormed ==
    ASSUME NEW ms \in Seq(Message), WellFormed(ms),
           NEW n \in Nat,
           NEW ns \in Seq(Message), Len(ns) = Len(ms) + 1 + n,
           \A i \in 1 .. Len(ms) : ns[i] = ms[i],
           ns[Len(ms) + 1].role # "tool", ns[Len(ms) + 1].calls = n,
           \A i \in Len(ms) + 2 .. Len(ns) : ns[i].role = "tool" /\ ns[i].calls = 0
    PROVE  WellFormed(ns)
  <1>1. Len(ms) \in Nat /\ Len(ms) >= 2 /\ Len(ns) \in Nat
    BY DEF WellFormed
  <1>2. ASSUME NEW i \in 3 .. Len(ms)
        PROVE  Paired(ns, i)
    <2>1. Paired(ms, i) /\ i \in Nat
      BY <1>1 DEF WellFormed
    <2>2. \A k \in 1 .. Len(ms) : ns[k] = ms[k]
      OBVIOUS
    <2>3. ns[i] = ms[i]
      BY <1>1
    <2>4. ASSUME ns[i].role = "tool"
          PROVE  \E j \in 3 .. i - 1 :
                     /\ ns[j].calls >= i - j
                     /\ \A k \in j + 1 .. i : IsTool(ns, k)
      <3>1. PICK j \in 3 .. i - 1 :
                ms[j].calls >= i - j /\ \A k \in j + 1 .. i : IsTool(ms, k)
        BY <2>1, <2>3, <2>4 DEF Paired
      <3>2. ns[j].calls >= i - j
        BY <1>1, <2>1, <2>2, <3>1
      <3>3. ASSUME NEW k \in j + 1 .. i
            PROVE  IsTool(ns, k)
        <4>1. IsTool(ms, k) /\ k \in 1 .. Len(ms)
          BY <1>1, <2>1, <3>1
        <4>2. QED
          BY <2>2, <4>1 DEF IsTool
      <3>4. QED
        BY <3>2, <3>3
    <2>5. ASSUME NEW k \in 1 .. ns[i].calls
          PROVE  i + k <= Len(ns) /\ IsTool(ns, i + k)
      <3>1. i + k <= Len(ms) /\ IsTool(ms, i + k)
        BY <2>1, <2>3 DEF Paired
      <3>2. ms[i].calls \in Nat
        <4>1. ms[i] \in Message
          BY <1>1, ElementOfSeq
        <4>2. QED
          BY <4>1, MessageFields
      <3>3. i + k \in 1 .. Len(ms)
        BY <1>1, <2>1, <2>3, <3>1, <3>2
      <3>4. QED
        BY <1>1, <2>2, <3>1, <3>3 DEF IsTool
    <2>6. QED
      BY <2>4, <2>5 DEF Paired
  <1>3. ASSUME NEW i, i = Len(ms) + 1
        PROVE  Paired(ns, i)
    <2>1. \A k \in 1 .. n : i + k <= Len(ns) /\ i + k \in Len(ms) + 2 .. Len(ns)
      BY <1>1, <1>3
    <2>2. \A k \in 1 .. n : i + k <= Len(ns) /\ IsTool(ns, i + k)
      BY <2>1 DEF IsTool
    <2>3. QED
      BY <1>3, <2>2 DEF Paired
  <1>4. ASSUME NEW i \in Len(ms) + 2 .. Len(ns)
        PROVE  Paired(ns, i)
    <2>1. ns[i].role = "tool" /\ ns[i].calls = 0
      OBVIOUS
    <2>2. \A k \in 1 .. ns[i].calls : FALSE
      BY <2>1
    <2> DEFINE j == Len(ms) + 1
    <2>3. j \in 3 .. i - 1 /\ ns[j].calls >= i - j
      BY <1>1
    <2>4. \A k \in j + 1 .. i : IsTool(ns, k)
      BY <1>1 DEF IsTool
    <2>5. QED
      BY <2>2, <2>3, <2>4 DEF Paired
  <1>5. \A i \in 3 .. Len(ns) : Paired(ns, i)
    <2>1. \A i \in 3 .. Len(ns) :
              i \in 3 .. Len(ms) \/ i = Len(ms) + 1 \/ i \in Len(ms) + 2 .. Len(ns)
      BY <1>1
    <2>2. QED
      BY <2>1, <1>2, <1>3, <1>4
  <1>6. ns[1] = ms[1] /\ ns[2] = ms[2] /\ Len(ns) >= 2
    BY <1>1
  <1>7. QED
    BY <1>5, <1>6 DEF WellFormed

\* Any two messages without calls and results may be added.
LEMMA AppendPlain ==
    ASSUME NEW ms \in Seq(Message), WellFormed(ms),
           NEW m \in Message, m.role # "tool", m.calls = 0
    PROVE  Append(ms, m) \in Seq(Message) /\ WellFormed(Append(ms, m))
  <1> DEFINE ns == Append(ms, m)
  <1>1. /\ ns \in Seq(Message)
        /\ Len(ns) = Len(ms) + 1 + 0
        /\ \A i \in 1 .. Len(ms) : ns[i] = ms[i]
        /\ ns[Len(ms) + 1] = m
    BY AppendProperties
  <1>2. \A i \in Len(ms) + 2 .. Len(ns) : ns[i].role = "tool" /\ ns[i].calls = 0
    BY <1>1
  <1> HIDE DEF ns
  <1>3. WellFormed(ns)
    BY <1>1, <1>2, AnswerKeepsWellFormed
  <1>4. QED
    BY <1>1, <1>3 DEF ns

\* So may an answer with its results.
LEMMA AppendCalls ==
    ASSUME NEW ms \in Seq(Message), WellFormed(ms),
           NEW n \in Nat, NEW a \in Message, a.role # "tool", a.calls = n,
           NEW rs \in Seq(Message), Len(rs) = n,
           \A i \in 1 .. n : rs[i].role = "tool" /\ rs[i].calls = 0
    PROVE  Append(ms, a) \o rs \in Seq(Message) /\ WellFormed(Append(ms, a) \o rs)
  <1>1. PICK os \in Seq(Message) : os = Append(ms, a)
    BY AppendProperties
  <1>2. PICK ns \in Seq(Message) : ns = os \o rs
    BY ConcatProperties
  <1>3. /\ Len(os) = Len(ms) + 1
        /\ \A i \in 1 .. Len(ms) : os[i] = ms[i]
        /\ os[Len(ms) + 1] = a
        /\ Len(ms) \in Nat
    BY <1>1, AppendProperties
  <1>4. /\ Len(ns) = Len(os) + n
        /\ \A i \in 1 .. Len(os) + n :
               ns[i] = IF i <= Len(os) THEN os[i] ELSE rs[i - Len(os)]
    <2>1. \A i \in 1 .. Len(os) + Len(rs) :
              (os \o rs)[i] = IF i <= Len(os) THEN os[i] ELSE rs[i - Len(os)]
      BY ConcatProperties
    <2>2. Len(os \o rs) = Len(os) + Len(rs)
      BY ConcatProperties
    <2>3. QED
      BY <1>2, <2>1, <2>2
  <1>5. \A i \in 1 .. Len(ms) + 1 : ns[i] = os[i]
    BY <1>3, <1>4
  <1>6. ASSUME NEW i \in Len(ms) + 2 .. Len(ns)
        PROVE  ns[i].role = "tool" /\ ns[i].calls = 0
    <2>1. ns[i] = rs[i - Len(os)] /\ i - Len(os) \in 1 .. n
      BY <1>3, <1>4
    <2>2. QED
      BY <2>1
  <1>7. /\ \A i \in 1 .. Len(ms) : ns[i] = ms[i]
        /\ ns[Len(ms) + 1] = a
        /\ Len(ns) = Len(ms) + 1 + n
    BY <1>3, <1>4, <1>5
  <1>8. WellFormed(ns)
    BY <1>6, <1>7, AnswerKeepsWellFormed
  <1>9. QED
    BY <1>1, <1>2, <1>8

\* Where the compression cuts, an answer is not separated from its results.
LEMMA CutIsClean ==
    ASSUME NEW ms \in Seq(Message), ActiveStart(ms) > 2, Len(ms) > 2
    PROVE  /\ ActiveStart(ms) \in 3 .. Len(ms)
           /\ ActiveStart(ms) < Len(ms) => ~IsTool(ms, ActiveStart(ms) + 1)
  <1> DEFINE L == Len(ms)
             upper == Max({2, L - KeepRecent})
             S == {n \in 2 .. upper : n = 2 \/ ~IsTool(ms, n + 1)}
             T == {n \in 3 .. L : n = L \/ ~IsTool(ms, n + 1)}
  <1>1. L \in Nat
    OBVIOUS
  <1>2. upper = IF 2 >= L - KeepRecent THEN 2 ELSE L - KeepRecent
    <2>1. 2 \in Int /\ L - KeepRecent \in Int
      BY <1>1
    <2>2. QED
      BY <2>1, GreaterOfTwo
  <1>3. upper \in Nat /\ upper >= 2 /\ (upper = 2 \/ upper < L)
    BY <1>1, <1>2
  <1>4. CutBack(ms) \in S
    <2>1. S \subseteq 0 .. upper /\ 2 \in S
      BY <1>3
    <2>2. Max(S) \in S
      BY <1>3, <2>1, GreatestExists
    <2>3. QED
      BY <2>2 DEF CutBack
  <1>5. CASE CutBack(ms) = 2 /\ L > 4
    <2>1. T \subseteq Nat /\ L \in T
      BY <1>1, <1>5
    <2>2. Min(T) \in T
      BY <2>1, LeastExists
    <2>3. ActiveStart(ms) = Min(T)
      BY <1>5 DEF ActiveStart
    <2>4. QED
      BY <2>2, <2>3, <1>1
  <1>6. CASE ~ (CutBack(ms) = 2 /\ L > 4)
    <2>1. ActiveStart(ms) = CutBack(ms)
      BY <1>6 DEF ActiveStart
    <2>2. QED
      BY <1>1, <1>3, <1>4, <2>1
  <1>7. QED
    BY <1>5, <1>6

\* What is left after such a cut, behind a new summary, is well formed.
LEMMA CutKeepsWellFormed ==
    ASSUME NEW ms \in Seq(Message), WellFormed(ms),
           NEW c \in 3 .. Len(ms), c < Len(ms) => ~IsTool(ms, c + 1),
           NEW ns \in Seq(Message), Len(ns) = Len(ms) - c + 2,
           ns[1].role = "system",
           ns[2].role = "user", ns[2].round = 0,
           \A i \in 3 .. Len(ns) : ns[i] = ms[i + c - 2]
    PROVE  WellFormed(ns)
  <1>1. Len(ms) \in Nat /\ Len(ns) \in Nat /\ Len(ns) >= 2 /\ c \in Nat
    OBVIOUS
  <1>2. ASSUME NEW i \in 3 .. Len(ns)
        PROVE  Paired(ns, i)
    <2> DEFINE o == i + c - 2
    <2>1. o \in 3 .. Len(ms) /\ o > c /\ i \in Nat /\ o \in Nat
      BY <1>1
    <2>2. Paired(ms, o) /\ ns[i] = ms[o]
      BY <2>1 DEF WellFormed
    <2>3. ASSUME ns[i].role = "tool"
          PROVE  \E j \in 3 .. i - 1 :
                     /\ ns[j].calls >= i - j
                     /\ \A k \in j + 1 .. i : IsTool(ns, k)
      <3>1. PICK p \in 3 .. o - 1 :
                ms[p].calls >= o - p /\ \A k \in p + 1 .. o : IsTool(ms, k)
        BY <2>2, <2>3 DEF Paired
      <3>2. p > c
        <4>1. SUFFICES ASSUME p <= c PROVE FALSE
          BY <1>1, <2>1, <3>1
        <4>2. c + 1 \in p + 1 .. o /\ c < Len(ms)
          BY <1>1, <2>1, <3>1, <4>1
        <4>3. QED
          BY <3>1, <4>2
      <3> DEFINE j == p - c + 2
      <3>3. j \in 3 .. i - 1 /\ j + c - 2 = p /\ i - j = o - p
        BY <1>1, <2>1, <3>1, <3>2
      <3>4. ns[j] = ms[p]
        <4>1. j \in 3 .. Len(ns)
          BY <1>1, <2>1, <3>3
        <4>2. ns[j] = ms[j + c - 2]
          BY <4>1
        <4>3. QED
          BY <3>3, <4>2
      <3>5. ASSUME NEW k \in j + 1 .. i
            PROVE  IsTool(ns, k)
        <4>1. k \in 3 .. Len(ns) /\ k + c - 2 \in p + 1 .. o
          BY <1>1, <2>1, <3>1, <3>2, <3>3
        <4>2. ns[k] = ms[k + c - 2] /\ IsTool(ms, k + c - 2)
          BY <3>1, <4>1
        <4>3. QED
          BY <4>2 DEF IsTool
      <3>6. ns[j].calls >= i - j
        BY <3>1, <3>3, <3>4
      <3> HIDE DEF j
      <3>7. QED
        BY <3>3, <3>5, <3>6
    <2>4. ASSUME NEW k \in 1 .. ns[i].calls
          PROVE  i + k <= Len(ns) /\ IsTool(ns, i + k)
      <3>1. ms[o] \in Message
        BY <1>1, <2>1, ElementOfSeq
      <3>2. ns[i].calls \in Nat
        BY <2>2, <3>1, MessageFields
      <3>3. k \in Nat /\ o + k <= Len(ms) /\ IsTool(ms, o + k)
        BY <2>2, <3>2 DEF Paired
      <3>4. i + k \in 3 .. Len(ns) /\ i + k + c - 2 = o + k
        <4>1. i + k + c - 2 <= Len(ms)
          BY <1>1, <2>1, <3>3
        <4>2. i + k <= Len(ns) /\ i + k >= 3
          BY <1>1, <2>1, <3>3, <4>1
        <4>3. i + k \in Int /\ i + k + c - 2 = o + k
          BY <1>1, <2>1, <3>3
        <4>4. QED
          BY <1>1, <4>2, <4>3
      <3>5. ns[i + k] = ms[i + k + c - 2]
        BY <3>4
      <3>6. ns[i + k] = ms[o + k]
        BY <3>4, <3>5
      <3>7. QED
        BY <3>3, <3>4, <3>6 DEF IsTool
    <2>5. QED
      BY <2>3, <2>4 DEF Paired
  <1>3. QED
    BY <1>1, <1>2 DEF WellFormed

\* A single result at the end, and the answer that asked for it, are not cut off.
LEMMA CutKeepsSingleResult ==
    ASSUME NEW ms \in Seq(Message), Len(ms) >= 4, ActiveStart(ms) > 2,
           ~IsTool(ms, Len(ms) - 1)
    PROVE  ActiveStart(ms) <= Len(ms) - 2
  <1> DEFINE L == Len(ms)
             upper == Max({2, L - KeepRecent})
             S == {n \in 2 .. upper : n = 2 \/ ~IsTool(ms, n + 1)}
             T == {n \in 3 .. L : n = L \/ ~IsTool(ms, n + 1)}
  <1>1. L \in Nat /\ L >= 4
    OBVIOUS
  <1>2. upper = IF 2 >= L - KeepRecent THEN 2 ELSE L - KeepRecent
    <2>1. 2 \in Int /\ L - KeepRecent \in Int
      BY <1>1
    <2>2. QED
      BY <2>1, GreaterOfTwo
  <1>3. upper \in Nat /\ upper >= 2 /\ upper <= L - 2
    BY <1>1, <1>2
  <1>4. CutBack(ms) \in S
    <2>1. S \subseteq 0 .. upper /\ 2 \in S
      BY <1>3
    <2>2. Max(S) \in S
      BY <1>3, <2>1, GreatestExists
    <2>3. QED
      BY <2>2 DEF CutBack
  <1>5. CASE CutBack(ms) = 2 /\ L > 4
    <2>1. L - 2 \in 3 .. L /\ (L - 2) + 1 = L - 1
      BY <1>1, <1>5
    <2> HIDE DEF L
    <2>2. T \subseteq Nat /\ L - 2 \in T
      <3>1. ~IsTool(ms, (L - 2) + 1)
        BY <2>1 DEF L
      <3>2. QED
        BY <1>1, <2>1, <3>1
    <2>3. Min(T) <= L - 2
      BY <2>2, LeastExists
    <2>4. QED
      BY <1>5, <2>3 DEF ActiveStart, L
  <1>6. CASE ~ (CutBack(ms) = 2 /\ L > 4)
    <2>1. ActiveStart(ms) = CutBack(ms)
      BY <1>6 DEF ActiveStart
    <2>2. QED
      BY <1>1, <1>3, <1>4, <2>1
  <1>7. QED
    BY <1>5, <1>6

\* What Compressed(messages) consists of.
LEMMA CompressedParts ==
    ASSUME messages \in Seq(Message), prompt \in Nat,
           NEW c \in 3 .. Len(messages), c = ActiveStart(messages)
    PROVE  /\ Compressed(messages) \in Seq(Message)
           /\ Len(Compressed(messages)) = Len(messages) - c + 2
           /\ Compressed(messages)[1] = messages[1]
           /\ Compressed(messages)[2] = Msg("user", 0, 0, prompt + 1)
           /\ \A i \in 3 .. Len(Compressed(messages)) :
                  Compressed(messages)[i] = messages[i + c - 2]
  <1>1. Len(messages) \in Nat /\ c \in Nat
    OBVIOUS
  <1>2. PICK hs \in Seq(Message) :
            /\ hs = <<messages[1], Msg("user", 0, 0, prompt + 1)>>
            /\ Len(hs) = 2
    <2>1. messages[1] \in Message
      BY <1>1, ElementOfSeq
    <2>2. Msg("user", 0, 0, prompt + 1) \in Message
      BY DEF Msg, Message
    <2>3. PICK m \in Message, f \in Message :
              f = messages[1] /\ m = Msg("user", 0, 0, prompt + 1)
      BY <2>1, <2>2
    <2>4. <<f, m>> \in Seq(Message) /\ Len(<<f, m>>) = 2
      OBVIOUS
    <2>5. QED
      BY <2>3, <2>4
  <1>3. PICK ts \in Seq(Message) :
            /\ ts = SubSeq(messages, c + 1, Len(messages))
            /\ Len(ts) = Len(messages) - c
            /\ \A i \in 1 .. Len(messages) - c : ts[i] = messages[c + i]
    <2>1. c + 1 \in Int /\ Len(messages) \in Int
      BY <1>1
    <2>2. \A i \in c + 1 .. Len(messages) : messages[i] \in Message
      BY <1>1, ElementOfSeq
    <2>3. PICK ts : ts = SubSeq(messages, c + 1, Len(messages))
      OBVIOUS
    <2>4. /\ ts \in Seq(Message)
          /\ Len(ts) = IF c + 1 <= Len(messages) THEN Len(messages) - (c + 1) + 1 ELSE 0
          /\ \A i \in 1 .. Len(messages) - (c + 1) + 1 : ts[i] = messages[c + 1 + i - 1]
      BY <2>1, <2>2, <2>3, SubSeqProperties
    <2>5. Len(ts) = Len(messages) - c
      BY <1>1, <2>4
    <2>6. ASSUME NEW i \in 1 .. Len(messages) - c
          PROVE  ts[i] = messages[c + i]
      <3>1. i \in 1 .. Len(messages) - (c + 1) + 1 /\ c + 1 + i - 1 = c + i
        BY <1>1
      <3>2. ts[i] = messages[c + 1 + i - 1]
        BY <2>4, <3>1
      <3>3. QED
        BY <3>1, <3>2
    <2>7. QED
      BY <2>3, <2>4, <2>5, <2>6
  <1>4. PICK ns \in Seq(Message) : ns = hs \o ts
    BY ConcatProperties
  <1>5. /\ Len(ns) = Len(hs) + Len(ts)
        /\ \A i \in 1 .. Len(hs) + Len(ts) :
               ns[i] = IF i <= Len(hs) THEN hs[i] ELSE ts[i - Len(hs)]
    <2>1. \A i \in 1 .. Len(hs) + Len(ts) :
              (hs \o ts)[i] = IF i <= Len(hs) THEN hs[i] ELSE ts[i - Len(hs)]
      BY ConcatProperties
    <2>2. Len(hs \o ts) = Len(hs) + Len(ts)
      BY ConcatProperties
    <2>3. QED
      BY <1>4, <2>1, <2>2
  <1>6. Len(ns) = Len(messages) - c + 2
    <2>1. Len(hs) = 2 /\ Len(ts) = Len(messages) - c /\ Len(ns) = Len(hs) + Len(ts)
      BY <1>2, <1>3, <1>5
    <2>2. QED
      BY <1>1, <2>1
  <1>7. ns[1] = hs[1] /\ ns[2] = hs[2]
    <2>1. Len(hs) = 2 /\ Len(ts) \in Nat
      BY <1>2
    <2>2. /\ 1 \in 1 .. Len(hs) + Len(ts) /\ 1 <= Len(hs)
          /\ 2 \in 1 .. Len(hs) + Len(ts) /\ 2 <= Len(hs)
      BY <2>1
    <2>3. QED
      BY <1>5, <2>2
  <1>8. ASSUME NEW i \in 3 .. Len(ns)
        PROVE  ns[i] = messages[i + c - 2]
    <2>1. i - 2 \in 1 .. Len(messages) - c /\ c + (i - 2) = i + c - 2
      BY <1>1, <1>6
    <2>2. ns[i] = ts[i - 2]
      <3>1. i \in 1 .. Len(hs) + Len(ts) /\ ~ (i <= Len(hs)) /\ Len(hs) = 2
        BY <1>1, <1>2, <1>3, <1>6
      <3>2. ns[i] = ts[i - Len(hs)]
        BY <1>5, <3>1
      <3>3. QED
        BY <3>1, <3>2
    <2>3. ts[i - 2] = messages[c + (i - 2)]
      BY <1>3, <2>1
    <2>4. QED
      BY <2>1, <2>2, <2>3
  <1>9. Compressed(messages) = ns
    BY <1>2, <1>3, <1>4 DEF Compressed
  <1>10. hs[1] = messages[1] /\ hs[2] = Msg("user", 0, 0, prompt + 1)
    BY <1>2
  <1>11. QED
    BY <1>6, <1>7, <1>8, <1>9, <1>10

\* The history is well formed after a compression as it was before.
LEMMA CompressedIsWellFormed ==
    ASSUME messages \in Seq(Message), prompt \in Nat, WellFormed(messages),
           MustCompress(messages)
    PROVE  Compressed(messages) \in Seq(Message) /\ WellFormed(Compressed(messages))
  <1>1. PICK c \in 3 .. Len(messages) :
            c = ActiveStart(messages) /\ (c < Len(messages) => ~IsTool(messages, c + 1))
    BY CutIsClean DEF MustCompress
  <1>2. PICK ns \in Seq(Message) :
            /\ ns = Compressed(messages)
            /\ Len(ns) = Len(messages) - c + 2
            /\ ns[1] = messages[1]
            /\ ns[2] = Msg("user", 0, 0, prompt + 1)
            /\ \A i \in 3 .. Len(ns) : ns[i] = messages[i + c - 2]
    BY <1>1, CompressedParts
  <1>3. ns[1].role = "system" /\ ns[2].role = "user" /\ ns[2].round = 0
    BY <1>2 DEF WellFormed, Msg
  <1>4. WellFormed(ns)
    BY <1>1, <1>2, <1>3, CutKeepsWellFormed
  <1>5. QED
    BY <1>2, <1>4

-----------------------------------------------------------------------------
(* The steps                                                               *)

FailureKinds == {"context", "timeout", "empty", "rounds", "reported"}

\* What an answer of the model leaves behind.
AnswerOutcome ==
    /\ messages' \in Seq(Message)
    /\ WellFormed(messages')
    /\ commented' \in BOOLEAN
    /\ empty' \in 0 .. MaxEmpty
    /\ failures' \subseteq FailureKinds
    /\ mode' \in Modes
    /\ \/ /\ phase' = "ended"
          /\ mode' \in {"task_done", "json_fallback"} \/ failures' # {}
       \/ /\ phase' = "round"
          /\ round < MaxRounds
          /\ empty' < MaxEmpty
          /\ mode' = "none"

\* A text of the model or of the program that belongs to a round.
LEMMA PlainMessage ==
    ASSUME round \in 0 .. MaxRounds, NEW role \in {"assistant", "user"}
    PROVE  /\ Msg(role, round, 0, 1) \in Message
           /\ Msg(role, round, 0, 1).role # "tool"
           /\ Msg(role, round, 0, 1).calls = 0
  BY DEF Msg, Message

\* The results of the calls of an answer.
LEMMA ToolResults ==
    ASSUME round \in 0 .. MaxRounds,
           NEW calls \in CallSequences, NEW size \in ResultSizes
    PROVE  \E rs \in Seq(Message) :
               /\ rs = [i \in DOMAIN calls |-> Msg("tool", round, 0, size)]
               /\ Len(rs) = Len(calls)
               /\ Len(calls) \in 0 .. MaxCalls
               /\ \A i \in 1 .. Len(calls) : rs[i].role = "tool" /\ rs[i].calls = 0
  <1>1. PICK n \in 1 .. MaxCalls : calls \in [1 .. n -> CallKinds]
    BY DEF CallSequences
  <1>2. n \in Nat
    OBVIOUS
  <1>3. DOMAIN calls = 1 .. n /\ Len(calls) = n
    BY <1>1, <1>2
  <1>4. PICK m \in Message :
            m = Msg("tool", round, 0, size) /\ m.role = "tool" /\ m.calls = 0
    <2>1. size \in Nat
      OBVIOUS
    <2>2. Msg("tool", round, 0, size) \in Message
      BY <2>1 DEF Msg, Message
    <2>3. Msg("tool", round, 0, size).role = "tool" /\ Msg("tool", round, 0, size).calls = 0
      BY DEF Msg
    <2>4. QED
      BY <2>2, <2>3
  <1>5. PICK rs \in Seq(Message) : rs = [i \in 1 .. n |-> m] /\ Len(rs) = n
    <2>1. [i \in 1 .. n |-> m] \in [1 .. n -> Message]
      OBVIOUS
    <2>2. PICK fs \in [1 .. n -> Message] : fs = [i \in 1 .. n |-> m]
      BY <2>1
    <2>3. fs \in Seq(Message) /\ Len(fs) = n
      BY <1>2
    <2>4. QED
      BY <2>2, <2>3
  <1>6. \A i \in 1 .. n : rs[i] = m
    BY <1>5
  <1>7. rs = [i \in DOMAIN calls |-> Msg("tool", round, 0, size)]
    BY <1>3, <1>4, <1>5
  <1>8. n \in 0 .. MaxCalls
    OBVIOUS
  <1>9. QED
    BY <1>3, <1>4, <1>5, <1>6, <1>7, <1>8

\* The conversation ends for a reason, or goes on within the limits.
LEMMA EndOutcome ==
    ASSUME TypeOK, NEW how \in Modes, NEW why \in SUBSET FailureKinds, End(how, why),
           how \in {"task_done", "json_fallback"} \/ why # {},
           messages' \in Seq(Message), WellFormed(messages'),
           commented' \in BOOLEAN, empty' \in 0 .. MaxEmpty
    PROVE  AnswerOutcome
  <1>1. phase' = "ended" /\ mode' = how /\ failures' = failures \cup why
    BY DEF End
  <1>2. failures \subseteq FailureKinds
    BY DEF TypeOK, FailureKinds
  <1>3. QED
    BY <1>1, <1>2 DEF AnswerOutcome

\* The same at the end of the body of the loop.
LEMMA NextRoundOutcome ==
    ASSUME TypeOK, mode = "none", NextRound, empty' < MaxEmpty,
           messages' \in Seq(Message), WellFormed(messages'),
           commented' \in BOOLEAN, empty' \in 0 .. MaxEmpty
    PROVE  AnswerOutcome
  <1>1. CASE round = MaxRounds
    <2>1. End("max_rounds", {"rounds"})
      BY <1>1 DEF NextRound
    <2>2. "max_rounds" \in Modes /\ {"rounds"} \in SUBSET FailureKinds
      BY DEF Modes, FailureKinds
    <2>3. QED
      BY <2>1, <2>2, EndOutcome
  <1>2. CASE round # MaxRounds
    <2>1. phase' = "round" /\ mode' = "none" /\ failures' = failures
      BY <1>2 DEF NextRound
    <2>2. round < MaxRounds
      BY <1>2 DEF TypeOK
    <2>3. failures \subseteq FailureKinds /\ "none" \in Modes
      BY DEF TypeOK, FailureKinds, Modes
    <2>4. QED
      BY <2>1, <2>2, <2>3 DEF AnswerOutcome
  <1>3. QED
    BY <1>1, <1>2

\* A list of issues in the text.
LEMMA AnswerJsonOutcome ==
    ASSUME TypeOK, WellFormed(messages), empty < MaxEmpty,
           NEW issues \in JsonIssues, AnswerJson(issues)
    PROVE  AnswerOutcome
  <1>1. messages' \in Seq(Message) /\ WellFormed(messages')
    <2>1. PICK m \in Message :
              m = Msg("assistant", round, 0, 1) /\ m.role # "tool" /\ m.calls = 0
      BY PlainMessage DEF TypeOK
    <2>2. QED
      BY <2>1, AppendPlain DEF AnswerJson, TypeOK
  <1>2. QED
    BY <1>1 DEF AnswerOutcome, AnswerJson, End, TypeOK, Modes, FailureKinds

\* An answer that settles nothing.
LEMMA AnswerNothingOutcome ==
    ASSUME TypeOK, WellFormed(messages), empty < MaxEmpty, mode = "none", AnswerNothing
    PROVE  AnswerOutcome
  <1>1. messages' \in Seq(Message) /\ WellFormed(messages')
    <2>1. PICK a \in Message :
              a = Msg("assistant", round, 0, 1) /\ a.role # "tool" /\ a.calls = 0
      BY PlainMessage DEF TypeOK
    <2>2. PICK u \in Message :
              u = Msg("user", round, 0, 1) /\ u.role # "tool" /\ u.calls = 0
      BY PlainMessage DEF TypeOK
    <2>3. PICK ms \in Seq(Message) : ms = Append(messages, a) /\ WellFormed(ms)
      BY <2>1, AppendPlain DEF TypeOK
    <2>4. Append(ms, u) \in Seq(Message) /\ WellFormed(Append(ms, u))
      BY <2>2, <2>3, AppendPlain
    <2>5. messages \o <<a, u>> = Append(ms, u)
      BY <2>3 DEF TypeOK
    <2>6. QED
      BY <2>1, <2>2, <2>4, <2>5 DEF AnswerNothing
  <1>2. empty' \in 0 .. MaxEmpty /\ commented' \in BOOLEAN
    BY DEF AnswerNothing, TypeOK
  <1>3. CASE empty' >= MaxEmpty
    <2>1. End("empty_round_limit", {"empty"})
      BY <1>3 DEF AnswerNothing
    <2>2. "empty_round_limit" \in Modes /\ {"empty"} \in SUBSET FailureKinds
      BY DEF Modes, FailureKinds
    <2>3. QED
      BY <1>1, <1>2, <2>1, <2>2, EndOutcome
  <1>4. CASE ~ (empty' >= MaxEmpty)
    <2>1. NextRound
      BY <1>4 DEF AnswerNothing
    <2>2. empty' < MaxEmpty
      BY <1>2, <1>4
    <2>3. QED
      BY <1>1, <1>2, <2>1, <2>2, NextRoundOutcome
  <1>5. QED
    BY <1>3, <1>4

\* An answer with tool calls.
LEMMA AnswerCallsOutcome ==
    ASSUME TypeOK, WellFormed(messages), empty < MaxEmpty, mode = "none",
           NEW calls \in CallSequences, NEW size \in ResultSizes,
           AnswerCalls(calls, size)
    PROVE  AnswerOutcome
  <1>1. messages' \in Seq(Message) /\ WellFormed(messages')
    <2>1. PICK rs \in Seq(Message) :
              /\ rs = [i \in DOMAIN calls |-> Msg("tool", round, 0, size)]
              /\ Len(rs) = Len(calls)
              /\ Len(calls) \in 0 .. MaxCalls
              /\ \A i \in 1 .. Len(calls) : rs[i].role = "tool" /\ rs[i].calls = 0
      <3>1. round \in 0 .. MaxRounds
        BY DEF TypeOK
      <3>2. QED
        BY <3>1, ToolResults
    <2>2. PICK a \in Message :
              /\ a = Msg("assistant", round, Len(calls), 1)
              /\ a.role # "tool"
              /\ a.calls = Len(calls)
      <3>1. round \in 0 .. MaxRounds
        BY DEF TypeOK
      <3>2. Msg("assistant", round, Len(calls), 1) \in Message
        BY <2>1, <3>1 DEF Msg, Message
      <3>3. /\ Msg("assistant", round, Len(calls), 1).role # "tool"
            /\ Msg("assistant", round, Len(calls), 1).calls = Len(calls)
        BY DEF Msg
      <3>4. QED
        BY <3>2, <3>3
    <2>3. Len(calls) \in Nat
      BY <2>1
    <2>4. messages \in Seq(Message)
      BY DEF TypeOK
    <2>5. /\ Append(messages, a) \o rs \in Seq(Message)
          /\ WellFormed(Append(messages, a) \o rs)
      BY <2>1, <2>2, <2>3, <2>4, AppendCalls
    <2>6. QED
      BY <2>1, <2>2, <2>5 DEF AnswerCalls
  <1>2. empty' \in 0 .. MaxEmpty
    <2>1. empty' = 0 \/ empty' = empty + 1
      BY Zenon DEF AnswerCalls
    <2>2. empty \in 0 .. MaxEmpty
      BY DEF TypeOK
    <2>3. QED
      BY <2>1, <2>2
  <1>3. commented' \in BOOLEAN
    BY Zenon DEF AnswerCalls
  <1>4. CASE Declares(calls)
    <2> DEFINE how == IF LastDeclared(calls) = "done" THEN "task_done" ELSE "task_failed"
    <2>1. End(how, Reported(calls))
      BY <1>4 DEF AnswerCalls
    <2>2. how = "task_done" \/ Reported(calls) = {"reported"}
      BY <1>4, LastDeclaredIsDeclared DEF Reported
    <2>3. Reported(calls) \in SUBSET FailureKinds
      BY DEF Reported, FailureKinds
    <2>4. how \in Modes
      BY DEF Modes
    <2>5. how \in {"task_done", "json_fallback"} \/ Reported(calls) # {}
      BY <2>2
    <2> HIDE DEF how
    <2>6. QED
      BY <1>1, <1>2, <1>3, <2>1, <2>3, <2>4, <2>5, EndOutcome
  <1>5. CASE ~Declares(calls) /\ empty' >= MaxEmpty
    <2>1. End("empty_round_limit", {"empty"})
      BY <1>5, Zenon DEF AnswerCalls
    <2>2. "empty_round_limit" \in Modes /\ {"empty"} \in SUBSET FailureKinds
      BY DEF Modes, FailureKinds
    <2>3. QED
      BY <1>1, <1>2, <1>3, <2>1, <2>2, EndOutcome
  <1>6. CASE ~Declares(calls) /\ ~ (empty' >= MaxEmpty)
    <2>1. NextRound
      BY <1>6, Zenon DEF AnswerCalls
    <2>2. empty' < MaxEmpty
      BY <1>2, <1>6
    <2>3. QED
      BY <1>1, <1>2, <1>3, <2>1, <2>2, NextRoundOutcome
  <1>7. QED
    BY <1>4, <1>5, <1>6

\* Any answer.
LEMMA AnsweredOutcome ==
    ASSUME TypeOK, WellFormed(messages), empty < MaxEmpty, mode = "none", Answered
    PROVE  AnswerOutcome /\ billed' \in Nat /\ traced' \in Nat
  <1>1. AnswerOutcome
    <2>1. ASSUME NEW issues \in JsonIssues, AnswerJson(issues) PROVE AnswerOutcome
      BY <2>1, AnswerJsonOutcome
    <2>2. ASSUME NEW calls \in CallSequences, NEW size \in ResultSizes,
                 AnswerCalls(calls, size)
          PROVE  AnswerOutcome
      BY <2>2, AnswerCallsOutcome
    <2>3. ASSUME AnswerNothing PROVE AnswerOutcome
      BY <2>3, AnswerNothingOutcome
    <2>4. QED
      BY <2>1, <2>2, <2>3 DEF Answered
  <1>2. billed \in Nat /\ traced \in Nat
    BY DEF TypeOK
  <1>3. billed' = billed + 1 /\ traced' = traced + 1
    BY DEF Answered
  <1>4. QED
    BY <1>1, <1>2, <1>3

-----------------------------------------------------------------------------
(* The invariant holds in every state                                      *)

\* A conversation starts within the invariant.
LEMMA InitIInv ==
    Init => IInv
  <1> SUFFICES ASSUME Init PROVE IInv
    OBVIOUS
  <1>1. prompt \in PromptSizes /\ prompt \in Nat
    BY DEF Init
  <1>2. PICK s \in Message, u \in Message :
            /\ s = Msg("system", 0, 0, 1) /\ u = Msg("user", 0, 0, prompt)
            /\ s.role = "system" /\ u.role = "user" /\ u.round = 0
    <2>1. Msg("system", 0, 0, 1) \in Message /\ Msg("user", 0, 0, prompt) \in Message
      BY <1>1 DEF Msg, Message
    <2>2. /\ Msg("system", 0, 0, 1).role = "system"
          /\ Msg("user", 0, 0, prompt).role = "user"
          /\ Msg("user", 0, 0, prompt).round = 0
      BY DEF Msg
    <2>3. QED
      BY <2>1, <2>2
  <1>3. messages = <<s, u>>
    BY <1>2 DEF Init
  <1>4. messages \in Seq(Message) /\ WellFormed(messages)
    <2>1. messages \in Seq(Message) /\ Len(messages) = 2
      BY <1>3
    <2>2. messages[1] = s /\ messages[2] = u
      BY <1>3
    <2>3. 3 .. Len(messages) = {}
      BY <2>1
    <2>4. QED
      BY <1>2, <2>1, <2>2, <2>3 DEF WellFormed
  <1>5. TypeOK
    <2>1. commented \in BOOLEAN /\ stop \in BOOLEAN
      BY Zenon DEF Init
    <2>2. phase \in Phases /\ mode \in Modes /\ failures = {}
      BY DEF Init, Phases, Modes
    <2>3. round \in 0 .. MaxRounds /\ empty \in 0 .. MaxEmpty
      BY DEF Init
    <2>4. {late, billed, traced, unsummed} \subseteq Nat
      BY DEF Init
    <2>5. QED
      BY <1>1, <1>4, <2>1, <2>2, <2>3, <2>4 DEF TypeOK
  <1>6. WithinLimits /\ EndIsExplained /\ LateBounds
    BY DEF Init, WithinLimits, EndIsExplained, LateBounds, Running
  <1>7. LateAfterStop
    BY Zenon DEF Init, LateAfterStop
  <1>8. QED
    BY <1>4, <1>5, <1>6, <1>7 DEF IInv

\* A conversation that ends without an answer of the model has a reason.
LEMMA EndsWithReason ==
    ASSUME TypeOK, NEW how \in Modes, NEW why \in SUBSET FailureKinds, why # {},
           End(how, why)
    PROVE  /\ phase' = "ended"
           /\ mode' \in Modes
           /\ failures' \in SUBSET FailureKinds
           /\ failures' # {}
  BY DEF End, TypeOK, FailureKinds

\* A history that is too large ends the conversation.
LEMMA SendOrGiveUpOutcome ==
    ASSUME TypeOK, NEW ms, SendOrGiveUp(ms)
    PROVE  /\ mode' \in Modes
           /\ failures' \in SUBSET FailureKinds
           /\ \/ phase' = "ended" /\ failures' # {}
              \/ phase' = "chat" /\ mode' = mode
  <1>1. CASE TooLarge(ms)
    <2>1. End("context_limit", {"context"})
      BY <1>1 DEF SendOrGiveUp
    <2>2. "context_limit" \in Modes /\ {"context"} \in SUBSET FailureKinds
      BY DEF Modes, FailureKinds
    <2>3. QED
      BY <2>1, <2>2, EndsWithReason
  <1>2. CASE ~TooLarge(ms)
    BY <1>2 DEF SendOrGiveUp, TypeOK, FailureKinds
  <1>3. QED
    BY <1>1, <1>2

\* At most one more request is late.
LEMMA RequestOutcome ==
    ASSUME Request
    PROVE  late' = late \/ late' = late + 1
  BY Zenon DEF Request

\* A step that sends nothing.
LEMMA NothingLate ==
    ASSUME LateAfterStop, UNCHANGED <<stop, late>>
    PROVE  LateAfterStop'
  BY Zenon DEF LateAfterStop

\* A step that sends a request.
LEMMA RequestLate ==
    ASSUME LateAfterStop, Request, UNCHANGED stop
    PROVE  LateAfterStop'
  BY Zenon DEF LateAfterStop, Request

\* The steps keep the invariant: the check before the first round,
LEMMA PreflightIInv ==
    ASSUME IInv, Preflight
    PROVE  IInv'
  <1>1. TypeOK /\ phase = "preflight"
    BY DEF IInv, Preflight
  <1>2. /\ mode' \in Modes
        /\ failures' \in SUBSET FailureKinds
        /\ \/ phase' = "ended" /\ failures' # {}
           \/ phase' = "round" /\ mode' = mode
    <2>1. CASE TooLarge(messages)
      <3>1. End("context_limit", {"context"})
        BY <2>1 DEF Preflight
      <3>2. "context_limit" \in Modes /\ {"context"} \in SUBSET FailureKinds
        BY DEF Modes, FailureKinds
      <3>3. QED
        BY <1>1, <3>1, <3>2, EndsWithReason
    <2>2. CASE ~TooLarge(messages)
      BY <1>1, <2>2 DEF Preflight, TypeOK, FailureKinds
    <2>3. QED
      BY <2>1, <2>2
  <1>3. UNCHANGED <<prompt, messages, round, empty, commented, stop, late, billed,
                    traced, unsummed>>
    BY DEF Preflight
  <1>4. TypeOK'
    BY <1>1, <1>2, <1>3 DEF TypeOK, FailureKinds, Phases
  <1>5. WithinLimits' /\ EndIsExplained' /\ LateBounds'
    <2>1. 0 < MaxRounds
      OBVIOUS
    <2>2. WithinLimits'
      BY <1>1, <1>2, <1>3, <2>1 DEF IInv, WithinLimits, Running
    <2>3. EndIsExplained'
      BY <1>2 DEF EndIsExplained
    <2>4. LateBounds'
      BY <1>2, <1>3 DEF IInv, LateBounds
    <2>5. QED
      BY <2>2, <2>3, <2>4
  <1>6. LateAfterStop'
    BY <1>3, NothingLate DEF IInv
  <1>7. QED
    BY <1>3, <1>4, <1>5, <1>6 DEF IInv

\* the start of a round,
LEMMA StartRoundIInv ==
    ASSUME IInv, StartRound
    PROVE  IInv'
  <1>1. TypeOK /\ phase = "round"
    BY DEF IInv, StartRound
  <1>2. /\ mode' \in Modes
        /\ failures' \in SUBSET FailureKinds
        /\ \/ phase' = "ended" /\ failures' # {}
           \/ phase' = "compress" /\ mode' = mode
    <2>1. CASE End("file_timeout", {"timeout"})
      <3>1. "file_timeout" \in Modes /\ {"timeout"} \in SUBSET FailureKinds
        BY DEF Modes, FailureKinds
      <3>2. QED
        BY <1>1, <2>1, <3>1, EndsWithReason
    <2>2. CASE phase' = "compress" /\ UNCHANGED <<mode, failures>>
      BY <1>1, <2>2 DEF TypeOK, FailureKinds
    <2>3. QED
      BY <2>1, <2>2 DEF StartRound
  <1>3. UNCHANGED <<prompt, messages, empty, commented, stop, late, billed, traced,
                    unsummed>>
    BY DEF StartRound
  <1>4. round' \in 0 .. MaxRounds /\ late = 0
    <2>1. round' = round + 1 /\ round < MaxRounds
      BY <1>1 DEF IInv, WithinLimits, StartRound
    <2>2. late = 0
      BY Zenon DEF IInv, LateAfterStop, StartRound
    <2>3. QED
      BY <1>1, <2>1, <2>2 DEF TypeOK
  <1>5. TypeOK'
    BY <1>1, <1>2, <1>3, <1>4 DEF TypeOK, FailureKinds, Phases
  <1>6. WithinLimits' /\ EndIsExplained' /\ LateBounds'
    BY <1>1, <1>2, <1>3, <1>4
       DEF IInv, WithinLimits, EndIsExplained, LateBounds, Running, TypeOK
  <1>7. LateAfterStop'
    <2>1. UNCHANGED late
      BY Zenon DEF StartRound
    <2>2. QED
      BY <1>3, <2>1, NothingLate DEF IInv
  <1>8. QED
    BY <1>3, <1>5, <1>6, <1>7 DEF IInv

\* an interruption,
LEMMA InterruptIInv ==
    ASSUME IInv, Interrupt
    PROVE  IInv'
  <1>1. /\ phase' = "interrupted"
        /\ UNCHANGED <<prompt, messages, round, empty, commented, failures, mode,
                       stop, late, billed, traced, unsummed>>
    BY DEF Interrupt
  <1>2. TypeOK'
    BY <1>1 DEF IInv, TypeOK, Phases
  <1>3. WithinLimits' /\ EndIsExplained' /\ LateBounds'
    BY <1>1 DEF IInv, WithinLimits, EndIsExplained, LateBounds, Running
  <1>4. LateAfterStop'
    BY <1>1, NothingLate DEF IInv
  <1>5. QED
    BY <1>1, <1>2, <1>3, <1>4 DEF IInv

\* a history that need not be compressed,
LEMMA SkipCompressionIInv ==
    ASSUME IInv, SkipCompression
    PROVE  IInv'
  <1>1. TypeOK /\ phase = "compress"
    BY DEF IInv, SkipCompression
  <1>2. /\ mode' \in Modes
        /\ failures' \in SUBSET FailureKinds
        /\ \/ phase' = "ended" /\ failures' # {}
           \/ phase' = "chat" /\ mode' = mode
    BY <1>1, SendOrGiveUpOutcome DEF SkipCompression
  <1>3. UNCHANGED <<prompt, messages, round, empty, commented, stop, late, billed,
                    traced, unsummed>>
    BY DEF SkipCompression
  <1>4. TypeOK'
    BY <1>1, <1>2, <1>3 DEF TypeOK, FailureKinds, Phases
  <1>5. WithinLimits' /\ EndIsExplained' /\ LateBounds'
    BY <1>1, <1>2, <1>3
       DEF IInv, WithinLimits, EndIsExplained, LateBounds, Running, TypeOK
  <1>6. LateAfterStop'
    BY <1>3, NothingLate DEF IInv
  <1>7. QED
    BY <1>3, <1>4, <1>5, <1>6 DEF IInv

\* one that is,
LEMMA CompressIInv ==
    ASSUME IInv, Compress
    PROVE  IInv'
  <1>1. TypeOK /\ phase = "compress" /\ late = 0
    BY DEF IInv, LateBounds, Compress
  <1>2. /\ mode' \in Modes
        /\ failures' \in SUBSET FailureKinds
        /\ \/ phase' = "ended" /\ failures' # {}
           \/ phase' = "chat" /\ mode' = mode
    <2>1. SendOrGiveUp(messages')
      BY DEF Compress
    <2>2. QED
      BY <1>1, <2>1, SendOrGiveUpOutcome
  <1>3. messages' \in Seq(Message) /\ WellFormed(messages')
    <2>1. MustCompress(messages) /\ messages' = Compressed(messages)
      BY DEF Compress
    <2>2. messages \in Seq(Message) /\ prompt \in Nat /\ WellFormed(messages)
      BY DEF IInv, TypeOK
    <2>3. QED
      BY <2>1, <2>2, CompressedIsWellFormed
  <1>4. UNCHANGED <<prompt, round, empty, commented, stop>>
    BY DEF Compress
  <1>5. late' \in {0, 1}
    BY <1>1, RequestOutcome DEF Compress
  <1>6. billed' \in Nat /\ traced' \in Nat /\ unsummed' \in Nat
    <2>1. billed \in Nat /\ traced \in Nat /\ unsummed \in Nat
      BY <1>1 DEF TypeOK
    <2>2. /\ billed' = billed \/ billed' = billed + 1
          /\ traced' = traced \/ traced' = traced + 1
          /\ unsummed' = unsummed \/ unsummed' = unsummed + 1
      BY DEF Compress
    <2>3. QED
      BY <2>1, <2>2
  <1>7. TypeOK'
    BY <1>1, <1>2, <1>3, <1>4, <1>5, <1>6 DEF TypeOK, FailureKinds, Phases
  <1>8. WithinLimits' /\ EndIsExplained' /\ LateBounds'
    BY <1>1, <1>2, <1>4, <1>5
       DEF IInv, WithinLimits, EndIsExplained, LateBounds, Running, TypeOK
  <1>9. LateAfterStop'
    BY <1>4, RequestLate DEF IInv, Compress
  <1>10. QED
    BY <1>3, <1>7, <1>8, <1>9 DEF IInv

\* an answer to either kind of request,
LEMMA AnsweredIInv ==
    ASSUME IInv, phase \in {"chat", "plain"}, Request, Answered,
           UNCHANGED <<prompt, round, stop, unsummed>>
    PROVE  IInv'
  <1>1. TypeOK /\ WellFormed(messages) /\ empty < MaxEmpty /\ mode = "none"
    BY DEF IInv, WithinLimits, Running
  <1>2. AnswerOutcome /\ billed' \in Nat /\ traced' \in Nat
    BY <1>1, AnsweredOutcome
  <1>3. late' \in 0 .. 3
    <2>1. late \in Nat /\ late <= 2
      BY <1>1 DEF IInv, LateBounds, TypeOK
    <2>2. Request
      OBVIOUS
    <2>3. QED
      BY <2>1, <2>2, RequestOutcome
  <1>4. TypeOK'
    BY <1>1, <1>2, <1>3 DEF AnswerOutcome, TypeOK, FailureKinds, Phases
  <1>5. WithinLimits'
    BY <1>2 DEF AnswerOutcome, WithinLimits, Running
  <1>6. EndIsExplained'
    BY <1>2 DEF AnswerOutcome, EndIsExplained, Completed
  <1>7. LateBounds'
    BY <1>2, <1>3 DEF AnswerOutcome, LateBounds
  <1>8. LateAfterStop'
    BY <1>3, RequestLate DEF IInv
  <1>9. QED
    BY <1>2, <1>4, <1>5, <1>6, <1>7, <1>8 DEF IInv, AnswerOutcome

\* a request with tools that fails,
LEMMA ChatFailsIInv ==
    ASSUME IInv, ChatFails
    PROVE  IInv'
  <1>1. TypeOK /\ WellFormed(messages) /\ phase = "chat" /\ phase' = "plain"
    BY DEF IInv, ChatFails
  <1>2. messages' \in Seq(Message) /\ WellFormed(messages')
    <2>1. PICK m \in Message :
              m = Msg("user", round, 0, 1) /\ m.role # "tool" /\ m.calls = 0
      BY <1>1, PlainMessage DEF TypeOK
    <2>2. messages \in Seq(Message)
      BY <1>1 DEF TypeOK
    <2>3. QED
      BY <1>1, <2>1, <2>2, AppendPlain DEF ChatFails
  <1>3. UNCHANGED <<prompt, round, empty, commented, failures, mode, stop, billed,
                    traced, unsummed>>
    BY DEF ChatFails
  <1>4. late' \in 0 .. 2
    <2>1. late \in Nat /\ late <= 1
      BY <1>1 DEF IInv, LateBounds, TypeOK
    <2>2. Request
      BY DEF ChatFails
    <2>3. QED
      BY <2>1, <2>2, RequestOutcome
  <1>5. TypeOK'
    BY <1>1, <1>2, <1>3, <1>4 DEF TypeOK, Phases
  <1>6. WithinLimits' /\ EndIsExplained' /\ LateBounds'
    BY <1>1, <1>3, <1>4
       DEF IInv, WithinLimits, EndIsExplained, LateBounds, Running
  <1>7. LateAfterStop'
    BY <1>3, RequestLate DEF IInv, ChatFails
  <1>8. QED
    BY <1>2, <1>5, <1>6, <1>7 DEF IInv

\* a request without tools that fails,
LEMMA PlainChatFailsIInv ==
    ASSUME IInv, PlainChatFails
    PROVE  IInv'
  <1>1. TypeOK /\ phase = "plain" /\ phase' = "raised"
    BY DEF IInv, PlainChatFails
  <1>2. UNCHANGED <<prompt, messages, round, empty, failures, mode, stop, billed,
                    unsummed>>
    BY DEF PlainChatFails
  <1>3. commented' \in BOOLEAN /\ traced' = 0
    BY Zenon DEF PlainChatFails
  <1>4. late' \in 0 .. 3
    <2>1. late \in Nat /\ late <= 2
      BY <1>1 DEF IInv, LateBounds, TypeOK
    <2>2. Request
      BY DEF PlainChatFails
    <2>3. QED
      BY <2>1, <2>2, RequestOutcome
  <1>5. TypeOK'
    BY <1>1, <1>2, <1>3, <1>4 DEF TypeOK, Phases
  <1>6. WithinLimits' /\ EndIsExplained' /\ LateBounds'
    BY <1>1, <1>2, <1>4
       DEF IInv, WithinLimits, EndIsExplained, LateBounds, Running
  <1>7. LateAfterStop'
    BY <1>2, RequestLate DEF IInv, PlainChatFails
  <1>8. QED
    BY <1>2, <1>5, <1>6, <1>7 DEF IInv

\* and the call to stop.
LEMMA StopIInv ==
    ASSUME IInv, Stop
    PROVE  IInv'
  <1>1. UNCHANGED <<phase, prompt, messages, round, empty, commented, failures, mode,
                    late, billed, traced, unsummed>>
    BY DEF Stop
  <1>2. stop' \in BOOLEAN
    BY Zenon DEF Stop
  <1>3. TypeOK'
    BY <1>1, <1>2 DEF IInv, TypeOK
  <1>4. WithinLimits' /\ EndIsExplained' /\ LateBounds'
    BY <1>1, <1>2 DEF IInv, WithinLimits, EndIsExplained, LateBounds, Running, Completed
  <1>5. LateAfterStop'
    BY Zenon DEF LateAfterStop, Stop
  <1>6. QED
    BY <1>1, <1>3, <1>4, <1>5 DEF IInv

\* Every step of a conversation and of those who stop it keeps the invariant.
LEMMA NextIInv ==
    IInv /\ [Next]_mainVars => IInv'
  <1> SUFFICES ASSUME IInv, [Next]_mainVars PROVE IInv'
    OBVIOUS
  <1>1. CASE Preflight
    BY <1>1, PreflightIInv
  <1>2. CASE StartRound
    BY <1>2, StartRoundIInv
  <1>3. CASE Interrupt
    BY <1>3, InterruptIInv
  <1>4. CASE SkipCompression
    BY <1>4, SkipCompressionIInv
  <1>5. CASE Compress
    BY <1>5, CompressIInv
  <1>6. CASE Chat
    <2>1. /\ phase \in {"chat", "plain"} /\ Request /\ Answered
          /\ UNCHANGED <<prompt, round, stop, unsummed>>
      BY <1>6 DEF Chat
    <2>2. QED
      BY <2>1, AnsweredIInv
  <1>7. CASE ChatFails
    BY <1>7, ChatFailsIInv
  <1>8. CASE PlainChat
    <2>1. /\ phase \in {"chat", "plain"} /\ Request /\ Answered
          /\ UNCHANGED <<prompt, round, stop, unsummed>>
      BY <1>8 DEF PlainChat
    <2>2. QED
      BY <2>1, AnsweredIInv
  <1>9. CASE PlainChatFails
    BY <1>9, PlainChatFailsIInv
  <1>10. CASE Stop
    BY <1>10, StopIInv
  <1>11. CASE UNCHANGED mainVars
    <2>1. TypeOK'
      BY <1>11 DEF mainVars, IInv, TypeOK
    <2>2. WithinLimits' /\ EndIsExplained' /\ LateBounds'
      BY <1>11 DEF mainVars, IInv, WithinLimits, EndIsExplained, LateBounds,
                   Running, Completed
    <2>3. LateAfterStop'
      BY <1>11, NothingLate DEF mainVars, IInv
    <2>4. WellFormed(messages')
      BY <1>11 DEF mainVars, IInv
    <2>5. QED
      BY <2>1, <2>2, <2>3, <2>4 DEF IInv
  <1>12. QED
    BY <1>1, <1>2, <1>3, <1>4, <1>5, <1>6, <1>7, <1>8, <1>9, <1>10, <1>11
       DEF Next, MainStep

\* Every state of a conversation (_run_main_task) satisfies the invariant.
THEOREM Invariant ==
    Spec => []IInv
  BY InitIInv, NextIInv, PTL DEF Spec

-----------------------------------------------------------------------------
(* The properties                                                          *)

\* Every variable of a conversation (_run_main_task) stays in its type: rounds and
\* empty rounds never exceed their limits.
THEOREM TypeCorrect ==
    Spec => []TypeOK
  <1>1. IInv => TypeOK
    BY DEF IInv
  <1>2. QED
    BY <1>1, Invariant, PTL

\* Whatever is sent is a list of messages a chat API accepts, however the history was
\* compressed before (_compression_active_start): no result is separated from the
\* answer that asked for it, and no answer from one of its results.
THEOREM RequestsAreAlwaysWellFormed ==
    Spec => []RequestsAreWellFormed
  <1>1. IInv => RequestsAreWellFormed
    BY DEF IInv, WellFormed, Paired, RequestsAreWellFormed
  <1>2. QED
    BY <1>1, Invariant, PTL

\* A conversation that is called off (_check_interrupted) sends three more requests
\* at most, whatever the limits.
THEOREM StopIsAlwaysPrompt ==
    Spec => []StopIsPrompt
  <1>1. IInv => StopIsPrompt
    BY DEF IInv, LateBounds, StopIsPrompt
  <1>2. QED
    BY <1>1, Invariant, PTL

\* The compression (_compression_active_start) keeps a tool result that came alone in
\* the last round, and the answer that asked for it.
THEOREM SingleResultAlwaysSurvives ==
    Spec => SingleResultSurvives
  <1>1. ASSUME IInv
        PROVE  \A n \in 4 .. Len(messages) :
                   Compress /\ n = Len(messages)
                     /\ IsTool(messages, n) /\ ~IsTool(messages, n - 1)
                   => messages'[Len(messages')] = messages[n]
                      /\ messages'[Len(messages') - 1] = messages[n - 1]
    <2>1. SUFFICES ASSUME NEW n \in 4 .. Len(messages), Compress, n = Len(messages),
                          ~IsTool(messages, n - 1)
                   PROVE  /\ messages'[Len(messages')] = messages[n]
                          /\ messages'[Len(messages') - 1] = messages[n - 1]
      OBVIOUS
    <2>2. messages \in Seq(Message) /\ prompt \in Nat
      BY <1>1 DEF IInv, TypeOK
    <2>3. messages' = Compressed(messages) /\ ActiveStart(messages) > 2
      BY <2>1 DEF Compress, MustCompress
    <2>4. PICK c \in 3 .. Len(messages) : c = ActiveStart(messages)
      BY <2>1, <2>2, <2>3, CutIsClean
    <2>5. c <= n - 2 /\ n \in Nat
      BY <2>1, <2>2, <2>3, <2>4, CutKeepsSingleResult
    <2>6. Len(messages') = n - c + 2
      BY <2>1, <2>2, <2>3, <2>4, CompressedParts
    <2>7. \A i \in 3 .. Len(messages') : messages'[i] = messages[i + c - 2]
      BY <2>2, <2>3, <2>4, CompressedParts
    <2>8. c \in Nat
      BY <2>2, <2>4
    <2>9. /\ n - c + 2 \in 3 .. Len(messages') /\ n - c + 1 \in 3 .. Len(messages')
          /\ (n - c + 2) + c - 2 = n /\ (n - c + 1) + c - 2 = n - 1
          /\ Len(messages') - 1 = n - c + 1
      BY <2>5, <2>6, <2>8
    <2>10. /\ messages'[n - c + 2] = messages[(n - c + 2) + c - 2]
           /\ messages'[n - c + 1] = messages[(n - c + 1) + c - 2]
      BY <2>7, <2>9
    <2>11. QED
      BY <2>6, <2>9, <2>10
  <1>2. QED
    BY <1>1, Invariant, PTL DEF SingleResultSurvives

-----------------------------------------------------------------------------
(* What the caller gets                                                    *)

\* There is no result before the conversation has ended.
LEMMA PendingOutcome ==
    ~HasResult => Outcome = Caller!NoResult
  BY Zenon DEF HasResult, Outcome, Caller!NoResult

\* In every state the result is none yet, or one that MainResult allows.
LEMMA OutcomeIsExplained ==
    IInv /\ HasResult => Outcome \in Caller!Results
  <1> SUFFICES ASSUME IInv, HasResult PROVE Outcome \in Caller!Results
    OBVIOUS
  <1>1. commented \in BOOLEAN
    BY DEF IInv, TypeOK
  <1>2. Completed \/ phase = "raised" \/ failures # {}
    BY DEF IInv, EndIsExplained, HasResult
  <1>3. QED
    BY <1>1, <1>2 DEF Outcome, Caller!Results, Caller!Completions, Caller!Failures

\* The part of ImplementsMainResult that is not liveness: a conversation starts
\* without a result, gives one answer and never changes it, and the answer is a
\* completed review or has its reason.
THEOREM GivesOneExplainedAnswer ==
    Spec => Caller!Init /\ [][Caller!Answer]_(Caller!resultVars)
  <1>1. Init => Caller!Init
    <2>1. SUFFICES ASSUME Init PROVE Caller!Init
      OBVIOUS
    <2>2. phase = "preflight"
      BY <2>1 DEF Init
    <2>3. ~HasResult /\ Progress = "pending"
      BY <2>2 DEF HasResult, Progress
    <2>4. QED
      BY <2>3, PendingOutcome DEF Caller!Init
  <1>2. (~HasResult => Outcome = Caller!NoResult)'
    BY PendingOutcome, PTL
  <1>3. (IInv /\ HasResult => Outcome \in Caller!Results)'
    BY OutcomeIsExplained, PTL
  <1>4. IInv /\ IInv' /\ [Next]_mainVars => [Caller!Answer]_(Caller!resultVars)
    <2> SUFFICES ASSUME IInv, IInv', [Next]_mainVars
                 PROVE  [Caller!Answer]_(Caller!resultVars)
      OBVIOUS
    <2>1. CASE UNCHANGED mainVars
      BY <2>1 DEF mainVars, Caller!resultVars, Progress, Outcome, HasResult, Completed
    <2>2. CASE Next
      <3>1. phase \notin {"ended", "raised", "interrupted"}
        BY <2>2 DEF Next, MainStep, Preflight, StartRound, Interrupt, SkipCompression,
                    Compress, Chat, ChatFails, PlainChat, PlainChatFails, Stop
      <3>2. ~HasResult /\ Progress = "pending" /\ Outcome = Caller!NoResult
        BY <3>1, PendingOutcome DEF HasResult, Progress
      <3>3. CASE HasResult'
        <4>1. Outcome' \in Caller!Results
          BY <1>3, <3>3
        <4>2. Progress' = "result"
          BY <3>3 DEF Progress
        <4>3. QED
          BY <3>2, <4>1, <4>2 DEF Caller!Answer
      <3>4. CASE ~HasResult'
        <4>1. Outcome' = Caller!NoResult
          BY <1>2, <3>4
        <4>2. Progress' \in {"interrupted", "pending"}
          BY <3>4 DEF Progress
        <4>3. QED
          BY <3>2, <4>1, <4>2 DEF Caller!Answer, Caller!resultVars
      <3>5. QED
        BY <3>3, <3>4
    <2>3. QED
      BY <2>1, <2>2
  <1>5. QED
    BY <1>1, <1>4, Invariant, PTL DEF Spec
=============================================================================
