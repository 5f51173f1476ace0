-------------------------- MODULE NodeRoutes_proofs ---------------------------
(***************************************************************************)
(* Proofs about NodeRoutes: what one node's kernel may hold while a domain *)
(* is programmed call by call, for any number of nodes, VMs, tables and    *)
(* payloads, and whichever calls fail and whenever the process dies.       *)
(*                                                                         *)
(* A stage plans a sequence of calls in an order that sets do not tell, so *)
(* the proofs speak of the set of calls a plan makes (Plan) and of what a  *)
(* plan has before what (Before): first what SetToSeq, FlattenSeq and the  *)
(* claims of steer tables compute, each by an induction (SetInduction),    *)
(* then what every stage plans and in which order, then what one call      *)
(* does, then the invariant (IInv), what a full pass has brought about     *)
(* after each stage (Settling), and last how a VM's packet finds its way   *)
(* from one call to the next (Flowing).                                    *)
(***************************************************************************)
EXTENDS NodeRoutes, FiniteSetTheorems, SequenceTheorems, TLAPS

-----------------------------------------------------------------------------
(* Induction, and the sequences of calls that sets make.                    *)

LEMMA SetInduction ==
    ASSUME NEW S, 0 \in S, \A n \in Nat : n \in S => n + 1 \in S
    PROVE  Nat \subseteq S
  <1> DEFINE T == {n \in Nat : n \notin S}
  <1> DEFINE Less == OpToRel(<, Nat)
  <1> SUFFICES ASSUME T # {} PROVE FALSE
    OBVIOUS
  <1>1. IsWellFoundedOn(Less, Nat)
    BY NatLessThanWellFounded
  <1>2. \A x, y \in Nat : y < x => <<y, x>> \in Less
    BY DEF OpToRel
  <1>3. PICK x \in T : \A y \in T : ~(<<y, x>> \in Less)
    <2> HIDE DEF Less
    <2>1. T \subseteq Nat
      OBVIOUS
    <2> HIDE DEF T
    <2> QED  BY <1>1, <2>1, WFMin
  <1> HIDE DEF Less
  <1>4. x \in Nat /\ x # 0
    OBVIOUS
  <1>5. x - 1 \in Nat /\ x - 1 < x
    BY <1>4
  <1>6. x - 1 \notin T
    BY <1>2, <1>3, <1>4, <1>5
  <1>7. x - 1 + 1 \in S
    BY <1>5, <1>6
  <1> QED  BY <1>4, <1>7

LEMMA SetToSeqIs ==
    ASSUME NEW S, IsFiniteSet(S)
    PROVE  SetToSeq(S) \in Seq(S) /\ Range(SetToSeq(S)) = S
  <1> DEFINE n == Cardinality(S)
  <1>1. n \in Nat
    BY FS_CardinalityType
  <1>2. IsFiniteSet(1..n) /\ Cardinality(1..n) = n
    <2>1. \A a, b \in Int : IsFiniteSet(a..b) /\ Cardinality(a..b) = IF a > b THEN 0 ELSE b - a + 1
      BY FS_Interval
    <2> HIDE DEF n
    <2>2. IsFiniteSet(1..n) /\ Cardinality(1..n) = IF 1 > n THEN 0 ELSE n - 1 + 1
      BY <1>1, <2>1
    <2> QED  BY <1>1, <2>2
  <1>3. ExistsBijection(1..n, S)
    BY <1>2, FS_SameCardinalityBij
  <1>4. PICK g : g \in [1..n -> S] /\ IsInjective(g)
    BY <1>3 DEF ExistsBijection, Bijection, Injection
  <1> DEFINE s == SetToSeq(S)
  <1>5. s \in [1..n -> S] /\ IsInjective(s)
    BY <1>4 DEF SetToSeq
  <1> HIDE DEF s, n
  <1>6. s \in Injection(1..n, S)
    BY <1>5 DEF Injection
  <1>7. s \in Surjection(1..n, S)
    BY <1>2, <1>6, FS_Injection DEF n
  <1>8. s \in Seq(S)
    BY <1>1, <1>5, SeqDef
  <1>9. Range(s) = S
    BY <1>5, <1>7 DEF Surjection, Range
  <1> QED  BY <1>8, <1>9 DEF s

\* The elements of a flattened sequence.
\* How FlattenSeq joins its parts.
Joins(f, ss) == \A i \in 1..Len(ss) : f[i] = IF i = 1 THEN ss[i] ELSE f[i - 1] \o ss[i]

LEMMA FlattenRecursion ==
    ASSUME NEW A, NEW ss \in Seq(Seq(A)), Len(ss) # 0
    PROVE  \E f : Joins(f, ss) /\ FlattenSeq(ss) = f[Len(ss)]
  <1> DEFINE Recurs(f, n) == f = [i \in 1..n |-> IF i = 1 THEN ss[i] ELSE f[i - 1] \o ss[i]]
  <1> DEFINE N == Len(ss)
  <1>1. N \in Nat /\ \A i \in 1..N : ss[i] \in Seq(A)
    OBVIOUS
  <1> DEFINE Exists(n) == n <= N => \E f : Recurs(f, n)
  <1> DEFINE S == {n \in Nat : Exists(n)}
  <1>2. Exists(0)
    <2>1. Recurs([i \in 1..0 |-> <<>>], 0)
      OBVIOUS
    <2> QED  BY <2>1
  <1>3. ASSUME NEW n \in Nat, Exists(n) PROVE Exists(n + 1)
    <2> SUFFICES ASSUME n + 1 <= N PROVE \E f : Recurs(f, n + 1)
      OBVIOUS
    <2>1. n <= N
      BY <1>1
    <2>2. PICK f : Recurs(f, n)
      BY <1>3, <2>1
    <2> HIDE <1>3
    <2> DEFINE last == IF n = 0 THEN ss[1] ELSE f[n] \o ss[n + 1]
    <2> DEFINE g == [i \in 1..(n + 1) |-> IF i = n + 1 THEN last ELSE f[i]]
    <2>3. \A i \in 1..n : f[i] = IF i = 1 THEN ss[i] ELSE f[i - 1] \o ss[i]
      BY <2>2
    <2>4. \A i \in 1..(n + 1) : g[i] = IF i = 1 THEN ss[i] ELSE g[i - 1] \o ss[i]
      <3> SUFFICES ASSUME NEW i \in 1..(n + 1) PROVE g[i] = IF i = 1 THEN ss[i] ELSE g[i - 1] \o ss[i]
        OBVIOUS
      <3>1. CASE i = n + 1
        <4>1. CASE n = 0
          BY <3>1, <4>1
        <4>2. CASE n # 0
          <5>1. i # 1 /\ i - 1 \in 1..(n + 1) /\ i - 1 # n + 1 /\ i - 1 = n
            BY <3>1, <4>2
          <5>2. g[i - 1] = f[n] /\ g[i] = f[n] \o ss[n + 1]
            BY <3>1, <4>2, <5>1
          <5> QED  BY <3>1, <5>1, <5>2
        <4> QED  BY <4>1, <4>2
      <3>2. CASE i # n + 1
        <4>1. i \in 1..n /\ g[i] = f[i]
          BY <3>2
        <4>2. i # 1 => i - 1 \in 1..(n + 1) /\ i - 1 # n + 1 /\ g[i - 1] = f[i - 1]
          BY <4>1
        <4> QED  BY <2>3, <4>1, <4>2
      <3> QED  BY <3>1, <3>2
    <2>5. g = [i \in 1..(n + 1) |-> g[i]]
      OBVIOUS
    <2> HIDE DEF g
    <2>6. Recurs(g, n + 1)
      BY <2>4, <2>5
    <2> QED  BY <2>6
  <1>4. Exists(N)
    <2> HIDE DEF Exists
    <2>1. 0 \in S /\ \A n \in Nat : n \in S => n + 1 \in S
      BY <1>2, <1>3
    <2> HIDE DEF S
    <2>2. N \in S
      BY <1>1, <2>1, SetInduction
    <2> QED  BY <2>2 DEF S
  <1>5. \E f : Recurs(f, N)
    <2>1. N <= N
      BY <1>1
    <2> QED  BY <1>4, <2>1
  <1> DEFINE flatten == CHOOSE f : Recurs(f, N)
  <1>6. Recurs(flatten, N)
    BY <1>5
  <1>7. FlattenSeq(ss) = flatten[N]
    BY DEF FlattenSeq
  <1> HIDE DEF flatten
  <1>8. Joins(flatten, ss)
    BY <1>6 DEF Joins
  <1> QED  BY <1>7, <1>8

LEMMA FlattenIs ==
    ASSUME NEW A, NEW ss \in Seq(Seq(A))
    PROVE  /\ FlattenSeq(ss) \in Seq(A)
           /\ Range(FlattenSeq(ss)) = UNION {Range(ss[i]) : i \in 1..Len(ss)}
  <1> DEFINE Good(f, n) == \A i \in 1..n : f[i] \in Seq(A) /\ Range(f[i]) = UNION {Range(ss[j]) : j \in 1..i}
  <1> DEFINE N == Len(ss)
  <1>1. N \in Nat /\ \A i \in 1..N : ss[i] \in Seq(A)
    OBVIOUS
  <1>2. CASE N = 0
    <2>1. ss = <<>> /\ FlattenSeq(ss) = ss
      BY <1>2 DEF FlattenSeq
    <2>2. Range(ss) = {} /\ ss \in Seq(A) /\ 1..N = {}
      BY <1>2, <2>1 DEF Range
    <2> QED  BY <2>1, <2>2
  <1>3. CASE N # 0
    <2>1. PICK flatten : Joins(flatten, ss) /\ FlattenSeq(ss) = flatten[N]
      BY <1>3, FlattenRecursion
    <2>2. \A i \in 1..N : flatten[i] = IF i = 1 THEN ss[i] ELSE flatten[i - 1] \o ss[i]
      BY <2>1 DEF Joins
    <2> DEFINE So(n) == n <= N => Good(flatten, n)
    <2> DEFINE G == {n \in Nat : So(n)}
    <2>3. So(0)
      OBVIOUS
    <2>4. ASSUME NEW n \in Nat, So(n) PROVE So(n + 1)
      <3> SUFFICES ASSUME n + 1 <= N PROVE Good(flatten, n + 1)
        OBVIOUS
      <3>0. n <= N
        BY <1>1
      <3>1. Good(flatten, n)
        BY <2>4, <3>0
      <3> HIDE <2>4
      <3>2. flatten[n + 1] \in Seq(A) /\ Range(flatten[n + 1]) = UNION {Range(ss[j]) : j \in 1..(n + 1)}
        <4>1. CASE n = 0
          <5>1. flatten[1] = ss[1] /\ ss[1] \in Seq(A) /\ \A j \in 1..1 : j = 1
            BY <1>1, <1>3, <2>2
          <5> QED  BY <4>1, <5>1
        <4>2. CASE n # 0
          <5>0. n + 1 \in 1..N /\ n + 1 # 1 /\ n + 1 - 1 = n /\ n \in 1..n
            BY <1>1, <4>2
          <5>1. flatten[n + 1] = flatten[n] \o ss[n + 1] /\ ss[n + 1] \in Seq(A)
            <6>1. PICK m \in 1..N : m = n + 1
              BY <5>0
            <6>2. m # 1 /\ m - 1 = n
              BY <5>0, <6>1
            <6>3. flatten[m] = flatten[m - 1] \o ss[m]
              BY <2>2, <6>2
            <6> QED  BY <1>1, <6>1, <6>2, <6>3
          <5>2. flatten[n] \in Seq(A) /\ Range(flatten[n]) = UNION {Range(ss[j]) : j \in 1..n}
            BY <3>1, <5>0
          <5>3. Range(flatten[n] \o ss[n + 1]) = Range(flatten[n]) \cup Range(ss[n + 1])
            BY <5>1, <5>2, RangeConcatenation
          <5>4. 1..(n + 1) = 1..n \cup {n + 1}
            OBVIOUS
          <5> QED  BY <5>1, <5>2, <5>3, <5>4
        <4> QED  BY <4>1, <4>2
      <3>3. \A i \in 1..(n + 1) : i \in 1..n \/ i = n + 1
        OBVIOUS
      <3> QED  BY <3>1, <3>2, <3>3
    <2>5. So(N)
      <3> HIDE DEF So
      <3>1. 0 \in G /\ \A n \in Nat : n \in G => n + 1 \in G
        BY <2>3, <2>4
      <3> HIDE DEF G
      <3>2. N \in G
        BY <1>1, <3>1, SetInduction
      <3> QED  BY <3>2 DEF G
    <2>6. N \in 1..N /\ N <= N
      BY <1>1, <1>3
    <2>7. Good(flatten, N)
      BY <2>5, <2>6
    <2> QED  BY <2>1, <2>6, <2>7
  <1> QED  BY <1>2, <1>3

\* A plan: a sequence of the calls A, each at least once.
Plan(s, A) == s \in Seq(A) /\ Range(s) = A

LEMMA PlanEmpty == Plan(<<>>, {})
  BY DEF Plan, Range

LEMMA PlanOne == ASSUME NEW c PROVE Plan(<<c>>, {c})
  <1>1. <<c>> \in Seq({c}) /\ DOMAIN <<c>> = 1..1 /\ <<c>>[1] = c /\ \A i \in 1..1 : i = 1
    OBVIOUS
  <1> QED  BY <1>1 DEF Plan, Range

LEMMA PlanJoin ==
    ASSUME NEW s, NEW t, NEW A, NEW B, Plan(s, A), Plan(t, B)
    PROVE  Plan(s \o t, A \cup B)
  <1>1. s \in Seq(A \cup B) /\ t \in Seq(A \cup B)
    <2>1. A \subseteq A \cup B /\ B \subseteq A \cup B
      OBVIOUS
    <2> QED  BY <2>1, SeqMonotonic DEF Plan
  <1>2. s \o t \in Seq(A \cup B)
    BY <1>1
  <1>3. Range(s \o t) = Range(s) \cup Range(t)
    BY <1>1, RangeConcatenation
  <1> QED  BY <1>2, <1>3 DEF Plan

LEMMA PlanSequence ==
    ASSUME NEW s, NEW A, Plan(s, A), s # <<>>
    PROVE  /\ Head(s) \in A
           /\ \E B \in SUBSET A : Plan(Tail(s), B) /\ A = {Head(s)} \cup B
  <1> DEFINE t == Tail(s)
  <1>1. /\ Head(s) \in A /\ t \in Seq(A) /\ Len(t) = Len(s) - 1 /\ Len(s) \in Nat /\ Len(s) # 0
        /\ \A i \in 1..Len(t) : t[i] = s[i + 1]
    BY HeadTailProperties DEF Plan
  <1> HIDE DEF t
  <1>2. t \in Seq(Range(t)) /\ Range(t) \subseteq A
    <2>1. DOMAIN t = 1..Len(t) /\ Len(t) \in Nat /\ \A i \in 1..Len(t) : t[i] \in A
      BY <1>1
    <2>2. t = [i \in 1..Len(t) |-> t[i]] /\ \A i \in 1..Len(t) : t[i] \in Range(t)
      BY <1>1, <2>1 DEF Range
    <2>3. t \in [1..Len(t) -> Range(t)]
      BY <2>2
    <2>4. Range(t) \subseteq A
      BY <2>1 DEF Range
    <2> QED  BY <2>1, <2>3, <2>4, SeqDef
  <1>3. \A c \in A : c = Head(s) \/ c \in Range(t)
    <2> SUFFICES ASSUME NEW c \in A, c # Head(s) PROVE c \in Range(t)
      OBVIOUS
    <2>1. PICK i \in 1..Len(s) : s[i] = c
      BY DEF Plan, Range
    <2>2. i # 1 /\ Head(s) = s[1]
      BY <1>1, <2>1 DEF Plan
    <2>3. PICK j \in 1..Len(t) : j + 1 = i
      <3>1. i - 1 \in 1..Len(t) /\ i - 1 + 1 = i
        BY <1>1, <2>2
      <3> QED  BY <3>1
    <2>4. t[j] = c /\ DOMAIN t = 1..Len(t)
      BY <1>1, <2>1, <2>3
    <2> QED  BY <2>4 DEF Range
  <1>4. A = {Head(s)} \cup Range(t)
    BY <1>1, <1>2, <1>3
  <1>5. Plan(t, Range(t))
    BY <1>2 DEF Plan
  <1> QED  BY <1>1, <1>2, <1>4, <1>5 DEF t

\* One call for each element of a set.
LEMMA PlanOrder ==
    ASSUME NEW S, IsFiniteSet(S), NEW f, NEW s, s = [i \in DOMAIN SetToSeq(S) |-> f[SetToSeq(S)[i]]]
    PROVE  Plan(s, {f[x] : x \in S})
  <1> DEFINE q == SetToSeq(S)
  <1>1. q \in Seq(S) /\ Range(q) = S
    BY SetToSeqIs
  <1>2. s = [i \in DOMAIN q |-> f[q[i]]]
    OBVIOUS
  <1> HIDE DEF q
  <1>3. DOMAIN q = 1..Len(q) /\ Len(q) \in Nat /\ \A i \in 1..Len(q) : q[i] \in S
    BY <1>1
  <1>4. s \in [1..Len(q) -> {f[x] : x \in S}]
    BY <1>2, <1>3
  <1>5. s \in Seq({f[x] : x \in S})
    BY <1>3, <1>4, SeqDef
  <1>6. \A x \in S : \E i \in 1..Len(q) : q[i] = x
    BY <1>1, <1>3 DEF Range
  <1>7. Range(s) = {f[x] : x \in S}
    <2>1. DOMAIN s = 1..Len(q) /\ \A i \in 1..Len(q) : s[i] = f[q[i]]
      BY <1>2, <1>3
    <2>2. \A x \in S : f[x] \in Range(s)
      BY <1>6, <2>1 DEF Range
    <2>3. \A c \in Range(s) : c \in {f[x] : x \in S}
      BY <1>3, <2>1 DEF Range
    <2> QED  BY <2>2, <2>3
  <1> QED  BY <1>5, <1>7 DEF Plan

\* The calls g[x], planned as f[x], for each element of a set.
LEMMA PlanConcat ==
    ASSUME NEW S, IsFiniteSet(S), NEW f, NEW g, \A x \in S : Plan(f[x], g[x]),
           NEW s, s = [i \in DOMAIN SetToSeq(S) |-> f[SetToSeq(S)[i]]]
    PROVE  Plan(FlattenSeq(s), UNION {g[x] : x \in S})
  <1> DEFINE A == UNION {g[x] : x \in S}
  <1>1. Plan(s, {f[x] : x \in S})
    BY PlanOrder
  <1>2. \A x \in S : f[x] \in Seq(A)
    <2> SUFFICES ASSUME NEW x \in S PROVE f[x] \in Seq(A)
      OBVIOUS
    <2>1. g[x] \subseteq A /\ f[x] \in Seq(g[x])
      BY DEF Plan
    <2> HIDE DEF A
    <2> QED  BY <2>1, SeqMonotonic
  <1>3. s \in Seq(Seq(A))
    <2>1. {f[x] : x \in S} \subseteq Seq(A)
      BY <1>2
    <2>2. s \in Seq({f[x] : x \in S})
      BY <1>1 DEF Plan
    <2> HIDE DEF A
    <2> QED  BY <2>1, <2>2, SeqMonotonic
  <1>4. FlattenSeq(s) \in Seq(A) /\ Range(FlattenSeq(s)) = UNION {Range(s[i]) : i \in 1..Len(s)}
    <2> HIDE DEF A
    <2> QED  BY <1>3, FlattenIs
  <1>5. {s[i] : i \in 1..Len(s)} = {f[x] : x \in S}
    <2>1. DOMAIN s = 1..Len(s)
      BY <1>3
    <2> QED  BY <1>1, <2>1 DEF Plan, Range
  <1>6. UNION {Range(s[i]) : i \in 1..Len(s)} = A
    <2>1. \A x \in S : Range(f[x]) = g[x]
      BY DEF Plan
    <2>2. \A i \in 1..Len(s) : \E x \in S : s[i] = f[x]
      BY <1>5
    <2>3. \A x \in S : \E i \in 1..Len(s) : s[i] = f[x]
      BY <1>5
    <2> QED  BY <2>1, <2>2, <2>3
  <1> QED  BY <1>4, <1>6 DEF Plan

-----------------------------------------------------------------------------
(* What comes before what in a sequence of calls.                           *)

\* What every part has and joining keeps, the whole has.
LEMMA FlattenClosed ==
    ASSUME NEW A, NEW ss \in Seq(Seq(A)), NEW C, <<>> \in C,
           \A i \in 1..Len(ss) : ss[i] \in C, \A s, t \in C : s \o t \in C
    PROVE  FlattenSeq(ss) \in C
  <1> DEFINE N == Len(ss)
  <1>1. N \in Nat
    OBVIOUS
  <1>2. CASE N = 0
    BY <1>2 DEF FlattenSeq
  <1>3. CASE N # 0
    <2>1. PICK f : Joins(f, ss) /\ FlattenSeq(ss) = f[N]
      BY <1>3, FlattenRecursion
    <2> DEFINE S == {n \in Nat : n \in 1..N => f[n] \in C}
    <2>2. 0 \in S
      OBVIOUS
    <2>3. ASSUME NEW n \in Nat, n \in S PROVE n + 1 \in S
      <3> SUFFICES ASSUME n + 1 \in 1..N PROVE f[n + 1] \in C
        OBVIOUS
      <3>1. PICK m \in 1..N : m = n + 1
        OBVIOUS
      <3>2. f[m] = IF m = 1 THEN ss[m] ELSE f[m - 1] \o ss[m]
        BY <2>1 DEF Joins
      <3>3. CASE n = 0
        BY <3>1, <3>2, <3>3
      <3>4. CASE n # 0
        <4>1. m # 1 /\ m - 1 = n /\ n \in 1..N
          BY <3>1, <3>4
        <4> QED  BY <2>3, <3>1, <3>2, <4>1
      <3> QED  BY <3>3, <3>4
    <2>4. N \in S
      <3> HIDE DEF S
      <3>1. 0 \in S /\ \A n \in Nat : n \in S => n + 1 \in S
        BY <2>2, <2>3
      <3> QED  BY <1>1, <3>1, SetInduction
    <2> QED  BY <1>1, <1>3, <2>1, <2>4
  <1> QED  BY <1>2, <1>3

\* Every c in s has a d before it.
Before(s, d, c) == \A j \in 1..Len(s) : s[j] = c => \E i \in 1..(j - 1) : s[i] = d

LEMMA BeforeAbsent ==
    ASSUME NEW A, NEW s \in Seq(A), NEW d, NEW c, c \notin Range(s)
    PROVE  Before(s, d, c)
  <1>1. DOMAIN s = 1..Len(s)
    OBVIOUS
  <1> QED  BY <1>1 DEF Before, Range

LEMMA BeforeJoin ==
    ASSUME NEW A, NEW s \in Seq(A), NEW t \in Seq(A), NEW d, NEW c,
           Before(s, d, c), Before(t, d, c) \/ d \in Range(s)
    PROVE  Before(s \o t, d, c)
  <1> DEFINE u == s \o t
  <1> DEFINE m == Len(s)
  <1> DEFINE n == Len(t)
  <1>1. /\ m \in Nat /\ n \in Nat /\ Len(u) = m + n
        /\ \A i \in 1..m : u[i] = s[i]
        /\ \A i \in 1..n : u[m + i] = t[i]
    OBVIOUS
  <1>2. DOMAIN s = 1..m
    OBVIOUS
  <1> SUFFICES ASSUME NEW j \in 1..Len(u), u[j] = c PROVE \E i \in 1..(j - 1) : u[i] = d
    BY DEF Before
  <1>3. CASE j <= m
    <2>1. j \in 1..m /\ s[j] = c
      BY <1>1, <1>3
    <2>2. PICK i \in 1..(j - 1) : s[i] = d
      BY <2>1 DEF Before
    <2>3. i \in 1..m /\ u[i] = d
      BY <1>1, <2>1, <2>2
    <2> QED  BY <2>2, <2>3
  <1>4. CASE j > m
    <2>1. PICK k \in 1..n : j = m + k
      <3>1. j - m \in 1..n /\ j = m + (j - m)
        BY <1>1, <1>4
      <3> QED  BY <3>1
    <2>2. t[k] = c
      BY <1>1, <2>1
    <2>3. CASE d \in Range(s)
      <3>1. PICK i \in 1..m : s[i] = d
        BY <1>2, <2>3 DEF Range
      <3>2. u[i] = d /\ i \in 1..(j - 1)
        BY <1>1, <1>4, <3>1
      <3> QED  BY <3>2
    <2>4. CASE Before(t, d, c)
      <3>1. PICK i \in 1..(k - 1) : t[i] = d
        BY <2>2, <2>4 DEF Before
      <3>2. PICK l \in 1..(j - 1) : l = m + i
        BY <1>1, <2>1
      <3>3. u[l] = d
        BY <1>1, <2>1, <3>1, <3>2
      <3> QED  BY <3>3
    <2> QED  BY <2>3, <2>4
  <1> QED  BY <1>1, <1>3, <1>4

\* A plan in two parts, d in the first and c not.
LEMMA BeforePlans ==
    ASSUME NEW s, NEW t, NEW A, NEW B, Plan(s, A), Plan(t, B), NEW d, NEW c, c \notin A,
           d \in A \/ c \notin B
    PROVE  Before(s \o t, d, c)
  <1>1. s \in Seq(A \cup B) /\ t \in Seq(A \cup B) /\ Range(s) = A /\ Range(t) = B
    <2>1. A \subseteq A \cup B /\ B \subseteq A \cup B
      OBVIOUS
    <2> QED  BY <2>1, SeqMonotonic DEF Plan
  <1>2. Before(s, d, c)
    BY <1>1, BeforeAbsent
  <1>3. Before(t, d, c) \/ d \in Range(s)
    BY <1>1, BeforeAbsent
  <1> PICK C : C = A \cup B
    OBVIOUS
  <1> QED  BY <1>1, <1>2, <1>3, BeforeJoin

\* One plan after the other.
LEMMA BeforeOn ==
    ASSUME NEW s, NEW t, NEW A, NEW B, Plan(s, A), Plan(t, B), NEW d, NEW c,
           Before(s, d, c), Before(t, d, c) \/ d \in A
    PROVE  Before(s \o t, d, c)
  <1>1. s \in Seq(A \cup B) /\ t \in Seq(A \cup B) /\ Range(s) = A /\ Range(t) = B
    <2>1. A \subseteq A \cup B /\ B \subseteq A \cup B
      OBVIOUS
    <2> QED  BY <2>1, SeqMonotonic DEF Plan
  <1> PICK C : C = A \cup B
    OBVIOUS
  <1> QED  BY <1>1, BeforeJoin

LEMMA BeforeTail ==
    ASSUME NEW s, NEW A, Plan(s, A), s # <<>>, NEW d, NEW c, Before(s, d, c)
    PROVE  Head(s) # c /\ (Head(s) = d \/ Before(Tail(s), d, c))
  <1> DEFINE t == Tail(s)
  <1>1. /\ Len(s) \in Nat /\ Len(s) # 0 /\ Head(s) = s[1] /\ Len(t) = Len(s) - 1
        /\ \A i \in 1..Len(t) : t[i] = s[i + 1]
    BY HeadTailProperties DEF Plan
  <1> HIDE DEF t
  <1>2. Head(s) # c
    <2> SUFFICES ASSUME Head(s) = c PROVE FALSE
      OBVIOUS
    <2>1. 1 \in 1..Len(s) /\ s[1] = c
      BY <1>1
    <2>2. \E i \in 1..(1 - 1) : s[i] = d
      BY <2>1 DEF Before
    <2> QED  BY <2>2
  <1>3. ASSUME Head(s) # d PROVE Before(t, d, c)
    <2> SUFFICES ASSUME NEW j \in 1..Len(t), t[j] = c PROVE \E i \in 1..(j - 1) : t[i] = d
      BY DEF Before
    <2>1. PICK k \in 1..Len(s) : k = j + 1
      BY <1>1
    <2>2. s[k] = c
      BY <1>1, <2>1
    <2>3. PICK i \in 1..(k - 1) : s[i] = d
      BY <2>2 DEF Before
    <2>4. i # 1
      BY <1>1, <1>3, <2>3
    <2>5. PICK l \in 1..(j - 1) : l + 1 = i
      <3>1. i - 1 \in 1..(j - 1) /\ i - 1 + 1 = i
        BY <1>1, <2>1, <2>4
      <3> QED  BY <3>1
    <2>6. t[l] = d
      BY <1>1, <2>1, <2>3, <2>5
    <2> QED  BY <2>6
  <1> QED  BY <1>2, <1>3 DEF t

\* In the calls g[x], planned as f[x] for each element of a set.
LEMMA BeforeConcat ==
    ASSUME NEW S, IsFiniteSet(S), NEW f, NEW g, \A x \in S : Plan(f[x], g[x]),
           NEW s, s = [i \in DOMAIN SetToSeq(S) |-> f[SetToSeq(S)[i]]],
           NEW d, NEW c, \A x \in S : Before(f[x], d, c)
    PROVE  Before(FlattenSeq(s), d, c)
  <1> DEFINE A == UNION {g[x] : x \in S}
  <1>1. Plan(s, {f[x] : x \in S})
    BY PlanOrder
  <1>2. \A x \in S : f[x] \in Seq(A)
    <2> SUFFICES ASSUME NEW x \in S PROVE f[x] \in Seq(A)
      OBVIOUS
    <2>1. g[x] \subseteq A /\ f[x] \in Seq(g[x])
      BY DEF Plan
    <2> HIDE DEF A
    <2> QED  BY <2>1, SeqMonotonic
  <1> HIDE DEF A
  <1>3. s \in Seq(Seq(A))
    <2>1. {f[x] : x \in S} \subseteq Seq(A)
      BY <1>2
    <2>2. s \in Seq({f[x] : x \in S})
      BY <1>1 DEF Plan
    <2> QED  BY <2>1, <2>2, SeqMonotonic
  <1> DEFINE C == {t \in Seq(A) : Before(t, d, c)}
  <1>4. <<>> \in C
    BY DEF Before
  <1>5. \A i \in 1..Len(s) : s[i] \in C
    <2>1. DOMAIN s = 1..Len(s)
      BY <1>3
    <2>2. \A i \in 1..Len(s) : s[i] \in {f[x] : x \in S}
      BY <1>1, <2>1 DEF Plan, Range
    <2> QED  BY <1>2, <2>2
  <1>6. \A t, u \in C : t \o u \in C
    <2> SUFFICES ASSUME NEW t \in C, NEW u \in C PROVE t \o u \in C
      OBVIOUS
    <2>1. t \in Seq(A) /\ u \in Seq(A) /\ Before(t, d, c) /\ Before(u, d, c)
      OBVIOUS
    <2>2. t \o u \in Seq(A)
      BY <2>1
    <2> QED  BY <2>1, <2>2, BeforeJoin
  <1> HIDE DEF C
  <1>7. FlattenSeq(s) \in C
    BY <1>3, <1>4, <1>5, <1>6, FlattenClosed
  <1> QED  BY <1>7 DEF C

\* An image of a finite set.
LEMMA FiniteImage ==
    ASSUME NEW S, IsFiniteSet(S), NEW f
    PROVE  IsFiniteSet({f[x] : x \in S})
  <1> DEFINE T == {f[x] : x \in S}
  <1> DEFINE g == [x \in S |-> f[x]]
  <1>1. g \in Surjection(S, T)
    BY DEF Surjection
  <1> HIDE DEF T, g
  <1>2. IsFiniteSet(T)
    BY <1>1, FS_Surjection
  <1> QED  BY <1>2 DEF T

-----------------------------------------------------------------------------
(* The calls of each stage.                                                 *)

LEMMA UnrouteOrder ==
    ASSUME NEW S, IsFiniteSet(S), NEW t
    PROVE  Plan(InOrder(S, LAMBDA x : Unroute(t, x)), {Unroute(t, x) : x \in S})
  <1> DEFINE f == [x \in S |-> Unroute(t, x)]
  <1> DEFINE q == SetToSeq(S)
  <1> DEFINE s == InOrder(S, LAMBDA x : Unroute(t, x))
  <1>1. \A i \in DOMAIN q : q[i] \in S
    BY SetToSeqIs DEF Range
  <1>2. s = [i \in DOMAIN q |-> f[q[i]]]
    BY <1>1 DEF InOrder
  <1>3. {f[x] : x \in S} = {Unroute(t, x) : x \in S}
    OBVIOUS
  <1> HIDE DEF f, s
  <1>4. Plan(s, {f[x] : x \in S})
    BY <1>2, PlanOrder
  <1> QED  BY <1>3, <1>4 DEF s

LEMMA UnsteerOrder ==
    ASSUME NEW S, IsFiniteSet(S)
    PROVE  Plan(InOrder(S, Unsteer), {Unsteer(x) : x \in S})
  <1> DEFINE f == [x \in S |-> Unsteer(x)]
  <1> DEFINE q == SetToSeq(S)
  <1> DEFINE s == InOrder(S, Unsteer)
  <1>1. \A i \in DOMAIN q : q[i] \in S
    BY SetToSeqIs DEF Range
  <1>2. s = [i \in DOMAIN q |-> f[q[i]]]
    BY <1>1 DEF InOrder
  <1>3. {f[x] : x \in S} = {Unsteer(x) : x \in S}
    OBVIOUS
  <1> HIDE DEF f, s
  <1>4. Plan(s, {f[x] : x \in S})
    BY <1>2, PlanOrder
  <1> QED  BY <1>3, <1>4 DEF s

LEMMA SteerOrder ==
    ASSUME NEW S, IsFiniteSet(S)
    PROVE  Plan(InOrder(S, Steer), {Steer(x) : x \in S})
  <1> DEFINE f == [x \in S |-> Steer(x)]
  <1> DEFINE q == SetToSeq(S)
  <1> DEFINE s == InOrder(S, Steer)
  <1>1. \A i \in DOMAIN q : q[i] \in S
    BY SetToSeqIs DEF Range
  <1>2. s = [i \in DOMAIN q |-> f[q[i]]]
    BY <1>1 DEF InOrder
  <1>3. {f[x] : x \in S} = {Steer(x) : x \in S}
    OBVIOUS
  <1> HIDE DEF f, s
  <1>4. Plan(s, {f[x] : x \in S})
    BY <1>2, PlanOrder
  <1> QED  BY <1>3, <1>4 DEF s

LEMMA SidRuleOrder ==
    ASSUME NEW S, IsFiniteSet(S)
    PROVE  Plan(InOrder(S, SidRule), {SidRule(x) : x \in S})
  <1> DEFINE f == [x \in S |-> SidRule(x)]
  <1> DEFINE q == SetToSeq(S)
  <1> DEFINE s == InOrder(S, SidRule)
  <1>1. \A i \in DOMAIN q : q[i] \in S
    BY SetToSeqIs DEF Range
  <1>2. s = [i \in DOMAIN q |-> f[q[i]]]
    BY <1>1 DEF InOrder
  <1>3. {f[x] : x \in S} = {SidRule(x) : x \in S}
    OBVIOUS
  <1> HIDE DEF f, s
  <1>4. Plan(s, {f[x] : x \in S})
    BY <1>2, PlanOrder
  <1> QED  BY <1>3, <1>4 DEF s

LEMMA DeleteSidRuleOrder ==
    ASSUME NEW S, IsFiniteSet(S)
    PROVE  Plan(InOrder(S, DeleteSidRule), {DeleteSidRule(x) : x \in S})
  <1> DEFINE f == [x \in S |-> DeleteSidRule(x)]
  <1> DEFINE q == SetToSeq(S)
  <1> DEFINE s == InOrder(S, DeleteSidRule)
  <1>1. \A i \in DOMAIN q : q[i] \in S
    BY SetToSeqIs DEF Range
  <1>2. s = [i \in DOMAIN q |-> f[q[i]]]
    BY <1>1 DEF InOrder
  <1>3. {f[x] : x \in S} = {DeleteSidRule(x) : x \in S}
    OBVIOUS
  <1> HIDE DEF f, s
  <1>4. Plan(s, {f[x] : x \in S})
    BY <1>2, PlanOrder
  <1> QED  BY <1>3, <1>4 DEF s

\* _release_steer_table: the rules, then the table.
ReleaseCalls(t) == {Unsteer(r) : r \in TableRules(t)} \cup {FlushTable(t)}

LEMMA ReleasePlan ==
    ASSUME IsFiniteSet(kern.steerRules), NEW t
    PROVE  Plan(Release(t), ReleaseCalls(t))
  <1>1. IsFiniteSet(TableRules(t))
    BY FS_Subset DEF TableRules
  <1>2. Plan(InOrder(TableRules(t), Unsteer), {Unsteer(r) : r \in TableRules(t)})
    BY <1>1, UnsteerOrder
  <1>3. Plan(<<FlushTable(t)>>, {FlushTable(t)})
    BY PlanOne
  <1> DEFINE s == InOrder(TableRules(t), Unsteer)
  <1> DEFINE A == {Unsteer(r) : r \in TableRules(t)}
  <1>4. Plan(s, A)
    BY <1>2
  <1>5. Release(t) = s \o <<FlushTable(t)>> /\ ReleaseCalls(t) = A \cup {FlushTable(t)}
    BY DEF Release, ReleaseCalls
  <1> HIDE DEF s, A
  <1>6. Plan(s \o <<FlushTable(t)>>, A \cup {FlushTable(t)})
    BY <1>3, <1>4, PlanJoin
  <1> QED  BY <1>5, <1>6

LEMMA ReleaseAllPlan ==
    ASSUME IsFiniteSet(kern.steerRules), NEW S, IsFiniteSet(S)
    PROVE  Plan(Concat(S, Release), UNION {ReleaseCalls(t) : t \in S})
  <1> DEFINE f == [t \in S |-> Release(t)]
  <1> DEFINE g == [t \in S |-> ReleaseCalls(t)]
  <1> DEFINE q == SetToSeq(S)
  <1> DEFINE s == InOrder(S, Release)
  <1>1. \A i \in DOMAIN q : q[i] \in S
    BY SetToSeqIs DEF Range
  <1>2. s = [i \in DOMAIN q |-> f[q[i]]]
    BY <1>1 DEF InOrder
  <1>3. {g[t] : t \in S} = {ReleaseCalls(t) : t \in S}
    OBVIOUS
  <1>4. \A t \in S : Plan(f[t], g[t])
    BY ReleasePlan
  <1>5. Concat(S, Release) = FlattenSeq(s)
    BY DEF Concat
  <1> HIDE DEF f, g, s
  <1>6. Plan(FlattenSeq(s), UNION {g[t] : t \in S})
    BY <1>2, <1>4, PlanConcat
  <1> QED  BY <1>3, <1>5, <1>6

InstallCalls(p, x) ==
    LET e == EncapOf(p, x)
    IN  (IF e.rule # None THEN {SidRule(e.rule)} ELSE {})
            \cup (IF e.dev THEN {Route(Vrf, x, e.segs)} ELSE {})

\* The calls for one address: the rule, then the route.
InstallPart(p, x) ==
    LET e == EncapOf(p, x)
    IN  (IF e.rule # None THEN <<SidRule(e.rule)>> ELSE <<>>)
            \o (IF e.dev THEN <<Route(Vrf, x, e.segs)>> ELSE <<>>)

LEMMA InstallPartIs ==
    ASSUME NEW p, NEW x
    PROVE  /\ Plan(InstallPart(p, x), InstallCalls(p, x))
           /\ Open(EncapOf(p, x)) =>
                  Before(InstallPart(p, x), SidRule(EncapOf(p, x).rule), Route(Vrf, x, EncapOf(p, x).segs))
  <1> DEFINE e == EncapOf(p, x)
  <1> DEFINE s == IF e.rule # None THEN <<SidRule(e.rule)>> ELSE <<>>
  <1> DEFINE t == IF e.dev THEN <<Route(Vrf, x, e.segs)>> ELSE <<>>
  <1> DEFINE A == IF e.rule # None THEN {SidRule(e.rule)} ELSE {}
  <1> DEFINE B == IF e.dev THEN {Route(Vrf, x, e.segs)} ELSE {}
  <1>1. Plan(s, A) /\ Plan(t, B)
    BY PlanOne, PlanEmpty
  <1>2. InstallPart(p, x) = s \o t /\ InstallCalls(p, x) = A \cup B
    BY DEF InstallPart, InstallCalls
  <1>3. Route(Vrf, x, e.segs) \notin A
    BY DEF Route, SidRule
  <1>4. Open(e) => SidRule(e.rule) \in A
    BY DEF Open
  <1> HIDE DEF s, t, A, B
  <1>5. Plan(s \o t, A \cup B)
    BY <1>1, PlanJoin
  <1>6. Open(e) => Before(s \o t, SidRule(e.rule), Route(Vrf, x, e.segs))
    BY <1>1, <1>3, <1>4, BeforePlans
  <1> QED  BY <1>2, <1>5, <1>6

LEMMA InstallIs ==
    ASSUME NEW p, IsFiniteSet(Remote(p)), NEW q, q = SetToSeq(Remote(p)),
           NEW f, f = [x \in Remote(p) |-> InstallPart(p, x)]
    PROVE  InstallRoutes(p) = FlattenSeq([i \in DOMAIN q |-> f[q[i]]])
  <1> DEFINE S == Remote(p)
  <1>1. \A i \in DOMAIN q : q[i] \in S
    <2> HIDE DEF S
    <2> QED  BY SetToSeqIs DEF S, Range
  <1>2. InstallRoutes(p) = FlattenSeq([i \in DOMAIN q |-> InstallPart(p, q[i])])
    BY DEF InstallRoutes, Concat, InOrder, InstallPart
  <1>3. [i \in DOMAIN q |-> InstallPart(p, q[i])] = [i \in DOMAIN q |-> f[q[i]]]
    <2> HIDE DEF S
    <2> QED  BY <1>1 DEF S
  <1> QED  BY <1>2, <1>3

LEMMA InstallPlan ==
    ASSUME NEW p, IsFiniteSet(Remote(p))
    PROVE  Plan(InstallRoutes(p), UNION {InstallCalls(p, x) : x \in Remote(p)})
  <1> DEFINE S == Remote(p)
  <1> DEFINE f == [x \in S |-> InstallPart(p, x)]
  <1> DEFINE g == [x \in S |-> InstallCalls(p, x)]
  <1> DEFINE q == SetToSeq(S)
  <1> DEFINE s == [i \in DOMAIN q |-> f[q[i]]]
  <1>1. \A x \in S : Plan(f[x], g[x])
    BY InstallPartIs
  <1>2. InstallRoutes(p) = FlattenSeq(s)
    BY InstallIs
  <1>3. {g[x] : x \in S} = {InstallCalls(p, x) : x \in S}
    OBVIOUS
  <1>4. s = [i \in DOMAIN SetToSeq(S) |-> f[SetToSeq(S)[i]]]
    OBVIOUS
  <1>5. IsFiniteSet(S)
    OBVIOUS
  <1> HIDE DEF f, g, s, S
  <1>6. Plan(FlattenSeq(s), UNION {g[x] : x \in S})
    BY <1>1, <1>4, <1>5, PlanConcat
  <1> QED  BY <1>2, <1>3, <1>6 DEF S

-----------------------------------------------------------------------------
(* Which table serves which VM.                                             *)

LEMMA LowestIs ==
    ASSUME NEW S \in SUBSET Nat, S # {}
    PROVE  Lowest(S) \in S
  <1> DEFINE Less == OpToRel(<, Nat)
  <1>1. IsWellFoundedOn(Less, Nat)
    BY NatLessThanWellFounded
  <1>2. \A x, y \in Nat : y < x => <<y, x>> \in Less
    BY DEF OpToRel
  <1> HIDE DEF Less
  <1>3. PICK x \in S : \A y \in S : ~(<<y, x>> \in Less)
    BY <1>1, WFMin
  <1>4. \A y \in S : y \in Nat /\ x \in Nat /\ ~(y < x)
    BY <1>2, <1>3
  <1>5. \A y \in S : x <= y
    BY <1>4
  <1> QED  BY <1>3, <1>5 DEF Lowest

\* What every round of the claims keeps: one table per VM, never another
\* domain's, and the tables left are neither claimed nor in use.
ClaimsSound(acc, D) ==
    /\ DOMAIN acc.claimed \subseteq D
    /\ \A vm \in DOMAIN acc.claimed : acc.claimed[vm] \in Tables \ Foreign
    /\ \A vm, vn \in DOMAIN acc.claimed : acc.claimed[vm] = acc.claimed[vn] => vm = vn
    /\ acc.free \subseteq Free
    /\ \A vm \in DOMAIN acc.claimed : acc.claimed[vm] \notin acc.free

LEMMA ClaimKeeps ==
    ASSUME NEW p, NEW D, NEW acc, NEW vm \in D,
           Mine \subseteq Tables \ Foreign, ClaimsSound(acc, D)
    PROVE  ClaimsSound(Claim(p, acc, vm), D)
  <1> DEFINE own == OwnTables(p, vm, acc.claimed)
  <1> DEFINE from == IF own # {} THEN own ELSE acc.free
  <1> DEFINE t == Lowest(from)
  <1> DEFINE new == [u \in DOMAIN acc.claimed \cup {vm} |-> IF u = vm THEN t ELSE acc.claimed[u]]
  <1>1. CASE from = {}
    <2>1. Claim(p, acc, vm) = acc
      BY <1>1 DEF Claim
    <2> QED  BY <2>1
  <1>2. CASE from # {}
    <2>1. Claim(p, acc, vm) = [claimed |-> new, free |-> acc.free \ {t}]
      BY <1>2 DEF Claim
    <2>2. from \subseteq Tables \ Foreign /\ \A vn \in DOMAIN acc.claimed : acc.claimed[vn] \notin from
      <3>1. CASE own # {}
        BY <3>1 DEF OwnTables, Range
      <3>2. CASE own = {}
        BY <3>2 DEF ClaimsSound, Free
      <3> QED  BY <3>1, <3>2
    <2>3. from \in SUBSET Nat
      BY <2>2, NodeRoutesAssumption
    <2>4. t \in from
      <3> HIDE DEF from
      <3> QED  BY <1>2, <2>3, LowestIs
    <2>5. /\ DOMAIN new = DOMAIN acc.claimed \cup {vm}
          /\ \A vn \in DOMAIN new : vn # vm => vn \in DOMAIN acc.claimed /\ new[vn] = acc.claimed[vn]
          /\ new[vm] = t
      <3> HIDE DEF t
      <3> QED  OBVIOUS
    <2> DEFINE r == [claimed |-> new, free |-> acc.free \ {t}]
    <2>6. r.claimed = new /\ r.free = acc.free \ {t}
      OBVIOUS
    <2> HIDE DEF r, new, t, from, own
    <2>7. ClaimsSound(r, D)
      BY <2>2, <2>4, <2>5, <2>6 DEF ClaimsSound
    <2> QED  BY <2>1, <2>7 DEF r
  <1> QED  BY <1>1, <1>2

ClaimedSound(p) ==
    /\ DOMAIN Claimed(p) \subseteq Desired(p)
    /\ \A vm \in DOMAIN Claimed(p) : Claimed(p)[vm] \in Tables \ Foreign
    /\ \A vm, vn \in DOMAIN Claimed(p) : Claimed(p)[vm] = Claimed(p)[vn] => vm = vn

\* By induction on the VMs: _steer_tables gives each one a table of its own.
LEMMA ClaimsAreSound ==
    ASSUME NEW p, IsFiniteSet(Desired(p)), Mine \subseteq Tables \ Foreign
    PROVE  ClaimedSound(p)
  <1> DEFINE vms == SetToSeq(Desired(p))
  <1> DEFINE N == Len(vms)
  <1> DEFINE base == [claimed |-> <<>>, free |-> Free]
  <1> DEFINE Recurs(f, n) == f = [i \in 0..n |-> IF i = 0 THEN base ELSE Claim(p, f[i - 1], vms[i])]
  <1>1. N \in Nat /\ \A i \in 1..N : vms[i] \in Desired(p)
    BY SetToSeqIs
  <1> DEFINE acc == CHOOSE f : Recurs(f, N)
  <1>2. Claimed(p) = acc[N].claimed
    BY DEF Claimed
  <1> HIDE DEF vms, base
  <1> DEFINE Exists(n) == \E f : Recurs(f, n)
  <1> DEFINE S == {n \in Nat : Exists(n)}
  <1>3. Exists(0)
    <2> DEFINE f == [i \in 0..0 |-> base]
    <2>1. \A i \in 0..0 : i = 0 /\ f[i] = base
      OBVIOUS
    <2>2. f = [i \in 0..0 |-> IF i = 0 THEN base ELSE Claim(p, f[i - 1], vms[i])]
      BY <2>1
    <2> HIDE DEF f
    <2>3. Recurs(f, 0)
      BY <2>2
    <2> QED  BY <2>3
  <1>4. ASSUME NEW n \in Nat, Exists(n) PROVE Exists(n + 1)
    <2>1. PICK f : Recurs(f, n)
      BY <1>4
    <2> HIDE <1>4
    <2> DEFINE g == [i \in 0..(n + 1) |-> IF i = n + 1 THEN Claim(p, f[n], vms[n + 1]) ELSE f[i]]
    <2>2. \A i \in 0..n : f[i] = IF i = 0 THEN base ELSE Claim(p, f[i - 1], vms[i])
      BY <2>1
    <2>3. \A i \in 0..(n + 1) : g[i] = IF i = 0 THEN base ELSE Claim(p, g[i - 1], vms[i])
      <3> SUFFICES ASSUME NEW i \in 0..(n + 1)
                   PROVE  g[i] = IF i = 0 THEN base ELSE Claim(p, g[i - 1], vms[i])
        OBVIOUS
      <3>1. CASE i = n + 1
        <4>1. i # 0 /\ i - 1 \in 0..(n + 1) /\ i - 1 # n + 1 /\ i - 1 = n
          BY <3>1
        <4>2. g[i - 1] = f[n] /\ g[i] = Claim(p, f[n], vms[n + 1])
          BY <3>1, <4>1
        <4> QED  BY <3>1, <4>1, <4>2
      <3>2. CASE i # n + 1
        <4>1. i \in 0..n /\ g[i] = f[i]
          BY <3>2
        <4>2. i # 0 => i - 1 \in 0..(n + 1) /\ i - 1 # n + 1 /\ g[i - 1] = f[i - 1]
          BY <4>1
        <4> QED  BY <2>2, <4>1, <4>2
      <3> QED  BY <3>1, <3>2
    <2>4. g = [i \in 0..(n + 1) |-> g[i]]
      OBVIOUS
    <2> HIDE DEF g
    <2>5. Recurs(g, n + 1)
      BY <2>3, <2>4
    <2> QED  BY <2>5
  <1>5. Exists(N)
    <2> HIDE DEF Exists
    <2>1. 0 \in S /\ \A n \in Nat : n \in S => n + 1 \in S
      BY <1>3, <1>4
    <2> HIDE DEF S
    <2>2. N \in S
      BY <1>1, <2>1, SetInduction
    <2> QED  BY <2>2 DEF S
  <1>6. Recurs(acc, N)
    BY <1>5
  <1> HIDE DEF acc
  <1>7. \A i \in 0..N : acc[i] = IF i = 0 THEN base ELSE Claim(p, acc[i - 1], vms[i])
    BY <1>6
  <1> DEFINE So(n) == n <= N => ClaimsSound(acc[n], Desired(p))
  <1> DEFINE G == {n \in Nat : So(n)}
  <1>8. So(0)
    <2>1. acc[0] = base
      BY <1>1, <1>7
    <2>2. base.claimed = <<>> /\ base.free = Free /\ DOMAIN base.claimed = {}
      BY DEF base
    <2> QED  BY <2>1, <2>2 DEF ClaimsSound
  <1>9. ASSUME NEW n \in Nat, So(n) PROVE So(n + 1)
    <2> SUFFICES ASSUME n + 1 <= N PROVE ClaimsSound(acc[n + 1], Desired(p))
      OBVIOUS
    <2>1. n <= N
      BY <1>1
    <2>2. ClaimsSound(acc[n], Desired(p))
      BY <1>9, <2>1
    <2>3. PICK m \in 1..N : m = n + 1
      BY <1>1
    <2>4. m \in 0..N /\ m # 0 /\ m - 1 = n
      BY <1>1, <2>3
    <2>5. acc[m] = Claim(p, acc[m - 1], vms[m])
      BY <1>7, <2>4
    <2>6. vms[m] \in Desired(p)
      BY <1>1
    <2> DEFINE prior == acc[n]
    <2> DEFINE vm == vms[m]
    <2>7. ClaimsSound(prior, Desired(p)) /\ vm \in Desired(p)
      BY <2>2, <2>6
    <2> HIDE DEF prior, vm, So
    <2>8. ClaimsSound(Claim(p, prior, vm), Desired(p))
      BY <2>7, ClaimKeeps
    <2> QED  BY <2>3, <2>4, <2>5, <2>8 DEF prior, vm
  <1>10. So(N)
    <2> HIDE DEF So
    <2>1. 0 \in G /\ \A n \in Nat : n \in G => n + 1 \in G
      BY <1>8, <1>9
    <2> HIDE DEF G
    <2>2. N \in G
      BY <1>1, <2>1, SetInduction
    <2> QED  BY <2>2 DEF G
  <1>11. ClaimsSound(acc[N], Desired(p))
    <2>1. N <= N
      BY <1>1
    <2> QED  BY <1>10, <2>1
  <1> QED  BY <1>2, <1>11 DEF ClaimsSound, ClaimedSound

\* What makes a stage's plan a plan: a finite number of things to do.
Finite(p) ==
    /\ PayloadTyped(p)
    /\ IsFiniteSet(kern.steerRules) /\ IsFiniteSet(kern.sidRules)
    /\ Mine \subseteq Tables \ Foreign

Ready(p, vm) == {x \in SteeredOf(p, vm) : SteerEncap(p, vm, x).dev}
Want(p, vm, t) == [from : p.steer[vm].from, iif : {gateway}, table : {t}]
SteerRulesOf(p, vm) == RulesOf({SteerEncap(p, vm, x) : x \in SteeredOf(p, vm)})

\* What SteerVm does for the kept, and what for the pruned.
SteerKept(p, vm, t) ==
    {Route(t, x, SteerEncap(p, vm, x).segs) : x \in Ready(p, vm)}
        \cup {SidRule(s) : s \in SteerRulesOf(p, vm)}
        \cup {Steer(r) : r \in Want(p, vm, t) \ TableRules(t)}
SteerPruned(p, vm, t) ==
    {Unsteer(r) : r \in TableRules(t) \ Want(p, vm, t)}
        \cup {Unroute(t, x) : x \in Held(kern, t) \ Ready(p, vm)}
SteerCalls(p, vm, t, prune) ==
    SteerKept(p, vm, t) \cup (IF prune THEN SteerPruned(p, vm, t) ELSE {})

LEMMA SmallSets ==
    ASSUME NEW p, Finite(p)
    PROVE  /\ IsFiniteSet(Remote(p)) /\ IsFiniteSet(Desired(p)) /\ IsFiniteSet(Mine)
           /\ \A t : IsFiniteSet(Held(kern, t)) /\ IsFiniteSet(TableRules(t))
           /\ \A vm \in Desired(p) :
                  /\ IsFiniteSet(SteeredOf(p, vm)) /\ IsFiniteSet(Ready(p, vm))
                  /\ IsFiniteSet(SteerRulesOf(p, vm))
                  /\ \A t : IsFiniteSet(Want(p, vm, t))
  <1>1. IsFiniteSet(Dests) /\ IsFiniteSet(Vms)
    BY NodeRoutesAssumption
  <1>2. Remote(p) \subseteq Dests /\ Desired(p) \subseteq Vms
    BY DEF Finite, PayloadTyped, Remote, Desired
  <1>3. IsFiniteSet(Mine)
    <2> DEFINE f == [r \in kern.steerRules |-> r.table]
    <2>1. {f[r] : r \in kern.steerRules} = Mine
      BY DEF Mine
    <2> HIDE DEF f
    <2> QED  BY <2>1, FiniteImage DEF Finite
  <1>4. \A t : Held(kern, t) \subseteq Dests /\ TableRules(t) \subseteq kern.steerRules
    BY DEF Held, TableRules
  <1>5. ASSUME NEW vm \in Desired(p)
        PROVE  /\ IsFiniteSet(SteeredOf(p, vm)) /\ IsFiniteSet(Ready(p, vm))
               /\ IsFiniteSet(SteerRulesOf(p, vm))
               /\ \A t : IsFiniteSet(Want(p, vm, t))
    <2>1. vm \in DOMAIN p.steer
      BY DEF Desired
    <2>2. SteeredOf(p, vm) \subseteq Dests /\ Ready(p, vm) \subseteq SteeredOf(p, vm)
      BY <2>1 DEF Finite, PayloadTyped, SteeredOf, Ready
    <2>3. IsFiniteSet(SteeredOf(p, vm)) /\ IsFiniteSet(Ready(p, vm))
      BY <1>1, <2>2, FS_Subset
    <2>4. IsFiniteSet(SteerRulesOf(p, vm))
      <3> DEFINE S == SteeredOf(p, vm)
      <3> DEFINE f == [x \in S |-> SteerEncap(p, vm, x).rule]
      <3>1. SteerRulesOf(p, vm) \subseteq {f[x] : x \in S}
        BY DEF SteerRulesOf, RulesOf
      <3> HIDE DEF f, S
      <3>2. IsFiniteSet({f[x] : x \in S})
        BY <2>3, FiniteImage DEF S
      <3> QED  BY <3>1, <3>2, FS_Subset
    <2>5. ASSUME NEW t PROVE IsFiniteSet(Want(p, vm, t))
      <3> DEFINE S == p.steer[vm].from
      <3> DEFINE f == [a \in S |-> [from |-> a, iif |-> gateway, table |-> t]]
      <3>1. Want(p, vm, t) = {f[a] : a \in S}
        <4>1. \A a \in S : f[a] \in Want(p, vm, t)
          BY DEF Want
        <4>2. \A r \in Want(p, vm, t) : r.from \in S /\ r = f[r.from]
          BY DEF Want
        <4> QED  BY <4>1, <4>2
      <3>2. IsFiniteSet(S)
        BY <2>1 DEF Finite, PayloadTyped
      <3> HIDE DEF f, S
      <3> QED  BY <3>1, <3>2, FiniteImage
    <2> QED  BY <2>3, <2>4, <2>5
  <1>6. IsFiniteSet(Remote(p)) /\ IsFiniteSet(Desired(p))
    BY <1>1, <1>2, FS_Subset
  <1>7. \A t : IsFiniteSet(Held(kern, t)) /\ IsFiniteSet(TableRules(t))
    BY <1>1, <1>4, FS_Subset DEF Finite
  <1> QED  BY <1>3, <1>5, <1>6, <1>7

\* What is done for a VM's table before its rules lead there.
SteerFill(p, vm, t, prune) ==
    ({Route(t, x, SteerEncap(p, vm, x).segs) : x \in Ready(p, vm)}
        \cup {SidRule(s) : s \in SteerRulesOf(p, vm)})
        \cup (IF prune THEN SteerPruned(p, vm, t) ELSE {})
SteerLast(p, vm, t) == {Steer(r) : r \in Want(p, vm, t) \ TableRules(t)}

LEMMA SteerVmParts ==
    ASSUME NEW p, Finite(p), NEW vm \in Desired(p), NEW t, NEW prune \in BOOLEAN
    PROVE  \E s, u : /\ SteerVm(p, vm, t, prune) = s \o u
                     /\ Plan(s, SteerFill(p, vm, t, prune)) /\ Plan(u, SteerLast(p, vm, t))
  <1> DEFINE to == SteeredOf(p, vm)
  <1> DEFINE ready == Ready(p, vm)
  <1> DEFINE want == Want(p, vm, t)
  <1> DEFINE have == TableRules(t)
  <1> DEFINE rules == SteerRulesOf(p, vm)
  <1> DEFINE s1 == InOrder(ready, LAMBDA x : Route(t, x, SteerEncap(p, vm, x).segs))
  <1> DEFINE s2 == InOrder(rules, SidRule)
  <1> DEFINE s3 == InOrder(have \ want, Unsteer)
  <1> DEFINE s4 == InOrder(Held(kern, t) \ ready, LAMBDA x : Unroute(t, x))
  <1> DEFINE s5 == InOrder(want \ have, Steer)
  <1> DEFINE A1 == {Route(t, x, SteerEncap(p, vm, x).segs) : x \in ready}
  <1> DEFINE A2 == {SidRule(r) : r \in rules}
  <1> DEFINE A3 == {Unsteer(r) : r \in have \ want}
  <1> DEFINE A4 == {Unroute(t, x) : x \in Held(kern, t) \ ready}
  <1> DEFINE A5 == {Steer(r) : r \in want \ have}
  <1>0. SteerVm(p, vm, t, prune) = s1 \o s2 \o (IF prune THEN s3 \o s4 ELSE <<>>) \o s5
    BY DEF SteerVm, Ready, Want, SteerRulesOf
  <1>1. /\ IsFiniteSet(ready) /\ IsFiniteSet(rules) /\ IsFiniteSet(have \ want)
        /\ IsFiniteSet(Held(kern, t) \ ready) /\ IsFiniteSet(want \ have)
    <2>1. IsFiniteSet(ready) /\ IsFiniteSet(rules) /\ IsFiniteSet(have) /\ IsFiniteSet(want)
              /\ IsFiniteSet(Held(kern, t))
      BY SmallSets
    <2> HIDE DEF ready, rules, have, want
    <2> QED  BY <2>1, FS_Subset
  <1>2. Plan(s1, A1)
    <2> DEFINE f == [x \in ready |-> Route(t, x, SteerEncap(p, vm, x).segs)]
    <2> DEFINE q == SetToSeq(ready)
    <2> HIDE DEF ready
    <2>1. \A i \in DOMAIN q : q[i] \in ready
      BY <1>1, SetToSeqIs DEF Range
    <2>2. s1 = [i \in DOMAIN q |-> f[q[i]]]
      BY <2>1 DEF InOrder
    <2>3. A1 = {f[x] : x \in ready}
      OBVIOUS
    <2> HIDE DEF f, s1, A1
    <2>4. Plan(s1, {f[x] : x \in ready})
      BY <1>1, <2>2, PlanOrder
    <2> QED  BY <2>3, <2>4
  <1>3. Plan(s2, A2)
    <2> HIDE DEF rules
    <2> QED  BY <1>1, SidRuleOrder
  <1>4. Plan(s3, A3)
    <2> HIDE DEF have, want
    <2> QED  BY <1>1, UnsteerOrder
  <1>5. Plan(s4, A4)
    <2> HIDE DEF ready
    <2> QED  BY <1>1, UnrouteOrder
  <1>6. Plan(s5, A5)
    <2> HIDE DEF have, want
    <2> QED  BY <1>1, SteerOrder
  <1> DEFINE s6 == IF prune THEN s3 \o s4 ELSE <<>>
  <1> DEFINE A6 == IF prune THEN A3 \cup A4 ELSE {}
  <1>7. Plan(s6, A6)
    <2> HIDE DEF s3, s4, A3, A4
    <2> QED  BY <1>4, <1>5, PlanJoin, PlanEmpty
  <1>8. SteerFill(p, vm, t, prune) = (A1 \cup A2) \cup A6 /\ SteerLast(p, vm, t) = A5
    BY DEF SteerFill, SteerLast, SteerPruned
  <1>9. SteerVm(p, vm, t, prune) = s1 \o s2 \o s6 \o s5
    BY <1>0
  <1> HIDE DEF s1, s2, s5, s6, A1, A2, A5, A6
  <1>10. Plan(s1 \o s2, A1 \cup A2)
    BY <1>2, <1>3, PlanJoin
  <1>11. Plan(s1 \o s2 \o s6, (A1 \cup A2) \cup A6)
    BY <1>7, <1>10, PlanJoin
  <1> QED  BY <1>6, <1>8, <1>9, <1>11

LEMMA SteerVmPlan ==
    ASSUME NEW p, Finite(p), NEW vm \in Desired(p), NEW t, NEW prune \in BOOLEAN
    PROVE  Plan(SteerVm(p, vm, t, prune), SteerCalls(p, vm, t, prune))
  <1>1. PICK s, u : /\ SteerVm(p, vm, t, prune) = s \o u
                    /\ Plan(s, SteerFill(p, vm, t, prune)) /\ Plan(u, SteerLast(p, vm, t))
    BY SteerVmParts
  <1>2. SteerCalls(p, vm, t, prune) = SteerFill(p, vm, t, prune) \cup SteerLast(p, vm, t)
    BY DEF SteerCalls, SteerKept, SteerFill, SteerLast
  <1> QED  BY <1>1, <1>2, PlanJoin

\* sync_steering: the VMs' tables, then the tables nobody claims.
SteeringCalls(p, prune) ==
    (UNION {SteerCalls(p, vm, Claimed(p)[vm], prune) : vm \in DOMAIN Claimed(p)})
        \cup (IF prune THEN UNION {ReleaseCalls(t) : t \in Mine \ Range(Claimed(p))} ELSE {})

LEMMA SteeringPlan ==
    ASSUME NEW p, Finite(p), NEW prune \in BOOLEAN
    PROVE  Plan(SyncSteering(p, prune), SteeringCalls(p, prune)) /\ ClaimedSound(p)
  <1> DEFINE claimed == Claimed(p)
  <1> DEFINE S == DOMAIN claimed
  <1> DEFINE f == [vm \in S |-> SteerVm(p, vm, claimed[vm], prune)]
  <1> DEFINE g == [vm \in S |-> SteerCalls(p, vm, claimed[vm], prune)]
  <1> DEFINE q == SetToSeq(S)
  <1> DEFINE s == InOrder(S, LAMBDA vm : SteerVm(p, vm, claimed[vm], prune))
  <1> DEFINE r == Concat(Mine \ Range(claimed), Release)
  <1> DEFINE R == UNION {ReleaseCalls(t) : t \in Mine \ Range(claimed)}
  <1> DEFINE r1 == IF prune THEN r ELSE <<>>
  <1> DEFINE R1 == IF prune THEN R ELSE {}
  <1> DEFINE G == UNION {g[vm] : vm \in S}
  <1> DEFINE s0 == FlattenSeq(s)
  <1>1. ClaimedSound(p)
    BY SmallSets, ClaimsAreSound DEF Finite
  <1>2. S \subseteq Desired(p) /\ IsFiniteSet(S)
    <2>1. S \subseteq Desired(p)
      BY <1>1 DEF ClaimedSound
    <2> HIDE DEF S
    <2> QED  BY <2>1, SmallSets, FS_Subset
  <1>3. SyncSteering(p, prune) = s0 \o r1
    BY DEF SyncSteering, Concat
  <1>4. SteeringCalls(p, prune) = G \cup R1
    BY DEF SteeringCalls
  <1>5. \A vm \in S : Plan(f[vm], g[vm])
    BY <1>2, SteerVmPlan
  <1>6. s = [i \in DOMAIN q |-> f[q[i]]]
    <2>1. \A i \in DOMAIN q : q[i] \in S
      <3> HIDE DEF S
      <3> QED  BY <1>2, SetToSeqIs DEF Range
    <2> QED  BY <2>1 DEF InOrder
  <1>7. Plan(r1, R1)
    <2>1. IsFiniteSet(Mine \ Range(claimed))
      <3> HIDE DEF claimed
      <3> QED  BY SmallSets, FS_Subset
    <2> DEFINE M == Mine \ Range(claimed)
    <2>2. Plan(r, R)
      <3>1. IsFiniteSet(M) /\ r = Concat(M, Release) /\ R = UNION {ReleaseCalls(t) : t \in M}
        BY <2>1
      <3> HIDE DEF M, r, R
      <3> QED  BY <3>1, ReleaseAllPlan DEF Finite
    <2> HIDE DEF r, R
    <2> QED  BY <2>2, PlanEmpty
  <1> HIDE DEF f, g, s, r1, R1, S
  <1>8. Plan(s0, G)
    BY <1>2, <1>5, <1>6, PlanConcat
  <1> HIDE DEF G, s0
  <1>9. Plan(s0 \o r1, G \cup R1)
    BY <1>7, <1>8, PlanJoin
  <1> QED  BY <1>1, <1>3, <1>4, <1>9

-----------------------------------------------------------------------------
(* The order of a stage's calls.                                            *)

LEMMA InstallOrdered ==
    ASSUME NEW p, IsFiniteSet(Remote(p)), NEW x \in Remote(p), Open(EncapOf(p, x))
    PROVE  Before(InstallRoutes(p), SidRule(EncapOf(p, x).rule), Route(Vrf, x, EncapOf(p, x).segs))
  <1> DEFINE S == Remote(p)
  <1> DEFINE f == [y \in S |-> InstallPart(p, y)]
  <1> DEFINE g == [y \in S |-> InstallCalls(p, y)]
  <1> DEFINE q == SetToSeq(S)
  <1> DEFINE s == [i \in DOMAIN q |-> f[q[i]]]
  <1> DEFINE d == SidRule(EncapOf(p, x).rule)
  <1> DEFINE c == Route(Vrf, x, EncapOf(p, x).segs)
  <1>1. InstallRoutes(p) = FlattenSeq(s)
    BY InstallIs
  <1>2. \A y \in S : Plan(f[y], g[y])
    BY InstallPartIs
  <1>3. \A y \in S : Before(f[y], d, c)
    <2> SUFFICES ASSUME NEW y \in S PROVE Before(InstallPart(p, y), d, c)
      OBVIOUS
    <2>1. CASE y = x
      BY <2>1, InstallPartIs
    <2>2. CASE y # x
      <3>1. c \notin InstallCalls(p, y)
        BY <2>2 DEF InstallCalls, Route, SidRule
      <3>2. Plan(InstallPart(p, y), InstallCalls(p, y))
        BY InstallPartIs
      <3> HIDE DEF c, d
      <3>3. InstallPart(p, y) \in Seq(InstallCalls(p, y)) /\ c \notin Range(InstallPart(p, y))
        BY <3>1, <3>2 DEF Plan
      <3> PICK u, A : u = InstallPart(p, y) /\ A = InstallCalls(p, y)
        OBVIOUS
      <3> QED  BY <3>3, BeforeAbsent
    <2> QED  BY <2>1, <2>2
  <1>4. s = [i \in DOMAIN SetToSeq(S) |-> f[SetToSeq(S)[i]]] /\ IsFiniteSet(S)
    OBVIOUS
  <1> HIDE DEF S, f, g, s, d, c
  <1>5. Before(FlattenSeq(s), d, c)
    BY <1>2, <1>3, <1>4, BeforeConcat
  <1> QED  BY <1>1, <1>5 DEF d, c

\* A VM's table is filled before its rules lead there.
LEMMA SteerVmOrdered ==
    ASSUME NEW p, Finite(p), NEW vm \in Desired(p), NEW t, NEW prune \in BOOLEAN,
           NEW d, NEW r, d \in SteerFill(p, vm, t, prune) \/ r.table # t
    PROVE  Before(SteerVm(p, vm, t, prune), d, Steer(r))
  <1>1. PICK s, u : /\ SteerVm(p, vm, t, prune) = s \o u
                    /\ Plan(s, SteerFill(p, vm, t, prune)) /\ Plan(u, SteerLast(p, vm, t))
    BY SteerVmParts
  <1>2. Steer(r) \notin SteerFill(p, vm, t, prune)
    BY DEF SteerFill, SteerPruned, Route, SidRule, Unsteer, Unroute, Steer
  <1>3. r.table # t => Steer(r) \notin SteerLast(p, vm, t)
    <2>1. \A w \in Want(p, vm, t) : w.table = t
      BY DEF Want
    <2> QED  BY <2>1 DEF SteerLast, Steer
  <1> QED  BY <1>1, <1>2, <1>3, BeforePlans

LEMMA ReleaseOrdered ==
    ASSUME IsFiniteSet(kern.steerRules), NEW t, NEW u, NEW r, r \in TableRules(t) \/ u # t
    PROVE  Before(Release(t), Unsteer(r), FlushTable(u))
  <1> DEFINE s == InOrder(TableRules(t), Unsteer)
  <1> DEFINE A == {Unsteer(w) : w \in TableRules(t)}
  <1>1. IsFiniteSet(TableRules(t))
    BY FS_Subset DEF TableRules
  <1>2. Plan(s, A) /\ Plan(<<FlushTable(t)>>, {FlushTable(t)})
    BY <1>1, UnsteerOrder, PlanOne
  <1>3. FlushTable(u) \notin A /\ (u # t => FlushTable(u) \notin {FlushTable(t)})
    BY DEF FlushTable, Unsteer
  <1>4. r \in TableRules(t) => Unsteer(r) \in A
    OBVIOUS
  <1>5. Release(t) = s \o <<FlushTable(t)>>
    BY DEF Release
  <1> HIDE DEF s, A
  <1> QED  BY <1>2, <1>3, <1>4, <1>5, BeforePlans

LEMMA SteeringJoins ==
    ASSUME NEW p, Finite(p), NEW prune \in BOOLEAN, NEW d, NEW c,
           \A vm \in DOMAIN Claimed(p) : Before(SteerVm(p, vm, Claimed(p)[vm], prune), d, c),
           prune => \A t \in Mine \ Range(Claimed(p)) : Before(Release(t), d, c)
    PROVE  Before(SyncSteering(p, prune), d, c)
  <1> DEFINE claimed == Claimed(p)
  <1> DEFINE S == DOMAIN claimed
  <1> DEFINE f == [vm \in S |-> SteerVm(p, vm, claimed[vm], prune)]
  <1> DEFINE g == [vm \in S |-> SteerCalls(p, vm, claimed[vm], prune)]
  <1> DEFINE q == SetToSeq(S)
  <1> DEFINE s == InOrder(S, LAMBDA vm : SteerVm(p, vm, claimed[vm], prune))
  <1> DEFINE M == Mine \ Range(claimed)
  <1> DEFINE r1 == IF prune THEN Concat(M, Release) ELSE <<>>
  <1> DEFINE Q1 == IF prune THEN UNION {ReleaseCalls(t) : t \in M} ELSE {}
  <1> DEFINE G == UNION {g[vm] : vm \in S}
  <1> DEFINE s0 == FlattenSeq(s)
  <1>1. S \subseteq Desired(p) /\ IsFiniteSet(S)
    <2>1. S \subseteq Desired(p)
      BY SteeringPlan DEF ClaimedSound
    <2> HIDE DEF S
    <2> QED  BY <2>1, SmallSets, FS_Subset
  <1>2. SyncSteering(p, prune) = s0 \o r1
    BY DEF SyncSteering, Concat
  <1>3. \A vm \in S : Plan(f[vm], g[vm]) /\ Before(f[vm], d, c)
    BY <1>1, SteerVmPlan
  <1>4. s = [i \in DOMAIN q |-> f[q[i]]]
    <2>1. \A i \in DOMAIN q : q[i] \in S
      <3> HIDE DEF S
      <3> QED  BY <1>1, SetToSeqIs DEF Range
    <2> QED  BY <2>1 DEF InOrder
  <1>5. Plan(r1, Q1) /\ Before(r1, d, c)
    <2>1. IsFiniteSet(M)
      <3> HIDE DEF claimed
      <3> QED  BY SmallSets, FS_Subset
    <2>2. CASE prune
      <3> DEFINE h == [t \in M |-> Release(t)]
      <3> DEFINE k == [t \in M |-> ReleaseCalls(t)]
      <3> DEFINE w == SetToSeq(M)
      <3> DEFINE v == InOrder(M, Release)
      <3>1. \A i \in DOMAIN w : w[i] \in M
        <4> HIDE DEF M
        <4> QED  BY <2>1, SetToSeqIs DEF Range
      <3>2. v = [i \in DOMAIN w |-> h[w[i]]]
        BY <3>1 DEF InOrder
      <3>3. \A t \in M : Plan(h[t], k[t]) /\ Before(h[t], d, c)
        BY <2>2, ReleasePlan DEF Finite
      <3>4. r1 = FlattenSeq(v) /\ Q1 = UNION {ReleaseCalls(t) : t \in M}
        BY <2>2 DEF Concat
      <3>5. {k[t] : t \in M} = {ReleaseCalls(t) : t \in M}
        OBVIOUS
      <3> HIDE DEF M, h, k, v
      <3>6. Before(FlattenSeq(v), d, c)
        BY <2>1, <3>2, <3>3, BeforeConcat
      <3>7. Plan(FlattenSeq(v), UNION {k[t] : t \in M})
        BY <2>1, <3>2, <3>3, PlanConcat
      <3> QED  BY <3>4, <3>5, <3>6, <3>7
    <2>3. CASE ~prune
      BY <2>3, PlanEmpty DEF Before
    <2> QED  BY <2>2, <2>3
  <1> HIDE DEF f, g, s, r1, Q1, S
  <1>6. Plan(s0, G)
    BY <1>1, <1>3, <1>4, PlanConcat
  <1>7. Before(s0, d, c)
    BY <1>1, <1>3, <1>4, BeforeConcat
  <1> HIDE DEF G, s0
  <1>8. Before(s0 \o r1, d, c)
    BY <1>5, <1>6, <1>7, BeforeOn
  <1> QED  BY <1>2, <1>8

-----------------------------------------------------------------------------
(* The calls about the node, and a deletion.                                *)

LEMMA PlanTwo == ASSUME NEW a, NEW b PROVE Plan(<<a, b>>, {a, b})
  <1>1. /\ <<a, b>> \in Seq({a, b}) /\ DOMAIN <<a, b>> = 1..2
        /\ <<a, b>>[1] = a /\ <<a, b>>[2] = b /\ \A i \in 1..2 : i = 1 \/ i = 2
    OBVIOUS
  <1> QED  BY <1>1 DEF Plan, Range

LEMMA PlanThree == ASSUME NEW a, NEW b, NEW c PROVE Plan(<<a, b, c>>, {a, b, c})
  <1>1. /\ <<a, b, c>> \in Seq({a, b, c}) /\ DOMAIN <<a, b, c>> = 1..3
        /\ <<a, b, c>>[1] = a /\ <<a, b, c>>[2] = b /\ <<a, b, c>>[3] = c
        /\ \A i \in 1..3 : i = 1 \/ i = 2 \/ i = 3
    OBVIOUS
  <1> QED  BY <1>1 DEF Plan, Range

NodeCalls == {Becomes("none"), Becomes("local"), Becomes("uN"), SealLib(TRUE), SealLib(FALSE)}

LEMMA LocatorPlan ==
    ASSUME NEW usid
    PROVE  \E A \in SUBSET NodeCalls : Plan(EnsureLocatorRoute(usid), A)
  <1>1. ASSUME NEW b, NEW c, NEW d PROVE Plan((IF b THEN <<Becomes("none")>> ELSE <<>>) \o <<c, d>>,
                                      (IF b THEN {Becomes("none")} ELSE {}) \cup {c, d})
    <2> DEFINE s == IF b THEN <<Becomes("none")>> ELSE <<>>
    <2> DEFINE A == IF b THEN {Becomes("none")} ELSE {}
    <2>1. Plan(s, A)
      BY PlanOne, PlanEmpty
    <2> HIDE DEF s, A
    <2>2. Plan(s \o <<c, d>>, A \cup {c, d})
      BY <2>1, PlanTwo, PlanJoin
    <2> QED  BY <2>2 DEF s, A
  <1>2. CASE usid
    <2> DEFINE A == (IF kern.locator = "local" THEN {Becomes("none")} ELSE {})
                        \cup {Becomes("uN"), SealLib(TRUE)}
    <2>1. Plan(EnsureLocatorRoute(usid), A)
      BY <1>1, <1>2 DEF EnsureLocatorRoute
    <2>2. A \in SUBSET NodeCalls
      BY DEF NodeCalls
    <2> QED  BY <2>1, <2>2
  <1>3. CASE ~usid
    <2> DEFINE A == (IF kern.locator = "uN" THEN {Becomes("none")} ELSE {})
                        \cup {Becomes("local"), SealLib(FALSE)}
    <2>1. Plan(EnsureLocatorRoute(usid), A)
      BY <1>1, <1>3 DEF EnsureLocatorRoute
    <2>2. A \in SUBSET NodeCalls
      BY DEF NodeCalls
    <2> QED  BY <2>1, <2>2
  <1> QED  BY <1>2, <1>3

DeletionCalls ==
    (UNION {ReleaseCalls(t) : t \in Mine}) \cup {DeleteSidRule(s) : s \in kern.sidRules}
        \cup {DeleteDecap(128), DeleteDecap(64), FlushTable(Vrf)}

LEMMA DeletionPlan ==
    ASSUME IsFiniteSet(kern.steerRules), IsFiniteSet(kern.sidRules)
    PROVE  Plan(DeleteDomain, DeletionCalls)
  <1> DEFINE s1 == Concat(Mine, Release)
  <1> DEFINE s2 == InOrder(kern.sidRules, DeleteSidRule)
  <1> DEFINE s3 == <<DeleteDecap(128), DeleteDecap(64), FlushTable(Vrf)>>
  <1> DEFINE A1 == UNION {ReleaseCalls(t) : t \in Mine}
  <1> DEFINE A2 == {DeleteSidRule(s) : s \in kern.sidRules}
  <1> DEFINE A3 == {DeleteDecap(128), DeleteDecap(64), FlushTable(Vrf)}
  <1>1. IsFiniteSet(Mine)
    <2> DEFINE f == [r \in kern.steerRules |-> r.table]
    <2>1. {f[r] : r \in kern.steerRules} = Mine
      BY DEF Mine
    <2> HIDE DEF f
    <2> QED  BY <2>1, FiniteImage
  <1>2. Plan(s1, A1)
    BY <1>1, ReleaseAllPlan
  <1>3. Plan(s2, A2)
    BY DeleteSidRuleOrder
  <1>4. Plan(s3, A3)
    BY PlanThree
  <1>5. DeleteDomain = (s1 \o s2) \o s3 /\ DeletionCalls = (A1 \cup A2) \cup A3
    BY DEF DeleteDomain, DeletionCalls
  <1> HIDE DEF s1, s2, s3, A1, A2, A3
  <1>6. Plan(s1 \o s2, A1 \cup A2)
    BY <1>2, <1>3, PlanJoin
  <1>7. Plan((s1 \o s2) \o s3, (A1 \cup A2) \cup A3)
    BY <1>4, <1>6, PlanJoin
  <1> QED  BY <1>5, <1>7

-----------------------------------------------------------------------------
(* The rule a path needs.                                                   *)

\* encode_usid_segments: a decap SID on its own is pushed as it is.
LEMMA EncodeOne ==
    ASSUME NEW b, NEW n, NEW f, NEW usid
    PROVE  Encode(<<[block |-> b, csids |-> <<n, f>>]>>, usid) = <<[block |-> b, csids |-> <<n, f>>]>>
  <1> DEFINE two == <<n, f>>
  <1> DEFINE sid == [block |-> b, csids |-> two]
  <1> DEFINE sids == <<sid>>
  <1> DEFINE base == [full |-> <<>>, last |-> <<>>]
  <1> DEFINE Recurs(h) == h = [i \in 0..Len(sids) |-> IF i = 0 THEN base ELSE Fill(h[i - 1], sids[i])]
  <1> DEFINE fill == CHOOSE h : Recurs(h)
  <1>1. Len(sids) = 1 /\ sids[1] = sid /\ sid.csids = two /\ sid.block = b /\ Len(two) = 2
    OBVIOUS
  <1>2. Fill(base, sid) = [full |-> <<>>, last |-> two]
    <2>1. Len(base.last) = 0 /\ base.last \o two = two
      <3>1. two \in Seq({n, f}) /\ base.last = <<>>
        OBVIOUS
      <3> HIDE DEF two
      <3> QED  BY <3>1
    <2>2. ~(0 + 2 > PerContainer)
      BY SidAssumption
    <2>3. ~(Len(base.last) + Len(sid.csids) > PerContainer)
      BY <1>1, <2>1, <2>2
    <2> HIDE DEF two, sid
    <2> QED  BY <1>1, <2>1, <2>3 DEF Fill
  <1> HIDE DEF two, sid
  <1>3. \E h : Recurs(h)
    <2> DEFINE h == [i \in 0..1 |-> IF i = 0 THEN base ELSE Fill(base, sid)]
    <2>1. h[0] = base /\ h[1] = Fill(base, sid)
      BY DEF h
    <2>2. \A i \in 0..1 : h[i] = IF i = 0 THEN base ELSE Fill(h[i - 1], sids[i])
      <3> HIDE DEF h, base
      <3>1. \A i \in 0..1 : i = 0 \/ i = 1
        OBVIOUS
      <3>2. h[1] = Fill(h[1 - 1], sids[1])
        BY <1>1, <2>1
      <3> QED  BY <2>1, <3>1, <3>2
    <2>3. h = [i \in 0..1 |-> h[i]]
      OBVIOUS
    <2> HIDE DEF h, base
    <2>4. Recurs(h)
      BY <1>1, <2>2, <2>3
    <2> QED  BY <2>4
  <1>4. Recurs(fill)
    BY <1>3
  <1> HIDE DEF fill
  <1>5. fill[1] = [full |-> <<>>, last |-> two]
    <2> HIDE DEF base
    <2>1. \A i \in 0..1 : fill[i] = IF i = 0 THEN base ELSE Fill(fill[i - 1], sids[i])
      BY <1>1, <1>4
    <2>2. fill[0] = base /\ fill[1] = Fill(fill[1 - 1], sids[1])
      BY <2>1
    <2> QED  BY <1>1, <1>2, <2>2
  <1> DEFINE acc == fill[1]
  <1> DEFINE lists == Append(acc.full, acc.last)
  <1>6. lists = <<two>>
    BY <1>5
  <1>7. [i \in DOMAIN lists |-> [block |-> sids[1].block, csids |-> lists[i]]] = sids
    <2>1. DOMAIN lists = 1..1 /\ \A i \in DOMAIN lists : lists[i] = two /\ i = 1
      BY <1>6
    <2>2. [block |-> sids[1].block, csids |-> two] = sid
      BY <1>1 DEF sid
    <2> QED  BY <2>1, <2>2
  <1>8. PackNextCsid(sids) = Unpackable
            \/ PackNextCsid(sids) = [i \in DOMAIN lists |-> [block |-> sids[1].block, csids |-> lists[i]]]
    <2> HIDE DEF sids
    <2> QED  BY <1>1 DEF PackNextCsid, fill, Recurs
  <1>9. Encode(sids, usid) = sids
    BY <1>7, <1>8 DEF Encode
  <1> QED  BY <1>9 DEF sid, two

Packing(acc, L) == acc = [full |-> acc.full, last |-> acc.last] /\ acc.full \in Seq(L)

LEMMA FillPacks ==
    ASSUME NEW acc, NEW sid, NEW L, Packing(acc, L), acc.last \in L
    PROVE  Packing(Fill(acc, sid), L)
  <1> DEFINE f == acc.full
  <1> DEFINE l == acc.last
  <1>1. acc = [full |-> f, last |-> l] /\ f \in Seq(L) /\ l \in L
    BY DEF Packing
  <1> HIDE DEF f, l
  <1> DEFINE m == l \o sid.csids
  <1>2. \/ Fill(acc, sid) = [full |-> Append(f, l), last |-> sid.csids]
        \/ Fill(acc, sid) = [acc EXCEPT !.last = m]
    BY DEF Fill, f, l
  <1> HIDE DEF m
  <1>3. [acc EXCEPT !.last = m] = [full |-> f, last |-> m]
    BY <1>1
  <1>4. Append(f, l) \in Seq(L)
    BY <1>1
  <1>5. ASSUME NEW n, NEW o, NEW r, r = [full |-> n, last |-> o], n \in Seq(L) PROVE Packing(r, L)
    BY <1>5 DEF Packing
  <1> QED  BY <1>1, <1>2, <1>3, <1>4, <1>5

\* What is pushed is never an empty list.
LEMMA EncodeSome ==
    ASSUME NEW X, NEW sids \in Seq(X), sids # <<>>, NEW usid
    PROVE  Encode(sids, usid) # <<>>
  <1> DEFINE N == Len(sids)
  <1> DEFINE base == [full |-> <<>>, last |-> <<>>]
  <1> DEFINE Recurs(f, n) == f = [i \in 0..n |-> IF i = 0 THEN base ELSE Fill(f[i - 1], sids[i])]
  <1>1. N \in Nat
    OBVIOUS
  <1> DEFINE fill == CHOOSE f : Recurs(f, N)
  <1> HIDE DEF base
  <1> DEFINE Exists(n) == \E f : Recurs(f, n)
  <1> DEFINE S == {n \in Nat : Exists(n)}
  <1>2. Exists(0)
    <2> DEFINE f == [i \in 0..0 |-> base]
    <2>1. \A i \in 0..0 : i = 0 /\ f[i] = base
      OBVIOUS
    <2>2. f = [i \in 0..0 |-> IF i = 0 THEN base ELSE Fill(f[i - 1], sids[i])]
      BY <2>1
    <2> HIDE DEF f
    <2>3. Recurs(f, 0)
      BY <2>2
    <2> QED  BY <2>3
  <1>3. ASSUME NEW n \in Nat, Exists(n) PROVE Exists(n + 1)
    <2>1. PICK f : Recurs(f, n)
      BY <1>3
    <2> HIDE <1>3
    <2> DEFINE g == [i \in 0..(n + 1) |-> IF i = n + 1 THEN Fill(f[n], sids[n + 1]) ELSE f[i]]
    <2>2. \A i \in 0..n : f[i] = IF i = 0 THEN base ELSE Fill(f[i - 1], sids[i])
      BY <2>1
    <2>3. \A i \in 0..(n + 1) : g[i] = IF i = 0 THEN base ELSE Fill(g[i - 1], sids[i])
      <3> SUFFICES ASSUME NEW i \in 0..(n + 1)
                   PROVE  g[i] = IF i = 0 THEN base ELSE Fill(g[i - 1], sids[i])
        OBVIOUS
      <3>1. CASE i = n + 1
        <4>1. i # 0 /\ i - 1 \in 0..(n + 1) /\ i - 1 # n + 1 /\ i - 1 = n
          BY <3>1
        <4>2. g[i - 1] = f[n] /\ g[i] = Fill(f[n], sids[n + 1])
          BY <3>1, <4>1
        <4> QED  BY <3>1, <4>1, <4>2
      <3>2. CASE i # n + 1
        <4>1. i \in 0..n /\ g[i] = f[i]
          BY <3>2
        <4>2. i # 0 => i - 1 \in 0..(n + 1) /\ i - 1 # n + 1 /\ g[i - 1] = f[i - 1]
          BY <4>1
        <4> QED  BY <2>2, <4>1, <4>2
      <3> QED  BY <3>1, <3>2
    <2>4. g = [i \in 0..(n + 1) |-> g[i]]
      OBVIOUS
    <2> HIDE DEF g
    <2>5. Recurs(g, n + 1)
      BY <2>3, <2>4
    <2> QED  BY <2>5
  <1>4. Exists(N)
    <2> HIDE DEF Exists
    <2>1. 0 \in S /\ \A n \in Nat : n \in S => n + 1 \in S
      BY <1>2, <1>3
    <2> HIDE DEF S
    <2>2. N \in S
      BY <1>1, <2>1, SetInduction
    <2> QED  BY <2>2 DEF S
  <1>5. Recurs(fill, N)
    BY <1>4
  <1> HIDE DEF fill
  <1>6. \A i \in 0..N : fill[i] = IF i = 0 THEN base ELSE Fill(fill[i - 1], sids[i])
    BY <1>5
  <1> DEFINE L == {fill[i].last : i \in 0..N}
  <1> DEFINE So(n) == n <= N => Packing(fill[n], L)
  <1> DEFINE G == {n \in Nat : So(n)}
  <1>7. So(0)
    <2>1. fill[0] = base
      BY <1>1, <1>6
    <2>2. base = [full |-> base.full, last |-> base.last] /\ base.full = <<>>
      BY DEF base
    <2> HIDE DEF L
    <2> QED  BY <2>1, <2>2 DEF Packing
  <1>8. ASSUME NEW n \in Nat, So(n) PROVE So(n + 1)
    <2> SUFFICES ASSUME n + 1 <= N PROVE Packing(fill[n + 1], L)
      OBVIOUS
    <2>1. n <= N /\ n \in 0..N /\ n + 1 \in 0..N /\ n + 1 # 0 /\ n + 1 - 1 = n
      BY <1>1
    <2>2. Packing(fill[n], L) /\ fill[n].last \in L
      BY <1>8, <2>1
    <2>3. fill[n + 1] = Fill(fill[n], sids[n + 1])
      BY <1>6, <2>1
    <2> DEFINE acc == fill[n]
    <2> DEFINE sid == sids[n + 1]
    <2>4. Packing(acc, L) /\ acc.last \in L
      BY <2>2
    <2> HIDE DEF L, acc, sid
    <2>5. Packing(Fill(acc, sid), L)
      BY <2>4, FillPacks
    <2> QED  BY <2>3, <2>5 DEF acc, sid
  <1>9. So(N)
    <2> HIDE DEF So
    <2>1. 0 \in G /\ \A n \in Nat : n \in G => n + 1 \in G
      BY <1>7, <1>8
    <2> HIDE DEF G
    <2>2. N \in G
      BY <1>1, <2>1, SetInduction
    <2> QED  BY <2>2 DEF G
  <1> DEFINE acc == fill[N]
  <1>10. acc.full \in Seq(L) /\ acc.last \in L
    <2>1. N <= N /\ N \in 0..N
      BY <1>1
    <2> QED  BY <1>9, <2>1 DEF Packing
  <1> DEFINE lists == Append(acc.full, acc.last)
  <1> DEFINE packed == [i \in DOMAIN lists |-> [block |-> sids[1].block, csids |-> lists[i]]]
  <1> HIDE DEF L
  <1>11. packed # <<>>
    <2> HIDE DEF acc
    <2>1. lists \in Seq(L) /\ Len(lists) = Len(acc.full) + 1
      BY <1>10
    <2>2. 1 \in DOMAIN lists
      <3> HIDE DEF lists
      <3> QED  BY <1>10, <2>1
    <2>3. DOMAIN packed = DOMAIN lists
      OBVIOUS
    <2>4. DOMAIN <<>> = {}
      OBVIOUS
    <2> HIDE DEF packed, lists
    <2> QED  BY <2>2, <2>3, <2>4
  <1>12. PackNextCsid(sids) = Unpackable \/ PackNextCsid(sids) = packed
    BY DEF PackNextCsid, fill, base
  <1> HIDE DEF packed
  <1> QED  BY <1>11, <1>12 DEF Encode

LEMMA DropLeadingTyped ==
    ASSUME NEW X, NEW s \in Seq(X), NEW own
    PROVE  DropLeading(s, own) \in Seq(X)
  <1> DEFINE others == {i \in DOMAIN s : s[i] # own}
  <1>1. CASE others = {}
    <2>1. DropLeading(s, own) = <<>>
      BY <1>1 DEF DropLeading
    <2> QED  BY <2>1
  <1>2. CASE others # {}
    <2> DEFINE m == CHOOSE i \in others : \A j \in others : i <= j
    <2>1. DropLeading(s, own) = SubSeq(s, m, Len(s))
      BY <1>2 DEF DropLeading
    <2>2. others \in SUBSET Nat
      OBVIOUS
    <2>3. m = Lowest(others)
      BY DEF Lowest
    <2>4. others \subseteq 1..Len(s)
      OBVIOUS
    <2> HIDE DEF m, others
    <2>5. m \in 1..Len(s)
      BY <1>2, <2>2, <2>3, <2>4, LowestIs
    <2>6. m \in Int /\ Len(s) \in Int /\ \A i \in m..Len(s) : s[i] \in X
      BY <2>5
    <2> QED  BY <2>1, <2>6, SubSeqProperties
  <1> QED  BY <1>1, <1>2

LEMMA PushedSome ==
    ASSUME NEW host, NEW via \in Seq(Hosts), NEW usid
    PROVE  Encap(host, via, usid).segs # <<>>
  <1> DEFINE own == TransitSid(Locator[Me], enc)
  <1> DEFINE decap == SidFor(Locator[host], Fid)
  <1> DEFINE of(h) == TransitSid(Locator[h], usid)
  <1> DEFINE named == [i \in DOMAIN via |-> of(via[i])]
  <1> DEFINE X == {of(h) : h \in Hosts} \cup {decap}
  <1>1. Encap(host, via, usid).segs = Encode(Append(DropLeading(named, own), decap), enc)
    <2>1. Encap(host, via, usid).segs = Pushed(host, via, usid).segs
      BY DEF Encap
    <2>2. Pushed(host, via, usid).segs = Encode(Append(DropLeading(named, own), decap), enc)
      BY DEF Pushed
    <2> QED  BY <2>1, <2>2
  <1> HIDE DEF own, decap, of
  <1>2. named \in Seq(X)
    OBVIOUS
  <1>3. decap \in X
    OBVIOUS
  <1> HIDE DEF named, X
  <1>4. DropLeading(named, own) \in Seq(X)
    BY <1>2, DropLeadingTyped
  <1> DEFINE t == DropLeading(named, own)
  <1> HIDE DEF t
  <1>5. Append(t, decap) \in Seq(X) /\ Append(t, decap) # <<>>
    BY <1>3, <1>4 DEF t
  <1>6. Encode(Append(t, decap), enc) # <<>>
    BY <1>5, EncodeSome
  <1> QED  BY <1>1, <1>6 DEF t

\* An open way: a list, and the rule for its first segment.

\* A SID a VRF may have a rule for: a decap SID of the domain, or the SID of a
\* node the agent's edge filter covers.
MayAdmit(s) == s \in DecapSids \/ NodeOf(s) \in filtered

LEMMA EncapAdmits ==
    ASSUME NEW host \in Hosts, NEW via, NEW usid, Encap(host, via, usid).rule # None
    PROVE  MayAdmit(Encap(host, via, usid).rule)
  <1> DEFINE pushed == Pushed(host, via, usid)
  <1> DEFINE first == pushed.segs[1]
  <1> DEFINE rule == Encap(host, via, usid).rule
  <1>1. rule = first /\ (pushed.direct \/ Covers(filtered, first))
    <2>1. rule = IF pushed.direct \/ Covers(filtered, first) THEN first ELSE None
      BY DEF Encap
    <2> HIDE DEF pushed, first
    <2> QED  BY <2>1
  <1>2. CASE Covers(filtered, first)
    BY <1>1, <1>2 DEF MayAdmit, Covers
  <1>3. CASE pushed.direct
    <2> DEFINE own == TransitSid(Locator[Me], enc)
    <2> DEFINE transit == DropLeading([i \in DOMAIN via |-> TransitSid(Locator[via[i]], usid)], own)
    <2> DEFINE decap == SidFor(Locator[host], Fid)
    <2>1. pushed.direct = (transit = <<>>) /\ pushed.segs = Encode(Append(transit, decap), enc)
      BY DEF Pushed
    <2> HIDE DEF transit
    <2>2. Append(transit, decap) = <<decap>>
      <3>1. transit = <<>>
        BY <1>3, <2>1
      <3>2. Append(<<>>, decap) = <<decap>>
        OBVIOUS
      <3> QED  BY <3>1, <3>2
    <2>3. Encode(<<decap>>, enc) = <<decap>>
      BY EncodeOne DEF SidFor
    <2>4. first = decap
      <3> HIDE DEF decap
      <3> QED  BY <2>1, <2>2, <2>3
    <2>5. decap \in DecapSids
      BY DEF DecapSids
    <2> QED  BY <1>1, <2>4, <2>5 DEF MayAdmit
  <1> QED  BY <1>1, <1>2, <1>3

-----------------------------------------------------------------------------
(* What one call does, field by field.                                      *)

KernelFields(k) ==
    k = [routes |-> k.routes, sidRules |-> k.sidRules, steerRules |-> k.steerRules,
         locator |-> k.locator, lib |-> k.lib, decap |-> k.decap, nft |-> k.nft]

Writes == {"replace_seg6_route", "delete_route", "flush_table"}
Others == {"add_sid_rule", "delete_sid_rule", "add_steer_rule", "delete_steer_rule", "locator",
           "lib", "replace_decap", "delete_decap", "apply_ruleset"}

Rerouted(k, c) ==
    IF c.do = "flush_table" THEN [k.routes EXCEPT ![c.table] = NoRoutes]
    ELSE IF c.do = "delete_route" THEN [k.routes EXCEPT ![c.table][c.prefix] = <<>>]
    ELSE [k.routes EXCEPT ![c.table][c.prefix] = c.segs]

After(k, c) ==
    [routes |-> IF c.do \in Writes THEN Rerouted(k, c) ELSE k.routes,
     sidRules |-> IF c.do = "add_sid_rule" THEN k.sidRules \cup {c.sid}
                  ELSE IF c.do = "delete_sid_rule" THEN k.sidRules \ {c.sid} ELSE k.sidRules,
     steerRules |-> IF c.do = "add_steer_rule" THEN k.steerRules \cup {c.rule}
                    ELSE IF c.do = "delete_steer_rule" THEN k.steerRules \ {c.rule} ELSE k.steerRules,
     locator |-> IF c.do = "locator" THEN c.as ELSE k.locator,
     lib |-> IF c.do = "lib" THEN c.on ELSE k.lib,
     decap |-> IF c.do = "replace_decap" THEN k.decap \cup {c.len}
               ELSE IF c.do = "delete_decap" THEN k.decap \ {c.len} ELSE k.decap,
     nft |-> IF c.do = "apply_ruleset" THEN c.over ELSE k.nft]

LEMMA EffectIs ==
    ASSUME NEW k, KernelFields(k), NEW c, c.do \in Writes \cup Others
    PROVE  Effect(k, c) = After(k, c)
  <1>1. CASE c.do = "replace_seg6_route"
    <2> DEFINE r == [k.routes EXCEPT ![c.table][c.prefix] = c.segs]
    <2>1. Effect(k, c) = [k EXCEPT !.routes = r]
      BY <1>1 DEF Effect
    <2>2. Rerouted(k, c) = r
      BY <1>1 DEF Rerouted
    <2> HIDE DEF r
    <2> QED  BY <1>1, <2>1, <2>2 DEF KernelFields, After, Writes
  <1>2. CASE c.do = "delete_route"
    <2> DEFINE r == [k.routes EXCEPT ![c.table][c.prefix] = <<>>]
    <2>1. Effect(k, c) = [k EXCEPT !.routes = r]
      BY <1>2 DEF Effect
    <2>2. Rerouted(k, c) = r
      BY <1>2 DEF Rerouted
    <2> HIDE DEF r
    <2> QED  BY <1>2, <2>1, <2>2 DEF KernelFields, After, Writes
  <1>3. CASE c.do = "flush_table"
    <2> DEFINE r == [k.routes EXCEPT ![c.table] = NoRoutes]
    <2>1. Effect(k, c) = [k EXCEPT !.routes = r]
      BY <1>3 DEF Effect
    <2>2. Rerouted(k, c) = r
      BY <1>3 DEF Rerouted
    <2> HIDE DEF r
    <2> QED  BY <1>3, <2>1, <2>2 DEF KernelFields, After, Writes
  <1>4. CASE c.do = "add_sid_rule"
    <2>1. Effect(k, c) = [k EXCEPT !.sidRules = k.sidRules \cup {c.sid}]
      BY <1>4 DEF Effect
    <2> QED  BY <1>4, <2>1 DEF KernelFields, After, Writes
  <1>5. CASE c.do = "delete_sid_rule"
    <2>1. Effect(k, c) = [k EXCEPT !.sidRules = k.sidRules \ {c.sid}]
      BY <1>5 DEF Effect
    <2> QED  BY <1>5, <2>1 DEF KernelFields, After, Writes
  <1>6. CASE c.do = "add_steer_rule"
    <2>1. Effect(k, c) = [k EXCEPT !.steerRules = k.steerRules \cup {c.rule}]
      BY <1>6 DEF Effect
    <2> QED  BY <1>6, <2>1 DEF KernelFields, After, Writes
  <1>7. CASE c.do = "delete_steer_rule"
    <2>1. Effect(k, c) = [k EXCEPT !.steerRules = k.steerRules \ {c.rule}]
      BY <1>7 DEF Effect
    <2> QED  BY <1>7, <2>1 DEF KernelFields, After, Writes
  <1>8. CASE c.do = "locator"
    <2>1. Effect(k, c) = [k EXCEPT !.locator = c.as]
      BY <1>8 DEF Effect
    <2> QED  BY <1>8, <2>1 DEF KernelFields, After, Writes
  <1>9. CASE c.do = "lib"
    <2>1. Effect(k, c) = [k EXCEPT !.lib = c.on]
      BY <1>9 DEF Effect
    <2> QED  BY <1>9, <2>1 DEF KernelFields, After, Writes
  <1>10. CASE c.do = "replace_decap"
    <2>1. Effect(k, c) = [k EXCEPT !.decap = k.decap \cup {c.len}]
      BY <1>10 DEF Effect
    <2> QED  BY <1>10, <2>1 DEF KernelFields, After, Writes
  <1>11. CASE c.do = "delete_decap"
    <2>1. Effect(k, c) = [k EXCEPT !.decap = k.decap \ {c.len}]
      BY <1>11 DEF Effect
    <2> QED  BY <1>11, <2>1 DEF KernelFields, After, Writes
  <1>12. CASE c.do = "apply_ruleset"
    <2>1. Effect(k, c) = [k EXCEPT !.nft = c.over]
      BY <1>12 DEF Effect
    <2> QED  BY <1>12, <2>1 DEF KernelFields, After, Writes
  <1> QED  BY <1>1, <1>2, <1>3, <1>4, <1>5, <1>6, <1>7, <1>8, <1>9, <1>10, <1>11, <1>12
              DEF Writes, Others

-----------------------------------------------------------------------------
(* The inductive invariant.                                                 *)

RuleTyped(r) == r.iif \in Ifaces /\ r.table \in Tables \ Foreign

\* A call the agent may make: typed, a steer rule for a gateway port into a
\* table of the agent's own, a SID rule only for what the VRF may reach.
CallSound(c) ==
    /\ c.do \in Writes \cup Others
    /\ c.do = "add_sid_rule" => MayAdmit(c.sid)
    /\ c.do = "add_steer_rule" => RuleTyped(c.rule)
    /\ c.do = "locator" => c.as \in {"none", "local", "uN"}
    /\ c.do = "lib" => c.on \in BOOLEAN
    /\ c.do = "replace_decap" => c.len \in Decap
    /\ c.do = "apply_ruleset" => c.over \subseteq Hosts

\* The filter and the rules it must cover are never in one plan.
Apart(A) ==
    \/ \A c \in A : c.do # "apply_ruleset"
    \/ \A c \in A : c.do # "add_sid_rule"

CallsSound ==
    /\ Plan(calls, Range(calls))
    /\ \A c \in Range(calls) : CallSound(c)
    /\ Apart(Range(calls))

RoutesTyped(routes) ==
    /\ DOMAIN routes = Slots
    /\ \A t \in Slots : DOMAIN routes[t] = Dests

KernelSound(k) ==
    /\ KernelFields(k)
    /\ RoutesTyped(k.routes)
    /\ IsFiniteSet(k.sidRules) /\ IsFiniteSet(k.steerRules)
    /\ \A r \in k.steerRules : RuleTyped(r)
    /\ k.locator \in {"none", "local", "uN"} /\ k.lib \in BOOLEAN
    /\ k.decap \subseteq Decap /\ k.nft \subseteq Hosts

PassSound ==
    /\ pass = [kind |-> pass.kind, rest |-> pass.rest, payload |-> pass.payload,
               claimed |-> pass.claimed, flaw |-> pass.flaw]
    /\ pass.kind \in Kinds
    /\ pass.rest # <<>> => PayloadTyped(pass.payload)
    /\ pass.kind = "delete" => pass.rest = <<>>

\* What a deletion has not deleted yet it still has a call for, and none of
\* its calls puts anything back.
Deleting ==
    pass.kind = "delete" /\ ~pass.flaw =>
        /\ \A r \in kern.steerRules : Unsteer(r) \in Range(calls)
        /\ \A s \in kern.sidRules : DeleteSidRule(s) \in Range(calls)
        /\ \A len \in kern.decap : DeleteDecap(len) \in Range(calls)
        /\ kern.routes[Vrf] = NoRoutes \/ FlushTable(Vrf) \in Range(calls)
        /\ \A c \in Range(calls) :
               c.do \in {"delete_steer_rule", "delete_sid_rule", "delete_decap", "flush_table"}

Memory ==
    /\ enc \in BOOLEAN /\ programmed \in BOOLEAN
    /\ filtered \subseteq kern.nft
    /\ locs \subseteq Hosts
    /\ gateway \in Ifaces \cup {None}
    /\ passes \in 0..MaxPasses /\ faults \in 0..MaxFaults

IInv == KernelSound(kern) /\ Memory /\ PassSound /\ CallsSound /\ Deleting

\* What a call that writes routes leaves where.
Written(routes, c, t, x) ==
    IF t # c.table \/ (c.do # "flush_table" /\ x # c.prefix) THEN routes[t][x]
    ELSE IF c.do = "replace_seg6_route" THEN c.segs ELSE <<>>

LEMMA ReroutedTyped ==
    ASSUME NEW k, RoutesTyped(k.routes), NEW c
    PROVE  RoutesTyped(Rerouted(k, c))
  <1> DEFINE f == k.routes
  <1>1. DOMAIN f = Slots /\ \A t \in Slots : DOMAIN f[t] = Dests
    BY DEF RoutesTyped
  <1> HIDE DEF f
  <1>2. \A v : DOMAIN v = Dests => RoutesTyped([f EXCEPT ![c.table] = v])
    BY <1>1 DEF RoutesTyped
  <1>3. \A x, v : RoutesTyped([f EXCEPT ![c.table][x] = v])
    BY <1>1 DEF RoutesTyped
  <1>4. DOMAIN NoRoutes = Dests
    BY DEF NoRoutes
  <1> QED  BY <1>2, <1>3, <1>4 DEF Rerouted, f

LEMMA ReroutedIs ==
    ASSUME NEW k, RoutesTyped(k.routes), NEW c, c.do \in Writes, NEW t \in Slots, NEW x \in Dests
    PROVE  Rerouted(k, c)[t][x] = Written(k.routes, c, t, x)
  <1> DEFINE f == k.routes
  <1>1. DOMAIN f = Slots /\ \A u \in Slots : DOMAIN f[u] = Dests
    BY DEF RoutesTyped
  <1> HIDE DEF f
  <1>2. \A v : [f EXCEPT ![c.table] = v][t] = IF t = c.table THEN v ELSE f[t]
    BY <1>1
  <1>3. \A v : [f EXCEPT ![c.table][c.prefix] = v][t][x] =
                   IF t = c.table /\ x = c.prefix THEN v ELSE f[t][x]
    BY <1>1
  <1>4. NoRoutes[x] = <<>>
    BY DEF NoRoutes
  <1>5. CASE c.do = "flush_table"
    <2> DEFINE v == NoRoutes
    <2>1. Rerouted(k, c) = [f EXCEPT ![c.table] = v]
      BY <1>5 DEF Rerouted, f
    <2> HIDE DEF v
    <2>2. Rerouted(k, c)[t] = IF t = c.table THEN v ELSE f[t]
      BY <1>2, <2>1
    <2> QED  BY <1>4, <1>5, <2>2 DEF Written, v, f
  <1>6. CASE c.do = "delete_route"
    <2>1. Rerouted(k, c) = [f EXCEPT ![c.table][c.prefix] = <<>>]
      BY <1>6 DEF Rerouted, f
    <2> QED  BY <1>3, <1>6, <2>1 DEF Written, f
  <1>7. CASE c.do = "replace_seg6_route"
    <2>1. Rerouted(k, c) = [f EXCEPT ![c.table][c.prefix] = c.segs]
      BY <1>7 DEF Rerouted, f
    <2> QED  BY <1>3, <1>7, <2>1 DEF Written, f
  <1> QED  BY <1>5, <1>6, <1>7 DEF Writes

\* Any call keeps the kernel's shape.
LEMMA EffectSound ==
    ASSUME NEW k, KernelSound(k), NEW c, CallSound(c)
    PROVE  KernelSound(Effect(k, c))
  <1> DEFINE n == Effect(k, c)
  <1>1. n = After(k, c)
    BY EffectIs DEF KernelSound, CallSound
  <1> HIDE DEF n
  <1>2. KernelFields(n) /\ n.locator \in {"none", "local", "uN"} /\ n.lib \in BOOLEAN
            /\ n.decap \subseteq Decap /\ n.nft \subseteq Hosts
    BY <1>1 DEF KernelSound, CallSound, KernelFields, After
  <1>3. RoutesTyped(n.routes)
    <2>1. n.routes = IF c.do \in Writes THEN Rerouted(k, c) ELSE k.routes
      BY <1>1 DEF After
    <2> QED  BY <2>1, ReroutedTyped DEF KernelSound
  <1>4. IsFiniteSet(n.sidRules)
    <2>1. n.sidRules \subseteq k.sidRules \cup {c.sid}
      BY <1>1 DEF After
    <2>2. IsFiniteSet(k.sidRules \cup {c.sid})
      BY FS_AddElement DEF KernelSound
    <2> QED  BY <2>1, <2>2, FS_Subset
  <1>5. IsFiniteSet(n.steerRules)
    <2>1. n.steerRules \subseteq k.steerRules \cup {c.rule}
      BY <1>1 DEF After
    <2>2. IsFiniteSet(k.steerRules \cup {c.rule})
      BY FS_AddElement DEF KernelSound
    <2> QED  BY <2>1, <2>2, FS_Subset
  <1>6. \A r \in n.steerRules : RuleTyped(r)
    <2>1. n.steerRules \subseteq k.steerRules \/ (c.do = "add_steer_rule" /\ n.steerRules = k.steerRules \cup {c.rule})
      BY <1>1 DEF After
    <2> QED  BY <2>1 DEF KernelSound, CallSound
  <1> QED  BY <1>2, <1>3, <1>4, <1>5, <1>6 DEF KernelSound, n

\* A plan made of sound calls.
LEMMA Planned ==
    ASSUME NEW A, Plan(calls', A), \A c \in A : CallSound(c)', Apart(A)
    PROVE  CallsSound'
  <1>1. Range(calls') = A
    BY DEF Plan
  <1> QED  BY <1>1 DEF CallsSound

\* The calls after the first one.
LEMMA TailSound ==
    ASSUME CallsSound, calls # <<>>, calls' = Tail(calls)
    PROVE  /\ Head(calls) \in Range(calls) /\ CallSound(Head(calls))
           /\ Range(calls) = {Head(calls)} \cup Range(calls')
           /\ Plan(calls', Range(calls')) /\ Apart(Range(calls'))
           /\ \A c \in Range(calls') : CallSound(c)
  <1> DEFINE A == Range(calls)
  <1>1. Plan(calls, A) /\ Apart(A) /\ \A c \in A : CallSound(c)
    BY DEF CallsSound
  <1> HIDE DEF A
  <1>2. Head(calls) \in A
    BY <1>1, PlanSequence
  <1>3. PICK B \in SUBSET A : Plan(Tail(calls), B) /\ A = {Head(calls)} \cup B
    BY <1>1, PlanSequence
  <1>4. Range(calls') = B /\ Plan(calls', B)
    BY <1>3 DEF Plan
  <1> QED  BY <1>1, <1>2, <1>3, <1>4 DEF Apart, A

LEMMA TypedAnyway == IInv => TypeOK
  BY DEF IInv, KernelSound, RoutesTyped, RuleTyped, Memory, PassSound, TypeOK

LEMMA DeletedAnyway == IInv => DeleteLeavesNothing
  <1> SUFFICES ASSUME IInv, pass.kind = "delete", ~pass.flaw, calls = <<>>
               PROVE  /\ kern.sidRules = {} /\ kern.steerRules = {} /\ kern.decap = {}
                      /\ kern.routes[Vrf] = NoRoutes
    BY DEF DeleteLeavesNothing
  <1>1. Range(calls) = {}
    BY DEF Range
  <1> QED  BY <1>1 DEF IInv, Deleting

-----------------------------------------------------------------------------
(* Every plan is sound.                                                     *)

\* Sound whatever the filter covers.
AlwaysSound(c) ==
    /\ c.do \in Writes \cup Others /\ c.do # "add_sid_rule"
    /\ c.do = "add_steer_rule" => RuleTyped(c.rule)
    /\ c.do = "locator" => c.as \in {"none", "local", "uN"}
    /\ c.do = "lib" => c.on \in BOOLEAN
    /\ c.do = "replace_decap" => c.len \in Decap
    /\ c.do = "apply_ruleset" => c.over \subseteq Hosts

LEMMA AlwaysIsSound == ASSUME NEW c, AlwaysSound(c) PROVE CallSound(c) /\ CallSound(c)'
  BY DEF AlwaysSound, CallSound

LEMMA CallsThemselves ==
    /\ \A t, x : AlwaysSound(Unroute(t, x)) /\ Unroute(t, x).do = "delete_route"
    /\ \A t, x, list : AlwaysSound(Route(t, x, list)) /\ Route(t, x, list).do = "replace_seg6_route"
    /\ \A t : AlwaysSound(FlushTable(t)) /\ FlushTable(t).do = "flush_table"
    /\ \A r : AlwaysSound(Unsteer(r)) /\ Unsteer(r).do = "delete_steer_rule"
    /\ \A s : AlwaysSound(DeleteSidRule(s)) /\ DeleteSidRule(s).do = "delete_sid_rule"
    /\ \A len : AlwaysSound(DeleteDecap(len)) /\ DeleteDecap(len).do = "delete_decap"
    /\ \A r : RuleTyped(r) => AlwaysSound(Steer(r))
    /\ \A r : Steer(r).do = "add_steer_rule"
    /\ \A over \in SUBSET Hosts : AlwaysSound(ApplyRuleset(over)) /\ ApplyRuleset(over).do = "apply_ruleset"
    /\ \A c \in NodeCalls : AlwaysSound(c) /\ c.do \in {"locator", "lib"}
    /\ \A u : AlwaysSound(ReplaceDecap(DecapLen(u))) /\ ReplaceDecap(DecapLen(u)).do = "replace_decap"
    /\ \A s : SidRule(s).do = "add_sid_rule" /\ SidRule(s).sid = s
    /\ \A s : MayAdmit(s) => CallSound(SidRule(s))
  <1>1. \A t, x : AlwaysSound(Unroute(t, x)) /\ Unroute(t, x).do = "delete_route"
    BY DEF AlwaysSound, Unroute, Writes, Others
  <1>2. \A t, x, list : AlwaysSound(Route(t, x, list)) /\ Route(t, x, list).do = "replace_seg6_route"
    BY DEF AlwaysSound, Route, Writes, Others
  <1>3. \A t : AlwaysSound(FlushTable(t)) /\ FlushTable(t).do = "flush_table"
    BY DEF AlwaysSound, FlushTable, Writes, Others
  <1>4. \A r : AlwaysSound(Unsteer(r)) /\ Unsteer(r).do = "delete_steer_rule"
    BY DEF AlwaysSound, Unsteer, Writes, Others
  <1>5. \A s : AlwaysSound(DeleteSidRule(s)) /\ DeleteSidRule(s).do = "delete_sid_rule"
    BY DEF AlwaysSound, DeleteSidRule, Writes, Others
  <1>6. \A len : AlwaysSound(DeleteDecap(len)) /\ DeleteDecap(len).do = "delete_decap"
    BY DEF AlwaysSound, DeleteDecap, Writes, Others
  <1>7. \A r : Steer(r).do = "add_steer_rule" /\ (RuleTyped(r) => AlwaysSound(Steer(r)))
    BY DEF AlwaysSound, Steer, Writes, Others
  <1>8. \A over \in SUBSET Hosts : AlwaysSound(ApplyRuleset(over)) /\ ApplyRuleset(over).do = "apply_ruleset"
    BY DEF AlwaysSound, ApplyRuleset, Writes, Others
  <1>9. \A c \in NodeCalls : AlwaysSound(c) /\ c.do \in {"locator", "lib"}
    <2>1. \A as \in {"none", "local", "uN"} : AlwaysSound(Becomes(as)) /\ Becomes(as).do = "locator"
      BY DEF AlwaysSound, Becomes, Writes, Others
    <2>2. \A on \in BOOLEAN : AlwaysSound(SealLib(on)) /\ SealLib(on).do = "lib"
      BY DEF AlwaysSound, SealLib, Writes, Others
    <2> QED  BY <2>1, <2>2 DEF NodeCalls
  <1>10. \A u : AlwaysSound(ReplaceDecap(DecapLen(u))) /\ ReplaceDecap(DecapLen(u)).do = "replace_decap"
    BY DEF AlwaysSound, ReplaceDecap, DecapLen, Decap, Writes, Others
  <1>11. \A s : SidRule(s).do = "add_sid_rule" /\ SidRule(s).sid = s
    BY DEF SidRule
  <1>12. \A s : MayAdmit(s) => CallSound(SidRule(s))
    BY <1>11 DEF CallSound, Writes, Others
  <1> QED  BY <1>1, <1>2, <1>3, <1>4, <1>5, <1>6, <1>7, <1>8, <1>9, <1>10, <1>11, <1>12

\* A stage may plan these calls.
PlanSound(s) == \E A : Plan(s, A) /\ (\A c \in A : CallSound(c)) /\ Apart(A)

\* A boot, wherever the agent starts.
LEMMA BootPlan ==
    ASSUME NEW u
    PROVE  \E A : Plan(Boot(u), A) /\ \A c \in A : AlwaysSound(c)
  <1>1. PICK A \in SUBSET NodeCalls : Plan(EnsureLocatorRoute(u), A)
    BY LocatorPlan
  <1> DEFINE c == ApplyRuleset({Me})
  <1>2. Plan(<<c>>, {c})
    BY PlanOne
  <1>3. Plan(Boot(u), A \cup {c})
    BY <1>1, <1>2, PlanJoin DEF Boot, EnsureEdgeFilter
  <1>4. AlwaysSound(c)
    BY CallsThemselves, NodeRoutesAssumption
  <1>5. \A d \in A : AlwaysSound(d)
    BY CallsThemselves
  <1> QED  BY <1>3, <1>4, <1>5

LEMMA EmptyPlanSound == PlanSound(<<>>)
  BY PlanEmpty DEF PlanSound, Apart

LEMMA EncodePlanSound ==
    ASSUME NEW u, NEW b
    PROVE  PlanSound(EnsureLocatorRoute(u) \o (IF b THEN <<DeleteDecap(DecapLen(enc))>> ELSE <<>>))
  <1>1. PICK A \in SUBSET NodeCalls : Plan(EnsureLocatorRoute(u), A)
    BY LocatorPlan
  <1> DEFINE c == DeleteDecap(DecapLen(enc))
  <1> DEFINE s == IF b THEN <<c>> ELSE <<>>
  <1> DEFINE B == IF b THEN {c} ELSE {}
  <1>2. Plan(s, B)
    BY PlanOne, PlanEmpty
  <1>3. \A d \in A \cup B : AlwaysSound(d) /\ d.do # "apply_ruleset"
    <2>1. \A d \in A : AlwaysSound(d) /\ d.do \in {"locator", "lib"}
      BY CallsThemselves
    <2>2. AlwaysSound(c) /\ c.do = "delete_decap"
      BY CallsThemselves
    <2> HIDE DEF c
    <2> QED  BY <2>1, <2>2
  <1> HIDE DEF s, B, c
  <1>4. Plan(EnsureLocatorRoute(u) \o s, A \cup B)
    BY <1>1, <1>2, PlanJoin
  <1>5. PlanSound(EnsureLocatorRoute(u) \o s)
    BY <1>3, <1>4, AlwaysIsSound DEF PlanSound, Apart
  <1> QED  BY <1>5 DEF s, c

LEMMA OnePlanSound ==
    ASSUME NEW c, AlwaysSound(c)
    PROVE  PlanSound(<<c>>)
  <1>1. Plan(<<c>>, {c})
    BY PlanOne
  <1>2. (\A d \in {c} : CallSound(d)) /\ Apart({c})
    BY AlwaysIsSound DEF Apart, AlwaysSound
  <1> QED  BY <1>1, <1>2 DEF PlanSound

LEMMA UnroutePlanSound ==
    ASSUME NEW S, IsFiniteSet(S)
    PROVE  PlanSound(InOrder(S, LAMBDA x : Unroute(Vrf, x)))
  <1> DEFINE A == {Unroute(Vrf, x) : x \in S}
  <1> DEFINE s == InOrder(S, LAMBDA x : Unroute(Vrf, x))
  <1>1. Plan(s, A)
    BY UnrouteOrder
  <1>2. \A c \in A : AlwaysSound(c) /\ c.do = "delete_route"
    BY CallsThemselves
  <1> HIDE DEF A, s
  <1>3. PlanSound(s)
    BY <1>1, <1>2, AlwaysIsSound DEF PlanSound, Apart
  <1> QED  BY <1>3 DEF s

LEMMA InstallPlanSound ==
    ASSUME NEW p, Finite(p), locs \subseteq Hosts
    PROVE  PlanSound(InstallRoutes(p))
  <1> DEFINE A == UNION {InstallCalls(p, x) : x \in Remote(p)}
  <1>1. Plan(InstallRoutes(p), A)
    BY SmallSets, InstallPlan
  <1>2. ASSUME NEW x \in Remote(p), NEW c \in InstallCalls(p, x)
        PROVE  CallSound(c) /\ c.do # "apply_ruleset"
    <2> DEFINE e == EncapOf(p, x)
    <2>1. (e.rule # None /\ c = SidRule(e.rule)) \/ c = Route(Vrf, x, e.segs)
      BY DEF InstallCalls
    <2>2. e.rule # None => MayAdmit(e.rule)
      <3>1. p.routes[x].host \in Hosts
        BY DEF Remote
      <3> QED  BY <3>1, EncapAdmits DEF EncapOf
    <2> HIDE DEF e
    <2> QED  BY <2>1, <2>2, CallsThemselves, AlwaysIsSound
  <1>3. \A c \in A : CallSound(c) /\ c.do # "apply_ruleset"
    BY <1>2
  <1> HIDE DEF A
  <1> QED  BY <1>1, <1>3 DEF PlanSound, Apart

LEMMA ReleaseSound ==
    ASSUME NEW t, NEW c \in ReleaseCalls(t)
    PROVE  AlwaysSound(c) /\ c.do \in {"delete_steer_rule", "flush_table"}
  BY CallsThemselves DEF ReleaseCalls

LEMMA SteeringPlanSound ==
    ASSUME NEW p, Finite(p), locs \subseteq Hosts, gateway \in Ifaces \cup {None}, NEW prune \in BOOLEAN
    PROVE  PlanSound(SyncSteering(p, prune))
  <1> DEFINE A == SteeringCalls(p, prune)
  <1>1. Plan(SyncSteering(p, prune), A) /\ ClaimedSound(p)
    BY SteeringPlan
  <1>2. ASSUME NEW vm \in DOMAIN Claimed(p), NEW c \in SteerCalls(p, vm, Claimed(p)[vm], prune)
        PROVE  CallSound(c) /\ c.do # "apply_ruleset"
    <2> DEFINE t == Claimed(p)[vm]
    <2>1. vm \in Desired(p) /\ t \in Tables \ Foreign /\ gateway \in Ifaces
      BY <1>1 DEF ClaimedSound, Desired
    <2> HIDE DEF t
    <2>2. CASE \E s \in SteerRulesOf(p, vm) : c = SidRule(s)
      <3>1. PICK s \in SteerRulesOf(p, vm) : c = SidRule(s)
        BY <2>2
      <3>2. PICK x \in SteeredOf(p, vm) : s = SteerEncap(p, vm, x).rule /\ s # None
        BY DEF SteerRulesOf, RulesOf
      <3>3. p.routes[x].host \in Hosts
        BY DEF SteeredOf
      <3>4. MayAdmit(s)
        BY <3>2, <3>3, EncapAdmits DEF SteerEncap
      <3> QED  BY <3>1, <3>4, CallsThemselves
    <2>3. CASE \E r \in Want(p, vm, t) : c = Steer(r)
      <3>1. PICK r \in Want(p, vm, t) : c = Steer(r)
        BY <2>3
      <3>2. RuleTyped(r)
        BY <2>1 DEF Want, RuleTyped
      <3> QED  BY <3>1, <3>2, CallsThemselves, AlwaysIsSound
    <2>4. CASE \/ \E x : c = Route(t, x, SteerEncap(p, vm, x).segs) \/ c = Unroute(t, x)
               \/ \E r : c = Unsteer(r)
      BY <2>4, CallsThemselves, AlwaysIsSound
    <2>5. c \in SteerKept(p, vm, t) \/ c \in SteerPruned(p, vm, t)
      BY DEF SteerCalls, t
    <2> QED  BY <2>2, <2>3, <2>4, <2>5 DEF SteerKept, SteerPruned
  <1>3. \A c \in A : CallSound(c) /\ c.do # "apply_ruleset"
    <2> SUFFICES ASSUME NEW c \in A PROVE CallSound(c) /\ c.do # "apply_ruleset"
      OBVIOUS
    <2>1. \/ \E vm \in DOMAIN Claimed(p) : c \in SteerCalls(p, vm, Claimed(p)[vm], prune)
          \/ \E t : c \in ReleaseCalls(t)
      BY DEF SteeringCalls
    <2> QED  BY <1>2, <2>1, ReleaseSound, AlwaysIsSound
  <1> HIDE DEF A
  <1> QED  BY <1>1, <1>3 DEF PlanSound, Apart

LEMMA RulesPlanSound ==
    ASSUME NEW p, NEW claimed, IsFiniteSet(kern.sidRules)
    PROVE  PlanSound(RemoveUnwantedSidRules(p, claimed))
  <1> DEFINE S == kern.sidRules \ Needed(p, claimed)
  <1> DEFINE A == {DeleteSidRule(s) : s \in S}
  <1>1. RemoveUnwantedSidRules(p, claimed) = InOrder(S, DeleteSidRule)
    BY DEF RemoveUnwantedSidRules
  <1>2. IsFiniteSet(S)
    BY FS_Subset
  <1> HIDE DEF S
  <1>3. Plan(InOrder(S, DeleteSidRule), A)
    BY <1>2, DeleteSidRuleOrder
  <1>4. \A c \in A : AlwaysSound(c) /\ c.do = "delete_sid_rule"
    BY CallsThemselves
  <1> HIDE DEF A
  <1> QED  BY <1>1, <1>3, <1>4, AlwaysIsSound DEF PlanSound, Apart

-----------------------------------------------------------------------------
(* Every step keeps the invariant.                                          *)

LEMMA StartIs ==
    ASSUME NEW kind, NEW p
    PROVE  Start(kind, p) = [kind |-> kind, rest |-> StagesOf(kind), payload |-> p,
                             claimed |-> <<>>, flaw |-> FALSE]
  <1> DEFINE rest == StagesOf(kind)
  <1>1. Start(kind, p) = [Idle EXCEPT !.kind = kind, !.rest = rest, !.payload = p]
    BY DEF Start
  <1> HIDE DEF rest
  <1>2. Start(kind, p) = [kind |-> kind, rest |-> rest, payload |-> p, claimed |-> <<>>, flaw |-> FALSE]
    BY <1>1 DEF Idle
  <1> QED  BY <1>2 DEF rest

LEMMA StagesAre ==
    StagesOf("boot") = <<>> /\ StagesOf("remove") = <<>> /\ StagesOf("delete") = <<>>
  BY DEF StagesOf

LEMMA BootSound ==
    ASSUME NEW u, calls' = Boot(u)
    PROVE  CallsSound'
  <1>1. PICK A : Plan(Boot(u), A) /\ \A c \in A : AlwaysSound(c)
    BY BootPlan
  <1>2. \A c \in A : CallSound(c)' /\ c.do # "add_sid_rule"
    BY <1>1, AlwaysIsSound DEF AlwaysSound
  <1> QED  BY <1>1, <1>2, Planned DEF Apart

LEMMA InitSound == Init => IInv
  <1> SUFFICES ASSUME Init PROVE IInv
    OBVIOUS
  <1>1. KernelSound(kern)
    <2>1. kern = BareKernel /\ IsFiniteSet({})
      BY FS_EmptySet DEF Init
    <2> QED  BY <2>1 DEF BareKernel, KernelSound, KernelFields, RoutesTyped, NoRoutes
  <1>2. Memory
    <2>1. 0 \in 0..MaxPasses /\ 0 \in 0..MaxFaults
      BY NodeRoutesAssumption
    <2>2. /\ enc = FALSE /\ filtered = {} /\ locs = {} /\ programmed = FALSE
          /\ gateway \in Ifaces /\ passes = 0 /\ faults = 0
      BY DEF Init
    <2> QED  BY <2>1, <2>2 DEF Memory
  <1>3. PassSound
    <2>1. pass = [kind |-> "boot", rest |-> StagesOf("boot"), payload |-> None, claimed |-> <<>>, flaw |-> FALSE]
      BY StartIs DEF Init
    <2> QED  BY <2>1, StagesAre DEF PassSound, Kinds
  <1>4. CallsSound
    <2>1. PICK A : Plan(Boot(FALSE), A) /\ \A c \in A : AlwaysSound(c)
      BY BootPlan
    <2>2. Range(calls) = A /\ Plan(calls, A)
      BY <2>1 DEF Init, Plan
    <2> QED  BY <2>1, <2>2, AlwaysIsSound DEF AlwaysSound, CallsSound, Apart
  <1>5. Deleting
    <2>1. pass.kind = "boot"
      BY StartIs DEF Init
    <2> QED  BY <2>1 DEF Deleting
  <1> QED  BY <1>1, <1>2, <1>3, <1>4, <1>5 DEF IInv

\* What reaches the agent.
LEMMA TurnTyped == Memory /\ Turn => passes' \in 0..MaxPasses
  BY NodeRoutesAssumption DEF Memory, Turn

\* An increment is about one address.
OneRoute(p) == \A vm \in DOMAIN p.steer : DOMAIN p.steer[vm].lists = DOMAIN p.routes

LEMMA OnlyTyped ==
    ASSUME NEW p, PayloadTyped(p), NEW x \in DOMAIN p.routes
    PROVE  PayloadTyped(Only(p, x)) /\ OneRoute(Only(p, x))
  <1> DEFINE routes == Restrict(p.routes, {x})
  <1> DEFINE vms == {v \in DOMAIN p.steer : x \in DOMAIN p.steer[v].lists}
  <1> DEFINE one(vm) == [p.steer[vm] EXCEPT !.lists = Restrict(p.steer[vm].lists, {x})]
  <1> DEFINE steer == [vm \in vms |-> one(vm)]
  <1> DEFINE o == Only(p, x)
  <1>1. o = [p EXCEPT !.known = {}, !.routes = routes, !.steer = steer]
    BY DEF Only
  <1>2. DOMAIN routes = {x} /\ routes[x] = p.routes[x]
    BY DEF Restrict
  <1>3. \A vm \in vms : one(vm) = [from |-> p.steer[vm].from, lists |-> Restrict(p.steer[vm].lists, {x})]
    <2> SUFFICES ASSUME NEW vm \in vms
                 PROVE  one(vm) = [from |-> p.steer[vm].from, lists |-> Restrict(p.steer[vm].lists, {x})]
      OBVIOUS
    <2> DEFINE lists == Restrict(p.steer[vm].lists, {x})
    <2>1. p.steer[vm] = [from |-> p.steer[vm].from, lists |-> p.steer[vm].lists]
      BY DEF PayloadTyped
    <2>2. one(vm) = [p.steer[vm] EXCEPT !.lists = lists]
      OBVIOUS
    <2> HIDE DEF lists, one
    <2>3. one(vm) = [from |-> p.steer[vm].from, lists |-> lists]
      BY <2>1, <2>2
    <2> QED  BY <2>3 DEF lists
  <1>4. \A f : DOMAIN Restrict(f, {x}) = {x} /\ Restrict(f, {x})[x] = f[x]
    BY DEF Restrict
  <1>5. /\ DOMAIN steer = vms /\ vms \subseteq DOMAIN p.steer
        /\ \A vm \in vms : /\ steer[vm] = [from |-> steer[vm].from, lists |-> steer[vm].lists]
                           /\ steer[vm].from = p.steer[vm].from /\ DOMAIN steer[vm].lists = {x}
                           /\ steer[vm].lists[x] = p.steer[vm].lists[x]
    <2>1. \A vm \in vms : steer[vm] = [from |-> p.steer[vm].from, lists |-> Restrict(p.steer[vm].lists, {x})]
      BY <1>3
    <2>2. DOMAIN steer = vms /\ vms \subseteq DOMAIN p.steer
      OBVIOUS
    <2> HIDE DEF steer, vms
    <2> SUFFICES ASSUME NEW vm \in vms
                 PROVE  /\ steer[vm] = [from |-> steer[vm].from, lists |-> steer[vm].lists]
                        /\ steer[vm].from = p.steer[vm].from /\ DOMAIN steer[vm].lists = {x}
                        /\ steer[vm].lists[x] = p.steer[vm].lists[x]
      BY <2>2
    <2> DEFINE lists == Restrict(p.steer[vm].lists, {x})
    <2>3. DOMAIN lists = {x} /\ lists[x] = p.steer[vm].lists[x]
      BY <1>4
    <2>4. steer[vm] = [from |-> p.steer[vm].from, lists |-> lists]
      BY <2>1
    <2> HIDE DEF lists
    <2> QED  BY <2>3, <2>4
  <1>6. steer = [vm \in DOMAIN steer |-> [from |-> steer[vm].from, lists |-> steer[vm].lists]]
    <2>1. steer = [vm \in DOMAIN steer |-> steer[vm]]
      OBVIOUS
    <2> HIDE DEF steer, vms
    <2> QED  BY <1>5, <2>1
  <1> HIDE DEF routes, steer, vms, o
  <1>7. o = [usid |-> p.usid, known |-> {}, routes |-> routes, steer |-> steer]
    BY <1>1 DEF PayloadTyped
  <1>8. /\ x \in Dests /\ DOMAIN p.steer \subseteq Vms /\ p.usid \in BOOLEAN
        /\ \A vm \in DOMAIN p.steer : IsFiniteSet(p.steer[vm].from)
        /\ p.routes[x].via \in Seq(Hosts)
        /\ \A vm \in vms : p.steer[vm].lists[x] \in Seq(Hosts)
    BY DEF PayloadTyped, vms
  <1>9. o.usid = p.usid /\ o.known = {} /\ o.routes = routes /\ o.steer = steer
    BY <1>7
  <1>10. PayloadTyped(o)
    BY <1>2, <1>5, <1>6, <1>7, <1>8, <1>9 DEF PayloadTyped
  <1>11. OneRoute(o)
    BY <1>2, <1>5, <1>9 DEF OneRoute
  <1> QED  BY <1>10, <1>11 DEF o

\* A pass begins with a payload.
LEMMA StartKeeps ==
    ASSUME IInv, NEW kind \in {"sync", "update", "add"}, NEW p, PayloadTyped(p),
           pass' = Start(kind, p), Memory', UNCHANGED <<kern, filtered, calls>>
    PROVE  IInv'
  <1>1. PassSound' /\ pass'.kind # "delete"
    BY StartIs DEF PassSound, Kinds
  <1>2. CallsSound'
    BY DEF IInv, CallsSound, CallSound, MayAdmit
  <1> QED  BY <1>1, <1>2 DEF IInv, Deleting

LEMMA SyncStateKeeps == ASSUME IInv, NEW p \in Payloads, SyncState(p) PROVE IInv'
  <1>1. Memory /\ PayloadTyped(p)
    BY NodeRoutesAssumption DEF IInv
  <1>2. Memory'
    <2>1. passes' \in 0..MaxPasses
      BY <1>1, TurnTyped DEF SyncState
    <2> QED  BY <1>1, <2>1 DEF Memory, SyncState, PayloadTyped
  <1>3. pass' = Start("sync", p) /\ UNCHANGED <<kern, filtered, calls>>
    BY DEF SyncState
  <1> QED  BY <1>1, <1>2, <1>3, StartKeeps

LEMMA DomainUpdatedKeeps == ASSUME IInv, NEW p \in Payloads, DomainUpdated(p) PROVE IInv'
  <1>1. Memory /\ PayloadTyped(p)
    BY NodeRoutesAssumption DEF IInv
  <1>2. Memory'
    <2>1. passes' \in 0..MaxPasses
      BY <1>1, TurnTyped DEF DomainUpdated
    <2> QED  BY <1>1, <2>1 DEF Memory, DomainUpdated
  <1>3. pass' = Start("update", p) /\ UNCHANGED <<kern, filtered, calls>>
    BY DEF DomainUpdated
  <1> QED  BY <1>1, <1>2, <1>3, StartKeeps

LEMMA RoutesAddedKeeps == ASSUME IInv, NEW p \in Payloads, NEW x \in Dests, RoutesAdded(p, x) PROVE IInv'
  <1>1. Memory /\ PayloadTyped(Only(p, x))
    <2>1. PayloadTyped(p) /\ x \in DOMAIN p.routes
      BY NodeRoutesAssumption DEF RoutesAdded
    <2> QED  BY <2>1, OnlyTyped DEF IInv
  <1>2. Memory'
    <2>1. passes' \in 0..MaxPasses
      BY <1>1, TurnTyped DEF RoutesAdded
    <2> QED  BY <1>1, <2>1 DEF Memory, RoutesAdded
  <1>3. pass' = Start("add", Only(p, x)) /\ UNCHANGED <<kern, filtered, calls>>
    BY DEF RoutesAdded
  <1> DEFINE o == Only(p, x)
  <1>4. PayloadTyped(o) /\ pass' = Start("add", o)
    BY <1>1, <1>3
  <1> HIDE DEF o
  <1> QED  BY <1>2, <1>3, <1>4, StartKeeps

LEMMA RoutesRemovedKeeps == ASSUME IInv, NEW x \in Dests, RoutesRemoved(x) PROVE IInv'
  <1>1. Memory'
    <2>1. Memory
      BY DEF IInv
    <2>2. passes' \in 0..MaxPasses
      BY <2>1, TurnTyped DEF RoutesRemoved
    <2> QED  BY <2>1, <2>2 DEF Memory, RoutesRemoved
  <1>2. PassSound' /\ pass'.kind = "remove"
    <2>1. Start("remove", None) = [kind |-> "remove", rest |-> <<>>, payload |-> None, claimed |-> <<>>, flaw |-> FALSE]
      BY StartIs, StagesAre
    <2>2. pass' = [kind |-> "remove", rest |-> <<>>, payload |-> x, claimed |-> <<>>, flaw |-> FALSE]
      <3> DEFINE s == Start("remove", None)
      <3>1. pass' = [s EXCEPT !.payload = x]
        BY DEF RoutesRemoved
      <3> HIDE DEF s
      <3>2. s = [kind |-> "remove", rest |-> <<>>, payload |-> None, claimed |-> <<>>, flaw |-> FALSE]
        BY <2>1 DEF s
      <3> QED  BY <3>1, <3>2
    <2> QED  BY <2>2 DEF PassSound, Kinds
  <1>3. CallsSound'
    <2> DEFINE c == Unroute(Vrf, x)
    <2>1. calls' = <<c>> /\ AlwaysSound(c) /\ c.do = "delete_route"
      BY CallsThemselves DEF RoutesRemoved
    <2> HIDE DEF c
    <2>2. Plan(calls', {c})
      BY <2>1, PlanOne
    <2>3. \A d \in {c} : CallSound(d)'
      BY <2>1, AlwaysIsSound
    <2>4. Apart({c})
      BY <2>1 DEF Apart
    <2> QED  BY <2>2, <2>3, <2>4, Planned
  <1> QED  BY <1>1, <1>2, <1>3 DEF IInv, RoutesRemoved, Deleting

LEMMA DomainDeletedKeeps == ASSUME IInv, DomainDeleted PROVE IInv'
  <1>1. Memory'
    <2>1. Memory
      BY DEF IInv
    <2>2. passes' \in 0..MaxPasses
      BY <2>1, TurnTyped DEF DomainDeleted
    <2> QED  BY <2>1, <2>2 DEF Memory, DomainDeleted
  <1>2. PassSound'
    <2>1. pass' = [kind |-> "delete", rest |-> <<>>, payload |-> None, claimed |-> <<>>, flaw |-> FALSE]
      BY StartIs, StagesAre DEF DomainDeleted
    <2> QED  BY <2>1 DEF PassSound, Kinds
  <1>3. Plan(calls', DeletionCalls)
    BY DeletionPlan DEF IInv, KernelSound, DomainDeleted
  <1>4. \A c \in DeletionCalls :
            /\ AlwaysSound(c)
            /\ c.do \in {"delete_steer_rule", "delete_sid_rule", "delete_decap", "flush_table"}
    <2> SUFFICES ASSUME NEW c \in DeletionCalls
                 PROVE  /\ AlwaysSound(c)
                        /\ c.do \in {"delete_steer_rule", "delete_sid_rule", "delete_decap", "flush_table"}
      OBVIOUS
    <2>1. CASE \E t \in Mine : c \in ReleaseCalls(t)
      BY <2>1, ReleaseSound
    <2>2. CASE \/ \E s \in kern.sidRules : c = DeleteSidRule(s)
               \/ c \in {DeleteDecap(128), DeleteDecap(64), FlushTable(Vrf)}
      BY <2>2, CallsThemselves
    <2> QED  BY <2>1, <2>2 DEF DeletionCalls
  <1>5. CallsSound'
    <2>1. \A c \in DeletionCalls : CallSound(c)'
      BY <1>4, AlwaysIsSound
    <2>2. Apart(DeletionCalls)
      BY <1>4 DEF Apart
    <2> QED  BY <1>3, <2>1, <2>2, Planned
  <1>6. Range(calls') = DeletionCalls
    BY <1>3 DEF Plan
  <1>7. UNCHANGED kern /\ KernelSound(kern)
    BY DEF IInv, DomainDeleted
  <1>8. /\ \A r \in kern.steerRules : Unsteer(r) \in DeletionCalls
        /\ \A s \in kern.sidRules : DeleteSidRule(s) \in DeletionCalls
        /\ \A len \in Decap : DeleteDecap(len) \in DeletionCalls
        /\ FlushTable(Vrf) \in DeletionCalls
    <2>1. \A r \in kern.steerRules : r.table \in Mine /\ Unsteer(r) \in ReleaseCalls(r.table)
      BY DEF Mine, ReleaseCalls, TableRules
    <2> QED  BY <2>1 DEF DeletionCalls, Decap
  <1>9. Deleting'
    BY <1>4, <1>6, <1>7, <1>8 DEF Deleting, KernelSound
  <1> QED  BY <1>1, <1>2, <1>5, <1>7, <1>9 DEF IInv

LEMMA GatewayMovesKeeps == ASSUME IInv, NEW i \in Ifaces \cup {None}, GatewayMoves(i) PROVE IInv'
  <1>1. Memory'
    <2>1. Memory
      BY DEF IInv
    <2>2. passes' \in 0..MaxPasses
      BY <2>1, TurnTyped DEF GatewayMoves
    <2> QED  BY <2>1, <2>2 DEF Memory, GatewayMoves
  <1>2. UNCHANGED <<kern, filtered, pass, calls>>
    BY DEF GatewayMoves
  <1> QED  BY <1>1, <1>2 DEF IInv, PassSound, CallsSound, CallSound, MayAdmit, Deleting

\* The stages.
LEMMA StageKeeps ==
    ASSUME IInv, NEW stage, NEW planned, Enter(stage, planned), PlanSound(planned), NEW c,
           Leave \/ pass' = [pass EXCEPT !.rest = Tail(@), !.claimed = c],
           enc' \in BOOLEAN, programmed' \in BOOLEAN, locs' \subseteq Hosts
    PROVE  IInv'
  <1>1. PassSound' /\ pass'.kind # "delete"
    <2>1. PassSound /\ pass.rest # <<>>
      BY DEF IInv, Enter
    <2> DEFINE t == Tail(pass.rest)
    <2>2. pass' = [pass EXCEPT !.rest = t] \/ pass' = [pass EXCEPT !.rest = t, !.claimed = c]
      BY DEF Leave
    <2> HIDE DEF t
    <2>3. /\ pass' = [kind |-> pass.kind, rest |-> t, payload |-> pass.payload,
                      claimed |-> pass'.claimed, flaw |-> pass.flaw]
      BY <2>1, <2>2 DEF PassSound
    <2> QED  BY <2>1, <2>3 DEF PassSound
  <1>2. Memory'
    BY DEF IInv, Memory, Enter
  <1>3. UNCHANGED <<kern, filtered>> /\ calls' = planned
    BY DEF Enter
  <1>4. CallsSound'
    <2>1. PICK A : Plan(planned, A) /\ (\A d \in A : CallSound(d)) /\ Apart(A)
      BY DEF PlanSound
    <2>2. \A d \in A : CallSound(d)'
      BY <1>3, <2>1 DEF CallSound, MayAdmit
    <2> QED  BY <1>3, <2>1, <2>2, Planned
  <1> QED  BY <1>1, <1>2, <1>3, <1>4 DEF IInv, Deleting

\* In a stage the payload is there, and the plans it makes are finite.
LEMMA StageHas ==
    ASSUME IInv, NEW stage, NEW planned, Enter(stage, planned)
    PROVE  /\ Finite(P) /\ PayloadTyped(P) /\ Memory
           /\ \A S : IsFiniteSet(Held(kern, Vrf) \ S) /\ IsFiniteSet(Held(kern, Vrf) \cap S)
  <1>1. PayloadTyped(P) /\ KernelSound(kern) /\ Memory
    BY DEF IInv, PassSound, Enter, P
  <1>2. Mine \subseteq Tables \ Foreign
    BY <1>1 DEF Mine, KernelSound, RuleTyped
  <1>3. Finite(P)
    BY <1>1, <1>2 DEF Finite, KernelSound
  <1>4. IsFiniteSet(Held(kern, Vrf))
    BY <1>3, SmallSets
  <1> QED  BY <1>1, <1>3, <1>4, FS_Subset

LEMMA EnsureEncodingKeeps == ASSUME IInv, EnsureEncoding PROVE IInv'
  <1> DEFINE switch == P.usid # enc /\ (P.usid => UsidLocator(Locator[Me]))
  <1> DEFINE planned == IF ~switch THEN <<>>
                        ELSE EnsureLocatorRoute(P.usid) \o
                             (IF programmed THEN <<DeleteDecap(DecapLen(enc))>> ELSE <<>>)
  <1>1. Enter("encode", planned)
    BY DEF EnsureEncoding
  <1>2. PlanSound(planned)
    BY EncodePlanSound, EmptyPlanSound
  <1>3. enc' = (IF switch THEN P.usid ELSE enc) /\ Leave /\ UNCHANGED <<locs, programmed>>
    BY DEF EnsureEncoding
  <1> HIDE DEF planned, switch
  <1>4. PayloadTyped(P) /\ Memory
    BY <1>1, StageHas
  <1>5. enc' \in BOOLEAN /\ programmed' \in BOOLEAN /\ locs' \subseteq Hosts
    BY <1>3, <1>4 DEF PayloadTyped, Memory
  <1> QED  BY <1>1, <1>2, <1>3, <1>5, StageKeeps

LEMMA EdgeFilterKeeps == ASSUME IInv, EdgeFilter PROVE IInv'
  <1> DEFINE over == locs \cup P.known \cup {Me}
  <1> DEFINE planned == IF pass.kind = "sync" \/ ~(P.known \subseteq locs) THEN EnsureEdgeFilter(over) ELSE <<>>
  <1>1. Enter("filter", planned)
    BY DEF EdgeFilter
  <1>2. locs' = locs \cup P.known /\ Leave /\ UNCHANGED <<enc, programmed>>
    BY DEF EdgeFilter
  <1>3. PayloadTyped(P) /\ Memory
    <2> HIDE DEF planned
    <2> QED  BY <1>1, StageHas
  <1>4. over \in SUBSET Hosts
    BY <1>3, NodeRoutesAssumption DEF PayloadTyped, Memory
  <1> HIDE DEF over
  <1>5. AlwaysSound(ApplyRuleset(over))
    BY <1>4, CallsThemselves
  <1>6. PlanSound(<<ApplyRuleset(over)>>)
    BY <1>5, OnePlanSound
  <1>7. PlanSound(planned)
    BY <1>6, EmptyPlanSound DEF EnsureEdgeFilter
  <1>8. enc' \in BOOLEAN /\ programmed' \in BOOLEAN /\ locs' \subseteq Hosts
    BY <1>2, <1>3 DEF PayloadTyped, Memory
  <1> HIDE DEF planned
  <1> QED  BY <1>1, <1>2, <1>7, <1>8, StageKeeps

LEMMA EnsureDomainKeeps == ASSUME IInv, EnsureDomain PROVE IInv'
  <1> DEFINE c == ReplaceDecap(DecapLen(enc))
  <1>1. Enter("domain", <<c>>) /\ Leave /\ UNCHANGED <<enc, locs, programmed>>
    BY DEF EnsureDomain
  <1>2. AlwaysSound(c)
    BY CallsThemselves
  <1> HIDE DEF c
  <1>3. PlanSound(<<c>>)
    BY <1>2, OnePlanSound
  <1>4. enc' \in BOOLEAN /\ programmed' \in BOOLEAN /\ locs' \subseteq Hosts
    BY <1>1 DEF IInv, Memory
  <1> QED  BY <1>1, <1>3, <1>4, StageKeeps

LEMMA InstallKeeps == ASSUME IInv, Install PROVE IInv'
  <1> DEFINE planned == InstallRoutes(P)
  <1>1. Enter("install", planned) /\ Leave /\ UNCHANGED <<enc, locs>> /\ programmed' = TRUE
    BY DEF Install
  <1> HIDE DEF planned
  <1>2. Finite(P) /\ Memory
    BY <1>1, StageHas
  <1>3. PlanSound(planned)
    BY <1>2, InstallPlanSound DEF Memory, planned
  <1>4. enc' \in BOOLEAN /\ programmed' \in BOOLEAN /\ locs' \subseteq Hosts
    BY <1>1, <1>2 DEF Memory
  <1> QED  BY <1>1, <1>3, <1>4, StageKeeps

LEMMA RemoveUnwantedKeeps == ASSUME IInv, RemoveUnwanted PROVE IInv'
  <1> DEFINE planned == RemoveUnwantedRoutes(P)
  <1>1. Enter("unwanted", planned) /\ Leave /\ UNCHANGED <<enc, locs, programmed>>
    BY DEF RemoveUnwanted
  <1> HIDE DEF planned
  <1>2. IsFiniteSet(Held(kern, Vrf) \ Remote(P)) /\ Memory
    BY <1>1, StageHas
  <1>3. PlanSound(planned)
    BY <1>2, UnroutePlanSound DEF planned, RemoveUnwantedRoutes
  <1>4. enc' \in BOOLEAN /\ programmed' \in BOOLEAN /\ locs' \subseteq Hosts
    BY <1>1, <1>2 DEF Memory
  <1> QED  BY <1>1, <1>3, <1>4, StageKeeps

LEMMA SteeringKeeps == ASSUME IInv, Steering PROVE IInv'
  <1> DEFINE planned == SyncSteering(P, pass.kind # "add")
  <1> DEFINE c == Claimed(P)
  <1>1. /\ Enter("steer", planned) /\ pass' = [pass EXCEPT !.rest = Tail(@), !.claimed = c]
        /\ UNCHANGED <<enc, locs, programmed>>
    BY DEF Steering
  <1> HIDE DEF planned, c
  <1>2. Finite(P) /\ Memory
    BY <1>1, StageHas
  <1>3. PlanSound(planned)
    BY <1>2, SteeringPlanSound DEF Memory, planned
  <1>4. enc' \in BOOLEAN /\ programmed' \in BOOLEAN /\ locs' \subseteq Hosts
    BY <1>1, <1>2 DEF Memory
  <1> QED  BY <1>1, <1>3, <1>4, StageKeeps

LEMMA LocalKeeps == ASSUME IInv, Local PROVE IInv'
  <1> DEFINE planned == RemoveLocal(P)
  <1>1. Enter("local", planned) /\ Leave /\ UNCHANGED <<enc, locs, programmed>>
    BY DEF Local
  <1> HIDE DEF planned
  <1> DEFINE S == {x \in Held(kern, Vrf) \cap DOMAIN P.routes : P.routes[x].host = Me}
  <1>2. IsFiniteSet(S) /\ Memory
    <2>1. IsFiniteSet(Held(kern, Vrf) \cap DOMAIN P.routes) /\ Memory
      BY <1>1, StageHas
    <2> QED  BY <2>1, FS_Subset
  <1>3. PlanSound(planned)
    <2>1. planned = InOrder(S, LAMBDA x : Unroute(Vrf, x))
      BY DEF planned, RemoveLocal
    <2> HIDE DEF S
    <2> QED  BY <1>2, <2>1, UnroutePlanSound
  <1>4. enc' \in BOOLEAN /\ programmed' \in BOOLEAN /\ locs' \subseteq Hosts
    BY <1>1, <1>2 DEF Memory
  <1> QED  BY <1>1, <1>3, <1>4, StageKeeps

LEMMA SidRulesKeeps == ASSUME IInv, SidRules PROVE IInv'
  <1> DEFINE planned == RemoveUnwantedSidRules(P, pass.claimed)
  <1>1. Enter("rules", planned) /\ Leave /\ UNCHANGED <<enc, locs, programmed>>
    BY DEF SidRules
  <1>2. PlanSound(planned)
    BY RulesPlanSound DEF IInv, KernelSound
  <1> HIDE DEF planned
  <1>3. enc' \in BOOLEAN /\ programmed' \in BOOLEAN /\ locs' \subseteq Hosts
    BY <1>1 DEF IInv, Memory
  <1> QED  BY <1>1, <1>2, <1>3, StageKeeps

\* A call, done or failed.
LEMMA CallKeeps == ASSUME IInv, Call PROVE IInv' /\ SealedStep
  <1> DEFINE c == Head(calls)
  <1>1. /\ calls # <<>> /\ calls' = Tail(calls) /\ kern' = Effect(kern, c)
        /\ filtered' = (IF c.do = "apply_ruleset" THEN c.over ELSE filtered)
        /\ UNCHANGED <<enc, locs, programmed, gateway, pass, passes, faults>>
    BY DEF Call
  <1>2. /\ c \in Range(calls) /\ CallSound(c)
        /\ Range(calls) = {c} \cup Range(calls')
        /\ Plan(calls', Range(calls')) /\ Apart(Range(calls'))
        /\ \A d \in Range(calls') : CallSound(d)
    BY <1>1, TailSound DEF IInv
  <1>3. Apart(Range(calls))
    BY DEF IInv, CallsSound
  <1>4. KernelSound(kern) /\ Memory /\ PassSound /\ Deleting
    BY DEF IInv
  <1> HIDE DEF c
  <1>5. KernelSound(kern')
    BY <1>1, <1>2, <1>4, EffectSound
  <1>6. kern' = After(kern, c)
    BY <1>1, <1>2, <1>4, EffectIs DEF KernelSound, CallSound
  <1>7. Memory'
    <2>1. kern'.nft = IF c.do = "apply_ruleset" THEN c.over ELSE kern.nft
      BY <1>6 DEF After
    <2>2. filtered' \subseteq kern'.nft
      BY <1>1, <1>4, <2>1 DEF Memory
    <2> QED  BY <1>1, <1>4, <2>2 DEF Memory
  <1>8. CallsSound'
    <2>1. ASSUME NEW d \in Range(calls') PROVE CallSound(d)'
      <3>1. CallSound(d)
        BY <1>2
      <3>2. CASE c.do = "apply_ruleset"
        <4>1. d.do # "add_sid_rule"
          BY <1>2, <1>3, <3>2 DEF Apart
        <4> QED  BY <3>1, <4>1 DEF CallSound
      <3>3. CASE c.do # "apply_ruleset"
        BY <1>1, <3>1, <3>3 DEF CallSound, MayAdmit
      <3> QED  BY <3>2, <3>3
    <2> QED  BY <1>2, <2>1 DEF CallsSound
  <1>9. Deleting'
    <2> SUFFICES ASSUME pass.kind = "delete", ~pass.flaw
                 PROVE  /\ \A r \in kern'.steerRules : Unsteer(r) \in Range(calls')
                        /\ \A s \in kern'.sidRules : DeleteSidRule(s) \in Range(calls')
                        /\ \A len \in kern'.decap : DeleteDecap(len) \in Range(calls')
                        /\ kern'.routes[Vrf] = NoRoutes \/ FlushTable(Vrf) \in Range(calls')
                        /\ \A d \in Range(calls') :
                               d.do \in {"delete_steer_rule", "delete_sid_rule", "delete_decap", "flush_table"}
      BY <1>1 DEF Deleting
    <2>1. /\ \A r \in kern.steerRules : Unsteer(r) \in {c} \cup Range(calls')
          /\ \A s \in kern.sidRules : DeleteSidRule(s) \in {c} \cup Range(calls')
          /\ \A len \in kern.decap : DeleteDecap(len) \in {c} \cup Range(calls')
          /\ kern.routes[Vrf] = NoRoutes \/ FlushTable(Vrf) \in {c} \cup Range(calls')
          /\ \A d \in {c} \cup Range(calls') :
                 d.do \in {"delete_steer_rule", "delete_sid_rule", "delete_decap", "flush_table"}
      BY <1>2, <1>4 DEF Deleting
    <2>2. /\ c.do \in {"delete_steer_rule", "delete_sid_rule", "delete_decap", "flush_table"}
          /\ kern'.steerRules = IF c.do = "delete_steer_rule" THEN kern.steerRules \ {c.rule} ELSE kern.steerRules
          /\ kern'.sidRules = IF c.do = "delete_sid_rule" THEN kern.sidRules \ {c.sid} ELSE kern.sidRules
          /\ kern'.decap = IF c.do = "delete_decap" THEN kern.decap \ {c.len} ELSE kern.decap
          /\ kern'.routes = IF c.do = "flush_table" THEN [kern.routes EXCEPT ![c.table] = NoRoutes] ELSE kern.routes
      <3>1. c.do \in {"delete_steer_rule", "delete_sid_rule", "delete_decap", "flush_table"}
        BY <2>1
      <3> QED  BY <1>6, <3>1 DEF After, Rerouted, Writes
    <2>3. \A r \in kern'.steerRules : Unsteer(r) \in Range(calls')
      <3>1. \A r : Unsteer(r).do = "delete_steer_rule" /\ Unsteer(r).rule = r
        BY DEF Unsteer
      <3>2. \A r \in kern'.steerRules : r \in kern.steerRules /\ c # Unsteer(r)
        BY <2>2, <3>1
      <3> QED  BY <2>1, <3>2
    <2>4. \A s \in kern'.sidRules : DeleteSidRule(s) \in Range(calls')
      <3>1. \A s : DeleteSidRule(s).do = "delete_sid_rule" /\ DeleteSidRule(s).sid = s
        BY DEF DeleteSidRule
      <3>2. \A s \in kern'.sidRules : s \in kern.sidRules /\ c # DeleteSidRule(s)
        BY <2>2, <3>1
      <3> QED  BY <2>1, <3>2
    <2>5. \A len \in kern'.decap : DeleteDecap(len) \in Range(calls')
      <3>1. \A len : DeleteDecap(len).do = "delete_decap" /\ DeleteDecap(len).len = len
        BY DEF DeleteDecap
      <3>2. \A len \in kern'.decap : len \in kern.decap /\ c # DeleteDecap(len)
        BY <2>2, <3>1
      <3> QED  BY <2>1, <3>2
    <2>6. kern'.routes[Vrf] = NoRoutes \/ FlushTable(Vrf) \in Range(calls')
      <3>1. DOMAIN kern.routes = Slots /\ Vrf \in Slots
        BY <1>4 DEF KernelSound, RoutesTyped, Slots
      <3>2. CASE c.do = "flush_table"
        <4> DEFINE v == NoRoutes
        <4> HIDE DEF v
        <4>1. CASE c.table = Vrf
          <5>1. kern'.routes = [kern.routes EXCEPT ![Vrf] = v]
            BY <2>2, <3>2, <4>1 DEF v
          <5>2. kern'.routes[Vrf] = v
            BY <3>1, <5>1
          <5> QED  BY <5>2 DEF v
        <4>2. CASE c.table # Vrf
          <5>1. kern'.routes = [kern.routes EXCEPT ![c.table] = v]
            BY <2>2, <3>2 DEF v
          <5>2. kern'.routes[Vrf] = kern.routes[Vrf]
            BY <3>1, <4>2, <5>1
          <5>3. c # FlushTable(Vrf)
            BY <4>2 DEF FlushTable
          <5> QED  BY <2>1, <5>2, <5>3
        <4> QED  BY <4>1, <4>2
      <3>3. CASE c.do # "flush_table"
        <4>1. c # FlushTable(Vrf)
          BY <3>3 DEF FlushTable
        <4> QED  BY <2>1, <2>2, <3>3, <4>1
      <3> QED  BY <3>2, <3>3
    <2> QED  BY <2>1, <2>3, <2>4, <2>5, <2>6
  <1>10. SealedStep
    <2> SUFFICES ASSUME NEW s \in kern'.sidRules \ kern.sidRules
                 PROVE  s \in DecapSids \/ NodeOf(s) \in kern.nft
      BY DEF SealedStep
    <2>1. c.do = "add_sid_rule" /\ s = c.sid
      BY <1>6 DEF After
    <2> QED  BY <1>2, <1>4, <2>1 DEF CallSound, MayAdmit, Memory
  <1>11. PassSound'
    BY <1>1, <1>4 DEF PassSound
  <1> QED  BY <1>5, <1>7, <1>8, <1>9, <1>10, <1>11 DEF IInv

LEMMA FaultTyped == ASSUME Memory, NEW kind, Fault(kind) PROVE faults' \in 0..MaxFaults
  BY NodeRoutesAssumption DEF Memory, Fault

LEMMA CallFailsKeeps == ASSUME IInv, CallFails PROVE IInv'
  <1> DEFINE c == Head(calls)
  <1>1. /\ calls # <<>> /\ UNCHANGED <<kern, enc, locs, programmed, gateway, passes>>
        /\ filtered' = IF c.do = "apply_ruleset" THEN {} ELSE filtered
        /\ \/ calls' = <<>> /\ (pass' = Idle \/ pass' = [Idle EXCEPT !.kind = "down"])
           \/ calls' = Tail(calls) /\ pass' = [pass EXCEPT !.flaw = TRUE]
        /\ Fault("call")
    BY DEF CallFails
  <1>2. KernelSound(kern) /\ Memory /\ PassSound /\ CallsSound
    BY DEF IInv
  <1>3. Memory'
    <2>1. faults' \in 0..MaxFaults
      BY <1>1, <1>2, FaultTyped
    <2> QED  BY <1>1, <1>2, <2>1 DEF Memory
  <1>4. PassSound' /\ (pass'.kind = "delete" => pass'.flaw)
    BY <1>1, <1>2 DEF PassSound, Idle, Kinds
  <1>5. CallsSound'
    <2>1. CASE calls' = <<>>
      BY <2>1, PlanEmpty, Planned DEF Apart
    <2>2. CASE calls' = Tail(calls)
      <3>1. /\ c \in Range(calls) /\ Range(calls) = {c} \cup Range(calls')
            /\ Plan(calls', Range(calls')) /\ Apart(Range(calls'))
            /\ \A d \in Range(calls') : CallSound(d)
        BY <1>1, <1>2, <2>2, TailSound
      <3>2. Apart(Range(calls))
        BY <1>2 DEF CallsSound
      <3> HIDE DEF c
      <3>3. ASSUME NEW d \in Range(calls') PROVE CallSound(d)'
        <4>1. CallSound(d)
          BY <3>1
        <4>2. CASE c.do = "apply_ruleset"
          <5>1. d.do # "add_sid_rule"
            BY <3>1, <3>2, <4>2 DEF Apart
          <5> QED  BY <4>1, <5>1 DEF CallSound
        <4>3. CASE c.do # "apply_ruleset"
          BY <1>1, <4>1, <4>3 DEF CallSound, MayAdmit
        <4> QED  BY <4>2, <4>3
      <3> QED  BY <3>1, <3>3 DEF CallsSound
    <2> QED  BY <1>1, <2>1, <2>2
  <1> QED  BY <1>1, <1>2, <1>3, <1>4, <1>5 DEF IInv, Deleting

LEMMA ReadFailsKeeps == ASSUME IInv, ReadFails PROVE IInv'
  <1>1. /\ pass.rest # <<>> /\ pass' = [pass EXCEPT !.rest = Tail(@), !.flaw = TRUE] /\ Fault("read")
        /\ UNCHANGED <<kern, enc, filtered, locs, programmed, gateway, calls, passes>>
    BY DEF ReadFails
  <1>2. Memory' /\ KernelSound(kern)' /\ PassSound
    <2>1. Memory /\ KernelSound(kern) /\ PassSound
      BY DEF IInv
    <2>2. faults' \in 0..MaxFaults
      BY <1>1, <2>1, FaultTyped
    <2> QED  BY <1>1, <2>1, <2>2 DEF Memory
  <1>3. PassSound' /\ pass'.flaw
    <2> DEFINE t == Tail(pass.rest)
    <2>1. pass' = [pass EXCEPT !.rest = t, !.flaw = TRUE]
      BY <1>1
    <2> HIDE DEF t
    <2>2. pass' = [kind |-> pass.kind, rest |-> t, payload |-> pass.payload,
                   claimed |-> pass.claimed, flaw |-> TRUE]
      BY <1>2, <2>1 DEF PassSound
    <2> QED  BY <1>1, <1>2, <2>2 DEF PassSound
  <1>4. CallsSound'
    BY <1>1 DEF IInv, CallsSound, CallSound, MayAdmit
  <1> QED  BY <1>2, <1>3, <1>4 DEF IInv, Deleting

LEMMA DoneKeeps == ASSUME IInv, Done PROVE IInv'
  <1>1. pass' = Idle /\ UNCHANGED <<kern, enc, filtered, locs, programmed, gateway, calls, passes, faults>>
    BY DEF Done
  <1>2. PassSound' /\ pass'.kind # "delete"
    BY <1>1 DEF PassSound, Idle, Kinds
  <1>3. CallsSound' /\ Memory' /\ KernelSound(kern)'
    BY <1>1 DEF IInv, CallsSound, CallSound, MayAdmit, Memory
  <1> QED  BY <1>2, <1>3 DEF IInv, Deleting

LEMMA StartAgainKeeps ==
    ASSUME IInv, StartAgain, faults' \in 0..MaxFaults
    PROVE  IInv'
  <1>1. /\ enc' = (kern.locator = "uN") /\ filtered' = {} /\ locs' = {} /\ programmed' = FALSE
        /\ pass' = Start("boot", None) /\ calls' = Boot(kern.locator = "uN")
        /\ UNCHANGED <<kern, gateway, passes>>
    BY DEF StartAgain
  <1>2. Memory' /\ KernelSound(kern)'
    BY <1>1 DEF IInv, Memory
  <1>3. PassSound' /\ pass'.kind = "boot"
    <2>1. pass' = [kind |-> "boot", rest |-> <<>>, payload |-> None, claimed |-> <<>>, flaw |-> FALSE]
      BY <1>1, StartIs, StagesAre
    <2> QED  BY <2>1 DEF PassSound, Kinds
  <1>4. CallsSound'
    BY <1>1, BootSound
  <1> QED  BY <1>2, <1>3, <1>4 DEF IInv, Deleting

\* Nothing but a call changes the kernel.
LEMMA OthersKeep ==
    ASSUME IInv, Next, ~Call
    PROVE  IInv' /\ UNCHANGED kern
  <1>1. CASE \E p \in Payloads : SyncState(p) \/ DomainUpdated(p)
    BY <1>1, SyncStateKeeps, DomainUpdatedKeeps DEF SyncState, DomainUpdated
  <1>2. CASE \E p \in Payloads, x \in Dests : RoutesAdded(p, x)
    BY <1>2, RoutesAddedKeeps DEF RoutesAdded
  <1>3. CASE \E x \in Dests : RoutesRemoved(x)
    BY <1>3, RoutesRemovedKeeps DEF RoutesRemoved
  <1>4. CASE DomainDeleted
    BY <1>4, DomainDeletedKeeps DEF DomainDeleted
  <1>5. CASE \E i \in Ifaces \cup {None} : GatewayMoves(i)
    BY <1>5, GatewayMovesKeeps DEF GatewayMoves
  <1>6. CASE EnsureEncoding
    BY <1>6, EnsureEncodingKeeps DEF EnsureEncoding, Enter
  <1>7. CASE EdgeFilter
    BY <1>7, EdgeFilterKeeps DEF EdgeFilter, Enter
  <1>8. CASE EnsureDomain
    BY <1>8, EnsureDomainKeeps DEF EnsureDomain, Enter
  <1>9. CASE Install
    BY <1>9, InstallKeeps DEF Install, Enter
  <1>10. CASE RemoveUnwanted
    BY <1>10, RemoveUnwantedKeeps DEF RemoveUnwanted, Enter
  <1>11. CASE Steering
    BY <1>11, SteeringKeeps DEF Steering, Enter
  <1>12. CASE Local
    BY <1>12, LocalKeeps DEF Local, Enter
  <1>13. CASE SidRules
    BY <1>13, SidRulesKeeps DEF SidRules, Enter
  <1>14. CASE CallFails
    BY <1>14, CallFailsKeeps DEF CallFails
  <1>15. CASE ReadFails
    BY <1>15, ReadFailsKeeps DEF ReadFails
  <1>16. CASE Done
    BY <1>16, DoneKeeps DEF Done
  <1>17. CASE Crash
    <2>1. Memory /\ Fault("crash") /\ StartAgain
      BY <1>17 DEF Crash, IInv
    <2>2. faults' \in 0..MaxFaults
      BY <2>1, FaultTyped
    <2> QED  BY <2>1, <2>2, StartAgainKeeps DEF StartAgain
  <1>18. CASE Restart
    <2>1. StartAgain /\ faults' \in 0..MaxFaults
      BY <1>18 DEF Restart, IInv, Memory
    <2> QED  BY <2>1, StartAgainKeeps DEF StartAgain
  <1> QED  BY <1>1, <1>2, <1>3, <1>4, <1>5, <1>6, <1>7, <1>8, <1>9, <1>10, <1>11, <1>12, <1>13,
              <1>14, <1>15, <1>16, <1>17, <1>18 DEF Next

LEMMA NextKeeps == IInv /\ [Next]_vars => IInv' /\ SealedStep
  <1> SUFFICES ASSUME IInv, [Next]_vars PROVE IInv' /\ SealedStep
    OBVIOUS
  <1>1. CASE Call
    BY <1>1, CallKeeps
  <1>2. CASE Next /\ ~Call
    BY <1>2, OthersKeep DEF SealedStep
  <1>3. CASE UNCHANGED vars
    BY <1>3 DEF vars, IInv, KernelSound, KernelFields, RoutesTyped, Memory, PassSound, CallsSound,
                CallSound, MayAdmit, Deleting, SealedStep
  <1> QED  BY <1>1, <1>2, <1>3

THEOREM RoutesInvariance == Spec => []IInv
  <1>1. Init => IInv
    BY InitSound
  <1>2. IInv /\ [Next]_vars => IInv'
    BY NextKeeps
  <1> QED  BY <1>1, <1>2, PTL DEF Spec

\* The types, and that no VM's rule ever leads into another domain's slot.
THEOREM RoutesTypeCorrect == Spec => []TypeOK
  BY RoutesInvariance, TypedAnyway, PTL

\* A deletion without a fault leaves nothing of the domain.
THEOREM RoutesDeletion == Spec => []DeleteLeavesNothing
  BY RoutesInvariance, DeletedAnyway, PTL

\* No VRF is ever let at a waypoint the kernel's edge filter does not cover.
THEOREM RoutesSealed == Spec => SealedRules
  <1>1. IInv /\ [Next]_vars => SealedStep
    BY NextKeeps
  <1>2. Spec => [][SealedStep]_vars
    BY <1>1, RoutesInvariance, PTL DEF Spec
  <1> QED  BY <1>2 DEF SealedRules

-----------------------------------------------------------------------------
(* A full pass settles: what each stage has brought about, or still has a   *)
(* call for, and that no call of a later stage undoes it.  The target of a  *)
(* pass is rigid from the moment its domain stage begins: it depends on the *)
(* payload, the claims of tables and what the agent knows, not on calls.    *)

\* A route is <<table, prefix, list>>, a place for one <<table, prefix>>.
VrfRoutes(p) ==
    {<<Vrf, x, EncapOf(p, x).segs>> : x \in {y \in Remote(p) : EncapOf(p, y).dev}}
VrfClear(p) == {<<Vrf, x>> : x \in Dests \ Remote(p)}
VrfRules(p) == RulesOf({EncapOf(p, x) : x \in Remote(p)})

TableRoutes(p, cl) ==
    UNION {{<<cl[vm], x, SteerEncap(p, vm, x).segs>> : x \in Ready(p, vm)} : vm \in DOMAIN cl}
TableClear(p, cl) ==
    UNION {{<<cl[vm], x>> : x \in Dests \ Ready(p, vm)} : vm \in DOMAIN cl}
Steers(p, cl) == UNION {Want(p, vm, cl[vm]) : vm \in DOMAIN cl}

Target(p, cl) ==
    [routes |-> VrfRoutes(p) \cup TableRoutes(p, cl), clear |-> VrfClear(p) \cup TableClear(p, cl),
     rules |-> Needed(p, cl), steer |-> Steers(p, cl)]

\* One list for each place, none where there is to be none.
Consistent(T) ==
    /\ \A e \in T.routes : e = <<e[1], e[2], e[3]>> /\ e[1] \in Slots /\ e[2] \in Dests
    /\ \A e \in T.clear : e = <<e[1], e[2]>> /\ e[1] \in Slots /\ e[2] \in Dests
    /\ \A e, f \in T.routes : e[1] = f[1] /\ e[2] = f[2] => e[3] = f[3]
    /\ \A e \in T.routes : <<e[1], e[2]>> \notin T.clear

\* A call that undoes nothing of a target.
Aimed(T, c) ==
    /\ c.do \in Writes \cup {"add_sid_rule", "delete_sid_rule", "add_steer_rule",
                             "delete_steer_rule", "replace_decap"}
    /\ c.do = "replace_seg6_route" => <<c.table, c.prefix, c.segs>> \in T.routes
    /\ c.do = "delete_route" => <<c.table, c.prefix>> \in T.clear
    /\ c.do = "flush_table" => \A e \in T.routes : e[1] # c.table
    /\ c.do = "add_sid_rule" => c.sid \in T.rules
    /\ c.do = "delete_sid_rule" => c.sid \notin T.rules
    /\ c.do = "add_steer_rule" => c.rule \in T.steer
    /\ c.do = "delete_steer_rule" => c.rule \notin T.steer

\* There, or a call of A is about to see to it.
DecapDue(k, A, len) == len \in k.decap \/ ReplaceDecap(len) \in A
RoutesDue(k, A, S) == \A e \in S : k.routes[e[1]][e[2]] = e[3] \/ Route(e[1], e[2], e[3]) \in A
ClearDue(k, A, S) == \A e \in S : k.routes[e[1]][e[2]] = <<>> \/ Unroute(e[1], e[2]) \in A
RulesDue(k, A, S) == \A s \in S : s \in k.sidRules \/ SidRule(s) \in A
SteersDue(k, A, S) == \A r \in S : r \in k.steerRules \/ Steer(r) \in A
SteersTrim(k, A, S) == \A r \in k.steerRules : r \in S \/ Unsteer(r) \in A
RulesTrim(k, A, S) == \A s \in k.sidRules : s \in S \/ DeleteSidRule(s) \in A

\* The stages that are left: none, the last one, and so on.
R0 == <<>>
R1 == << "rules" >>
R2 == << "steer", "rules" >>
R3 == << "unwanted", "steer", "rules" >>
R4 == << "install", "unwanted", "steer", "rules" >>
R5 == << "domain", "install", "unwanted", "steer", "rules" >>
R6f == << "filter", "domain", "install", "unwanted", "steer", "rules" >>
R6e == << "encode", "domain", "install", "unwanted", "steer", "rules" >>
R7s == << "filter", "encode", "domain", "install", "unwanted", "steer", "rules" >>
R7u == << "encode", "filter", "domain", "install", "unwanted", "steer", "rules" >>
Early == {R7s, R7u, R6f, R6e, R5}

ClaimsSettled(p, cl) ==
    /\ DOMAIN cl \subseteq Desired(p)
    /\ \A vm \in DOMAIN cl : cl[vm] \in Tables \ Foreign
    /\ \A vm, vn \in DOMAIN cl : cl[vm] = cl[vn] => vm = vn

Progress(p, cl, rest, A) ==
    /\ rest \in Early \cup {R0, R1, R2, R3, R4}
    /\ rest \notin {R0, R1} => cl = <<>>
    /\ rest \in {R0, R1} => ClaimsSettled(p, cl)
    /\ rest \notin Early =>
           /\ \A c \in A : Aimed(Target(p, cl), c)
           /\ DecapDue(kern, A, DecapLen(enc))
    /\ rest \in {R0, R1, R2, R3} => RoutesDue(kern, A, VrfRoutes(p)) /\ RulesDue(kern, A, VrfRules(p))
    /\ rest \in {R0, R1, R2} => ClearDue(kern, A, VrfClear(p))
    /\ rest \in {R0, R1} =>
           /\ RoutesDue(kern, A, TableRoutes(p, cl)) /\ ClearDue(kern, A, TableClear(p, cl))
           /\ RulesDue(kern, A, Needed(p, cl))
           /\ SteersDue(kern, A, Steers(p, cl)) /\ SteersTrim(kern, A, Steers(p, cl))
    /\ rest = R0 => RulesTrim(kern, A, Needed(p, cl))

Settling ==
    pass.kind \in {"sync", "update"} /\ ~pass.flaw =>
        \A p, cl, rest, A :
            p = pass.payload /\ cl = pass.claimed /\ rest = pass.rest /\ A = Range(calls)
                => PayloadTyped(p) /\ Progress(p, cl, rest, A)

\* One aimed call, of those that are left: everything due stays due or is done.
Step(k, n, c, A, B) ==
    /\ RoutesTyped(k.routes) /\ n = After(k, c) /\ A = {c} \cup B

LEMMA DecapStep ==
    ASSUME NEW k, NEW n, NEW c, NEW A, NEW B, NEW T, Step(k, n, c, A, B), Aimed(T, c),
           NEW len, DecapDue(k, A, len)
    PROVE  DecapDue(n, B, len)
  <1>1. n.decap = IF c.do = "replace_decap" THEN k.decap \cup {c.len} ELSE k.decap
    BY DEF Step, After, Aimed, Writes
  <1>2. ReplaceDecap(len).do = "replace_decap" /\ ReplaceDecap(len).len = len
    BY DEF ReplaceDecap
  <1> QED  BY <1>1, <1>2 DEF Step, DecapDue

LEMMA RoutesStep ==
    ASSUME NEW k, NEW n, NEW c, NEW A, NEW B, NEW T, Step(k, n, c, A, B), Aimed(T, c), Consistent(T),
           NEW S \in SUBSET T.routes, RoutesDue(k, A, S)
    PROVE  RoutesDue(n, B, S)
  <1> SUFFICES ASSUME NEW e \in S
               PROVE  n.routes[e[1]][e[2]] = e[3] \/ Route(e[1], e[2], e[3]) \in B
    BY DEF RoutesDue
  <1>1. e \in T.routes /\ e[1] \in Slots /\ e[2] \in Dests
    BY DEF Consistent
  <1>2. k.routes[e[1]][e[2]] = e[3] \/ Route(e[1], e[2], e[3]) \in A
    BY DEF RoutesDue
  <1> DEFINE r == Route(e[1], e[2], e[3])
  <1>3. r.do = "replace_seg6_route" /\ r.table = e[1] /\ r.prefix = e[2] /\ r.segs = e[3]
    BY DEF Route
  <1> HIDE DEF r
  <1>4. CASE c.do \in Writes
    <2> DEFINE w == Rerouted(k, c)
    <2>1. n.routes = w
      BY <1>4 DEF Step, After
    <2>2. w[e[1]][e[2]] = Written(k.routes, c, e[1], e[2])
      BY <1>1, <1>4, ReroutedIs DEF Step
    <2> HIDE DEF w
    <2>3. Written(k.routes, c, e[1], e[2]) = k.routes[e[1]][e[2]]
              \/ Written(k.routes, c, e[1], e[2]) = e[3]
      <3> SUFFICES ASSUME e[1] = c.table, c.do = "flush_table" \/ e[2] = c.prefix
                   PROVE  Written(k.routes, c, e[1], e[2]) = e[3]
        BY DEF Written
      <3>1. c.do # "flush_table" /\ e[2] = c.prefix
        BY <1>1 DEF Aimed
      <3>2. CASE c.do = "delete_route"
        <4>1. <<e[1], e[2]>> \in T.clear
          BY <3>1, <3>2 DEF Aimed
        <4> QED  BY <1>1, <4>1 DEF Consistent
      <3>3. CASE c.do = "replace_seg6_route"
        <4> DEFINE f == <<c.table, c.prefix, c.segs>>
        <4>1. f \in T.routes /\ f[1] = e[1] /\ f[2] = e[2] /\ f[3] = c.segs
          BY <3>1, <3>3 DEF Aimed
        <4> HIDE DEF f
        <4>2. c.segs = e[3]
          BY <1>1, <4>1 DEF Consistent
        <4> QED  BY <3>1, <3>3, <4>2 DEF Written
      <3> QED  BY <1>4, <3>1, <3>2, <3>3 DEF Writes
    <2>4. CASE k.routes[e[1]][e[2]] = e[3]
      BY <2>1, <2>2, <2>3, <2>4
    <2>5. CASE c = r
      <3>1. Written(k.routes, c, e[1], e[2]) = e[3]
        BY <1>3, <2>5 DEF Written
      <3> QED  BY <2>1, <2>2, <3>1
    <2> QED  BY <1>2, <2>4, <2>5 DEF Step, r
  <1>5. CASE c.do \notin Writes
    <2>1. n.routes = k.routes
      BY <1>5 DEF Step, After
    <2>2. c # r
      BY <1>3, <1>5 DEF Writes
    <2> QED  BY <1>2, <2>1, <2>2 DEF Step, r
  <1> QED  BY <1>4, <1>5

LEMMA ClearStep ==
    ASSUME NEW k, NEW n, NEW c, NEW A, NEW B, NEW T, Step(k, n, c, A, B), Aimed(T, c), Consistent(T),
           NEW S \in SUBSET T.clear, ClearDue(k, A, S)
    PROVE  ClearDue(n, B, S)
  <1> SUFFICES ASSUME NEW e \in S
               PROVE  n.routes[e[1]][e[2]] = <<>> \/ Unroute(e[1], e[2]) \in B
    BY DEF ClearDue
  <1>1. e \in T.clear /\ e = <<e[1], e[2]>> /\ e[1] \in Slots /\ e[2] \in Dests
    BY DEF Consistent
  <1>2. k.routes[e[1]][e[2]] = <<>> \/ Unroute(e[1], e[2]) \in A
    BY DEF ClearDue
  <1> DEFINE r == Unroute(e[1], e[2])
  <1>3. r.do = "delete_route" /\ r.table = e[1] /\ r.prefix = e[2]
    BY DEF Unroute
  <1> HIDE DEF r
  <1>4. CASE c.do \in Writes
    <2> DEFINE w == Rerouted(k, c)
    <2>1. n.routes = w
      BY <1>4 DEF Step, After
    <2>2. w[e[1]][e[2]] = Written(k.routes, c, e[1], e[2])
      BY <1>1, <1>4, ReroutedIs DEF Step
    <2> HIDE DEF w
    <2>3. Written(k.routes, c, e[1], e[2]) = k.routes[e[1]][e[2]]
              \/ Written(k.routes, c, e[1], e[2]) = <<>>
      <3>1. CASE c.do = "replace_seg6_route"
        <4> DEFINE f == <<c.table, c.prefix, c.segs>>
        <4>1. f \in T.routes /\ f[1] = c.table /\ f[2] = c.prefix
          BY <3>1 DEF Aimed
        <4> HIDE DEF f
        <4>2. <<c.table, c.prefix>> \notin T.clear
          BY <4>1 DEF Consistent
        <4>3. e[1] # c.table \/ e[2] # c.prefix
          BY <1>1, <4>2
        <4> QED  BY <3>1, <4>3 DEF Written
      <3>2. CASE c.do # "replace_seg6_route"
        BY <3>2 DEF Written
      <3> QED  BY <3>1, <3>2
    <2>4. CASE k.routes[e[1]][e[2]] = <<>>
      BY <2>1, <2>2, <2>3, <2>4
    <2>5. CASE c = r
      <3>1. Written(k.routes, c, e[1], e[2]) = <<>>
        BY <1>3, <2>5 DEF Written
      <3> QED  BY <2>1, <2>2, <3>1
    <2> QED  BY <1>2, <2>4, <2>5 DEF Step, r
  <1>5. CASE c.do \notin Writes
    <2>1. n.routes = k.routes
      BY <1>5 DEF Step, After
    <2>2. c # r
      BY <1>3, <1>5 DEF Writes
    <2> QED  BY <1>2, <2>1, <2>2 DEF Step, r
  <1> QED  BY <1>4, <1>5

LEMMA RulesStep ==
    ASSUME NEW k, NEW n, NEW c, NEW A, NEW B, NEW T, Step(k, n, c, A, B), Aimed(T, c)
    PROVE  /\ \A S \in SUBSET T.rules : RulesDue(k, A, S) => RulesDue(n, B, S)
           /\ RulesTrim(k, A, T.rules) => RulesTrim(n, B, T.rules)
  <1>1. n.sidRules = IF c.do = "add_sid_rule" THEN k.sidRules \cup {c.sid}
                     ELSE IF c.do = "delete_sid_rule" THEN k.sidRules \ {c.sid} ELSE k.sidRules
    BY DEF Step, After
  <1>2. \A s : SidRule(s).do = "add_sid_rule" /\ SidRule(s).sid = s
    BY DEF SidRule
  <1>3. \A s : DeleteSidRule(s).do = "delete_sid_rule" /\ DeleteSidRule(s).sid = s
    BY DEF DeleteSidRule
  <1>4. ASSUME NEW S \in SUBSET T.rules, RulesDue(k, A, S), NEW s \in S
        PROVE  s \in n.sidRules \/ SidRule(s) \in B
    <2>1. s \in k.sidRules \/ SidRule(s) = c \/ SidRule(s) \in B
      BY <1>4 DEF RulesDue, Step
    <2>2. ~(c.do = "delete_sid_rule" /\ c.sid = s)
      BY <1>4 DEF Aimed
    <2> QED  BY <1>1, <1>2, <2>1, <2>2
  <1>5. ASSUME RulesTrim(k, A, T.rules), NEW s \in n.sidRules, s \notin T.rules
        PROVE  DeleteSidRule(s) \in B
    <2>1. s \in k.sidRules
      BY <1>1, <1>5 DEF Aimed
    <2>2. DeleteSidRule(s) = c \/ DeleteSidRule(s) \in B
      BY <1>5, <2>1 DEF RulesTrim, Step
    <2>3. DeleteSidRule(s) # c
      BY <1>1, <1>3, <1>5
    <2> QED  BY <2>2, <2>3
  <1> QED  BY <1>4, <1>5 DEF RulesDue, RulesTrim

LEMMA SteersStep ==
    ASSUME NEW k, NEW n, NEW c, NEW A, NEW B, NEW T, Step(k, n, c, A, B), Aimed(T, c)
    PROVE  /\ SteersDue(k, A, T.steer) => SteersDue(n, B, T.steer)
           /\ SteersTrim(k, A, T.steer) => SteersTrim(n, B, T.steer)
  <1>1. n.steerRules = IF c.do = "add_steer_rule" THEN k.steerRules \cup {c.rule}
                       ELSE IF c.do = "delete_steer_rule" THEN k.steerRules \ {c.rule} ELSE k.steerRules
    BY DEF Step, After
  <1>2. \A r : Steer(r).do = "add_steer_rule" /\ Steer(r).rule = r
    BY DEF Steer
  <1>3. \A r : Unsteer(r).do = "delete_steer_rule" /\ Unsteer(r).rule = r
    BY DEF Unsteer
  <1>4. ASSUME SteersDue(k, A, T.steer), NEW r \in T.steer
        PROVE  r \in n.steerRules \/ Steer(r) \in B
    <2>1. r \in k.steerRules \/ Steer(r) = c \/ Steer(r) \in B
      BY <1>4 DEF SteersDue, Step
    <2>2. ~(c.do = "delete_steer_rule" /\ c.rule = r)
      BY <1>4 DEF Aimed
    <2> QED  BY <1>1, <1>2, <2>1, <2>2
  <1>5. ASSUME SteersTrim(k, A, T.steer), NEW r \in n.steerRules, r \notin T.steer
        PROVE  Unsteer(r) \in B
    <2>1. r \in k.steerRules
      BY <1>1, <1>5 DEF Aimed
    <2>2. Unsteer(r) = c \/ Unsteer(r) \in B
      BY <1>5, <2>1 DEF SteersTrim, Step
    <2>3. Unsteer(r) # c
      BY <1>1, <1>3, <1>5
    <2> QED  BY <2>2, <2>3
  <1> QED  BY <1>4, <1>5 DEF SteersDue, SteersTrim

\* What no call is left for is there.
LEMMA DoneStays ==
    ASSUME NEW k, NEW B
    PROVE  /\ \A len : DecapDue(k, {}, len) => DecapDue(k, B, len)
           /\ \A S : RoutesDue(k, {}, S) => RoutesDue(k, B, S)
           /\ \A S : ClearDue(k, {}, S) => ClearDue(k, B, S)
           /\ \A S : RulesDue(k, {}, S) => RulesDue(k, B, S)
           /\ \A S : SteersDue(k, {}, S) => SteersDue(k, B, S)
           /\ \A S : SteersTrim(k, {}, S) => SteersTrim(k, B, S)
  BY DEF DecapDue, RoutesDue, ClearDue, RulesDue, SteersDue, SteersTrim

View == <<enc, filtered, locs, gateway>>

\* What a pass aims at depends on nothing that its calls change.
\* What a VM's packets and a pass depend on is not changed by its calls.
LEMMA ViewParts ==
    ASSUME NEW p, NEW cl, UNCHANGED View
    PROVE  /\ Remote(p)' = Remote(p) /\ Desired(p)' = Desired(p)
           /\ \A x : EncapOf(p, x)' = EncapOf(p, x)
           /\ \A vm, x : SteerEncap(p, vm, x)' = SteerEncap(p, vm, x)
           /\ \A vm : SteeredOf(p, vm)' = SteeredOf(p, vm) /\ Ready(p, vm)' = Ready(p, vm)
           /\ \A vm, t : Want(p, vm, t)' = Want(p, vm, t)
           /\ \A vm : SteerRulesOf(p, vm)' = SteerRulesOf(p, vm)
  <1>0. enc' = enc /\ filtered' = filtered /\ locs' = locs /\ gateway' = gateway
    BY DEF View
  <1>1. Remote(p)' = Remote(p)
    BY <1>0 DEF Remote
  <1>2. \A host, via, usid : Encap(host, via, usid)' = Encap(host, via, usid)
    <2>1. \A host, via, usid : Pushed(host, via, usid)' = Pushed(host, via, usid)
      BY <1>0 DEF Pushed
    <2> QED  BY <1>0, <2>1 DEF Encap
  <1>3. \A x : EncapOf(p, x)' = EncapOf(p, x)
    BY <1>2 DEF EncapOf
  <1>4. \A vm, x : SteerEncap(p, vm, x)' = SteerEncap(p, vm, x)
    BY <1>2 DEF SteerEncap
  <1>5. Desired(p)' = Desired(p) /\ \A vm : SteeredOf(p, vm)' = SteeredOf(p, vm)
    BY <1>0 DEF Desired, SteeredOf
  <1>6. \A vm : Ready(p, vm)' = Ready(p, vm)
    BY <1>4, <1>5 DEF Ready
  <1>7. \A vm, t : Want(p, vm, t)' = Want(p, vm, t)
    BY <1>0 DEF Want
  <1>8. \A vm : SteerRulesOf(p, vm)' = SteerRulesOf(p, vm)
    BY <1>4, <1>5 DEF SteerRulesOf, RulesOf
  <1> QED  BY <1>1, <1>3, <1>4, <1>5, <1>6, <1>7, <1>8

LEMMA ViewKept ==
    ASSUME NEW p, NEW cl, UNCHANGED View
    PROVE  /\ Target(p, cl)' = Target(p, cl)
           /\ VrfRoutes(p)' = VrfRoutes(p) /\ VrfClear(p)' = VrfClear(p) /\ VrfRules(p)' = VrfRules(p)
           /\ TableRoutes(p, cl)' = TableRoutes(p, cl) /\ TableClear(p, cl)' = TableClear(p, cl)
           /\ Steers(p, cl)' = Steers(p, cl) /\ Needed(p, cl)' = Needed(p, cl)
           /\ ClaimsSettled(p, cl)' = ClaimsSettled(p, cl)
           /\ DecapLen(enc)' = DecapLen(enc)
  <1>0. enc' = enc /\ filtered' = filtered /\ locs' = locs /\ gateway' = gateway
    BY DEF View
  <1>1. Remote(p)' = Remote(p)
    BY ViewParts
  <1>2. \A x : EncapOf(p, x)' = EncapOf(p, x)
    BY ViewParts
  <1>3. \A vm, x : SteerEncap(p, vm, x)' = SteerEncap(p, vm, x)
    BY ViewParts
  <1>4. /\ Desired(p)' = Desired(p)
        /\ \A vm : SteeredOf(p, vm)' = SteeredOf(p, vm) /\ Ready(p, vm)' = Ready(p, vm)
        /\ \A vm, t : Want(p, vm, t)' = Want(p, vm, t)
    BY ViewParts
  <1>5. VrfRoutes(p)' = VrfRoutes(p) /\ VrfClear(p)' = VrfClear(p) /\ VrfRules(p)' = VrfRules(p)
    BY <1>1, <1>2 DEF VrfRoutes, VrfClear, VrfRules
  <1>6. TableRoutes(p, cl)' = TableRoutes(p, cl) /\ TableClear(p, cl)' = TableClear(p, cl)
    BY <1>3, <1>4 DEF TableRoutes, TableClear
  <1>7. Steers(p, cl)' = Steers(p, cl)
    BY <1>4 DEF Steers
  <1>8. Needed(p, cl)' = Needed(p, cl)
    <2> DEFINE vrf == RulesOf({EncapOf(p, x) : x \in Remote(p)})
    <2> DEFINE of(vm) == RulesOf({SteerEncap(p, vm, x) : x \in SteeredOf(p, vm)})
    <2>1. vrf' = vrf
      BY <1>1, <1>2 DEF RulesOf
    <2>2. \A vm : of(vm)' = of(vm)
      BY <1>3, <1>4 DEF RulesOf
    <2>3. Needed(p, cl) = vrf \cup UNION {of(vm) : vm \in DOMAIN cl}
      BY DEF Needed
    <2>4. Needed(p, cl)' = vrf' \cup UNION {of(vm)' : vm \in DOMAIN cl}
      BY DEF Needed
    <2> HIDE DEF vrf, of
    <2>5. {of(vm)' : vm \in DOMAIN cl} = {of(vm) : vm \in DOMAIN cl}
      BY <2>2
    <2> QED  BY <2>1, <2>3, <2>4, <2>5
  <1>9. ClaimsSettled(p, cl)' = ClaimsSettled(p, cl)
    BY <1>4 DEF ClaimsSettled
  <1>10. Target(p, cl)' = Target(p, cl)
    BY <1>5, <1>6, <1>7, <1>8 DEF Target
  <1> QED  BY <1>0, <1>5, <1>6, <1>7, <1>8, <1>9, <1>10

LEMMA ClaimsNone == ASSUME NEW p PROVE ClaimsSettled(p, <<>>)
  BY DEF ClaimsSettled

\* A target never asks for two things of one place: the VRF is no steer table,
\* and no table serves two VMs.
LEMMA TargetConsistent ==
    ASSUME NEW p, PayloadTyped(p), NEW cl, ClaimsSettled(p, cl)
    PROVE  Consistent(Target(p, cl))
  <1> DEFINE T == Target(p, cl)
  <1>1. T.routes = VrfRoutes(p) \cup TableRoutes(p, cl) /\ T.clear = VrfClear(p) \cup TableClear(p, cl)
    BY DEF Target
  <1> HIDE DEF T
  <1>2. /\ Vrf \in Slots /\ Vrf \notin Tables
        /\ \A vm \in DOMAIN cl : cl[vm] \in Slots /\ cl[vm] # Vrf
    BY NodeRoutesAssumption DEF Slots, ClaimsSettled
  <1>3. \A e \in VrfRoutes(p) : \E x \in Remote(p) : e = <<Vrf, x, EncapOf(p, x).segs>>
    BY DEF VrfRoutes
  <1>4. \A e \in VrfClear(p) : \E x \in Dests \ Remote(p) : e = <<Vrf, x>>
    BY DEF VrfClear
  <1>5. \A e \in TableRoutes(p, cl) : \E vm \in DOMAIN cl : \E x \in Ready(p, vm) :
            e = <<cl[vm], x, SteerEncap(p, vm, x).segs>>
    BY DEF TableRoutes
  <1>6. \A e \in TableClear(p, cl) : \E vm \in DOMAIN cl : \E x \in Dests \ Ready(p, vm) : e = <<cl[vm], x>>
    BY DEF TableClear
  <1>7. Remote(p) \subseteq Dests /\ \A vm \in DOMAIN cl : Ready(p, vm) \subseteq Dests
    <2>1. Remote(p) \subseteq Dests
      BY DEF PayloadTyped, Remote
    <2>2. ASSUME NEW vm \in DOMAIN cl PROVE Ready(p, vm) \subseteq Dests
      <3>1. vm \in DOMAIN p.steer
        BY DEF ClaimsSettled, Desired
      <3> QED  BY <3>1 DEF PayloadTyped, Ready, SteeredOf
    <2> QED  BY <2>1, <2>2
  <1>8. \A e \in T.routes : e = <<e[1], e[2], e[3]>> /\ e[1] \in Slots /\ e[2] \in Dests
    BY <1>1, <1>2, <1>3, <1>5, <1>7
  <1>9. \A e \in T.clear : e = <<e[1], e[2]>> /\ e[1] \in Slots /\ e[2] \in Dests
    BY <1>1, <1>2, <1>4, <1>6, <1>7
  <1>10. ASSUME NEW e \in T.routes, NEW f \in T.routes, e[1] = f[1], e[2] = f[2]
         PROVE  e[3] = f[3]
    <2>1. CASE e \in VrfRoutes(p)
      <3>1. PICK x \in Remote(p) : e = <<Vrf, x, EncapOf(p, x).segs>>
        BY <1>3, <2>1
      <3>2. f \in VrfRoutes(p)
        BY <1>1, <1>2, <1>5, <1>10, <3>1
      <3>3. PICK y \in Remote(p) : f = <<Vrf, y, EncapOf(p, y).segs>>
        BY <1>3, <3>2
      <3> QED  BY <1>10, <3>1, <3>3
    <2>2. CASE e \in TableRoutes(p, cl)
      <3>1. PICK vm \in DOMAIN cl : \E x \in Ready(p, vm) : e = <<cl[vm], x, SteerEncap(p, vm, x).segs>>
        BY <1>5, <2>2
      <3>2. PICK x \in Ready(p, vm) : e = <<cl[vm], x, SteerEncap(p, vm, x).segs>>
        BY <3>1
      <3>3. f \in TableRoutes(p, cl)
        BY <1>1, <1>2, <1>3, <1>10, <3>2
      <3>4. PICK vn \in DOMAIN cl : \E y \in Ready(p, vn) : f = <<cl[vn], y, SteerEncap(p, vn, y).segs>>
        BY <1>5, <3>3
      <3>5. PICK y \in Ready(p, vn) : f = <<cl[vn], y, SteerEncap(p, vn, y).segs>>
        BY <3>4
      <3>6. vm = vn /\ x = y
        BY <1>10, <3>2, <3>5 DEF ClaimsSettled
      <3> QED  BY <3>2, <3>5, <3>6
    <2> QED  BY <1>1, <2>1, <2>2
  <1>11. ASSUME NEW e \in T.routes PROVE <<e[1], e[2]>> \notin T.clear
    <2>1. CASE e \in VrfRoutes(p)
      <3>1. PICK x \in Remote(p) : e = <<Vrf, x, EncapOf(p, x).segs>>
        BY <1>3, <2>1
      <3> QED  BY <1>1, <1>2, <1>4, <1>6, <3>1
    <2>2. CASE e \in TableRoutes(p, cl)
      <3>1. PICK vm \in DOMAIN cl : \E x \in Ready(p, vm) : e = <<cl[vm], x, SteerEncap(p, vm, x).segs>>
        BY <1>5, <2>2
      <3>2. PICK x \in Ready(p, vm) : e = <<cl[vm], x, SteerEncap(p, vm, x).segs>>
        BY <3>1
      <3>3. <<cl[vm], x>> \notin VrfClear(p)
        BY <1>2, <1>4
      <3>4. <<cl[vm], x>> \notin TableClear(p, cl)
        BY <1>6, <3>2 DEF ClaimsSettled
      <3> QED  BY <1>1, <3>2, <3>3, <3>4
    <2> QED  BY <1>1, <2>1, <2>2
  <1>12. Consistent(T)
    BY <1>8, <1>9, <1>10, <1>11 DEF Consistent
  <1> QED  BY <1>12 DEF T

LEMMA RestsDiffer ==
    /\ R0 \notin Early /\ R1 \notin Early /\ R2 \notin Early /\ R3 \notin Early /\ R4 \notin Early
    /\ R0 \notin {R1, R2, R3, R4} /\ R1 \notin {R2, R3, R4} /\ R2 \notin {R3, R4} /\ R3 # R4
  <1>1. Len(R0) = 0 /\ Len(R1) = 1 /\ Len(R2) = 2 /\ Len(R3) = 3 /\ Len(R4) = 4
    BY DEF R0, R1, R2, R3, R4
  <1>2. Len(R5) = 5 /\ Len(R6f) = 6 /\ Len(R6e) = 6 /\ Len(R7s) = 7 /\ Len(R7u) = 7
    BY DEF R5, R6f, R6e, R7s, R7u
  <1> HIDE DEF R0, R1, R2, R3, R4, R5, R6f, R6e, R7s, R7u
  <1>3. \A r \in Early : Len(r) \in {5, 6, 7}
    BY <1>2 DEF Early
  <1>4. \A r : Len(r) \in {0, 1, 2, 3, 4} => r \notin Early
    BY <1>3
  <1>5. R0 \notin Early /\ R1 \notin Early /\ R2 \notin Early /\ R3 \notin Early /\ R4 \notin Early
    BY <1>1, <1>4
  <1>6. R0 \notin {R1, R2, R3, R4} /\ R1 \notin {R2, R3, R4} /\ R2 \notin {R3, R4} /\ R3 # R4
    <2>1. \A m, n \in {0, 1, 2, 3, 4} : \A r, q : Len(r) = m /\ Len(q) = n /\ m # n => r # q
      OBVIOUS
    <2>2. /\ R0 # R1 /\ R0 # R2 /\ R0 # R3 /\ R0 # R4 /\ R1 # R2 /\ R1 # R3 /\ R1 # R4
          /\ R2 # R3 /\ R2 # R4 /\ R3 # R4
      BY <1>1, <2>1
    <2> QED  BY <2>2
  <1> QED  BY <1>5, <1>6

\* The order of the stages.
LEMMA RestChain ==
    /\ R1 # <<>> /\ Head(R1) = "rules" /\ Tail(R1) = R0
    /\ R2 # <<>> /\ Head(R2) = "steer" /\ Tail(R2) = R1
    /\ R3 # <<>> /\ Head(R3) = "unwanted" /\ Tail(R3) = R2
    /\ R4 # <<>> /\ Head(R4) = "install" /\ Tail(R4) = R3
    /\ R5 # <<>> /\ Head(R5) = "domain" /\ Tail(R5) = R4
    /\ Head(R6f) = "filter" /\ Tail(R6f) = R5
    /\ Head(R6e) = "encode" /\ Tail(R6e) = R5
    /\ Head(R7s) = "filter" /\ Tail(R7s) = R6e
    /\ Head(R7u) = "encode" /\ Tail(R7u) = R6f
  BY DEF R0, R1, R2, R3, R4, R5, R6f, R6e, R7s, R7u

\* A call of a full pass.
LEMMA CallSettles == ASSUME IInv, Settling, Call PROVE Settling'
  <1> DEFINE c == Head(calls)
  <1>1. /\ calls # <<>> /\ calls' = Tail(calls) /\ kern' = Effect(kern, c)
        /\ filtered' = (IF c.do = "apply_ruleset" THEN c.over ELSE filtered)
        /\ UNCHANGED <<enc, locs, gateway, pass>>
    BY DEF Call
  <1>2. /\ c \in Range(calls) /\ CallSound(c)
        /\ Range(calls) = {c} \cup Range(calls')
    BY <1>1, TailSound DEF IInv
  <1>3. kern' = After(kern, c) /\ RoutesTyped(kern.routes)
    BY <1>1, <1>2, EffectIs DEF IInv, KernelSound, CallSound
  <1> HIDE DEF c
  <1> SUFFICES ASSUME pass.kind \in {"sync", "update"}, ~pass.flaw, NEW p, NEW cl, NEW rest, NEW B,
                      p = pass.payload, cl = pass.claimed, rest = pass.rest, B = Range(calls')
               PROVE  PayloadTyped(p) /\ Progress(p, cl, rest, B)'
    BY <1>1 DEF Settling
  <1> DEFINE A == Range(calls)
  <1>4. PayloadTyped(p) /\ Progress(p, cl, rest, A)
    BY DEF Settling
  <1> HIDE DEF A
  <1>5. rest \in Early \cup {R0, R1, R2, R3, R4} /\ (rest \notin {R0, R1} => cl = <<>>)
    BY <1>4 DEF Progress
  <1>6. CASE rest \in Early
    <2>1. rest # R0 /\ rest # R1 /\ rest # R2 /\ rest # R3
      BY <1>6, RestsDiffer
    <2> QED  BY <1>4, <1>5, <1>6, <2>1 DEF Progress
  <1>7. CASE rest \notin Early
    <2> DEFINE T == Target(p, cl)
    <2>1. Aimed(T, c) /\ \A d \in B : Aimed(T, d)
      BY <1>2, <1>4, <1>7 DEF Progress, A
    <2>2. Step(kern, kern', c, A, B)
      BY <1>2, <1>3 DEF Step, A
    <2>3. UNCHANGED View
      BY <1>1, <2>1 DEF Aimed, Writes, View
    <2>4. ClaimsSettled(p, cl)
      BY <1>4, <1>5, ClaimsNone DEF Progress
    <2>5. Consistent(T)
      BY <1>4, <2>4, TargetConsistent
    <2>6. /\ T' = T
          /\ VrfRoutes(p)' = VrfRoutes(p) /\ VrfClear(p)' = VrfClear(p) /\ VrfRules(p)' = VrfRules(p)
          /\ TableRoutes(p, cl)' = TableRoutes(p, cl) /\ TableClear(p, cl)' = TableClear(p, cl)
          /\ Steers(p, cl)' = Steers(p, cl) /\ Needed(p, cl)' = Needed(p, cl)
          /\ ClaimsSettled(p, cl)' /\ DecapLen(enc)' = DecapLen(enc)
      BY <2>3, <2>4, ViewKept
    <2>7. /\ VrfRoutes(p) \subseteq T.routes /\ TableRoutes(p, cl) \subseteq T.routes
          /\ VrfClear(p) \subseteq T.clear /\ TableClear(p, cl) \subseteq T.clear
          /\ Needed(p, cl) = T.rules /\ VrfRules(p) \subseteq T.rules
          /\ Steers(p, cl) = T.steer
      BY DEF Target, VrfRules, Needed
    <2> DEFINE n == kern'
    <2> HIDE DEF T, n
    <2>8. DecapDue(n, B, DecapLen(enc))
      <3>1. DecapDue(kern, A, DecapLen(enc))
        BY <1>4, <1>7 DEF Progress
      <3> QED  BY <2>1, <2>2, <3>1, DecapStep DEF n
    <2>9. \A S \in SUBSET T.routes : RoutesDue(kern, A, S) => RoutesDue(n, B, S)
      BY <2>1, <2>2, <2>5, RoutesStep DEF n
    <2>10. \A S \in SUBSET T.clear : ClearDue(kern, A, S) => ClearDue(n, B, S)
      BY <2>1, <2>2, <2>5, ClearStep DEF n
    <2>11. /\ \A S \in SUBSET T.rules : RulesDue(kern, A, S) => RulesDue(n, B, S)
           /\ RulesTrim(kern, A, T.rules) => RulesTrim(n, B, T.rules)
      BY <2>1, <2>2, RulesStep DEF n
    <2>12. /\ SteersDue(kern, A, T.steer) => SteersDue(n, B, T.steer)
           /\ SteersTrim(kern, A, T.steer) => SteersTrim(n, B, T.steer)
      BY <2>1, <2>2, SteersStep DEF n
    <2>13. rest \in {R0, R1, R2, R3} => RoutesDue(n, B, VrfRoutes(p)) /\ RulesDue(n, B, VrfRules(p))
      BY <1>4, <2>7, <2>9, <2>11 DEF Progress
    <2>14. rest \in {R0, R1, R2} => ClearDue(n, B, VrfClear(p))
      BY <1>4, <2>7, <2>10 DEF Progress
    <2>15. rest \in {R0, R1} =>
               /\ RoutesDue(n, B, TableRoutes(p, cl)) /\ ClearDue(n, B, TableClear(p, cl))
               /\ RulesDue(n, B, T.rules) /\ SteersDue(n, B, T.steer) /\ SteersTrim(n, B, T.steer)
      BY <1>4, <2>7, <2>9, <2>10, <2>11, <2>12 DEF Progress
    <2>16. rest = R0 => RulesTrim(n, B, T.rules)
      BY <1>4, <2>7, <2>11 DEF Progress
    <2>17. rest \in {R0, R1, R2, R3} => (RoutesDue(kern, B, VrfRoutes(p)) /\ RulesDue(kern, B, VrfRules(p)))'
      BY <2>6, <2>13 DEF n
    <2>18. rest \in {R0, R1, R2} => ClearDue(kern, B, VrfClear(p))'
      BY <2>6, <2>14 DEF n
    <2>19. rest \in {R0, R1} =>
               (/\ RoutesDue(kern, B, TableRoutes(p, cl)) /\ ClearDue(kern, B, TableClear(p, cl))
                /\ RulesDue(kern, B, Needed(p, cl))
                /\ SteersDue(kern, B, Steers(p, cl)) /\ SteersTrim(kern, B, Steers(p, cl)))'
      BY <2>6, <2>7, <2>15 DEF n
    <2>20. rest = R0 => RulesTrim(kern, B, Needed(p, cl))'
      BY <2>6, <2>7, <2>16 DEF n
    <2>21. (\A d \in B : Aimed(Target(p, cl), d))' /\ DecapDue(kern, B, DecapLen(enc))'
      BY <2>1, <2>6, <2>8 DEF n, T
    <2> QED  BY <1>4, <1>5, <2>6, <2>17, <2>18, <2>19, <2>20, <2>21 DEF Progress
  <1> QED  BY <1>4, <1>6, <1>7

LEMMA StageIs ==
    ASSUME NEW r \in Early \cup {R0, R1, R2, R3, R4}, r # <<>>
    PROVE  /\ Head(r) = "domain" => r = R5
           /\ Head(r) = "install" => r = R4
           /\ Head(r) = "unwanted" => r = R3
           /\ Head(r) = "steer" => r = R2
           /\ Head(r) = "rules" => r = R1
           /\ Head(r) \in {"encode", "filter"} => r \in Early /\ Tail(r) \in Early
           /\ Head(r) # "local"
  <1>1. r # R0
    BY DEF R0
  <1> QED  BY <1>1, RestChain DEF Early

\* What a stage of a full pass finds.
LEMMA StageFinds ==
    ASSUME IInv, Settling, NEW stage, NEW planned, Enter(stage, planned),
           pass.kind \in {"sync", "update"}, ~pass.flaw,
           NEW p, NEW cl, NEW r, p = pass.payload, cl = pass.claimed, r = pass.rest
    PROVE  /\ PayloadTyped(p) /\ Progress(p, cl, r, {})
           /\ r \in Early \cup {R0, R1, R2, R3, R4} /\ r # <<>> /\ Head(r) = stage
           /\ kern' = kern /\ calls' = planned
           /\ Finite(p)
  <1>1. calls = <<>> /\ pass.rest # <<>> /\ Head(pass.rest) = stage /\ calls' = planned /\ kern' = kern
    BY DEF Enter
  <1>2. Range(calls) = {}
    BY <1>1 DEF Range
  <1>3. PayloadTyped(p) /\ Progress(p, cl, r, {})
    BY <1>2 DEF Settling
  <1>4. Finite(p)
    BY <1>3 DEF Finite, IInv, KernelSound, RuleTyped, Mine
  <1> QED  BY <1>1, <1>3, <1>4 DEF Progress

LEMMA LeaveIs ==
    ASSUME PassSound, NEW t, pass' = [pass EXCEPT !.rest = t]
    PROVE  /\ pass'.kind = pass.kind /\ pass'.flaw = pass.flaw /\ pass'.payload = pass.payload
           /\ pass'.claimed = pass.claimed /\ pass'.rest = t
  BY DEF PassSound

\* The stages before the domain's: nothing is due yet.
LEMMA EarlySettles ==
    ASSUME IInv, Settling, NEW stage \in {"encode", "filter"}, NEW planned, Enter(stage, planned), Leave
    PROVE  Settling'
  <1> DEFINE t == Tail(pass.rest)
  <1>1. pass' = [pass EXCEPT !.rest = t] /\ PassSound
    BY DEF Leave, IInv
  <1> HIDE DEF t
  <1>2. /\ pass'.kind = pass.kind /\ pass'.flaw = pass.flaw /\ pass'.payload = pass.payload
        /\ pass'.claimed = pass.claimed /\ pass'.rest = t
    BY <1>1, LeaveIs
  <1> SUFFICES ASSUME pass.kind \in {"sync", "update"}, ~pass.flaw, NEW p, NEW cl, NEW rest, NEW B,
                      p = pass.payload, cl = pass.claimed, rest = t, B = Range(calls')
               PROVE  PayloadTyped(p) /\ Progress(p, cl, rest, B)'
    BY <1>2 DEF Settling
  <1>3. PICK r : r = pass.rest
    OBVIOUS
  <1>4. /\ PayloadTyped(p) /\ Progress(p, cl, r, {})
        /\ r \in Early \cup {R0, R1, R2, R3, R4} /\ r # <<>> /\ Head(r) = stage
    BY <1>3, StageFinds
  <1>5. r \in Early /\ rest \in Early
    BY <1>3, <1>4, StageIs DEF t
  <1>6. cl = <<>>
    BY <1>4, <1>5, RestsDiffer DEF Progress
  <1>7. rest # R0 /\ rest # R1 /\ rest # R2 /\ rest # R3
    BY <1>5, RestsDiffer
  <1> QED  BY <1>4, <1>5, <1>6, <1>7 DEF Progress

\* The frame of the stages from the domain's on.
LEMMA StageKeepsDue ==
    ASSUME NEW p, NEW cl, NEW r, NEW B, Progress(p, cl, r, {}), kern' = kern, UNCHANGED View
    PROVE  /\ r \notin Early => DecapDue(kern, B, DecapLen(enc))'
           /\ r \in {R0, R1, R2, R3} => RoutesDue(kern, B, VrfRoutes(p))' /\ RulesDue(kern, B, VrfRules(p))'
           /\ r \in {R0, R1, R2} => ClearDue(kern, B, VrfClear(p))'
           /\ r \in {R0, R1} =>
                  /\ RoutesDue(kern, B, TableRoutes(p, cl))' /\ ClearDue(kern, B, TableClear(p, cl))'
                  /\ RulesDue(kern, B, Needed(p, cl))'
                  /\ SteersDue(kern, B, Steers(p, cl))' /\ SteersTrim(kern, B, Steers(p, cl))'
  <1>1. /\ VrfRoutes(p)' = VrfRoutes(p) /\ VrfClear(p)' = VrfClear(p) /\ VrfRules(p)' = VrfRules(p)
        /\ TableRoutes(p, cl)' = TableRoutes(p, cl) /\ TableClear(p, cl)' = TableClear(p, cl)
        /\ Steers(p, cl)' = Steers(p, cl) /\ Needed(p, cl)' = Needed(p, cl)
        /\ DecapLen(enc)' = DecapLen(enc)
    BY ViewKept
  <1>2. r \notin Early => DecapDue(kern, B, DecapLen(enc))'
    BY <1>1, DoneStays DEF Progress
  <1>3. r \in {R0, R1, R2, R3} => RoutesDue(kern, B, VrfRoutes(p))' /\ RulesDue(kern, B, VrfRules(p))'
    BY <1>1, DoneStays DEF Progress
  <1>4. r \in {R0, R1, R2} => ClearDue(kern, B, VrfClear(p))'
    BY <1>1, DoneStays DEF Progress
  <1>5. r \in {R0, R1} => RoutesDue(kern, B, TableRoutes(p, cl))' /\ ClearDue(kern, B, TableClear(p, cl))'
    BY <1>1, DoneStays DEF Progress
  <1>6. r \in {R0, R1} => RulesDue(kern, B, Needed(p, cl))' /\ SteersDue(kern, B, Steers(p, cl))'
                              /\ SteersTrim(kern, B, Steers(p, cl))'
    BY <1>1, DoneStays DEF Progress
  <1> QED  BY <1>2, <1>3, <1>4, <1>5, <1>6

LEMMA EnsureDomainSettles == ASSUME IInv, Settling, EnsureDomain PROVE Settling'
  <1> DEFINE planned == <<ReplaceDecap(DecapLen(enc))>>
  <1>1. Enter("domain", planned) /\ Leave /\ UNCHANGED <<enc, locs>>
    BY DEF EnsureDomain
  <1> HIDE DEF planned
  <1> DEFINE t == Tail(pass.rest)
  <1>2. pass' = [pass EXCEPT !.rest = t] /\ PassSound
    BY <1>1 DEF Leave, IInv
  <1> HIDE DEF t
  <1>3. /\ pass'.kind = pass.kind /\ pass'.flaw = pass.flaw /\ pass'.payload = pass.payload
        /\ pass'.claimed = pass.claimed /\ pass'.rest = t
    BY <1>2, LeaveIs
  <1> SUFFICES ASSUME pass.kind \in {"sync", "update"}, ~pass.flaw, NEW p, NEW cl, NEW rest, NEW B,
                      p = pass.payload, cl = pass.claimed, rest = t, B = Range(calls')
               PROVE  PayloadTyped(p) /\ Progress(p, cl, rest, B)'
    BY <1>3 DEF Settling
  <1>4. PICK r : r = pass.rest
    OBVIOUS
  <1>5. /\ PayloadTyped(p) /\ Progress(p, cl, r, {})
        /\ r \in Early \cup {R0, R1, R2, R3, R4} /\ r # <<>> /\ Head(r) = "domain"
        /\ kern' = kern /\ calls' = planned
    BY <1>1, <1>4, StageFinds
  <1>6. r = R5 /\ rest = R4
    BY <1>4, <1>5, StageIs, RestChain DEF t
  <1>7. cl = <<>>
    BY <1>5, <1>6, RestsDiffer DEF Progress, Early
  <1>8. UNCHANGED View
    BY <1>1 DEF Enter, View
  <1> DEFINE c == ReplaceDecap(DecapLen(enc))
  <1>9. B = {c}
    BY <1>5, PlanOne DEF Plan, planned
  <1>10. (\A d \in B : Aimed(Target(p, cl), d))'
    <2>1. c.do = "replace_decap"
      BY DEF ReplaceDecap
    <2> HIDE DEF c
    <2>2. \A T : Aimed(T, c)
      BY <2>1 DEF Aimed, Writes
    <2>3. \A T : \A d \in B : Aimed(T, d)
      BY <1>9, <2>2
    <2> QED  BY <2>3
  <1>11. DecapDue(kern, B, DecapLen(enc))'
    <2>1. enc' = enc
      BY <1>1
    <2> QED  BY <1>9, <2>1 DEF DecapDue
  <1>12. rest \in {R4} /\ rest # R0 /\ rest # R1 /\ rest # R2 /\ rest # R3
    BY <1>6, RestsDiffer
  <1> QED  BY <1>5, <1>7, <1>10, <1>11, <1>12 DEF Progress

\* Calls about the VRF, none of which is undone.
InVrf(c) == c = SidRule(c.sid) \/ c = Route(Vrf, c.prefix, c.segs) \/ c = Unroute(Vrf, c.prefix)

LEMMA InstallAimed ==
    ASSUME NEW p, NEW cl, NEW x \in Remote(p), NEW d \in InstallCalls(p, x)
    PROVE  Aimed(Target(p, cl), d) /\ InVrf(d)
  <1> DEFINE e == EncapOf(p, x)
  <1> DEFINE T == Target(p, cl)
  <1>1. CASE e.rule # None /\ d = SidRule(e.rule)
    <2>1. e.rule \in VrfRules(p)
      BY <1>1 DEF VrfRules, RulesOf
    <2>2. e.rule \in T.rules
      BY <2>1 DEF Target, Needed, VrfRules
    <2> HIDE DEF e, T
    <2>3. Aimed(T, d)
      BY <1>1, <2>2 DEF Aimed, SidRule, Writes
    <2>4. InVrf(d)
      BY <1>1 DEF InVrf, SidRule
    <2> QED  BY <2>3, <2>4 DEF T
  <1>2. CASE e.dev /\ d = Route(Vrf, x, e.segs)
    <2>1. <<Vrf, x, e.segs>> \in VrfRoutes(p)
      BY <1>2 DEF VrfRoutes
    <2>2. <<Vrf, x, e.segs>> \in T.routes
      BY <2>1 DEF Target
    <2> HIDE DEF e, T
    <2>3. Aimed(T, d)
      BY <1>2, <2>2 DEF Aimed, Route, Writes
    <2>4. InVrf(d)
      BY <1>2 DEF InVrf, Route
    <2> QED  BY <2>3, <2>4 DEF T
  <1> QED  BY <1>1, <1>2 DEF InstallCalls

LEMMA InstallSettles == ASSUME IInv, Settling, Install PROVE Settling'
  <1>1. Enter("install", InstallRoutes(P)) /\ Leave /\ UNCHANGED <<enc, locs>>
    BY DEF Install
  <1> DEFINE t == Tail(pass.rest)
  <1>2. pass' = [pass EXCEPT !.rest = t] /\ PassSound
    BY <1>1 DEF Leave, IInv
  <1> HIDE DEF t
  <1>3. /\ pass'.kind = pass.kind /\ pass'.flaw = pass.flaw /\ pass'.payload = pass.payload
        /\ pass'.claimed = pass.claimed /\ pass'.rest = t
    BY <1>2, LeaveIs
  <1> SUFFICES ASSUME pass.kind \in {"sync", "update"}, ~pass.flaw, NEW p, NEW cl, NEW rest, NEW B,
                      p = pass.payload, cl = pass.claimed, rest = t, B = Range(calls')
               PROVE  PayloadTyped(p) /\ Progress(p, cl, rest, B)'
    BY <1>3 DEF Settling
  <1>4. PICK r : r = pass.rest
    OBVIOUS
  <1> DEFINE planned == InstallRoutes(p)
  <1>5. Enter("install", planned)
    BY <1>1 DEF P
  <1> HIDE DEF planned
  <1>6. /\ PayloadTyped(p) /\ Progress(p, cl, r, {}) /\ Finite(p)
        /\ r \in Early \cup {R0, R1, R2, R3, R4} /\ r # <<>> /\ Head(r) = "install"
        /\ kern' = kern /\ calls' = planned
    BY <1>4, <1>5, StageFinds
  <1>7. r = R4 /\ rest = R3
    BY <1>4, <1>6, StageIs, RestChain DEF t
  <1>8. r \notin Early /\ cl = <<>>
    BY <1>6, <1>7, RestsDiffer DEF Progress
  <1>9. UNCHANGED View
    BY <1>1 DEF Enter, View
  <1> DEFINE A == UNION {InstallCalls(p, x) : x \in Remote(p)}
  <1>10. B = A
    <2>1. IsFiniteSet(Remote(p))
      BY <1>6, SmallSets
    <2>2. Plan(planned, A)
      BY <2>1, InstallPlan DEF planned
    <2> QED  BY <1>6, <2>2 DEF Plan
  <1> DEFINE T == Target(p, cl)
  <1>11. /\ T' = T /\ VrfRoutes(p)' = VrfRoutes(p) /\ VrfRules(p)' = VrfRules(p)
    BY <1>9, ViewKept
  <1>12. \A d \in A : Aimed(T, d)
    BY InstallAimed DEF T
  <1>13. RoutesDue(kern, A, VrfRoutes(p))
    <2> SUFFICES ASSUME NEW e \in VrfRoutes(p) PROVE Route(e[1], e[2], e[3]) \in A
      BY DEF RoutesDue
    <2>1. PICK x \in Remote(p) : EncapOf(p, x).dev /\ e = <<Vrf, x, EncapOf(p, x).segs>>
      BY DEF VrfRoutes
    <2>2. Route(Vrf, x, EncapOf(p, x).segs) \in InstallCalls(p, x)
      BY <2>1 DEF InstallCalls
    <2> QED  BY <2>1, <2>2
  <1>14. RulesDue(kern, A, VrfRules(p))
    <2> SUFFICES ASSUME NEW s \in VrfRules(p) PROVE SidRule(s) \in A
      BY DEF RulesDue
    <2>1. PICK x \in Remote(p) : s = EncapOf(p, x).rule /\ s # None
      BY DEF VrfRules, RulesOf
    <2>2. SidRule(s) \in InstallCalls(p, x)
      BY <2>1 DEF InstallCalls
    <2> QED  BY <2>2
  <1> HIDE DEF A, T
  <1>15. (\A d \in B : Aimed(Target(p, cl), d))'
    BY <1>10, <1>11, <1>12 DEF T
  <1>16. RoutesDue(kern, B, VrfRoutes(p))' /\ RulesDue(kern, B, VrfRules(p))'
    BY <1>6, <1>10, <1>11, <1>13, <1>14
  <1>17. DecapDue(kern, B, DecapLen(enc))'
    BY <1>6, <1>8, <1>9, StageKeepsDue
  <1>18. rest \in {R3} /\ rest # R0 /\ rest # R1 /\ rest # R2
    BY <1>7, RestsDiffer
  <1> QED  BY <1>6, <1>8, <1>15, <1>16, <1>17, <1>18 DEF Progress

LEMMA RemoveUnwantedSettles == ASSUME IInv, Settling, RemoveUnwanted PROVE Settling'
  <1>1. Enter("unwanted", RemoveUnwantedRoutes(P)) /\ Leave /\ UNCHANGED <<enc, locs>>
    BY DEF RemoveUnwanted
  <1> DEFINE t == Tail(pass.rest)
  <1>2. pass' = [pass EXCEPT !.rest = t] /\ PassSound
    BY <1>1 DEF Leave, IInv
  <1> HIDE DEF t
  <1>3. /\ pass'.kind = pass.kind /\ pass'.flaw = pass.flaw /\ pass'.payload = pass.payload
        /\ pass'.claimed = pass.claimed /\ pass'.rest = t
    BY <1>2, LeaveIs
  <1> SUFFICES ASSUME pass.kind \in {"sync", "update"}, ~pass.flaw, NEW p, NEW cl, NEW rest, NEW B,
                      p = pass.payload, cl = pass.claimed, rest = t, B = Range(calls')
               PROVE  PayloadTyped(p) /\ Progress(p, cl, rest, B)'
    BY <1>3 DEF Settling
  <1>4. PICK r : r = pass.rest
    OBVIOUS
  <1> DEFINE planned == RemoveUnwantedRoutes(p)
  <1>5. Enter("unwanted", planned)
    BY <1>1 DEF P
  <1> HIDE DEF planned
  <1>6. /\ PayloadTyped(p) /\ Progress(p, cl, r, {}) /\ Finite(p)
        /\ r \in Early \cup {R0, R1, R2, R3, R4} /\ r # <<>> /\ Head(r) = "unwanted"
        /\ kern' = kern /\ calls' = planned
    BY <1>4, <1>5, StageFinds
  <1>7. r = R3 /\ rest = R2
    BY <1>4, <1>6, StageIs, RestChain DEF t
  <1>8. r \notin Early /\ cl = <<>>
    BY <1>6, <1>7, RestsDiffer DEF Progress
  <1>9. UNCHANGED View
    BY <1>1 DEF Enter, View
  <1> DEFINE S == Held(kern, Vrf) \ Remote(p)
  <1> DEFINE A == {Unroute(Vrf, x) : x \in S}
  <1>10. B = A
    <2>1. IsFiniteSet(S)
      <3>1. IsFiniteSet(Held(kern, Vrf))
        BY <1>6, SmallSets
      <3> QED  BY <3>1, FS_Subset
    <2>2. planned = InOrder(S, LAMBDA x : Unroute(Vrf, x))
      BY DEF planned, RemoveUnwantedRoutes
    <2> HIDE DEF S
    <2>3. Plan(planned, A)
      BY <2>1, <2>2, UnrouteOrder
    <2> QED  BY <1>6, <2>3 DEF Plan
  <1> DEFINE T == Target(p, cl)
  <1>11. T' = T /\ VrfClear(p)' = VrfClear(p)
    BY <1>9, ViewKept
  <1>12. \A d \in A : Aimed(T, d)
    <2> SUFFICES ASSUME NEW x \in S PROVE Aimed(T, Unroute(Vrf, x))
      OBVIOUS
    <2>1. <<Vrf, x>> \in VrfClear(p)
      BY DEF VrfClear, Held
    <2>2. <<Vrf, x>> \in T.clear
      BY <2>1 DEF Target
    <2> HIDE DEF T
    <2> QED  BY <2>2 DEF Aimed, Unroute, Writes
  <1>13. ClearDue(kern, A, VrfClear(p))
    <2> SUFFICES ASSUME NEW e \in VrfClear(p), kern.routes[e[1]][e[2]] # <<>>
                 PROVE  Unroute(e[1], e[2]) \in A
      BY DEF ClearDue
    <2>1. PICK x \in Dests \ Remote(p) : e = <<Vrf, x>>
      BY DEF VrfClear
    <2>2. x \in S
      BY <2>1 DEF Held
    <2> QED  BY <2>1, <2>2
  <1> HIDE DEF A, T
  <1>14. (\A d \in B : Aimed(Target(p, cl), d))'
    BY <1>10, <1>11, <1>12 DEF T
  <1>15. ClearDue(kern, B, VrfClear(p))'
    BY <1>6, <1>10, <1>11, <1>13
  <1>16. r \in {R0, R1, R2, R3}
    BY <1>7
  <1>17. DecapDue(kern, B, DecapLen(enc))' /\ RoutesDue(kern, B, VrfRoutes(p))' /\ RulesDue(kern, B, VrfRules(p))'
    BY <1>6, <1>8, <1>9, <1>16, StageKeepsDue
  <1>18. rest = R2 /\ rest # R0 /\ rest # R1
    BY <1>7, RestsDiffer
  <1> QED  BY <1>6, <1>8, <1>14, <1>15, <1>17, <1>18 DEF Progress

\* What the steering stage does, it does towards the target.
LEMMA SteeringAimed ==
    ASSUME NEW p, Finite(p), NEW cl, ClaimsSettled(p, cl)
    PROVE  /\ \A vm \in DOMAIN cl :
                  \A d \in SteerKept(p, vm, cl[vm]) \cup SteerPruned(p, vm, cl[vm]) : Aimed(Target(p, cl), d)
           /\ \A u \in Mine \ Range(cl) : \A d \in ReleaseCalls(u) : Aimed(Target(p, cl), d)
  <1> DEFINE T == Target(p, cl)
  <1>1. /\ TableRoutes(p, cl) \subseteq T.routes /\ T.routes \subseteq VrfRoutes(p) \cup TableRoutes(p, cl)
        /\ TableClear(p, cl) \subseteq T.clear /\ Needed(p, cl) = T.rules /\ Steers(p, cl) = T.steer
    BY DEF Target
  <1> HIDE DEF T
  <1>2. /\ \A vm \in DOMAIN cl : SteerRulesOf(p, vm) \subseteq Needed(p, cl)
        /\ \A s \in Needed(p, cl) : s \in VrfRules(p) \/ \E vm \in DOMAIN cl : s \in SteerRulesOf(p, vm)
    <2>1. Needed(p, cl) = VrfRules(p) \cup UNION {SteerRulesOf(p, vm) : vm \in DOMAIN cl}
      BY DEF Needed, VrfRules, SteerRulesOf
    <2> QED  BY <2>1
  <1>3. \A r1 \in Steers(p, cl) : \E vm \in DOMAIN cl : r1 \in Want(p, vm, cl[vm]) /\ r1.table = cl[vm]
    BY DEF Steers, Want
  <1>4. \A vm \in DOMAIN cl : \A r1 \in Steers(p, cl) : r1.table = cl[vm] => r1 \in Want(p, vm, cl[vm])
    BY <1>3 DEF ClaimsSettled
  <1>5. \A vm \in DOMAIN cl : cl[vm] \in Range(cl)
    BY DEF Range
  <1>6. ASSUME NEW vm \in DOMAIN cl, NEW d \in SteerKept(p, vm, cl[vm]) \cup SteerPruned(p, vm, cl[vm])
        PROVE  Aimed(T, d)
    <2>1. CASE \E x \in Ready(p, vm) : d = Route(cl[vm], x, SteerEncap(p, vm, x).segs)
      <3>1. PICK x \in Ready(p, vm) : d = Route(cl[vm], x, SteerEncap(p, vm, x).segs)
        BY <2>1
      <3> DEFINE e == SteerEncap(p, vm, x).segs
      <3>2. <<cl[vm], x, e>> \in T.routes
        BY <1>1 DEF TableRoutes
      <3> HIDE DEF e
      <3> QED  BY <3>1, <3>2 DEF Aimed, Route, Writes, e
    <2>2. CASE \E s \in SteerRulesOf(p, vm) : d = SidRule(s)
      BY <1>1, <1>2, <2>2 DEF Aimed, SidRule, Writes
    <2>3. CASE \E r1 \in Want(p, vm, cl[vm]) : d = Steer(r1)
      <3>1. Want(p, vm, cl[vm]) \subseteq T.steer
        BY <1>1 DEF Steers
      <3> QED  BY <2>3, <3>1 DEF Aimed, Steer, Writes
    <2>4. CASE \E r1 \in TableRules(cl[vm]) \ Want(p, vm, cl[vm]) : d = Unsteer(r1)
      <3>1. PICK r1 \in TableRules(cl[vm]) \ Want(p, vm, cl[vm]) : d = Unsteer(r1)
        BY <2>4
      <3>2. r1 \notin T.steer
        BY <1>1, <1>4 DEF TableRules
      <3> QED  BY <3>1, <3>2 DEF Aimed, Unsteer, Writes
    <2>5. CASE \E x \in Held(kern, cl[vm]) \ Ready(p, vm) : d = Unroute(cl[vm], x)
      <3>1. PICK x \in Held(kern, cl[vm]) \ Ready(p, vm) : d = Unroute(cl[vm], x)
        BY <2>5
      <3>2. <<cl[vm], x>> \in T.clear
        BY <1>1 DEF TableClear, Held
      <3> QED  BY <3>1, <3>2 DEF Aimed, Unroute, Writes
    <2> QED  BY <2>1, <2>2, <2>3, <2>4, <2>5 DEF SteerKept, SteerPruned
  <1>7. ASSUME NEW u \in Mine \ Range(cl), NEW d \in ReleaseCalls(u)
        PROVE  Aimed(T, d)
    <2>1. CASE \E r1 \in TableRules(u) : d = Unsteer(r1)
      <3>1. PICK r1 \in TableRules(u) : d = Unsteer(r1)
        BY <2>1
      <3>2. r1 \notin T.steer
        BY <1>1, <1>3, <1>5 DEF TableRules
      <3> QED  BY <3>1, <3>2 DEF Aimed, Unsteer, Writes
    <2>2. CASE d = FlushTable(u)
      <3>1. u # Vrf
        BY NodeRoutesAssumption DEF Finite
      <3>2. \A e \in VrfRoutes(p) : e[1] = Vrf
        BY DEF VrfRoutes
      <3>3. \A e \in TableRoutes(p, cl) : e[1] \in Range(cl)
        BY <1>5 DEF TableRoutes
      <3>4. \A e \in T.routes : e[1] # u
        BY <1>1, <3>1, <3>2, <3>3
      <3> QED  BY <2>2, <3>4 DEF Aimed, FlushTable, Writes
    <2> QED  BY <2>1, <2>2 DEF ReleaseCalls
  <1> QED  BY <1>6, <1>7 DEF T

LEMMA SteeringSettles == ASSUME IInv, Settling, Steering PROVE Settling'
  <1> DEFINE t == Tail(pass.rest)
  <1>1. /\ Enter("steer", SyncSteering(P, pass.kind # "add")) /\ UNCHANGED <<enc, locs>>
        /\ pass' = [pass EXCEPT !.rest = t, !.claimed = Claimed(P)] /\ PassSound
    BY DEF Steering, IInv
  <1> HIDE DEF t
  <1>2. /\ pass'.kind = pass.kind /\ pass'.flaw = pass.flaw /\ pass'.payload = pass.payload
        /\ pass'.claimed = Claimed(P) /\ pass'.rest = t
    BY <1>1 DEF PassSound
  <1> SUFFICES ASSUME pass.kind \in {"sync", "update"}, ~pass.flaw, NEW p, NEW cl, NEW rest, NEW B,
                      p = pass.payload, cl = Claimed(p), rest = t, B = Range(calls')
               PROVE  PayloadTyped(p) /\ Progress(p, cl, rest, B)'
    BY <1>2 DEF Settling, P
  <1>3. PICK r : r = pass.rest
    OBVIOUS
  <1>4. PICK none : none = pass.claimed
    OBVIOUS
  <1> DEFINE planned == SyncSteering(p, TRUE)
  <1>5. Enter("steer", planned)
    <2>1. (pass.kind # "add") = TRUE
      OBVIOUS
    <2> QED  BY <1>1, <2>1 DEF P
  <1> HIDE DEF planned
  <1>6. /\ PayloadTyped(p) /\ Progress(p, none, r, {}) /\ Finite(p)
        /\ r \in Early \cup {R0, R1, R2, R3, R4} /\ r # <<>> /\ Head(r) = "steer"
        /\ kern' = kern /\ calls' = planned
    BY <1>3, <1>4, <1>5, StageFinds
  <1>7. r = R2 /\ rest = R1
    BY <1>3, <1>6, StageIs, RestChain DEF t
  <1>8. r \notin Early /\ r \in {R0, R1, R2, R3} /\ r \in {R0, R1, R2}
    BY <1>7, RestsDiffer
  <1>9. UNCHANGED View
    BY <1>1 DEF Enter, View
  <1>10. Plan(planned, SteeringCalls(p, TRUE)) /\ ClaimedSound(p)
    BY <1>6, SteeringPlan DEF planned
  <1>11. ClaimsSettled(p, cl)
    BY <1>10 DEF ClaimedSound, ClaimsSettled
  <1>12. /\ \A vm \in DOMAIN cl : SteerKept(p, vm, cl[vm]) \cup SteerPruned(p, vm, cl[vm]) \subseteq B
         /\ \A u \in Mine \ Range(cl) : ReleaseCalls(u) \subseteq B
         /\ \A d \in B : \/ \E vm \in DOMAIN cl : d \in SteerKept(p, vm, cl[vm]) \cup SteerPruned(p, vm, cl[vm])
                         \/ \E u \in Mine \ Range(cl) : d \in ReleaseCalls(u)
    <2>1. B = SteeringCalls(p, TRUE)
      BY <1>6, <1>10 DEF Plan
    <2> DEFINE f(vm) == SteerKept(p, vm, cl[vm]) \cup SteerPruned(p, vm, cl[vm])
    <2>2. B = (UNION {f(vm) : vm \in DOMAIN cl}) \cup UNION {ReleaseCalls(u) : u \in Mine \ Range(cl)}
      BY <2>1 DEF SteeringCalls, SteerCalls
    <2> HIDE DEF f
    <2>3. /\ \A vm \in DOMAIN cl : f(vm) \subseteq B
          /\ \A u \in Mine \ Range(cl) : ReleaseCalls(u) \subseteq B
          /\ \A d \in B : \/ \E vm \in DOMAIN cl : d \in f(vm)
                          \/ \E u \in Mine \ Range(cl) : d \in ReleaseCalls(u)
      BY <2>2
    <2> QED  BY <2>3 DEF f
  <1> DEFINE T == Target(p, cl)
  <1>13. /\ T' = T /\ TableRoutes(p, cl)' = TableRoutes(p, cl) /\ TableClear(p, cl)' = TableClear(p, cl)
         /\ Needed(p, cl)' = Needed(p, cl) /\ Steers(p, cl)' = Steers(p, cl)
         /\ ClaimsSettled(p, cl)'
    BY <1>9, <1>11, ViewKept
  <1>14. /\ \A vm \in DOMAIN cl :
               \A d \in SteerKept(p, vm, cl[vm]) \cup SteerPruned(p, vm, cl[vm]) : Aimed(T, d)
         /\ \A u \in Mine \ Range(cl) : \A d \in ReleaseCalls(u) : Aimed(T, d)
    BY <1>6, <1>11, SteeringAimed
  <1> HIDE DEF T
  <1>15. /\ \A vm \in DOMAIN cl : SteerRulesOf(p, vm) \subseteq Needed(p, cl)
         /\ \A s \in Needed(p, cl) : s \in VrfRules(p) \/ \E vm \in DOMAIN cl : s \in SteerRulesOf(p, vm)
    <2>1. Needed(p, cl) = VrfRules(p) \cup UNION {SteerRulesOf(p, vm) : vm \in DOMAIN cl}
      BY DEF Needed, VrfRules, SteerRulesOf
    <2> QED  BY <2>1
  <1>16. \A r1 \in Steers(p, cl) : \E vm \in DOMAIN cl : r1 \in Want(p, vm, cl[vm]) /\ r1.table = cl[vm]
    BY DEF Steers, Want
  <1>17. (\A d \in B : Aimed(Target(p, cl), d))'
    <2>1. \A d \in B : Aimed(T, d)
      BY <1>12, <1>14
    <2> QED  BY <1>13, <2>1 DEF T
  <1>18. RoutesDue(kern, B, TableRoutes(p, cl))
    <2> SUFFICES ASSUME NEW e \in TableRoutes(p, cl) PROVE Route(e[1], e[2], e[3]) \in B
      BY DEF RoutesDue
    <2>1. PICK vm \in DOMAIN cl : \E x \in Ready(p, vm) : e = <<cl[vm], x, SteerEncap(p, vm, x).segs>>
      BY DEF TableRoutes
    <2>2. PICK x \in Ready(p, vm) : e = <<cl[vm], x, SteerEncap(p, vm, x).segs>>
      BY <2>1
    <2>3. Route(cl[vm], x, SteerEncap(p, vm, x).segs) \in SteerKept(p, vm, cl[vm])
      BY DEF SteerKept
    <2> QED  BY <1>12, <2>2, <2>3
  <1>19. ClearDue(kern, B, TableClear(p, cl))
    <2> SUFFICES ASSUME NEW e \in TableClear(p, cl), kern.routes[e[1]][e[2]] # <<>>
                 PROVE  Unroute(e[1], e[2]) \in B
      BY DEF ClearDue
    <2>1. PICK vm \in DOMAIN cl : \E x \in Dests \ Ready(p, vm) : e = <<cl[vm], x>>
      BY DEF TableClear
    <2>2. PICK x \in Dests \ Ready(p, vm) : e = <<cl[vm], x>>
      BY <2>1
    <2>3. x \in Held(kern, cl[vm]) \ Ready(p, vm)
      BY <2>2 DEF Held
    <2>4. Unroute(cl[vm], x) \in SteerPruned(p, vm, cl[vm])
      BY <2>3 DEF SteerPruned
    <2> QED  BY <1>12, <2>2, <2>4
  <1>20. RulesDue(kern, B, Needed(p, cl))
    <2> SUFFICES ASSUME NEW s \in Needed(p, cl) PROVE s \in kern.sidRules \/ SidRule(s) \in B
      BY DEF RulesDue
    <2>1. CASE s \in VrfRules(p)
      <3>1. RulesDue(kern, {}, VrfRules(p))
        BY <1>6, <1>8 DEF Progress
      <3> QED  BY <2>1, <3>1 DEF RulesDue
    <2>2. ASSUME NEW vm \in DOMAIN cl, s \in SteerRulesOf(p, vm) PROVE SidRule(s) \in B
      <3>1. SidRule(s) \in SteerKept(p, vm, cl[vm])
        BY <2>2 DEF SteerKept
      <3> QED  BY <1>12, <3>1
    <2> QED  BY <1>15, <2>1, <2>2
  <1>21. SteersDue(kern, B, Steers(p, cl))
    <2> SUFFICES ASSUME NEW r1 \in Steers(p, cl), r1 \notin kern.steerRules PROVE Steer(r1) \in B
      BY DEF SteersDue
    <2>1. PICK vm \in DOMAIN cl : r1 \in Want(p, vm, cl[vm])
      BY <1>16
    <2>2. Steer(r1) \in SteerKept(p, vm, cl[vm])
      BY <2>1 DEF SteerKept, TableRules
    <2> QED  BY <1>12, <2>2
  <1>22. SteersTrim(kern, B, Steers(p, cl))
    <2> SUFFICES ASSUME NEW r1 \in kern.steerRules, r1 \notin Steers(p, cl) PROVE Unsteer(r1) \in B
      BY DEF SteersTrim
    <2>1. CASE r1.table \in Range(cl)
      <3>1. PICK vm \in DOMAIN cl : r1.table = cl[vm]
        BY <2>1 DEF Range
      <3>2. r1 \in TableRules(cl[vm]) \ Want(p, vm, cl[vm])
        BY <3>1 DEF TableRules, Steers
      <3>3. Unsteer(r1) \in SteerPruned(p, vm, cl[vm])
        BY <3>2 DEF SteerPruned
      <3> QED  BY <1>12, <3>3
    <2>2. CASE r1.table \notin Range(cl)
      <3>1. r1.table \in Mine /\ r1 \in TableRules(r1.table)
        BY DEF Mine, TableRules
      <3>2. Unsteer(r1) \in ReleaseCalls(r1.table)
        BY <3>1 DEF ReleaseCalls
      <3> QED  BY <1>12, <2>2, <3>1, <3>2
    <2> QED  BY <2>1, <2>2
  <1>23. /\ RoutesDue(kern, B, TableRoutes(p, cl))' /\ ClearDue(kern, B, TableClear(p, cl))'
         /\ RulesDue(kern, B, Needed(p, cl))'
         /\ SteersDue(kern, B, Steers(p, cl))' /\ SteersTrim(kern, B, Steers(p, cl))'
    BY <1>6, <1>13, <1>18, <1>19, <1>20, <1>21, <1>22
  <1>24. /\ DecapDue(kern, B, DecapLen(enc))' /\ RoutesDue(kern, B, VrfRoutes(p))'
         /\ RulesDue(kern, B, VrfRules(p))' /\ ClearDue(kern, B, VrfClear(p))'
    BY <1>6, <1>8, <1>9, StageKeepsDue
  <1>25. rest = R1 /\ rest # R0
    BY <1>7, RestsDiffer
  <1> QED  BY <1>6, <1>13, <1>17, <1>23, <1>24, <1>25 DEF Progress

LEMMA SidRulesSettles == ASSUME IInv, Settling, SidRules PROVE Settling'
  <1>1. Enter("rules", RemoveUnwantedSidRules(P, pass.claimed)) /\ Leave /\ UNCHANGED <<enc, locs>>
    BY DEF SidRules
  <1> DEFINE t == Tail(pass.rest)
  <1>2. pass' = [pass EXCEPT !.rest = t] /\ PassSound
    BY <1>1 DEF Leave, IInv
  <1> HIDE DEF t
  <1>3. /\ pass'.kind = pass.kind /\ pass'.flaw = pass.flaw /\ pass'.payload = pass.payload
        /\ pass'.claimed = pass.claimed /\ pass'.rest = t
    BY <1>2, LeaveIs
  <1> SUFFICES ASSUME pass.kind \in {"sync", "update"}, ~pass.flaw, NEW p, NEW cl, NEW rest, NEW B,
                      p = pass.payload, cl = pass.claimed, rest = t, B = Range(calls')
               PROVE  PayloadTyped(p) /\ Progress(p, cl, rest, B)'
    BY <1>3 DEF Settling
  <1>4. PICK r : r = pass.rest
    OBVIOUS
  <1> DEFINE planned == RemoveUnwantedSidRules(p, cl)
  <1>5. Enter("rules", planned)
    BY <1>1 DEF P
  <1> HIDE DEF planned
  <1>6. /\ PayloadTyped(p) /\ Progress(p, cl, r, {}) /\ Finite(p)
        /\ r \in Early \cup {R0, R1, R2, R3, R4} /\ r # <<>> /\ Head(r) = "rules"
        /\ kern' = kern /\ calls' = planned
    BY <1>4, <1>5, StageFinds
  <1>7. r = R1 /\ rest = R0
    BY <1>4, <1>6, StageIs, RestChain DEF t
  <1>8. r \notin Early /\ r \in {R0, R1, R2, R3} /\ r \in {R0, R1, R2} /\ r \in {R0, R1}
    BY <1>7, RestsDiffer
  <1>9. UNCHANGED View
    BY <1>1 DEF Enter, View
  <1> DEFINE S == kern.sidRules \ Needed(p, cl)
  <1> DEFINE A == {DeleteSidRule(s) : s \in S}
  <1>10. B = A
    <2>1. planned = InOrder(S, DeleteSidRule)
      BY DEF planned, RemoveUnwantedSidRules
    <2>2. IsFiniteSet(S)
      BY <1>6, FS_Subset DEF Finite
    <2> HIDE DEF S
    <2>3. Plan(planned, A)
      BY <2>1, <2>2, DeleteSidRuleOrder
    <2> QED  BY <1>6, <2>3 DEF Plan
  <1> DEFINE T == Target(p, cl)
  <1>11. T' = T /\ T.rules = Needed(p, cl) /\ Needed(p, cl)' = Needed(p, cl)
    BY <1>9, ViewKept DEF Target
  <1> HIDE DEF T
  <1>12. \A d \in A : Aimed(T, d)
    BY <1>11 DEF Aimed, DeleteSidRule, Writes
  <1>13. RulesTrim(kern, A, Needed(p, cl))
    BY DEF RulesTrim
  <1> HIDE DEF A
  <1>14. (\A d \in B : Aimed(Target(p, cl), d))' /\ RulesTrim(kern, B, Needed(p, cl))'
    BY <1>6, <1>10, <1>11, <1>12, <1>13 DEF T
  <1>15. ClaimsSettled(p, cl)'
    BY <1>6, <1>8, <1>9, ViewKept DEF Progress
  <1>16. /\ DecapDue(kern, B, DecapLen(enc))' /\ RoutesDue(kern, B, VrfRoutes(p))'
         /\ RulesDue(kern, B, VrfRules(p))' /\ ClearDue(kern, B, VrfClear(p))'
         /\ RoutesDue(kern, B, TableRoutes(p, cl))' /\ ClearDue(kern, B, TableClear(p, cl))'
         /\ RulesDue(kern, B, Needed(p, cl))'
         /\ SteersDue(kern, B, Steers(p, cl))' /\ SteersTrim(kern, B, Steers(p, cl))'
    BY <1>6, <1>8, <1>9, StageKeepsDue
  <1>17. rest = R0
    BY <1>7
  <1> QED  BY <1>6, <1>14, <1>15, <1>16, <1>17 DEF Progress

Stages == {"filter", "encode", "domain", "install", "unwanted", "steer", "rules"}

LEMMA StagesJoin ==
    ASSUME NEW a \in Seq(Stages), NEW b \in Seq(Stages), NEW c \in Seq(Stages),
           Len(a) = 3, Len(b) = 4, Len(c) = 7,
           c[1] = a[1], c[2] = a[2], c[3] = a[3], c[4] = b[1], c[5] = b[2], c[6] = b[3], c[7] = b[4]
    PROVE  a \o b = c
  <1> DEFINE d == a \o b
  <1>1. /\ d \in Seq(Stages) /\ Len(d) = Len(a) + Len(b)
        /\ \A i \in 1..(Len(a) + Len(b)) : d[i] = IF i <= Len(a) THEN a[i] ELSE b[i - Len(a)]
    BY ConcatProperties
  <1> HIDE DEF d
  <1>2. Len(d) = 7 /\ \A i \in 1..7 : d[i] = IF i <= 3 THEN a[i] ELSE b[i - 3]
    BY <1>1
  <1>3. \A i \in 1..7 : i \in {1, 2, 3, 4, 5, 6, 7}
    OBVIOUS
  <1>4. d[1] = a[1] /\ d[2] = a[2] /\ d[3] = a[3] /\ d[4] = b[1] /\ d[5] = b[2] /\ d[6] = b[3] /\ d[7] = b[4]
    <2>1. 4 - 3 = 1 /\ 5 - 3 = 2 /\ 6 - 3 = 3 /\ 7 - 3 = 4
      OBVIOUS
    <2> QED  BY <1>2, <2>1
  <1>5. \A i \in 1..Len(d) : d[i] = c[i]
    BY <1>2, <1>3, <1>4
  <1>6. d = c
    BY <1>1, <1>2, <1>5, SeqEqual
  <1> QED  BY <1>6 DEF d

LEMMA StartRests == StagesOf("sync") = R7s /\ StagesOf("update") = R7u
  <1>1. StagesOf("sync") = R7s
    <2> DEFINE a == << "filter", "encode", "domain" >>
    <2> DEFINE b == Full
    <2>1. a \in Seq(Stages) /\ Len(a) = 3 /\ b \in Seq(Stages) /\ Len(b) = 4
      BY DEF Full, Stages
    <2>2. R7s \in Seq(Stages) /\ Len(R7s) = 7
      BY DEF R7s, Stages
    <2>3. StagesOf("sync") = a \o b
      BY DEF StagesOf
    <2>4. /\ R7s[1] = a[1] /\ R7s[2] = a[2] /\ R7s[3] = a[3] /\ R7s[4] = b[1]
          /\ R7s[5] = b[2] /\ R7s[6] = b[3] /\ R7s[7] = b[4]
      BY DEF R7s, Full
    <2> HIDE DEF a, b
    <2> QED  BY <2>1, <2>2, <2>3, <2>4, StagesJoin
  <1>2. StagesOf("update") = R7u
    <2> DEFINE a == << "encode", "filter", "domain" >>
    <2> DEFINE b == Full
    <2>1. a \in Seq(Stages) /\ Len(a) = 3 /\ b \in Seq(Stages) /\ Len(b) = 4
      BY DEF Full, Stages
    <2>2. R7u \in Seq(Stages) /\ Len(R7u) = 7
      BY DEF R7u, Stages
    <2>3. StagesOf("update") = a \o b
      BY DEF StagesOf
    <2>4. /\ R7u[1] = a[1] /\ R7u[2] = a[2] /\ R7u[3] = a[3] /\ R7u[4] = b[1]
          /\ R7u[5] = b[2] /\ R7u[6] = b[3] /\ R7u[7] = b[4]
      BY DEF R7u, Full
    <2> HIDE DEF a, b
    <2> QED  BY <2>1, <2>2, <2>3, <2>4, StagesJoin
  <1> QED  BY <1>1, <1>2

\* A full pass begins with every stage to go.
LEMMA StartSettles ==
    ASSUME NEW kind \in {"sync", "update"}, NEW q, PayloadTyped(q), pass' = Start(kind, q)
    PROVE  Settling'
  <1>1. /\ pass'.kind = kind /\ pass'.payload = q /\ pass'.claimed = <<>> /\ pass'.rest = StagesOf(kind)
    BY StartIs
  <1>2. StagesOf(kind) \in {R7s, R7u}
    BY StartRests
  <1> SUFFICES ASSUME NEW B, NEW rest, rest = pass'.rest PROVE Progress(q, <<>>, rest, B)'
    BY <1>1 DEF Settling
  <1>3. rest \in Early /\ rest # R0 /\ rest # R1 /\ rest # R2 /\ rest # R3
    BY <1>1, <1>2, RestsDiffer DEF Early
  <1> QED  BY <1>3 DEF Progress

\* Every other step: no full pass without a fault is under way after it, or
\* nothing it depends on has changed.
LEMMA OthersSettle ==
    ASSUME IInv, Settling, Next, ~Call
    PROVE  Settling'
  <1> DEFINE Off == pass'.kind \notin {"sync", "update"} \/ pass'.flaw
  <1>0. Off => Settling'
    BY DEF Settling
  <1>1. CASE \E p \in Payloads : SyncState(p) \/ DomainUpdated(p)
    BY <1>1, StartSettles, NodeRoutesAssumption DEF SyncState, DomainUpdated
  <1>2. CASE \E p \in Payloads, x \in Dests : RoutesAdded(p, x)
    BY <1>0, <1>2, StartIs DEF RoutesAdded
  <1>3. CASE \E x \in Dests : RoutesRemoved(x)
    <2>1. PICK x \in Dests : pass' = [Start("remove", None) EXCEPT !.payload = x]
      BY <1>3 DEF RoutesRemoved
    <2>2. pass'.kind = "remove"
      BY <2>1, StartIs
    <2> QED  BY <1>0, <2>2
  <1>4. CASE DomainDeleted
    BY <1>0, <1>4, StartIs DEF DomainDeleted
  <1>5. CASE \E i \in Ifaces \cup {None} : GatewayMoves(i)
    <2>1. pass' = Idle
      BY <1>5 DEF GatewayMoves, Turn
    <2> QED  BY <1>0, <2>1 DEF Idle
  <1>6. CASE EnsureEncoding
    <2>1. \E planned : Enter("encode", planned) /\ Leave
      BY <1>6 DEF EnsureEncoding
    <2> QED  BY <2>1, EarlySettles
  <1>7. CASE EdgeFilter
    <2>1. \E planned : Enter("filter", planned) /\ Leave
      BY <1>7 DEF EdgeFilter
    <2> QED  BY <2>1, EarlySettles
  <1>8. CASE EnsureDomain
    BY <1>8, EnsureDomainSettles
  <1>9. CASE Install
    BY <1>9, InstallSettles
  <1>10. CASE RemoveUnwanted
    BY <1>10, RemoveUnwantedSettles
  <1>11. CASE Steering
    BY <1>11, SteeringSettles
  <1>12. CASE Local
    <2> DEFINE planned == RemoveLocal(P)
    <2>1. Enter("local", planned) /\ Leave /\ PassSound
      BY <1>12 DEF Local, IInv
    <2> HIDE DEF planned
    <2> DEFINE t == Tail(pass.rest)
    <2>2. pass' = [pass EXCEPT !.rest = t]
      BY <2>1 DEF Leave
    <2> HIDE DEF t
    <2>3. pass'.kind = pass.kind /\ pass'.flaw = pass.flaw
      BY <2>1, <2>2, LeaveIs
    <2>4. ASSUME ~Off PROVE FALSE
      <3>1. pass.kind \in {"sync", "update"} /\ ~pass.flaw
        BY <2>3, <2>4
      <3>2. PICK p : p = pass.payload
        OBVIOUS
      <3>3. PICK cl : cl = pass.claimed
        OBVIOUS
      <3>4. PICK r : r = pass.rest
        OBVIOUS
      <3>5. r \in Early \cup {R0, R1, R2, R3, R4} /\ r # <<>> /\ Head(r) = "local"
        BY <2>1, <3>1, <3>2, <3>3, <3>4, StageFinds
      <3> QED  BY <3>5, StageIs
    <2> QED  BY <1>0, <2>4
  <1>13. CASE SidRules
    BY <1>13, SidRulesSettles
  <1>14. CASE CallFails
    <2>1. pass' = Idle \/ pass' = [Idle EXCEPT !.kind = "down"] \/ pass' = [pass EXCEPT !.flaw = TRUE]
      BY <1>14 DEF CallFails
    <2> QED  BY <1>0, <2>1 DEF Idle, IInv, PassSound
  <1>15. CASE ReadFails
    <2> DEFINE t == Tail(pass.rest)
    <2>1. pass' = [pass EXCEPT !.rest = t, !.flaw = TRUE] /\ PassSound
      BY <1>15 DEF ReadFails, IInv
    <2> HIDE DEF t
    <2>2. pass'.flaw
      BY <2>1 DEF PassSound
    <2> QED  BY <1>0, <2>2
  <1>16. CASE Done
    BY <1>0, <1>16 DEF Done, Idle
  <1>17. CASE Crash \/ Restart
    <2>1. pass' = Start("boot", None)
      BY <1>17 DEF Crash, Restart, StartAgain
    <2> QED  BY <1>0, <2>1, StartIs
  <1> QED  BY <1>1, <1>2, <1>3, <1>4, <1>5, <1>6, <1>7, <1>8, <1>9, <1>10, <1>11, <1>12, <1>13,
              <1>14, <1>15, <1>16, <1>17 DEF Next

LEMMA StutterSettles == ASSUME Settling, UNCHANGED vars PROVE Settling'
  <1>0. UNCHANGED <<kern, pass, calls>> /\ UNCHANGED View
    BY DEF vars, View
  <1> SUFFICES ASSUME pass.kind \in {"sync", "update"}, ~pass.flaw, NEW p, NEW cl, NEW rest, NEW B,
                      p = pass.payload, cl = pass.claimed, rest = pass.rest, B = Range(calls)
               PROVE  PayloadTyped(p) /\ Progress(p, cl, rest, B)'
    BY <1>0 DEF Settling
  <1>1. PayloadTyped(p) /\ Progress(p, cl, rest, B)
    BY DEF Settling
  <1>2. /\ Target(p, cl)' = Target(p, cl)
        /\ VrfRoutes(p)' = VrfRoutes(p) /\ VrfClear(p)' = VrfClear(p) /\ VrfRules(p)' = VrfRules(p)
        /\ TableRoutes(p, cl)' = TableRoutes(p, cl) /\ TableClear(p, cl)' = TableClear(p, cl)
        /\ Steers(p, cl)' = Steers(p, cl) /\ Needed(p, cl)' = Needed(p, cl)
        /\ ClaimsSettled(p, cl)' = ClaimsSettled(p, cl)
        /\ DecapLen(enc)' = DecapLen(enc)
    BY <1>0, ViewKept
  <1> QED  BY <1>0, <1>1, <1>2 DEF Progress

\* A full pass that is over: what it aimed at is what there is.
LEMMA SettledAnyway == Settling => RoutesSettle
  <1> SUFFICES ASSUME Settling, pass.kind \in {"sync", "update"}, ~pass.flaw, pass.rest = <<>>, calls = <<>>,
                      NEW p, p = pass.payload, NEW cl, cl = pass.claimed
               PROVE  /\ \A x \in Dests :
                             IF x \notin Remote(p) THEN kern.routes[Vrf][x] = <<>>
                             ELSE EncapOf(p, x).dev => kern.routes[Vrf][x] = EncapOf(p, x).segs
                      /\ IsInjective(cl)
                      /\ \A vm \in DOMAIN cl : \A x \in Dests :
                             IF x \notin {z \in SteeredOf(p, vm) : SteerEncap(p, vm, z).dev}
                             THEN kern.routes[cl[vm]][x] = <<>>
                             ELSE SteerEncap(p, vm, x).dev => kern.routes[cl[vm]][x] = SteerEncap(p, vm, x).segs
                      /\ kern.steerRules = UNION {[from : p.steer[vm].from, iif : {gateway}, table : {cl[vm]}] :
                                                      vm \in DOMAIN cl}
                      /\ kern.sidRules = Needed(p, cl)
                      /\ DecapLen(enc) \in kern.decap
    BY DEF RoutesSettle, P
  <1>1. Range(calls) = {}
    BY DEF Range
  <1>2. Progress(p, cl, R0, {})
    BY <1>1 DEF Settling, R0
  <1>3. /\ DecapDue(kern, {}, DecapLen(enc)) /\ RoutesDue(kern, {}, VrfRoutes(p))
        /\ ClearDue(kern, {}, VrfClear(p)) /\ ClaimsSettled(p, cl)
        /\ RoutesDue(kern, {}, TableRoutes(p, cl)) /\ ClearDue(kern, {}, TableClear(p, cl))
        /\ RulesDue(kern, {}, Needed(p, cl)) /\ RulesTrim(kern, {}, Needed(p, cl))
        /\ SteersDue(kern, {}, Steers(p, cl)) /\ SteersTrim(kern, {}, Steers(p, cl))
    BY <1>2, RestsDiffer DEF Progress
  <1>4. ASSUME NEW x \in Dests
        PROVE  IF x \notin Remote(p) THEN kern.routes[Vrf][x] = <<>>
               ELSE EncapOf(p, x).dev => kern.routes[Vrf][x] = EncapOf(p, x).segs
    <2>1. CASE x \notin Remote(p)
      <3>1. <<Vrf, x>> \in VrfClear(p)
        BY <2>1 DEF VrfClear
      <3> QED  BY <1>3, <2>1, <3>1 DEF ClearDue
    <2>2. ASSUME x \in Remote(p), EncapOf(p, x).dev PROVE kern.routes[Vrf][x] = EncapOf(p, x).segs
      <3>1. <<Vrf, x, EncapOf(p, x).segs>> \in VrfRoutes(p)
        BY <2>2 DEF VrfRoutes
      <3> QED  BY <1>3, <3>1 DEF RoutesDue
    <2> QED  BY <2>1, <2>2
  <1>5. ASSUME NEW vm \in DOMAIN cl, NEW x \in Dests
        PROVE  IF x \notin Ready(p, vm) THEN kern.routes[cl[vm]][x] = <<>>
               ELSE SteerEncap(p, vm, x).dev => kern.routes[cl[vm]][x] = SteerEncap(p, vm, x).segs
    <2>1. CASE x \notin Ready(p, vm)
      <3>1. <<cl[vm], x>> \in TableClear(p, cl)
        BY <2>1 DEF TableClear
      <3> QED  BY <1>3, <2>1, <3>1 DEF ClearDue
    <2>2. ASSUME x \in Ready(p, vm) PROVE kern.routes[cl[vm]][x] = SteerEncap(p, vm, x).segs
      <3>1. <<cl[vm], x, SteerEncap(p, vm, x).segs>> \in TableRoutes(p, cl)
        BY <2>2 DEF TableRoutes
      <3> QED  BY <1>3, <3>1 DEF RoutesDue
    <2> QED  BY <2>1, <2>2
  <1>6. kern.steerRules = Steers(p, cl)
    BY <1>3 DEF SteersDue, SteersTrim
  <1>7. kern.sidRules = Needed(p, cl) /\ DecapLen(enc) \in kern.decap
    BY <1>3 DEF RulesDue, RulesTrim, DecapDue
  <1>8. IsInjective(cl)
    BY <1>3 DEF ClaimsSettled, IsInjective
  <1> QED  BY <1>4, <1>5, <1>6, <1>7, <1>8 DEF Ready, Steers, Want

LEMMA SettlingAlways == Spec => []Settling
  <1>1. Init => Settling
    <2>1. Init => pass.kind = "boot"
      BY StartIs DEF Init
    <2> QED  BY <2>1 DEF Settling
  <1>2. IInv /\ Settling /\ [Next]_vars => Settling'
    BY CallSettles, OthersSettle, StutterSettles
  <1> QED  BY <1>1, <1>2, RoutesInvariance, PTL DEF Spec

\* However a full pass finds the kernel, without a fault it leaves exactly what
\* its payload asks for.
THEOREM RoutesSettled == Spec => []RoutesSettle
  BY SettlingAlways, SettledAnyway, PTL

-----------------------------------------------------------------------------
(* Make before break: what a packet needs is there before what leads to it, *)
(* and goes after it.                                                       *)

\* An open way of the VRF: <<prefix, list, rule>>.
Ways(p) == {<<x, EncapOf(p, x).segs, EncapOf(p, x).rule>> : x \in {y \in Remote(p) : Open(EncapOf(p, y))}}

WayNew(k, e) == k.routes[Vrf][e[1]] = e[2] /\ e[3] \in k.sidRules

\* The route is the old one, and the rule of the new one comes before it.
WayOld(k, s, w, e) ==
    /\ k.routes[Vrf][e[1]] = w.routes[Vrf][e[1]]
    /\ Route(Vrf, e[1], e[2]) \in Range(s)
    /\ e[3] \in k.sidRules \/ Before(s, SidRule(e[3]), Route(Vrf, e[1], e[2]))

\* What the table a steer rule leads into is to hold.
Contents(p, cl, prune, vm, r) ==
    [rule |-> r,
     routes |-> {<<cl[vm], x, SteerEncap(p, vm, x).segs>> : x \in Ready(p, vm)},
     clear |-> IF prune THEN {<<cl[vm], x>> : x \in Dests \ Ready(p, vm)} ELSE {},
     sids |-> SteerRulesOf(p, vm)]
Fills(p, cl, prune) ==
    UNION {{Contents(p, cl, prune, vm, r) : r \in Want(p, vm, cl[vm])} : vm \in DOMAIN cl}

Filled(k, f) ==
    /\ \A e \in f.routes : k.routes[e[1]][e[2]] = e[3]
    /\ \A e \in f.clear : k.routes[e[1]][e[2]] = <<>>
    /\ f.sids \subseteq k.sidRules

\* Filled before the rule leads there.
Ripe(k, s, f) ==
    /\ \A e \in f.routes : k.routes[e[1]][e[2]] = e[3] \/ Before(s, Route(e[1], e[2], e[3]), Steer(f.rule))
    /\ \A e \in f.clear : k.routes[e[1]][e[2]] = <<>> \/ Before(s, Unroute(e[1], e[2]), Steer(f.rule))
    /\ \A u \in f.sids : u \in k.sidRules \/ Before(s, SidRule(u), Steer(f.rule))

\* The phases of a pass: nothing of the domain's changes yet; the VRF's routes
\* change; the steer tables change; SID rules go.
Harmless == {"locator", "lib", "replace_decap", "delete_decap", "apply_ruleset"}

Quiet(k, s, w) ==
    /\ k.routes = w.routes /\ k.sidRules = w.sidRules /\ k.steerRules = w.steerRules
    /\ \A c \in Range(s) : c.do \in Harmless

Rerouting(k, s, w, T, W) ==
    /\ \A c \in Range(s) : InVrf(c) /\ Aimed(T, c)
    /\ k.steerRules = w.steerRules /\ w.sidRules \subseteq k.sidRules
    /\ \A t \in Tables : k.routes[t] = w.routes[t]
    /\ \A e \in W : WayNew(k, e) \/ WayOld(k, s, w, e)

Resteers(T, C, c) ==
    /\ Aimed(T, c) /\ c.do # "delete_sid_rule"
    /\ c.do = "flush_table" => c = FlushTable(c.table) /\ c.table \notin C
    /\ c.do = "add_steer_rule" => c = Steer(c.rule)

\* A rule into a table nobody claims, and one into a claimed table.
Kept(k, s, w, r) ==
    r \in w.steerRules /\ k.routes[r.table] = w.routes[r.table] /\ Before(s, Unsteer(r), FlushTable(r.table))
Led(k, w, F, r) == r \in w.steerRules \/ \E f \in F : f.rule = r /\ Filled(k, f)

Resteering(k, s, w, T, W, C, F) ==
    /\ \A c \in Range(s) : Resteers(T, C, c)
    /\ w.sidRules \subseteq k.sidRules
    /\ \A e \in W : WayNew(k, e)
    /\ \A r \in k.steerRules : IF r.table \in C THEN Led(k, w, F, r) ELSE Kept(k, s, w, r)
    /\ \A f \in F : Ripe(k, s, f)

\* How all this fits into what the pass aims at.
Geared(T, W, C, F) ==
    /\ Consistent(T)
    /\ \A e \in T.routes : e[1] = Vrf \/ e[1] \in C
    /\ \A e \in T.clear : e[1] = Vrf \/ e[1] \in C
    /\ \A e \in W : <<Vrf, e[1], e[2]>> \in T.routes
    /\ \A r \in T.steer : r.table \in C /\ \E f \in F : f.rule = r
    /\ \A f \in F : f.routes \subseteq T.routes /\ f.clear \subseteq T.clear

LEMMA TargetGeared ==
    ASSUME NEW p, PayloadTyped(p), NEW cl, ClaimsSettled(p, cl), NEW prune \in BOOLEAN
    PROVE  Geared(Target(p, cl), Ways(p), Range(cl), Fills(p, cl, prune))
  <1> DEFINE T == Target(p, cl)
  <1>1. T.routes = VrfRoutes(p) \cup TableRoutes(p, cl) /\ T.clear = VrfClear(p) \cup TableClear(p, cl)
            /\ T.steer = Steers(p, cl)
    BY DEF Target
  <1>2. Consistent(T)
    BY TargetConsistent
  <1> HIDE DEF T
  <1>3. \A vm \in DOMAIN cl : cl[vm] \in Range(cl)
    BY DEF Range
  <1>4. \A e \in T.routes : e[1] = Vrf \/ e[1] \in Range(cl)
    BY <1>1, <1>3 DEF VrfRoutes, TableRoutes
  <1>5. \A e \in T.clear : e[1] = Vrf \/ e[1] \in Range(cl)
    BY <1>1, <1>3 DEF VrfClear, TableClear
  <1>6. \A e \in Ways(p) : <<Vrf, e[1], e[2]>> \in T.routes
    BY <1>1 DEF Ways, VrfRoutes, Open
  <1>7. ASSUME NEW r \in T.steer
        PROVE  r.table \in Range(cl) /\ \E f \in Fills(p, cl, prune) : f.rule = r
    <2>1. PICK vm \in DOMAIN cl : r \in Want(p, vm, cl[vm])
      BY <1>1 DEF Steers
    <2>2. r.table = cl[vm]
      BY <2>1 DEF Want
    <2>3. Contents(p, cl, prune, vm, r) \in Fills(p, cl, prune)
      BY <2>1 DEF Fills
    <2>4. Contents(p, cl, prune, vm, r).rule = r
      BY DEF Contents
    <2> QED  BY <1>3, <2>2, <2>3, <2>4
  <1>8. ASSUME NEW f \in Fills(p, cl, prune)
        PROVE  f.routes \subseteq T.routes /\ f.clear \subseteq T.clear
    <2>1. PICK vm \in DOMAIN cl : \E r \in Want(p, vm, cl[vm]) : f = Contents(p, cl, prune, vm, r)
      BY DEF Fills
    <2>2. f.routes = {<<cl[vm], x, SteerEncap(p, vm, x).segs>> : x \in Ready(p, vm)}
      BY <2>1 DEF Contents
    <2>3. f.clear = IF prune THEN {<<cl[vm], x>> : x \in Dests \ Ready(p, vm)} ELSE {}
      BY <2>1 DEF Contents
    <2>4. f.routes \subseteq T.routes
      BY <1>1, <2>2 DEF TableRoutes
    <2>5. f.clear \subseteq T.clear
      BY <1>1, <2>3 DEF TableClear
    <2> QED  BY <2>4, <2>5
  <1> QED  BY <1>2, <1>4, <1>5, <1>6, <1>7, <1>8 DEF Geared, T

\* What one aimed call does to what the pass aims at.
Goes(k, n, c, T) == RoutesTyped(k.routes) /\ n = After(k, c) /\ Aimed(T, c) /\ Consistent(T)

LEMMA RouteGoes ==
    ASSUME NEW k, NEW n, NEW c, NEW T, Goes(k, n, c, T), NEW e \in T.routes,
           k.routes[e[1]][e[2]] = e[3] \/ c = Route(e[1], e[2], e[3])
    PROVE  n.routes[e[1]][e[2]] = e[3]
  <1> DEFINE S == {e}
  <1>1. Step(k, n, c, {c}, {})
    BY DEF Goes, Step
  <1>2. S \in SUBSET T.routes /\ RoutesDue(k, {c}, S)
    BY DEF RoutesDue
  <1> HIDE DEF S
  <1>3. RoutesDue(n, {}, S)
    BY <1>1, <1>2, RoutesStep DEF Goes
  <1> QED  BY <1>3 DEF RoutesDue, S

LEMMA ClearGoes ==
    ASSUME NEW k, NEW n, NEW c, NEW T, Goes(k, n, c, T), NEW e \in T.clear,
           k.routes[e[1]][e[2]] = <<>> \/ c = Unroute(e[1], e[2])
    PROVE  n.routes[e[1]][e[2]] = <<>>
  <1> DEFINE S == {e}
  <1>1. Step(k, n, c, {c}, {})
    BY DEF Goes, Step
  <1>2. S \in SUBSET T.clear /\ ClearDue(k, {c}, S)
    BY DEF ClearDue
  <1> HIDE DEF S
  <1>3. ClearDue(n, {}, S)
    BY <1>1, <1>2, ClearStep DEF Goes
  <1> QED  BY <1>3 DEF ClearDue, S

LEMMA RuleGoes ==
    ASSUME NEW k, NEW n, NEW c, n = After(k, c), c.do # "delete_sid_rule"
    PROVE  k.sidRules \subseteq n.sidRules /\ \A u : c = SidRule(u) => u \in n.sidRules
  BY DEF After, SidRule

LEMMA FilledGoes ==
    ASSUME NEW k, NEW n, NEW c, NEW T, Goes(k, n, c, T), c.do # "delete_sid_rule",
           NEW f, f.routes \subseteq T.routes, f.clear \subseteq T.clear, Filled(k, f)
    PROVE  Filled(n, f)
  <1>1. \A e \in f.routes : n.routes[e[1]][e[2]] = e[3]
    BY RouteGoes DEF Filled
  <1>2. \A e \in f.clear : n.routes[e[1]][e[2]] = <<>>
    BY ClearGoes DEF Filled
  <1>3. f.sids \subseteq n.sidRules
    BY RuleGoes DEF Filled, Goes
  <1> QED  BY <1>1, <1>2, <1>3 DEF Filled

LEMMA RipeGoes ==
    ASSUME NEW k, NEW n, NEW s, NEW A, Plan(s, A), s # <<>>, NEW c, c = Head(s),
           NEW T, Goes(k, n, c, T), c.do # "delete_sid_rule",
           NEW f, f.routes \subseteq T.routes, f.clear \subseteq T.clear, Ripe(k, s, f)
    PROVE  Ripe(n, Tail(s), f) /\ (c = Steer(f.rule) => Filled(n, f))
  <1> DEFINE d == Steer(f.rule)
  <1> HIDE DEF d
  <1>1. \A b : Before(s, b, d) => c # d /\ (c = b \/ Before(Tail(s), b, d))
    BY BeforeTail
  <1>2. ASSUME NEW e \in f.routes
        PROVE  /\ n.routes[e[1]][e[2]] = e[3] \/ Before(Tail(s), Route(e[1], e[2], e[3]), d)
               /\ c = d => n.routes[e[1]][e[2]] = e[3]
    <2>1. k.routes[e[1]][e[2]] = e[3] \/ Before(s, Route(e[1], e[2], e[3]), d)
      BY DEF Ripe, d
    <2>2. k.routes[e[1]][e[2]] = e[3] \/ c = Route(e[1], e[2], e[3]) => n.routes[e[1]][e[2]] = e[3]
      BY RouteGoes
    <2> QED  BY <1>1, <2>1, <2>2
  <1>3. ASSUME NEW e \in f.clear
        PROVE  /\ n.routes[e[1]][e[2]] = <<>> \/ Before(Tail(s), Unroute(e[1], e[2]), d)
               /\ c = d => n.routes[e[1]][e[2]] = <<>>
    <2>1. k.routes[e[1]][e[2]] = <<>> \/ Before(s, Unroute(e[1], e[2]), d)
      BY DEF Ripe, d
    <2>2. k.routes[e[1]][e[2]] = <<>> \/ c = Unroute(e[1], e[2]) => n.routes[e[1]][e[2]] = <<>>
      BY ClearGoes
    <2> QED  BY <1>1, <2>1, <2>2
  <1>4. ASSUME NEW u \in f.sids
        PROVE  /\ u \in n.sidRules \/ Before(Tail(s), SidRule(u), d)
               /\ c = d => u \in n.sidRules
    <2>1. u \in k.sidRules \/ Before(s, SidRule(u), d)
      BY DEF Ripe, d
    <2>2. u \in k.sidRules \/ c = SidRule(u) => u \in n.sidRules
      BY RuleGoes DEF Goes
    <2> QED  BY <1>1, <2>1, <2>2
  <1>5. Ripe(n, Tail(s), f)
    BY <1>2, <1>3, <1>4 DEF Ripe, d
  <1>6. c = d => Filled(n, f)
    BY <1>2, <1>3, <1>4 DEF Filled
  <1> QED  BY <1>5, <1>6 DEF d

LEMMA WayGoes ==
    ASSUME NEW k, NEW n, NEW c, NEW T, Goes(k, n, c, T), c.do # "delete_sid_rule",
           NEW e, <<Vrf, e[1], e[2]>> \in T.routes, WayNew(k, e)
    PROVE  WayNew(n, e)
  <1> DEFINE f == <<Vrf, e[1], e[2]>>
  <1>1. f \in T.routes /\ f[1] = Vrf /\ f[2] = e[1] /\ f[3] = e[2]
    OBVIOUS
  <1> HIDE DEF f
  <1>2. n.routes[f[1]][f[2]] = f[3]
    BY <1>1, RouteGoes DEF WayNew
  <1>3. e[3] \in n.sidRules
    BY RuleGoes DEF WayNew, Goes
  <1> QED  BY <1>1, <1>2, <1>3 DEF WayNew

\* A route that no call of the pass writes.
LEMMA OtherRoute ==
    ASSUME NEW k, NEW n, NEW c, RoutesTyped(k.routes), n = After(k, c), NEW t \in Slots,
           c.do \in Writes => c.table # t
    PROVE  n.routes[t] = k.routes[t]
  <1>1. CASE c.do \notin Writes
    BY <1>1 DEF After
  <1>2. CASE c.do \in Writes
    <2>1. n.routes = Rerouted(k, c) /\ c.table # t
      BY <1>2 DEF After
    <2>2. t \in DOMAIN k.routes
      BY DEF RoutesTyped
    <2>3. Rerouted(k, c)[t] = k.routes[t]
      BY <2>1, <2>2 DEF Rerouted
    <2> QED  BY <2>1, <2>3
  <1> QED  BY <1>1, <1>2

\* The steps of the phases.
Makes(k, n, s, c) == /\ KernelSound(k) /\ n = After(k, c)
                     /\ Plan(s, Range(s)) /\ s # <<>> /\ c = Head(s)
                     /\ Range(s) = {c} \cup Range(Tail(s))

LEMMA QuietGoes ==
    ASSUME NEW k, NEW n, NEW s, NEW c, Makes(k, n, s, c), NEW w, Quiet(k, s, w)
    PROVE  Quiet(n, Tail(s), w)
  <1>1. c.do \in Harmless /\ \A d \in Range(Tail(s)) : d.do \in Harmless
    BY DEF Quiet, Makes
  <1>2. n.routes = k.routes /\ n.sidRules = k.sidRules /\ n.steerRules = k.steerRules
    BY <1>1 DEF Makes, After, Harmless, Writes
  <1> QED  BY <1>1, <1>2 DEF Quiet

LEMMA ReroutingGoes ==
    ASSUME NEW k, NEW n, NEW s, NEW c, Makes(k, n, s, c), NEW w, NEW T, NEW W, NEW C, NEW F,
           Geared(T, W, C, F), Rerouting(k, s, w, T, W)
    PROVE  Rerouting(n, Tail(s), w, T, W)
  <1>1. /\ InVrf(c) /\ Aimed(T, c) /\ \A d \in Range(Tail(s)) : InVrf(d) /\ Aimed(T, d)
        /\ Range(s) = {c} \cup Range(Tail(s)) /\ n = After(k, c)
    BY DEF Makes, Rerouting
  <1>2. Goes(k, n, c, T)
    BY <1>1 DEF Makes, Goes, KernelSound, Geared
  <1>3. \/ c = SidRule(c.sid) /\ c.do = "add_sid_rule"
        \/ c = Route(Vrf, c.prefix, c.segs) /\ c.do = "replace_seg6_route" /\ c.table = Vrf
        \/ c = Unroute(Vrf, c.prefix) /\ c.do = "delete_route" /\ c.table = Vrf
    <2>1. SidRule(c.sid).do = "add_sid_rule"
      BY DEF SidRule
    <2>2. Route(Vrf, c.prefix, c.segs).do = "replace_seg6_route" /\ Route(Vrf, c.prefix, c.segs).table = Vrf
      BY DEF Route
    <2>3. Unroute(Vrf, c.prefix).do = "delete_route" /\ Unroute(Vrf, c.prefix).table = Vrf
      BY DEF Unroute
    <2> QED  BY <1>1, <2>1, <2>2, <2>3 DEF InVrf
  <1>4. n.steerRules = k.steerRules /\ k.sidRules \subseteq n.sidRules
    BY <1>1, <1>3 DEF After
  <1>5. \A t \in Tables : n.routes[t] = k.routes[t]
    <2> SUFFICES ASSUME NEW t \in Tables PROVE n.routes[t] = k.routes[t]
      OBVIOUS
    <2>1. t # Vrf /\ t \in Slots
      BY NodeRoutesAssumption DEF Slots
    <2>2. c.do \in Writes => c.table # t
      BY <1>3, <2>1 DEF Writes
    <2>3. RoutesTyped(k.routes)
      BY <1>2 DEF Goes
    <2> QED  BY <1>1, <2>1, <2>2, <2>3, OtherRoute
  <1>6. ASSUME NEW e \in W PROVE WayNew(n, e) \/ WayOld(n, Tail(s), w, e)
    <2> DEFINE f == <<Vrf, e[1], e[2]>>
    <2> DEFINE r == Route(Vrf, e[1], e[2])
    <2>1. f \in T.routes
      BY DEF Geared
    <2>2. CASE WayNew(k, e)
      <3>1. c.do # "delete_sid_rule"
        BY <1>3
      <3> QED  BY <1>2, <2>1, <2>2, <3>1, WayGoes
    <2>3. CASE WayOld(k, s, w, e)
      <3>0. r.do = "replace_seg6_route" /\ r.table = Vrf /\ r.prefix = e[1] /\ r.segs = e[2]
        BY DEF Route
      <3>1. r \in Range(s) /\ (e[3] \in k.sidRules \/ Before(s, SidRule(e[3]), r))
        BY <2>3 DEF WayOld
      <3>2. f[1] = Vrf /\ f[2] = e[1] /\ f[3] = e[2] /\ Vrf \in Slots /\ e[1] \in Dests
        <4>1. f[1] = Vrf /\ f[2] = e[1] /\ f[3] = e[2]
          OBVIOUS
        <4> HIDE DEF f
        <4> QED  BY <2>1, <4>1 DEF Geared, Consistent
      <3> HIDE DEF f, r
      <3>3. Before(s, SidRule(e[3]), r) => c # r /\ (c = SidRule(e[3]) \/ Before(Tail(s), SidRule(e[3]), r))
        BY BeforeTail DEF Makes
      <3>4. CASE c = r
        <4>1. e[3] \in k.sidRules
          BY <3>1, <3>3, <3>4
        <4>2. c = Route(f[1], f[2], f[3])
          BY <3>2, <3>4 DEF r
        <4>3. n.routes[f[1]][f[2]] = f[3]
          BY <1>2, <2>1, <4>2, RouteGoes
        <4> QED  BY <1>4, <3>2, <4>1, <4>3 DEF WayNew
      <3>5. CASE c # r
        <4>1. r \in Range(Tail(s))
          BY <1>1, <3>1, <3>5
        <4>2. n.routes[Vrf][e[1]] = k.routes[Vrf][e[1]]
          <5>1. CASE c.do \notin Writes
            BY <1>1, <5>1 DEF After
          <5>2. CASE c.do \in Writes
            <6>1. c.table = Vrf /\ c.do # "flush_table" /\ n.routes = Rerouted(k, c)
              BY <1>1, <1>3, <5>2 DEF After, Writes
            <6>2. c.prefix # e[1]
              <7> SUFFICES ASSUME c.prefix = e[1] PROVE FALSE
                OBVIOUS
              <7>1. CASE c.do = "delete_route"
                <8>1. <<Vrf, e[1]>> \in T.clear
                  BY <1>1, <6>1, <7>1 DEF Aimed
                <8>2. <<f[1], f[2]>> \notin T.clear
                  BY <2>1 DEF Geared, Consistent
                <8> QED  BY <3>2, <8>1, <8>2
              <7>2. CASE c.do = "replace_seg6_route"
                <8> DEFINE g == <<Vrf, c.prefix, c.segs>>
                <8>1. g \in T.routes /\ g[1] = Vrf /\ g[2] = c.prefix /\ g[3] = c.segs
                  BY <1>1, <6>1, <7>2 DEF Aimed
                <8> HIDE DEF g
                <8>2. g[3] = f[3]
                  BY <2>1, <3>2, <8>1 DEF Geared, Consistent
                <8>3. c = Route(Vrf, e[1], e[2])
                  BY <1>3, <3>2, <7>2, <8>1, <8>2
                <8> QED  BY <3>5, <8>3 DEF r
              <7> QED  BY <1>3, <5>2, <7>1, <7>2 DEF Writes
            <6>3. Rerouted(k, c)[Vrf][e[1]] = Written(k.routes, c, Vrf, e[1])
              BY <1>2, <3>2, <5>2, ReroutedIs DEF Goes
            <6> QED  BY <6>1, <6>2, <6>3 DEF Written
          <5> QED  BY <5>1, <5>2
        <4>3. e[3] \in n.sidRules \/ Before(Tail(s), SidRule(e[3]), r)
          <5>1. c = SidRule(e[3]) => e[3] \in n.sidRules
            BY <1>1 DEF After, SidRule
          <5> QED  BY <1>4, <3>1, <3>3, <5>1
        <4> QED  BY <2>3, <4>1, <4>2, <4>3 DEF WayOld, r
      <3> QED  BY <3>4, <3>5
    <2> QED  BY <2>2, <2>3 DEF Rerouting
  <1> QED  BY <1>1, <1>4, <1>5, <1>6 DEF Rerouting

LEMMA ResteeringGoes ==
    ASSUME NEW k, NEW n, NEW s, NEW c, Makes(k, n, s, c), NEW w, NEW T, NEW W, NEW C, NEW F,
           Geared(T, W, C, F), Resteering(k, s, w, T, W, C, F)
    PROVE  Resteering(n, Tail(s), w, T, W, C, F)
  <1>1. /\ Resteers(T, C, c) /\ \A d \in Range(Tail(s)) : Resteers(T, C, d)
        /\ Range(s) = {c} \cup Range(Tail(s)) /\ n = After(k, c)
    BY DEF Makes, Resteering
  <1>2. Goes(k, n, c, T) /\ c.do # "delete_sid_rule"
    BY <1>1 DEF Makes, Goes, KernelSound, Geared, Resteers
  <1>3. k.sidRules \subseteq n.sidRules
    BY <1>1, <1>2, RuleGoes
  <1>4. \A e \in W : WayNew(n, e)
    BY <1>2, WayGoes DEF Resteering, Geared
  <1>5. \A f \in F : Ripe(n, Tail(s), f) /\ (c = Steer(f.rule) => Filled(n, f))
    BY <1>2, RipeGoes DEF Resteering, Geared, Makes
  <1>6. \A f \in F : Filled(k, f) => Filled(n, f)
    BY <1>2, FilledGoes DEF Geared
  <1>7. ASSUME NEW r \in n.steerRules
        PROVE  IF r.table \in C THEN Led(n, w, F, r) ELSE Kept(n, Tail(s), w, r)
    <2>1. n.steerRules = IF c.do = "add_steer_rule" THEN k.steerRules \cup {c.rule}
                         ELSE IF c.do = "delete_steer_rule" THEN k.steerRules \ {c.rule} ELSE k.steerRules
      BY <1>1 DEF After
    <2>2. CASE r \notin k.steerRules
      <3>1. c.do = "add_steer_rule" /\ r = c.rule
        BY <2>1, <2>2
      <3>2. c = Steer(r) /\ r \in T.steer
        BY <1>1, <3>1 DEF Resteers, Aimed
      <3>3. PICK f \in F : f.rule = r
        BY <3>2 DEF Geared
      <3>4. r.table \in C /\ Filled(n, f)
        BY <1>5, <3>2, <3>3 DEF Geared
      <3> QED  BY <3>3, <3>4 DEF Led
    <2>3. CASE r \in k.steerRules /\ r.table \in C
      <3>1. Led(k, w, F, r)
        BY <2>3 DEF Resteering
      <3> QED  BY <1>6, <2>3, <3>1 DEF Led
    <2>4. CASE r \in k.steerRules /\ r.table \notin C
      <3>1. Kept(k, s, w, r)
        BY <2>4 DEF Resteering
      <3> DEFINE d == FlushTable(r.table)
      <3> DEFINE b == Unsteer(r)
      <3>2. Before(s, b, d)
        BY <3>1 DEF Kept
      <3>3. b.do = "delete_steer_rule" /\ b.rule = r
        BY DEF Unsteer
      <3> HIDE DEF b, d
      <3>4. c # d /\ (c = b \/ Before(Tail(s), b, d))
        BY <3>2, BeforeTail DEF Makes
      <3>5. c # b
        BY <2>1, <3>3
      <3>6. r.table \in Slots /\ r.table # Vrf
        <4>1. r.table \in Tables
          BY <2>4 DEF Makes, KernelSound, RuleTyped
        <4> QED  BY <4>1, NodeRoutesAssumption DEF Slots
      <3>7. c.do \in Writes => c.table # r.table
        <4>1. CASE c.do = "flush_table"
          BY <1>1, <3>4, <4>1 DEF Resteers, d
        <4>2. CASE c.do = "delete_route"
          <5> DEFINE e == <<c.table, c.prefix>>
          <5>1. e \in T.clear /\ e[1] = c.table
            BY <1>2, <4>2 DEF Goes, Aimed
          <5> HIDE DEF e
          <5> QED  BY <2>4, <3>6, <5>1 DEF Geared
        <4>3. CASE c.do = "replace_seg6_route"
          <5> DEFINE e == <<c.table, c.prefix, c.segs>>
          <5>1. e \in T.routes /\ e[1] = c.table
            BY <1>2, <4>3 DEF Goes, Aimed
          <5> HIDE DEF e
          <5> QED  BY <2>4, <3>6, <5>1 DEF Geared
        <4> QED  BY <4>1, <4>2, <4>3 DEF Writes
      <3>8. n.routes[r.table] = k.routes[r.table]
        BY <1>2, <3>6, <3>7, OtherRoute DEF Goes
      <3>9. Kept(n, Tail(s), w, r)
        BY <3>1, <3>4, <3>5, <3>8 DEF Kept, b, d
      <3> QED  BY <2>4, <3>9
    <2> QED  BY <2>2, <2>3, <2>4
  <1>8. w.sidRules \subseteq n.sidRules
    BY <1>3 DEF Resteering
  <1> QED  BY <1>1, <1>4, <1>5, <1>7, <1>8 DEF Resteering

\* The phases as their stages begin.
LEMMA InstallBegins ==
    ASSUME NEW p, Finite(p), NEW cl, NEW s, s = InstallRoutes(p), NEW w, Quiet(kern, <<>>, w)
    PROVE  Rerouting(kern, s, w, Target(p, cl), Ways(p))
  <1>1. IsFiniteSet(Remote(p))
    BY SmallSets
  <1>2. Plan(s, UNION {InstallCalls(p, x) : x \in Remote(p)})
    BY <1>1, InstallPlan
  <1>3. Range(s) = UNION {InstallCalls(p, x) : x \in Remote(p)}
    BY <1>2 DEF Plan
  <1>4. \A c \in Range(s) : InVrf(c) /\ Aimed(Target(p, cl), c)
    BY <1>3, InstallAimed
  <1>5. ASSUME NEW e \in Ways(p) PROVE WayOld(kern, s, w, e)
    <2>1. PICK x \in Remote(p) : Open(EncapOf(p, x)) /\ e = <<x, EncapOf(p, x).segs, EncapOf(p, x).rule>>
      BY DEF Ways
    <2>2. Route(Vrf, x, EncapOf(p, x).segs) \in InstallCalls(p, x)
      BY <2>1 DEF InstallCalls, Open
    <2>3. Before(s, SidRule(EncapOf(p, x).rule), Route(Vrf, x, EncapOf(p, x).segs))
      BY <1>1, <2>1, InstallOrdered
    <2> QED  BY <1>3, <2>1, <2>2, <2>3 DEF WayOld, Quiet
  <1> QED  BY <1>4, <1>5 DEF Rerouting, Quiet

LEMMA UnwantedBegins ==
    ASSUME NEW p, Finite(p), NEW cl, NEW s, s = RemoveUnwantedRoutes(p), NEW w,
           Rerouting(kern, <<>>, w, Target(p, cl), Ways(p))
    PROVE  Rerouting(kern, s, w, Target(p, cl), Ways(p))
  <1> DEFINE T == Target(p, cl)
  <1>1. \A e \in Ways(p) : WayNew(kern, e)
    <2>1. Range(<<>>) = {}
      BY DEF Range
    <2> QED  BY <2>1 DEF Rerouting, WayOld
  <1>2. Range(s) = {Unroute(Vrf, x) : x \in Held(kern, Vrf) \ Remote(p)}
    <2> DEFINE S == Held(kern, Vrf) \ Remote(p)
    <2>1. IsFiniteSet(S)
      <3>1. IsFiniteSet(Held(kern, Vrf))
        BY SmallSets
      <3> QED  BY <3>1, FS_Subset
    <2>2. s = InOrder(S, LAMBDA x : Unroute(Vrf, x))
      BY DEF RemoveUnwantedRoutes
    <2> HIDE DEF S
    <2>3. Plan(s, {Unroute(Vrf, x) : x \in S})
      BY <2>1, <2>2, UnrouteOrder
    <2> QED  BY <2>3 DEF Plan, S
  <1>3. ASSUME NEW x \in Held(kern, Vrf) \ Remote(p) PROVE InVrf(Unroute(Vrf, x)) /\ Aimed(T, Unroute(Vrf, x))
    <2>1. <<Vrf, x>> \in T.clear
      BY DEF Target, VrfClear, Held
    <2> HIDE DEF T
    <2> QED  BY <2>1 DEF InVrf, Aimed, Unroute, Writes
  <1> QED  BY <1>1, <1>2, <1>3 DEF Rerouting

LEMMA SteeringResteers ==
    ASSUME NEW p, Finite(p), NEW prune \in BOOLEAN, NEW cl, cl = Claimed(p), ClaimsSettled(p, cl),
           NEW d \in SteeringCalls(p, prune)
    PROVE  Resteers(Target(p, cl), Range(cl), d)
  <1> DEFINE T == Target(p, cl)
  <1>1. /\ \A vm \in DOMAIN cl : \A c \in SteerKept(p, vm, cl[vm]) \cup SteerPruned(p, vm, cl[vm]) : Aimed(T, c)
        /\ \A u \in Mine \ Range(cl) : \A c \in ReleaseCalls(u) : Aimed(T, c)
    BY SteeringAimed
  <1> HIDE DEF T
  <1>2. \/ \E vm \in DOMAIN cl : d \in SteerKept(p, vm, cl[vm]) \cup SteerPruned(p, vm, cl[vm])
        \/ \E u \in Mine \ Range(cl) : d \in ReleaseCalls(u)
    BY DEF SteeringCalls, SteerCalls
  <1>3. ASSUME NEW vm \in DOMAIN cl, d \in SteerKept(p, vm, cl[vm]) \cup SteerPruned(p, vm, cl[vm])
        PROVE  Resteers(T, Range(cl), d)
    <2>1. /\ d.do # "delete_sid_rule" /\ d.do # "flush_table"
          /\ d.do = "add_steer_rule" => d = Steer(d.rule)
      BY <1>3 DEF SteerKept, SteerPruned, Route, SidRule, Steer, Unsteer, Unroute
    <2> QED  BY <1>1, <1>3, <2>1 DEF Resteers
  <1>4. ASSUME NEW u \in Mine \ Range(cl), d \in ReleaseCalls(u)
        PROVE  Resteers(T, Range(cl), d)
    <2>1. /\ d.do # "delete_sid_rule" /\ d.do # "add_steer_rule"
          /\ d.do = "flush_table" => d = FlushTable(d.table) /\ d.table = u
      BY <1>4 DEF ReleaseCalls, FlushTable, Unsteer
    <2> QED  BY <1>1, <1>4, <2>1 DEF Resteers
  <1> QED  BY <1>2, <1>3, <1>4 DEF T

LEMMA ReleaseOf ==
    ASSUME IsFiniteSet(kern.steerRules), NEW t, NEW b, NEW c, c \notin ReleaseCalls(t)
    PROVE  Before(Release(t), b, c)
  <1> PICK s, A : s = Release(t) /\ A = ReleaseCalls(t)
    OBVIOUS
  <1>1. Plan(s, A)
    BY ReleasePlan
  <1> QED  BY <1>1, BeforeAbsent DEF Plan

LEMMA SteerVmOf ==
    ASSUME NEW p, Finite(p), NEW vm \in Desired(p), NEW t, NEW prune \in BOOLEAN,
           NEW b, NEW c, c \notin SteerCalls(p, vm, t, prune)
    PROVE  Before(SteerVm(p, vm, t, prune), b, c)
  <1> PICK s, A : s = SteerVm(p, vm, t, prune) /\ A = SteerCalls(p, vm, t, prune)
    OBVIOUS
  <1>1. Plan(s, A)
    BY SteerVmPlan
  <1> QED  BY <1>1, BeforeAbsent DEF Plan

\* A VM's table is filled before its rules lead there, in the whole stage.
LEMMA FilledFirst ==
    ASSUME NEW p, Finite(p), NEW prune \in BOOLEAN, NEW cl, cl = Claimed(p), ClaimsSettled(p, cl),
           NEW vm \in DOMAIN cl, NEW r \in Want(p, vm, cl[vm]), NEW d \in SteerFill(p, vm, cl[vm], prune)
    PROVE  Before(SyncSteering(p, prune), d, Steer(r))
  <1>1. r.table = cl[vm]
    BY DEF Want
  <1>2. ASSUME NEW v \in DOMAIN cl PROVE Before(SteerVm(p, v, cl[v], prune), d, Steer(r))
    <2>1. v \in Desired(p) /\ (v # vm => r.table # cl[v])
      BY <1>1 DEF ClaimsSettled
    <2>2. d \in SteerFill(p, v, cl[v], prune) \/ r.table # cl[v]
      BY <2>1
    <2> QED  BY <2>1, <2>2, SteerVmOrdered
  <1>3. ASSUME NEW t PROVE Before(Release(t), d, Steer(r))
    <2>1. Steer(r) \notin ReleaseCalls(t)
      BY DEF ReleaseCalls, Steer, Unsteer, FlushTable
    <2> QED  BY <2>1, ReleaseOf DEF Finite
  <1> QED  BY <1>2, <1>3, SteeringJoins

\* A table is flushed when its rules are gone, in the whole stage.
LEMMA FlushedLast ==
    ASSUME NEW p, Finite(p), NEW prune \in BOOLEAN, ClaimsSettled(p, Claimed(p)), NEW r \in kern.steerRules
    PROVE  Before(SyncSteering(p, prune), Unsteer(r), FlushTable(r.table))
  <1>1. ASSUME NEW v \in DOMAIN Claimed(p)
        PROVE  Before(SteerVm(p, v, Claimed(p)[v], prune), Unsteer(r), FlushTable(r.table))
    <2>1. v \in Desired(p)
      BY DEF ClaimsSettled
    <2>2. FlushTable(r.table) \notin SteerCalls(p, v, Claimed(p)[v], prune)
      BY DEF SteerCalls, SteerKept, SteerPruned, Route, SidRule, Steer, Unsteer, Unroute, FlushTable
    <2> QED  BY <2>1, <2>2, SteerVmOf
  <1>2. ASSUME NEW t PROVE Before(Release(t), Unsteer(r), FlushTable(r.table))
    <2>1. r \in TableRules(t) \/ r.table # t
      BY DEF TableRules
    <2> QED  BY <2>1, ReleaseOrdered DEF Finite
  <1> QED  BY <1>1, <1>2, SteeringJoins

LEMMA SteeringBegins ==
    ASSUME NEW p, Finite(p), NEW prune \in BOOLEAN, NEW cl, cl = Claimed(p),
           NEW s, s = SyncSteering(p, prune), NEW w, NEW T,
           Rerouting(kern, <<>>, w, T, Ways(p)), \A r \in kern.steerRules : r.table \in Tables
    PROVE  /\ ClaimsSettled(p, cl)
           /\ Resteering(kern, s, w, Target(p, cl), Ways(p), Range(cl), Fills(p, cl, prune))
  <1>1. Plan(s, SteeringCalls(p, prune)) /\ ClaimedSound(p)
    BY SteeringPlan
  <1>2. ClaimsSettled(p, cl)
    BY <1>1 DEF ClaimedSound, ClaimsSettled
  <1>3. \A c \in Range(s) : Resteers(Target(p, cl), Range(cl), c)
    BY <1>1, <1>2, SteeringResteers DEF Plan
  <1>4. \A e \in Ways(p) : WayNew(kern, e)
    <2>1. Range(<<>>) = {}
      BY DEF Range
    <2> QED  BY <2>1 DEF Rerouting, WayOld
  <1>5. \A r \in kern.steerRules : r \in w.steerRules /\ Kept(kern, s, w, r)
    BY <1>2, FlushedLast DEF Rerouting, Kept
  <1>6. ASSUME NEW f \in Fills(p, cl, prune) PROVE Ripe(kern, s, f)
    <2>1. PICK vm \in DOMAIN cl : \E r \in Want(p, vm, cl[vm]) : f = Contents(p, cl, prune, vm, r)
      BY DEF Fills
    <2>2. PICK r \in Want(p, vm, cl[vm]) : f = Contents(p, cl, prune, vm, r)
      BY <2>1
    <2>3. \A d \in SteerFill(p, vm, cl[vm], prune) : Before(s, d, Steer(r))
      BY <1>2, FilledFirst
    <2>4. f.rule = r /\ f.sids = SteerRulesOf(p, vm)
      BY <2>2 DEF Contents
    <2>5. f.routes = {<<cl[vm], x, SteerEncap(p, vm, x).segs>> : x \in Ready(p, vm)}
      BY <2>2 DEF Contents
    <2>6. f.clear = IF prune THEN {<<cl[vm], x>> : x \in Dests \ Ready(p, vm)} ELSE {}
      BY <2>2 DEF Contents
    <2>7. \A e \in f.routes : Before(s, Route(e[1], e[2], e[3]), Steer(r))
      <3> SUFFICES ASSUME NEW x \in Ready(p, vm)
                   PROVE  Before(s, Route(cl[vm], x, SteerEncap(p, vm, x).segs), Steer(r))
        BY <2>5
      <3>1. Route(cl[vm], x, SteerEncap(p, vm, x).segs) \in SteerFill(p, vm, cl[vm], prune)
        BY DEF SteerFill
      <3> QED  BY <2>3, <3>1
    <2>8. \A e \in f.clear : kern.routes[e[1]][e[2]] = <<>> \/ Before(s, Unroute(e[1], e[2]), Steer(r))
      <3> SUFFICES ASSUME prune, NEW x \in Dests \ Ready(p, vm), kern.routes[cl[vm]][x] # <<>>
                   PROVE  Before(s, Unroute(cl[vm], x), Steer(r))
        BY <2>6
      <3>1. x \in Held(kern, cl[vm]) \ Ready(p, vm)
        BY DEF Held
      <3>2. Unroute(cl[vm], x) \in SteerPruned(p, vm, cl[vm])
        BY <3>1 DEF SteerPruned
      <3>3. Unroute(cl[vm], x) \in SteerFill(p, vm, cl[vm], prune)
        BY <3>2 DEF SteerFill
      <3> QED  BY <2>3, <3>3
    <2>9. \A u \in f.sids : Before(s, SidRule(u), Steer(r))
      <3> SUFFICES ASSUME NEW u \in SteerRulesOf(p, vm) PROVE Before(s, SidRule(u), Steer(r))
        BY <2>4
      <3>1. SidRule(u) \in SteerFill(p, vm, cl[vm], prune)
        BY DEF SteerFill
      <3> QED  BY <2>3, <3>1
    <2> QED  BY <2>4, <2>7, <2>8, <2>9 DEF Ripe
  <1>7. w.sidRules \subseteq kern.sidRules
    BY DEF Rerouting
  <1>8. \A r \in kern.steerRules : IF r.table \in Range(cl) THEN Led(kern, w, Fills(p, cl, prune), r) ELSE Kept(kern, s, w, r)
    BY <1>5 DEF Led
  <1> HIDE DEF Resteering
  <1> QED  BY <1>2, <1>3, <1>4, <1>6, <1>7, <1>8 DEF Resteering

LEMMA LocalBegins ==
    ASSUME NEW p, Finite(p), NEW cl, NEW s, s = RemoveLocal(p), NEW w, NEW C, NEW F,
           Resteering(kern, <<>>, w, Target(p, cl), Ways(p), C, F)
    PROVE  Resteering(kern, s, w, Target(p, cl), Ways(p), C, F)
  <1> DEFINE T == Target(p, cl)
  <1> DEFINE S == {x \in Held(kern, Vrf) \cap DOMAIN p.routes : p.routes[x].host = Me}
  <1>1. Plan(s, {Unroute(Vrf, x) : x \in S})
    <2>1. IsFiniteSet(S)
      <3>1. IsFiniteSet(Held(kern, Vrf))
        BY SmallSets
      <3> QED  BY <3>1, FS_Subset
    <2>2. s = InOrder(S, LAMBDA x : Unroute(Vrf, x))
      BY DEF RemoveLocal
    <2> HIDE DEF S
    <2> QED  BY <2>1, <2>2, UnrouteOrder
  <1>2. ASSUME NEW x \in S PROVE Resteers(T, C, Unroute(Vrf, x))
    <2>1. <<Vrf, x>> \in T.clear
      BY DEF Target, VrfClear, Held, Remote
    <2> HIDE DEF T
    <2> QED  BY <2>1 DEF Resteers, Aimed, Unroute, Writes
  <1>3. \A c \in Range(s) : Resteers(T, C, c) /\ c.do = "delete_route"
    BY <1>1, <1>2 DEF Plan, Unroute
  <1> HIDE DEF S
  <1>4. \A b, r : Before(s, b, Steer(r)) /\ \A t : Before(s, b, FlushTable(t))
    <2>1. \A r, t : Steer(r) \notin Range(s) /\ FlushTable(t) \notin Range(s)
      BY <1>3 DEF Steer, FlushTable
    <2> QED  BY <1>1, <2>1, BeforeAbsent DEF Plan
  <1>5. \A f \in F : Ripe(kern, s, f)
    BY <1>4 DEF Ripe
  <1>6. \A r \in kern.steerRules : IF r.table \in C THEN Led(kern, w, F, r) ELSE Kept(kern, s, w, r)
    BY <1>4 DEF Resteering, Kept
  <1>7. w.sidRules \subseteq kern.sidRules /\ \A e \in Ways(p) : WayNew(kern, e)
    BY DEF Resteering
  <1> QED  BY <1>3, <1>5, <1>6, <1>7 DEF Resteering, T

LEMMA WaysKept ==
    ASSUME NEW p, NEW cl, NEW prune, UNCHANGED View
    PROVE  Ways(p)' = Ways(p) /\ Fills(p, cl, prune)' = Fills(p, cl, prune)
  <1>1. Ways(p)' = Ways(p)
    <2>1. Remote(p)' = Remote(p) /\ \A x : EncapOf(p, x)' = EncapOf(p, x)
      BY ViewParts
    <2> QED  BY <2>1 DEF Ways
  <1>2. \A vm, r : Contents(p, cl, prune, vm, r)' = Contents(p, cl, prune, vm, r)
    <2>1. /\ \A vm, x : SteerEncap(p, vm, x)' = SteerEncap(p, vm, x)
          /\ \A vm : Ready(p, vm)' = Ready(p, vm) /\ SteerRulesOf(p, vm)' = SteerRulesOf(p, vm)
      BY ViewParts
    <2> QED  BY <2>1 DEF Contents
  <1>3. \A vm, t : Want(p, vm, t)' = Want(p, vm, t)
    BY ViewParts
  <1>4. Fills(p, cl, prune)' = Fills(p, cl, prune)
    BY <1>2, <1>3 DEF Fills
  <1> QED  BY <1>1, <1>4

\* The stages of an increment, which is about one address.
A3 == << "install", "steer", "local" >>
A2 == << "steer", "local" >>
A1 == << "local" >>

Phase(p, cl, prune, rest, s, w) ==
    /\ IF prune THEN rest \in Early \cup {R0, R1, R2, R3, R4} ELSE rest \in {R0, A1, A2, A3} /\ OneRoute(p)
    /\ rest \in Early \cup {R4, A3} => cl = <<>> /\ Quiet(kern, s, w)
    /\ rest \in {R3, R2, A2} => cl = <<>> /\ Rerouting(kern, s, w, Target(p, cl), Ways(p))
    /\ rest \in {R1, A1} \/ (rest = R0 /\ ~prune) =>
           /\ ClaimsSettled(p, cl)
           /\ Resteering(kern, s, w, Target(p, cl), Ways(p), Range(cl), Fills(p, cl, prune))
    /\ rest = R0 /\ prune => \A c \in Range(s) : c.do = "delete_sid_rule"

\* What the pass is about, and what there was before it.
At(p, cl, prune, rest, w) ==
    /\ Applying
    /\ p = pass.payload /\ cl = pass.claimed /\ prune = (pass.kind # "add") /\ rest = pass.rest /\ w = was

Flowing ==
    /\ pass.kind = "idle" => calls = <<>> /\ pass.rest = <<>> /\ (was # None => was = kern)
    /\ \A p, cl, prune, rest, s, w :
           At(p, cl, prune, rest, w) /\ s = calls => PayloadTyped(p) /\ Phase(p, cl, prune, rest, s, w)

LEMMA AddRests ==
    /\ A1 # <<>> /\ Head(A1) = "local" /\ Tail(A1) = R0
    /\ A2 # <<>> /\ Head(A2) = "steer" /\ Tail(A2) = A1
    /\ A3 # <<>> /\ Head(A3) = "install" /\ Tail(A3) = A2
  BY DEF R0, A1, A2, A3

\* Which phase it is shows in what is left to do.
LEMMA PhasesDiffer ==
    /\ \A r \in Early \cup {R4, A3} : r \notin {R0, R1, R2, R3, A1, A2}
    /\ \A r \in {R3, R2, A2} : r \notin Early \cup {R0, R1, R4, A1, A3}
    /\ \A r \in {R1, A1} : r \notin Early \cup {R0, R2, R3, R4, A2, A3}
    /\ R0 \notin Early \cup {R1, R2, R3, R4, A1, A2, A3}
  <1>1. Head(A1) = "local" /\ Head(A2) = "steer" /\ Head(A3) = "install"
            /\ Tail(A2) = A1 /\ Tail(A3) = A2 /\ A1 # <<>> /\ A2 # <<>> /\ A3 # <<>>
    BY AddRests
  <1>2. Len(A1) = 1 /\ Len(A2) = 2 /\ Len(A3) = 3
    BY DEF A1, A2, A3
  <1>3. Len(R0) = 0 /\ Len(R1) = 1 /\ Len(R2) = 2 /\ Len(R3) = 3 /\ Len(R4) = 4
    BY DEF R0, R1, R2, R3, R4
  <1>4. Len(R5) = 5 /\ Len(R6f) = 6 /\ Len(R6e) = 6 /\ Len(R7s) = 7 /\ Len(R7u) = 7
    BY DEF R5, R6f, R6e, R7s, R7u
  <1>5. R0 = <<>> /\ Head(R1) = "rules" /\ Tail(R2) = R1 /\ Head(R3) = "unwanted"
    BY RestChain DEF R0
  <1> HIDE DEF R0, R1, R2, R3, R4, R5, R6f, R6e, R7s, R7u, A1, A2, A3
  <1>6. \A r \in Early : Len(r) \in {5, 6, 7}
    BY <1>4 DEF Early
  <1>7. A1 \notin Early /\ A2 \notin Early /\ A3 \notin Early
    BY <1>2, <1>6
  <1>8. R0 \notin {A1, A2, A3}
    BY <1>1, <1>5
  <1>9. A1 # R1 /\ A3 # R3
    BY <1>1, <1>5
  <1>10. A2 # R2
    BY <1>1, <1>5, <1>9
  <1>11. \A m, n \in {0, 1, 2, 3, 4} : \A r, q : Len(r) = m /\ Len(q) = n /\ m # n => r # q
    OBVIOUS
  <1>12. /\ A1 # R2 /\ A1 # R3 /\ A1 # R4 /\ A2 # R1 /\ A2 # R3 /\ A2 # R4 /\ A3 # R1 /\ A3 # R2 /\ A3 # R4
         /\ A1 # A2 /\ A1 # A3 /\ A2 # A3
    BY <1>2, <1>3, <1>11
  <1> QED  BY <1>7, <1>8, <1>9, <1>10, <1>12, RestsDiffer

\* A call of a pass without a fault.
LEMMA CallFlows == ASSUME IInv, Flowing, Call PROVE Flowing'
  <1> DEFINE c == Head(calls)
  <1>1. /\ calls # <<>> /\ calls' = Tail(calls) /\ kern' = Effect(kern, c)
        /\ filtered' = (IF c.do = "apply_ruleset" THEN c.over ELSE filtered)
        /\ UNCHANGED <<enc, locs, gateway, pass, was>>
    BY DEF Call
  <1>2. /\ c \in Range(calls) /\ CallSound(c)
        /\ Range(calls) = {c} \cup Range(calls')
    BY <1>1, TailSound DEF IInv
  <1>3. kern' = After(kern, c)
    BY <1>1, <1>2, EffectIs DEF IInv, KernelSound, CallSound
  <1>4. pass.kind # "idle"
    BY <1>1 DEF Flowing
  <1>5. Makes(kern, kern', calls, c)
    BY <1>1, <1>2, <1>3 DEF Makes, IInv, CallsSound
  <1> HIDE DEF c
  <1> SUFFICES ASSUME NEW p, NEW cl, NEW prune, NEW rest, NEW s, NEW w, At(p, cl, prune, rest, w), s = calls'
               PROVE  PayloadTyped(p) /\ Phase(p, cl, prune, rest, s, w)'
    BY <1>1, <1>4 DEF Flowing, At, Applying
  <1>6. PICK t : t = calls
    OBVIOUS
  <1>7. PayloadTyped(p) /\ Phase(p, cl, prune, rest, t, w)
    BY <1>6 DEF Flowing
  <1>8. /\ Makes(kern, kern', t, c) /\ s = Tail(t) /\ Range(s) \subseteq Range(t) /\ c \in Range(t)
        /\ prune \in BOOLEAN
    BY <1>1, <1>2, <1>5, <1>6 DEF At
  <1>9. CASE rest \in Early \cup {R4, A3}
    <2>1. Quiet(kern', s, w)
      BY <1>7, <1>8, <1>9, QuietGoes DEF Phase
    <2>2. rest \notin {R0, R1, R2, R3, A1, A2}
      BY <1>9, PhasesDiffer
    <2> QED  BY <1>7, <2>1, <2>2 DEF Phase
  <1>10. CASE rest \in {R3, R2, A2}
    <2> DEFINE T == Target(p, cl)
    <2> DEFINE W == Ways(p)
    <2>1. cl = <<>> /\ Rerouting(kern, t, w, T, W)
      BY <1>7, <1>10 DEF Phase
    <2>2. Geared(T, W, Range(cl), Fills(p, cl, prune))
      BY <1>7, <1>8, <2>1, ClaimsNone, TargetGeared
    <2>3. c.do # "apply_ruleset"
      BY <1>8, <2>1 DEF Rerouting, Aimed, Writes
    <2>4. UNCHANGED View
      BY <1>1, <2>3 DEF View
    <2>5. T' = T /\ W' = W
      BY <2>4, ViewKept, WaysKept
    <2> HIDE DEF T, W
    <2>6. Rerouting(kern', s, w, T, W)
      BY <1>8, <2>1, <2>2, ReroutingGoes
    <2>7. Rerouting(kern, s, w, Target(p, cl), Ways(p))'
      BY <2>5, <2>6 DEF T, W
    <2>8. rest \notin Early \cup {R0, R1, R4, A1, A3}
      BY <1>10, PhasesDiffer
    <2> QED  BY <1>7, <2>1, <2>7, <2>8 DEF Phase
  <1>11. CASE rest \in {R1, A1} \/ (rest = R0 /\ ~prune)
    <2> DEFINE T == Target(p, cl)
    <2> DEFINE W == Ways(p)
    <2> DEFINE F == Fills(p, cl, prune)
    <2>1. ClaimsSettled(p, cl) /\ Resteering(kern, t, w, T, W, Range(cl), F)
      BY <1>7, <1>11 DEF Phase
    <2>2. Geared(T, W, Range(cl), F)
      BY <1>7, <1>8, <2>1, TargetGeared
    <2>3. c.do # "apply_ruleset"
      BY <1>8, <2>1 DEF Resteering, Resteers, Aimed, Writes
    <2>4. UNCHANGED View
      BY <1>1, <2>3 DEF View
    <2>5. T' = T /\ W' = W /\ F' = F /\ ClaimsSettled(p, cl)'
      BY <2>1, <2>4, ViewKept, WaysKept
    <2> HIDE DEF T, W, F
    <2>6. Resteering(kern', s, w, T, W, Range(cl), F)
      BY <1>8, <2>1, <2>2, ResteeringGoes
    <2>7. Resteering(kern, s, w, Target(p, cl), Ways(p), Range(cl), Fills(p, cl, prune))'
      BY <2>5, <2>6 DEF T, W, F
    <2>8. rest \notin Early \cup {R2, R3, R4, A2, A3} /\ ~(rest = R0 /\ prune)
      BY <1>11, PhasesDiffer
    <2> QED  BY <1>7, <2>5, <2>7, <2>8 DEF Phase
  <1>12. CASE rest = R0 /\ prune
    <2>1. rest \notin Early \cup {R1, R2, R3, R4, A1, A2, A3}
      BY <1>12, PhasesDiffer
    <2>2. \A d \in Range(s) : d.do = "delete_sid_rule"
      BY <1>7, <1>8, <1>12 DEF Phase
    <2> QED  BY <1>7, <1>12, <2>1, <2>2 DEF Phase
  <1>13. rest \in Early \cup {R0, R1, R2, R3, R4, A1, A2, A3}
    BY <1>7 DEF Phase
  <1> QED  BY <1>7, <1>8, <1>9, <1>10, <1>11, <1>12, <1>13

\* What a stage of a pass without a fault finds.
LEMMA FlowFinds ==
    ASSUME IInv, Flowing, NEW stage, NEW planned, Enter(stage, planned),
           NEW p, NEW cl, NEW prune, NEW r, NEW w, At(p, cl, prune, r, w)
    PROVE  /\ PayloadTyped(p) /\ Finite(p) /\ Phase(p, cl, prune, r, <<>>, w)
           /\ r # <<>> /\ Head(r) = stage
           /\ kern' = kern /\ calls' = planned /\ was' = was /\ prune \in BOOLEAN
           /\ prune => r \in Early \cup {R0, R1, R2, R3, R4}
           /\ ~prune => r \in {R0, A1, A2, A3} /\ OneRoute(p)
  <1>1. calls = <<>> /\ r # <<>> /\ Head(r) = stage /\ calls' = planned /\ kern' = kern /\ was' = was
        /\ prune \in BOOLEAN
    BY DEF Enter, At
  <1>2. PICK s : s = calls
    OBVIOUS
  <1>3. PayloadTyped(p) /\ Phase(p, cl, prune, r, s, w)
    BY <1>2 DEF Flowing
  <1>4. s = <<>>
    BY <1>1, <1>2
  <1>5. Finite(p)
    BY <1>3 DEF Finite, IInv, KernelSound, RuleTyped, Mine
  <1> QED  BY <1>1, <1>3, <1>4, <1>5 DEF Phase

LEMMA AddStageIs ==
    ASSUME NEW r \in {R0, A1, A2, A3}, r # <<>>
    PROVE  /\ Head(r) = "install" => r = A3 /\ Tail(r) = A2
           /\ Head(r) = "steer" => r = A2 /\ Tail(r) = A1
           /\ Head(r) = "local" => r = A1 /\ Tail(r) = R0
           /\ Head(r) \in {"install", "steer", "local"}
  <1>1. r # R0
    BY DEF R0
  <1> QED  BY <1>1, AddRests

\* A stage of a pass without a fault goes from one phase to the same or the next.
LEMMA StageFlows ==
    ASSUME IInv, Flowing, NEW stage, NEW planned, Enter(stage, planned), stage \notin {"idle", "down"},
           NEW c, (Leave /\ c = pass.claimed) \/ pass' = [pass EXCEPT !.rest = Tail(@), !.claimed = c],
           \A p, cl, prune, r, w : At(p, cl, prune, r, w) => Phase(p, c, prune, Tail(r), planned, w)'
    PROVE  Flowing'
  <1>1. calls = <<>> /\ pass.rest # <<>> /\ calls' = planned /\ was' = was
    BY DEF Enter
  <1> DEFINE t == Tail(pass.rest)
  <1>2. /\ (pass' = [pass EXCEPT !.rest = t] /\ c = pass.claimed) \/ pass' = [pass EXCEPT !.rest = t, !.claimed = c]
        /\ PassSound
    BY DEF IInv, Leave
  <1> HIDE DEF t
  <1>3. /\ pass'.kind = pass.kind /\ pass'.flaw = pass.flaw /\ pass'.payload = pass.payload
        /\ pass'.claimed = c /\ pass'.rest = t
    BY <1>2 DEF PassSound
  <1>4. pass'.kind # "idle"
    BY <1>1, <1>3 DEF Flowing
  <1> SUFFICES ASSUME NEW p, NEW cl, NEW prune, NEW rest, NEW s, NEW w, At(p, cl, prune, rest, w)', s = calls'
               PROVE  PayloadTyped(p) /\ Phase(p, cl, prune, rest, s, w)'
    BY <1>4 DEF Flowing
  <1>5. p = pass.payload /\ cl = c /\ rest = t /\ s = planned /\ w = was
    BY <1>1, <1>3 DEF At
  <1>6. PICK r : r = pass.rest
    OBVIOUS
  <1>7. PICK d : d = pass.claimed
    OBVIOUS
  <1>8. At(p, d, prune, r, w)
    BY <1>1, <1>3, <1>6, <1>7 DEF At, Applying
  <1>9. PayloadTyped(p)
    BY <1>1, <1>5 DEF IInv, PassSound
  <1>10. Phase(p, c, prune, Tail(r), planned, w)'
    BY <1>8
  <1> QED  BY <1>5, <1>6, <1>9, <1>10 DEF t

\* The stages before the routes' change nothing of the domain's.
LEMMA EncodeHarmless ==
    ASSUME NEW u, NEW b, NEW d \in Range(EnsureLocatorRoute(u) \o (IF b THEN <<DeleteDecap(DecapLen(enc))>> ELSE <<>>))
    PROVE  d.do \in Harmless
  <1>1. PICK A \in SUBSET NodeCalls : Plan(EnsureLocatorRoute(u), A)
    BY LocatorPlan
  <1> DEFINE c == DeleteDecap(DecapLen(enc))
  <1> DEFINE s == IF b THEN <<c>> ELSE <<>>
  <1> DEFINE B == IF b THEN {c} ELSE {}
  <1>2. Plan(s, B)
    BY PlanOne, PlanEmpty
  <1>3. \A e \in A \cup B : e.do \in Harmless
    <2>1. \A e \in A : e.do \in {"locator", "lib"}
      BY CallsThemselves
    <2>2. c.do = "delete_decap"
      BY CallsThemselves
    <2> HIDE DEF c
    <2> QED  BY <2>1, <2>2 DEF Harmless
  <1> HIDE DEF B
  <1>4. d \in Range(EnsureLocatorRoute(u) \o s)
    OBVIOUS
  <1> HIDE DEF s, c
  <1>5. Plan(EnsureLocatorRoute(u) \o s, A \cup B)
    BY <1>1, <1>2, PlanJoin
  <1> QED  BY <1>3, <1>4, <1>5 DEF Plan

LEMMA EarlyFlows ==
    ASSUME IInv, Flowing, NEW stage \in {"encode", "filter", "domain"}, NEW s, Enter(stage, s), Leave,
           \A d \in Range(s) : d.do \in Harmless
    PROVE  Flowing'
  <1>1. PICK c : c = pass.claimed
    OBVIOUS
  <1>2. ASSUME NEW p, NEW cl, NEW prune, NEW r, NEW w, At(p, cl, prune, r, w)
        PROVE  Phase(p, c, prune, Tail(r), s, w)'
    <2>1. /\ Phase(p, cl, prune, r, <<>>, w) /\ r # <<>> /\ Head(r) = stage
          /\ kern' = kern /\ prune \in BOOLEAN
          /\ prune => r \in Early \cup {R0, R1, R2, R3, R4}
          /\ ~prune => r \in {R0, A1, A2, A3} /\ OneRoute(p)
      BY <1>2, FlowFinds
    <2>2. prune /\ r \in Early /\ Tail(r) \in Early \cup {R4}
      <3>1. prune
        BY <2>1, AddStageIs
      <3>2. stage \in {"encode", "filter"} => r \in Early /\ Tail(r) \in Early
        BY <2>1, <3>1, StageIs
      <3>3. stage = "domain" => r = R5
        BY <2>1, <3>1, StageIs
      <3> QED  BY <3>1, <3>2, <3>3, RestChain DEF Early
    <2>3. cl = <<>> /\ Quiet(kern, <<>>, w)
      BY <2>1, <2>2 DEF Phase
    <2>4. Quiet(kern', s, w)
      BY <2>1, <2>3 DEF Quiet
    <2> DEFINE t == Tail(r)
    <2>5. t \in Early \cup {R4} /\ t \notin {R0, R1, R2, R3, A1, A2}
      BY <2>2, PhasesDiffer
    <2> HIDE DEF t
    <2>6. Phase(p, c, prune, t, s, w)'
      BY <1>1, <1>2, <2>2, <2>3, <2>4, <2>5 DEF Phase, At
    <2> QED  BY <2>6 DEF t
  <1> QED  BY <1>1, <1>2, StageFlows

LEMMA EnsureEncodingFlows == ASSUME IInv, Flowing, EnsureEncoding PROVE Flowing'
  <1> DEFINE switch == P.usid # enc /\ (P.usid => UsidLocator(Locator[Me]))
  <1> DEFINE planned == IF ~switch THEN <<>>
                        ELSE EnsureLocatorRoute(P.usid) \o
                             (IF programmed THEN <<DeleteDecap(DecapLen(enc))>> ELSE <<>>)
  <1>1. Enter("encode", planned) /\ Leave
    BY DEF EnsureEncoding
  <1>2. \A d \in Range(planned) : d.do \in Harmless
    BY EncodeHarmless DEF Range
  <1> HIDE DEF planned, switch
  <1> QED  BY <1>1, <1>2, EarlyFlows

LEMMA EdgeFilterFlows == ASSUME IInv, Flowing, EdgeFilter PROVE Flowing'
  <1> DEFINE over == locs \cup P.known \cup {Me}
  <1> DEFINE planned == IF pass.kind = "sync" \/ ~(P.known \subseteq locs) THEN EnsureEdgeFilter(over) ELSE <<>>
  <1>1. Enter("filter", planned) /\ Leave
    BY DEF EdgeFilter
  <1> HIDE DEF over
  <1>2. \A d \in Range(planned) : d.do \in Harmless
    BY DEF Range, EnsureEdgeFilter, ApplyRuleset, Harmless
  <1> HIDE DEF planned
  <1> QED  BY <1>1, <1>2, EarlyFlows

LEMMA EnsureDomainFlows == ASSUME IInv, Flowing, EnsureDomain PROVE Flowing'
  <1> DEFINE planned == <<ReplaceDecap(DecapLen(enc))>>
  <1>1. Enter("domain", planned) /\ Leave
    BY DEF EnsureDomain
  <1>2. \A d \in Range(planned) : d.do \in Harmless
    BY DEF Range, ReplaceDecap, Harmless
  <1> HIDE DEF planned
  <1> QED  BY <1>1, <1>2, EarlyFlows

\* The stages that write routes and rules.
LEMMA InstallFlows == ASSUME IInv, Flowing, Install PROVE Flowing'
  <1>1. PICK s : s = InstallRoutes(P)
    OBVIOUS
  <1>2. Enter("install", s) /\ Leave /\ UNCHANGED <<enc, locs>>
    BY <1>1 DEF Install
  <1>3. PICK c : c = pass.claimed
    OBVIOUS
  <1>4. ASSUME NEW p, NEW cl, NEW prune, NEW r, NEW w, At(p, cl, prune, r, w)
        PROVE  Phase(p, c, prune, Tail(r), s, w)'
    <2>1. /\ Phase(p, cl, prune, r, <<>>, w) /\ r # <<>> /\ Head(r) = "install" /\ Finite(p)
          /\ kern' = kern /\ prune \in BOOLEAN
          /\ prune => r \in Early \cup {R0, R1, R2, R3, R4}
          /\ ~prune => r \in {R0, A1, A2, A3} /\ OneRoute(p)
      BY <1>2, <1>4, FlowFinds
    <2>2. /\ prune => r = R4 /\ Tail(r) = R3
          /\ ~prune => r = A3 /\ Tail(r) = A2 /\ OneRoute(p)
      BY <2>1, StageIs, AddStageIs, RestChain
    <2>3. cl = <<>> /\ Quiet(kern, <<>>, w)
      BY <2>1, <2>2 DEF Phase
    <2>4. s = InstallRoutes(p)
      BY <1>1, <1>4 DEF P, At
    <2> DEFINE T == Target(p, cl)
    <2> DEFINE W == Ways(p)
    <2>5. Rerouting(kern, s, w, T, W)
      BY <2>1, <2>3, <2>4, InstallBegins
    <2>6. UNCHANGED View
      BY <1>2 DEF Enter, View
    <2>7. T' = T /\ W' = W
      BY <2>6, ViewKept, WaysKept
    <2> HIDE DEF T, W
    <2>8. Rerouting(kern, s, w, Target(p, cl), Ways(p))'
      BY <2>1, <2>5, <2>7 DEF T, W
    <2> DEFINE t == Tail(r)
    <2>9. t \in {R3, A2} /\ t \notin Early \cup {R0, R1, R4, A1, A3}
      BY <2>2, PhasesDiffer
    <2>10. (prune => t = R3) /\ (~prune => t = A2 /\ OneRoute(p))
      BY <2>2
    <2> HIDE DEF t
    <2>11. Phase(p, c, prune, t, s, w)'
      BY <1>3, <1>4, <2>3, <2>8, <2>9, <2>10 DEF Phase, At
    <2> QED  BY <2>11 DEF t
  <1> QED  BY <1>2, <1>3, <1>4, StageFlows

LEMMA RemoveUnwantedFlows == ASSUME IInv, Flowing, RemoveUnwanted PROVE Flowing'
  <1>1. PICK s : s = RemoveUnwantedRoutes(P)
    OBVIOUS
  <1>2. Enter("unwanted", s) /\ Leave /\ UNCHANGED <<enc, locs>>
    BY <1>1 DEF RemoveUnwanted
  <1>3. PICK c : c = pass.claimed
    OBVIOUS
  <1>4. ASSUME NEW p, NEW cl, NEW prune, NEW r, NEW w, At(p, cl, prune, r, w)
        PROVE  Phase(p, c, prune, Tail(r), s, w)'
    <2>1. /\ Phase(p, cl, prune, r, <<>>, w) /\ r # <<>> /\ Head(r) = "unwanted" /\ Finite(p)
          /\ kern' = kern /\ prune \in BOOLEAN
          /\ prune => r \in Early \cup {R0, R1, R2, R3, R4}
          /\ ~prune => r \in {R0, A1, A2, A3} /\ OneRoute(p)
      BY <1>2, <1>4, FlowFinds
    <2>2. prune /\ r = R3 /\ Tail(r) = R2
      BY <2>1, StageIs, AddStageIs, RestChain
    <2> DEFINE T == Target(p, cl)
    <2> DEFINE W == Ways(p)
    <2>3. cl = <<>> /\ Rerouting(kern, <<>>, w, T, W)
      BY <2>1, <2>2 DEF Phase
    <2>4. s = RemoveUnwantedRoutes(p)
      BY <1>1, <1>4 DEF P, At
    <2>5. Rerouting(kern, s, w, T, W)
      BY <2>1, <2>3, <2>4, UnwantedBegins
    <2>6. UNCHANGED View
      BY <1>2 DEF Enter, View
    <2>7. T' = T /\ W' = W
      BY <2>6, ViewKept, WaysKept
    <2> HIDE DEF T, W
    <2>8. Rerouting(kern, s, w, Target(p, cl), Ways(p))'
      BY <2>1, <2>5, <2>7 DEF T, W
    <2> DEFINE t == Tail(r)
    <2>9. t = R2 /\ t \notin Early \cup {R0, R1, R4, A1, A3}
      BY <2>2, PhasesDiffer
    <2> HIDE DEF t
    <2>10. Phase(p, c, prune, t, s, w)'
      BY <1>3, <1>4, <2>2, <2>3, <2>8, <2>9 DEF Phase, At
    <2> QED  BY <2>10 DEF t
  <1> QED  BY <1>2, <1>3, <1>4, StageFlows

LEMMA SteeringFlows == ASSUME IInv, Flowing, Steering PROVE Flowing'
  <1>1. PICK b : b = (pass.kind # "add")
    OBVIOUS
  <1>2. PICK s : s = SyncSteering(P, b)
    OBVIOUS
  <1>3. PICK c : c = Claimed(P)
    OBVIOUS
  <1>4. s = SyncSteering(P, pass.kind # "add")
    BY <1>1, <1>2
  <1>5. /\ Enter("steer", s) /\ UNCHANGED <<enc, locs>>
        /\ pass' = [pass EXCEPT !.rest = Tail(@), !.claimed = c]
    BY <1>3, <1>4 DEF Steering
  <1>6. ASSUME NEW p, NEW cl, NEW prune, NEW r, NEW w, At(p, cl, prune, r, w)
        PROVE  Phase(p, c, prune, Tail(r), s, w)'
    <2>1. /\ Phase(p, cl, prune, r, <<>>, w) /\ r # <<>> /\ Head(r) = "steer" /\ Finite(p)
          /\ kern' = kern /\ prune \in BOOLEAN
          /\ prune => r \in Early \cup {R0, R1, R2, R3, R4}
          /\ ~prune => r \in {R0, A1, A2, A3} /\ OneRoute(p)
      BY <1>5, <1>6, FlowFinds
    <2>2. /\ prune => r = R2 /\ Tail(r) = R1
          /\ ~prune => r = A2 /\ Tail(r) = A1 /\ OneRoute(p)
      BY <2>1, StageIs, AddStageIs, RestChain
    <2> DEFINE T == Target(p, cl)
    <2>3. Rerouting(kern, <<>>, w, T, Ways(p))
      BY <2>1, <2>2 DEF Phase
    <2> HIDE DEF T
    <2>4. s = SyncSteering(p, prune) /\ c = Claimed(p)
      BY <1>1, <1>2, <1>3, <1>6 DEF P, At
    <2>5. \A q \in kern.steerRules : q.table \in Tables
      BY DEF IInv, KernelSound, RuleTyped
    <2> DEFINE U == Target(p, c)
    <2> DEFINE W == Ways(p)
    <2> DEFINE F == Fills(p, c, prune)
    <2>6. ClaimsSettled(p, c) /\ Resteering(kern, s, w, U, W, Range(c), F)
      BY <2>1, <2>3, <2>4, <2>5, SteeringBegins
    <2>7. UNCHANGED View
      BY <1>5 DEF Enter, View
    <2>8. U' = U /\ W' = W /\ F' = F /\ ClaimsSettled(p, c)'
      BY <2>6, <2>7, ViewKept, WaysKept
    <2> HIDE DEF U, W, F
    <2>9. Resteering(kern, s, w, Target(p, c), Ways(p), Range(c), Fills(p, c, prune))'
      BY <2>1, <2>6, <2>8 DEF U, W, F
    <2> DEFINE t == Tail(r)
    <2>10. t \in {R1, A1} /\ t \notin Early \cup {R0, R2, R3, R4, A2, A3}
      BY <2>2, PhasesDiffer
    <2>11. (prune => t = R1) /\ (~prune => t = A1 /\ OneRoute(p))
      BY <2>2
    <2> HIDE DEF t
    <2>12. Phase(p, c, prune, t, s, w)'
      BY <2>8, <2>9, <2>10, <2>11 DEF Phase
    <2> QED  BY <2>12 DEF t
  <1> QED  BY <1>5, <1>6, StageFlows

LEMMA LocalFlows == ASSUME IInv, Flowing, Local PROVE Flowing'
  <1>1. PICK s : s = RemoveLocal(P)
    OBVIOUS
  <1>2. Enter("local", s) /\ Leave /\ UNCHANGED <<enc, locs>>
    BY <1>1 DEF Local
  <1>3. PICK c : c = pass.claimed
    OBVIOUS
  <1>4. ASSUME NEW p, NEW cl, NEW prune, NEW r, NEW w, At(p, cl, prune, r, w)
        PROVE  Phase(p, c, prune, Tail(r), s, w)'
    <2>1. /\ Phase(p, cl, prune, r, <<>>, w) /\ r # <<>> /\ Head(r) = "local" /\ Finite(p)
          /\ kern' = kern /\ prune \in BOOLEAN
          /\ prune => r \in Early \cup {R0, R1, R2, R3, R4}
          /\ ~prune => r \in {R0, A1, A2, A3} /\ OneRoute(p)
      BY <1>2, <1>4, FlowFinds
    <2>2. ~prune /\ r = A1 /\ Tail(r) = R0 /\ OneRoute(p)
      <3>1. ~prune
        BY <2>1, StageIs
      <3> QED  BY <2>1, <3>1, AddStageIs
    <2> DEFINE T == Target(p, cl)
    <2> DEFINE W == Ways(p)
    <2> DEFINE F == Fills(p, cl, prune)
    <2>3. ClaimsSettled(p, cl) /\ Resteering(kern, <<>>, w, T, W, Range(cl), F)
      BY <2>1, <2>2 DEF Phase
    <2>4. s = RemoveLocal(p)
      BY <1>1, <1>4 DEF P, At
    <2> HIDE DEF F
    <2>5. Resteering(kern, s, w, T, W, Range(cl), F)
      BY <2>1, <2>3, <2>4, LocalBegins
    <2>6. UNCHANGED View
      BY <1>2 DEF Enter, View
    <2>7. T' = T /\ W' = W /\ F' = F /\ ClaimsSettled(p, cl)'
      BY <2>3, <2>6, ViewKept, WaysKept DEF F
    <2> HIDE DEF T, W
    <2>8. Resteering(kern, s, w, Target(p, cl), Ways(p), Range(cl), Fills(p, cl, prune))'
      BY <2>1, <2>5, <2>7 DEF T, W, F
    <2> DEFINE t == Tail(r)
    <2>9. t = R0 /\ t \notin Early \cup {R1, R2, R3, R4, A1, A2, A3}
      BY <2>2, PhasesDiffer
    <2> HIDE DEF t
    <2>10. c = cl
      BY <1>3, <1>4 DEF At
    <2>11. Phase(p, cl, prune, t, s, w)'
      BY <2>2, <2>7, <2>8, <2>9 DEF Phase
    <2> QED  BY <2>10, <2>11 DEF t
  <1> QED  BY <1>2, <1>3, <1>4, StageFlows

LEMMA SidRulesFlows == ASSUME IInv, Flowing, SidRules PROVE Flowing'
  <1>1. PICK s : s = RemoveUnwantedSidRules(P, pass.claimed)
    OBVIOUS
  <1>2. Enter("rules", s) /\ Leave /\ UNCHANGED <<enc, locs>>
    BY <1>1 DEF SidRules
  <1>3. PICK c : c = pass.claimed
    OBVIOUS
  <1>4. \A d \in Range(s) : d.do = "delete_sid_rule"
    <2>1. PICK S : S = kern.sidRules \ Needed(P, pass.claimed)
      OBVIOUS
    <2>2. s = InOrder(S, DeleteSidRule)
      BY <1>1, <2>1 DEF RemoveUnwantedSidRules
    <2>3. IsFiniteSet(S)
      BY <2>1, FS_Subset DEF IInv, KernelSound
    <2>4. Plan(s, {DeleteSidRule(u) : u \in S})
      BY <2>2, <2>3, DeleteSidRuleOrder
    <2> QED  BY <2>4, CallsThemselves DEF Plan
  <1>5. ASSUME NEW p, NEW cl, NEW prune, NEW r, NEW w, At(p, cl, prune, r, w)
        PROVE  Phase(p, c, prune, Tail(r), s, w)'
    <2>1. /\ Phase(p, cl, prune, r, <<>>, w) /\ r # <<>> /\ Head(r) = "rules"
          /\ prune \in BOOLEAN
          /\ prune => r \in Early \cup {R0, R1, R2, R3, R4}
          /\ ~prune => r \in {R0, A1, A2, A3} /\ OneRoute(p)
      BY <1>2, <1>5, FlowFinds
    <2>2. prune /\ r = R1 /\ Tail(r) = R0
      BY <2>1, StageIs, AddStageIs, RestChain
    <2> DEFINE t == Tail(r)
    <2>3. t = R0 /\ t \notin Early \cup {R1, R2, R3, R4, A1, A2, A3}
      BY <2>2, PhasesDiffer
    <2> HIDE DEF t
    <2>4. Phase(p, c, prune, t, s, w)'
      BY <1>4, <2>2, <2>3 DEF Phase
    <2> QED  BY <2>4 DEF t
  <1> QED  BY <1>2, <1>3, <1>5, StageFlows

\* A pass begins with nothing changed.
LEMMA StartFlows ==
    ASSUME Flowing, pass = Idle, NEW kind \in {"sync", "update", "add"}, NEW q, PayloadTyped(q),
           kind = "add" => OneRoute(q), pass' = Start(kind, q), UNCHANGED <<kern, was, calls>>
    PROVE  Flowing'
  <1>1. /\ pass'.kind = kind /\ pass'.payload = q /\ pass'.claimed = <<>> /\ pass'.rest = StagesOf(kind)
    BY StartIs
  <1>2. calls = <<>> /\ (was # None => was = kern)
    BY DEF Flowing, Idle
  <1>3. StagesOf("add") = A3
    BY DEF StagesOf, A3
  <1> SUFFICES ASSUME NEW p, NEW cl, NEW prune, NEW rest, NEW s, NEW w, At(p, cl, prune, rest, w)', s = calls'
               PROVE  PayloadTyped(p) /\ Phase(p, cl, prune, rest, s, w)'
    BY <1>1 DEF Flowing
  <1>4. p = q /\ cl = <<>> /\ s = <<>> /\ rest = StagesOf(kind) /\ prune = (kind # "add") /\ kern' = w
    BY <1>1, <1>2 DEF At, Applying
  <1>5. IF prune THEN rest \in Early ELSE rest = A3 /\ OneRoute(p)
    BY <1>3, <1>4, StartRests DEF Early
  <1>6. rest \notin {R0, R1, R2, R3, A1, A2}
    BY <1>5, PhasesDiffer
  <1>7. Quiet(kern', s, w)
    BY <1>4 DEF Quiet, Range
  <1> QED  BY <1>4, <1>5, <1>6, <1>7 DEF Phase

LEMMA OthersFlow ==
    ASSUME IInv, Flowing, Next, ~Call
    PROVE  Flowing'
  <1>0. (pass'.kind = "idle" => calls' = <<>> /\ pass'.rest = <<>> /\ (was' # None => was' = kern'))
            /\ ~Applying' => Flowing'
    BY DEF Flowing, At
  <1>1. CASE \E p \in Payloads : SyncState(p) \/ DomainUpdated(p)
    BY <1>1, StartFlows, NodeRoutesAssumption DEF SyncState, DomainUpdated, Turn
  <1>2. CASE \E p \in Payloads, x \in Dests : RoutesAdded(p, x)
    <2>1. PICK p \in Payloads, x \in Dests : RoutesAdded(p, x)
      BY <1>2
    <2>2. PICK q : q = Only(p, x)
      OBVIOUS
    <2>3. PayloadTyped(q) /\ OneRoute(q)
      BY <2>1, <2>2, OnlyTyped, NodeRoutesAssumption DEF RoutesAdded
    <2> QED  BY <2>1, <2>2, <2>3, StartFlows DEF RoutesAdded, Turn
  <1>3. CASE \E x \in Dests : RoutesRemoved(x)
    <2>1. PICK x \in Dests : pass' = [Start("remove", None) EXCEPT !.payload = x]
      BY <1>3 DEF RoutesRemoved
    <2>2. pass'.kind = "remove"
      BY <2>1, StartIs
    <2> QED  BY <1>0, <2>2 DEF Applying
  <1>4. CASE DomainDeleted
    <2>1. pass'.kind = "delete"
      BY <1>4, StartIs DEF DomainDeleted
    <2> QED  BY <1>0, <2>1 DEF Applying
  <1>5. CASE \E i \in Ifaces \cup {None} : GatewayMoves(i)
    <2>1. pass = Idle /\ pass' = pass /\ UNCHANGED <<kern, calls, was>>
      BY <1>5 DEF GatewayMoves, Turn
    <2> QED  BY <1>0, <2>1 DEF Applying, Flowing, Idle
  <1>6. CASE EnsureEncoding \/ EdgeFilter \/ EnsureDomain
    BY <1>6, EnsureEncodingFlows, EdgeFilterFlows, EnsureDomainFlows
  <1>7. CASE Install \/ RemoveUnwanted \/ Steering \/ Local \/ SidRules
    BY <1>7, InstallFlows, RemoveUnwantedFlows, SteeringFlows, LocalFlows, SidRulesFlows
  <1>8. CASE CallFails
    <2>1. /\ \/ pass' = Idle /\ calls' = <<>>
             \/ pass' = [Idle EXCEPT !.kind = "down"]
             \/ pass' = [pass EXCEPT !.flaw = TRUE]
          /\ was' = None /\ calls # <<>>
      BY <1>8 DEF CallFails
    <2>2. pass.kind # "idle"
      BY <2>1 DEF Flowing
    <2>3. ~Applying'
      BY <2>1 DEF Applying
    <2>4. pass'.kind = "idle" => calls' = <<>> /\ pass'.rest = <<>>
      BY <2>1, <2>2 DEF Idle, IInv, PassSound
    <2> QED  BY <1>0, <2>1, <2>3, <2>4
  <1>9. CASE ReadFails
    <2> DEFINE t == Tail(pass.rest)
    <2>1. pass' = [pass EXCEPT !.rest = t, !.flaw = TRUE] /\ PassSound /\ was' = None /\ pass.rest # <<>>
      BY <1>9 DEF ReadFails, IInv
    <2> HIDE DEF t
    <2>2. pass'.kind # "idle"
      BY <2>1 DEF PassSound, Flowing
    <2> QED  BY <1>0, <2>1, <2>2 DEF Applying
  <1>10. CASE Done
    <2>1. pass' = Idle /\ calls' = <<>> /\ (was' = None \/ was' = kern) /\ kern' = kern
      BY <1>10 DEF Done
    <2> QED  BY <1>0, <2>1 DEF Applying, Idle
  <1>11. CASE Crash \/ Restart
    <2>1. pass' = Start("boot", None)
      BY <1>11 DEF Crash, Restart, StartAgain
    <2>2. pass'.kind = "boot"
      BY <2>1, StartIs
    <2> QED  BY <1>0, <2>2 DEF Applying
  <1> QED  BY <1>1, <1>2, <1>3, <1>4, <1>5, <1>6, <1>7, <1>8, <1>9, <1>10, <1>11 DEF Next

LEMMA StutterFlows == ASSUME Flowing, UNCHANGED vars PROVE Flowing'
  <1>1. UNCHANGED <<kern, pass, calls, was>> /\ UNCHANGED View
    BY DEF vars, View
  <1> SUFFICES ASSUME NEW p, NEW cl, NEW prune, NEW rest, NEW s, NEW w, At(p, cl, prune, rest, w)', s = calls'
               PROVE  PayloadTyped(p) /\ Phase(p, cl, prune, rest, s, w)'
    BY <1>1 DEF Flowing
  <1>2. At(p, cl, prune, rest, w) /\ s = calls
    BY <1>1 DEF At, Applying
  <1>3. PayloadTyped(p) /\ Phase(p, cl, prune, rest, s, w)
    BY <1>2 DEF Flowing
  <1>4. /\ Target(p, cl)' = Target(p, cl) /\ ClaimsSettled(p, cl)' = ClaimsSettled(p, cl)
        /\ Ways(p)' = Ways(p) /\ Fills(p, cl, prune)' = Fills(p, cl, prune)
    BY <1>1, ViewKept, WaysKept
  <1> QED  BY <1>1, <1>3, <1>4 DEF Phase

LEMMA FlowingAlways == Spec => []Flowing
  <1>1. Init => Flowing
    <2>1. Init => pass.kind = "boot"
      BY StartIs DEF Init
    <2> QED  BY <2>1 DEF Flowing, At, Applying
  <1>2. IInv /\ Flowing /\ [Next]_vars => Flowing'
    BY CallFlows, OthersFlow, StutterFlows
  <1> QED  BY <1>1, <1>2, RoutesInvariance, PTL DEF Spec

LEMMA OpenIs ==
    ASSUME NEW host, NEW via \in Seq(Hosts), NEW usid, Open(Encap(host, via, usid))
    PROVE  /\ Encap(host, via, usid).dev /\ Encap(host, via, usid).rule # None
           /\ Encap(host, via, usid).segs # <<>>
           /\ Encap(host, via, usid).rule = Encap(host, via, usid).segs[1]
  <1> DEFINE pushed == Pushed(host, via, usid)
  <1> DEFINE first == pushed.segs[1]
  <1>1. /\ Encap(host, via, usid).rule = IF pushed.direct \/ Covers(filtered, first) THEN first ELSE None
        /\ Encap(host, via, usid).segs = pushed.segs
    BY DEF Encap
  <1>2. Encap(host, via, usid).dev /\ Encap(host, via, usid).rule # None
    BY DEF Open
  <1> HIDE DEF pushed
  <1> QED  BY <1>1, <1>2, PushedSome

LEMMA WayIs ==
    ASSUME NEW p, PayloadTyped(p), NEW x \in Remote(p), Open(EncapOf(p, x)), NEW e, e = EncapOf(p, x)
    PROVE  /\ e.segs # <<>> /\ e.rule = e.segs[1] /\ <<x, e.segs, e.rule>> \in Ways(p)
  <1>1. p.routes[x].via \in Seq(Hosts)
    BY DEF PayloadTyped, Remote
  <1>2. e.segs # <<>> /\ e.rule = e.segs[1]
    BY <1>1, OpenIs DEF EncapOf
  <1>3. <<x, e.segs, e.rule>> \in Ways(p)
    BY DEF Ways
  <1> QED  BY <1>2, <1>3

LEMMA SteeredWayIs ==
    ASSUME NEW p, PayloadTyped(p), NEW vm \in DOMAIN p.steer, NEW x \in SteeredOf(p, vm),
           Open(SteerEncap(p, vm, x)), NEW e, e = SteerEncap(p, vm, x)
    PROVE  /\ e.segs # <<>> /\ e.rule = e.segs[1] /\ x \in Ready(p, vm) /\ e.rule \in SteerRulesOf(p, vm)
  <1>1. p.steer[vm].lists[x] \in Seq(Hosts)
    BY DEF PayloadTyped, SteeredOf
  <1>2. e.segs # <<>> /\ e.rule = e.segs[1] /\ e.dev /\ e.rule # None
    BY <1>1, OpenIs DEF SteerEncap
  <1> QED  BY <1>2 DEF Ready, SteerRulesOf, RulesOf

\* What a table gives a packet is a path it may take, or nothing.
Served(p, a, x, list) == list = <<>> \/ (list \in Lists(p, a, x) /\ list[1] \in kern.sidRules)

LEMMA FlowsOn ==
    ASSUME NEW p, NEW a, NEW x, \A t \in SteerTablesOf(kern, a) : Served(p, a, x, kern.routes[t][x]),
           (\A t \in SteerTablesOf(kern, a) : kern.routes[t][x] = <<>>)
               => kern.routes[Vrf][x] # <<>> /\ Served(p, a, x, kern.routes[Vrf][x])
    PROVE  Leaves(kern, a, x) /\ Forwards(kern, a, x) \subseteq Lists(p, a, x)
  <1> DEFINE steered == {kern.routes[t][x] : t \in SteerTablesOf(kern, a)} \ {<<>>}
  <1>1. Forwards(kern, a, x) = IF steered # {} THEN steered ELSE {kern.routes[Vrf][x]} \ {<<>>}
    BY DEF Forwards
  <1>2. CASE steered # {}
    BY <1>1, <1>2 DEF Served, Leaves
  <1>3. CASE steered = {}
    <2>1. \A t \in SteerTablesOf(kern, a) : kern.routes[t][x] = <<>>
      BY <1>3
    <2>2. Forwards(kern, a, x) = {kern.routes[Vrf][x]}
      BY <1>1, <1>3, <2>1
    <2> QED  BY <2>1, <2>2 DEF Served, Leaves
  <1> QED  BY <1>2, <1>3

\* In the VRF, once its routes are the new ones; on the way there.
LEMMA NewWayServes ==
    ASSUME NEW p, PayloadTyped(p), NEW a, NEW x \in Remote(p), WayOpen(p, a, x),
           \A e \in Ways(p) : WayNew(kern, e)
    PROVE  kern.routes[Vrf][x] # <<>> /\ Served(p, a, x, kern.routes[Vrf][x])
  <1>1. PICK e : e = EncapOf(p, x)
    OBVIOUS
  <1>2. e.segs # <<>> /\ e.rule = e.segs[1] /\ <<x, e.segs, e.rule>> \in Ways(p)
    BY <1>1, WayIs DEF WayOpen
  <1>3. kern.routes[Vrf][x] = e.segs /\ e.rule \in kern.sidRules
    BY <1>2 DEF WayNew
  <1>4. e.segs \in Lists(p, a, x)
    BY <1>1 DEF Lists
  <1> QED  BY <1>2, <1>3, <1>4 DEF Served

\* In a steer table that is filled.
LEMMA FilledServes ==
    ASSUME NEW p, PayloadTyped(p), NEW cl, ClaimsSettled(p, cl), NEW prune, prune \/ OneRoute(p),
           NEW a, NEW x \in Remote(p), WayOpen(p, a, x), NEW f \in Fills(p, cl, prune), f.rule.from = a,
           Filled(kern, f)
    PROVE  Served(p, a, x, kern.routes[f.rule.table][x])
  <1>1. PICK vm \in DOMAIN cl : \E r \in Want(p, vm, cl[vm]) : f = Contents(p, cl, prune, vm, r)
    BY DEF Fills
  <1>2. PICK r \in Want(p, vm, cl[vm]) : f = Contents(p, cl, prune, vm, r)
    BY <1>1
  <1>3. vm \in Desired(p) /\ vm \in DOMAIN p.steer
    BY DEF ClaimsSettled, Desired
  <1>4. f.rule = r /\ r.table = cl[vm] /\ a \in p.steer[vm].from
    BY <1>2 DEF Contents, Want
  <1>5. CASE x \in SteeredOf(p, vm)
    <2>1. PICK e : e = SteerEncap(p, vm, x)
      OBVIOUS
    <2>2. e.segs # <<>> /\ e.rule = e.segs[1] /\ x \in Ready(p, vm) /\ e.rule \in SteerRulesOf(p, vm)
      BY <1>3, <1>5, <2>1, SteeredWayIs DEF WayOpen
    <2>3. <<cl[vm], x, e.segs>> \in f.routes /\ e.rule \in f.sids
      BY <1>2, <2>1, <2>2 DEF Contents
    <2>4. kern.routes[cl[vm]][x] = e.segs /\ e.rule \in kern.sidRules
      BY <2>3 DEF Filled
    <2>5. e.segs \in Lists(p, a, x)
      BY <1>3, <1>4, <1>5, <2>1 DEF Lists
    <2> QED  BY <1>4, <2>2, <2>4, <2>5 DEF Served
  <1>6. CASE x \notin SteeredOf(p, vm)
    <2>1. prune
      <3>1. OneRoute(p) => x \in SteeredOf(p, vm)
        BY <1>3 DEF OneRoute, Remote, SteeredOf
      <3> QED  BY <1>6, <3>1
    <2>2. x \in Dests \ Ready(p, vm)
      BY <1>6 DEF Ready, Remote, PayloadTyped
    <2>3. <<cl[vm], x>> \in f.clear
      BY <1>2, <2>1, <2>2 DEF Contents
    <2>4. kern.routes[cl[vm]][x] = <<>>
      BY <2>3 DEF Filled
    <2> QED  BY <1>4, <2>4 DEF Served
  <1> QED  BY <1>5, <1>6

\* What the old paths give a packet, it still gets while their rules are there.
LEMMA OldServes ==
    ASSUME NEW p, NEW a, NEW x, NEW w, w = was, Leaves(w, a, x), w.sidRules \subseteq kern.sidRules
    PROVE  /\ \A t \in SteerTablesOf(w, a) : Served(p, a, x, w.routes[t][x])
           /\ (\A t \in SteerTablesOf(w, a) : w.routes[t][x] = <<>>)
                  => w.routes[Vrf][x] # <<>> /\ Served(p, a, x, w.routes[Vrf][x])
  <1> DEFINE steered == {w.routes[t][x] : t \in SteerTablesOf(w, a)} \ {<<>>}
  <1>1. Forwards(w, a, x) = IF steered # {} THEN steered ELSE {w.routes[Vrf][x]} \ {<<>>}
    BY DEF Forwards
  <1>2. Forwards(w, a, x) \subseteq Lists(p, a, x) /\ w.routes[Vrf][x] \in Lists(p, a, x)
    BY DEF Lists
  <1>3. Forwards(w, a, x) # {} /\ \A list \in Forwards(w, a, x) : list[1] \in kern.sidRules
    BY DEF Leaves
  <1>4. ASSUME NEW t \in SteerTablesOf(w, a) PROVE Served(p, a, x, w.routes[t][x])
    <2>1. w.routes[t][x] # <<>> => w.routes[t][x] \in Forwards(w, a, x)
      BY <1>1
    <2> QED  BY <1>2, <1>3, <2>1 DEF Served
  <1>5. ASSUME \A t \in SteerTablesOf(w, a) : w.routes[t][x] = <<>>
        PROVE  w.routes[Vrf][x] # <<>> /\ Served(p, a, x, w.routes[Vrf][x])
    <2>1. Forwards(w, a, x) = {w.routes[Vrf][x]} \ {<<>>}
      BY <1>1, <1>5
    <2> QED  BY <1>2, <1>3, <2>1 DEF Served
  <1> QED  BY <1>4, <1>5

\* Before the steer tables change: the VRF's route is the old or the new one.
LEMMA ReroutingServes ==
    ASSUME IInv, NEW p, PayloadTyped(p), NEW s, NEW w, w = was, NEW T, Rerouting(kern, s, w, T, Ways(p)),
           NEW a, NEW x \in Remote(p), Leaves(w, a, x), WayOpen(p, a, x)
    PROVE  Leaves(kern, a, x) /\ Forwards(kern, a, x) \subseteq Lists(p, a, x)
  <1>1. /\ \A t \in SteerTablesOf(w, a) : Served(p, a, x, w.routes[t][x])
        /\ (\A t \in SteerTablesOf(w, a) : w.routes[t][x] = <<>>)
               => w.routes[Vrf][x] # <<>> /\ Served(p, a, x, w.routes[Vrf][x])
    BY OldServes DEF Rerouting
  <1>2. SteerTablesOf(kern, a) = SteerTablesOf(w, a)
    BY DEF Rerouting, SteerTablesOf
  <1>3. SteerTablesOf(kern, a) \subseteq Tables
    BY DEF SteerTablesOf, IInv, KernelSound, RuleTyped
  <1>4. \A t \in SteerTablesOf(kern, a) : kern.routes[t] = w.routes[t]
    BY <1>3 DEF Rerouting
  <1>5. ASSUME \A t \in SteerTablesOf(kern, a) : kern.routes[t][x] = <<>>
        PROVE  kern.routes[Vrf][x] # <<>> /\ Served(p, a, x, kern.routes[Vrf][x])
    <2>1. PICK e : e = EncapOf(p, x)
      OBVIOUS
    <2>2. e.segs # <<>> /\ e.rule = e.segs[1] /\ <<x, e.segs, e.rule>> \in Ways(p)
      BY <2>1, WayIs DEF WayOpen
    <2>3. WayNew(kern, <<x, e.segs, e.rule>>) \/ WayOld(kern, s, w, <<x, e.segs, e.rule>>)
      BY <2>2 DEF Rerouting
    <2>4. e.segs \in Lists(p, a, x)
      BY <2>1 DEF Lists
    <2>5. CASE WayNew(kern, <<x, e.segs, e.rule>>)
      <3>1. kern.routes[Vrf][x] = e.segs /\ e.rule \in kern.sidRules
        BY <2>5 DEF WayNew
      <3> QED  BY <2>2, <2>4, <3>1 DEF Served
    <2>6. CASE WayOld(kern, s, w, <<x, e.segs, e.rule>>)
      <3>1. kern.routes[Vrf][x] = w.routes[Vrf][x]
        BY <2>6 DEF WayOld
      <3> QED  BY <1>1, <1>2, <1>4, <1>5, <3>1
    <2> QED  BY <2>3, <2>5, <2>6
  <1>6. \A t \in SteerTablesOf(kern, a) : Served(p, a, x, kern.routes[t][x])
    BY <1>1, <1>2, <1>4
  <1> QED  BY <1>5, <1>6, FlowsOn

\* While they change: a rule leads into a table as it was, or as it is to be.
LEMMA ResteeringServes ==
    ASSUME NEW p, PayloadTyped(p), NEW cl, ClaimsSettled(p, cl), NEW prune, prune \/ OneRoute(p),
           NEW s, NEW w, w = was, NEW T, cl = pass.claimed,
           Resteering(kern, s, w, T, Ways(p), Range(cl), Fills(p, cl, prune)),
           NEW a, ~Resteered(a), NEW x \in Remote(p), Leaves(w, a, x), WayOpen(p, a, x)
    PROVE  Leaves(kern, a, x) /\ Forwards(kern, a, x) \subseteq Lists(p, a, x)
  <1>1. \A t \in SteerTablesOf(w, a) : Served(p, a, x, w.routes[t][x])
    BY OldServes DEF Resteering
  <1>2. kern.routes[Vrf][x] # <<>> /\ Served(p, a, x, kern.routes[Vrf][x])
    BY NewWayServes DEF Resteering
  <1>3. ASSUME NEW t \in SteerTablesOf(kern, a) PROVE Served(p, a, x, kern.routes[t][x])
    <2>1. PICK r \in kern.steerRules : r.from = a /\ r.iif = gateway /\ r.table = t
      BY DEF SteerTablesOf
    <2>2. IF t \in Range(cl) THEN Led(kern, w, Fills(p, cl, prune), r) ELSE Kept(kern, s, w, r)
      BY <2>1 DEF Resteering
    <2>3. r \in w.steerRules => t \in SteerTablesOf(w, a)
      BY <2>1 DEF SteerTablesOf
    <2>4. CASE t \in Range(cl)
      <3>1. r \notin w.steerRules
        BY <2>3, <2>4 DEF Resteered
      <3>2. PICK f \in Fills(p, cl, prune) : f.rule = r /\ Filled(kern, f)
        BY <2>2, <2>4, <3>1 DEF Led
      <3>3. Served(p, a, x, kern.routes[f.rule.table][x])
        BY <2>1, <3>2, FilledServes
      <3> QED  BY <2>1, <3>2, <3>3
    <2>5. CASE t \notin Range(cl)
      <3>1. t \in SteerTablesOf(w, a) /\ kern.routes[t] = w.routes[t]
        BY <2>1, <2>2, <2>3, <2>5 DEF Kept
      <3> QED  BY <1>1, <3>1
    <2> QED  BY <2>4, <2>5
  <1> QED  BY <1>2, <1>3, FlowsOn

LEMMA ContentsIn ==
    ASSUME NEW p, NEW cl, NEW prune, NEW vm \in DOMAIN cl, NEW r, r \in Want(p, vm, cl[vm])
    PROVE  Contents(p, cl, prune, vm, r) \in Fills(p, cl, prune) /\ Contents(p, cl, prune, vm, r).rule = r
  <1> DEFINE of(v) == {Contents(p, cl, prune, v, q) : q \in Want(p, v, cl[v])}
  <1>1. Contents(p, cl, prune, vm, r) \in of(vm)
    OBVIOUS
  <1>2. Fills(p, cl, prune) = UNION {of(v) : v \in DOMAIN cl}
    BY DEF Fills
  <1> HIDE DEF of
  <1>3. Contents(p, cl, prune, vm, r) \in Fills(p, cl, prune)
    BY <1>1, <1>2
  <1>4. Contents(p, cl, prune, vm, r).rule = r
    BY DEF Contents
  <1> QED  BY <1>3, <1>4

\* When only rules nothing needs are left to go.
LEMMA SettledServes ==
    ASSUME Settling, NEW p, NEW cl, NEW prune, NEW w, pass.kind # "add", At(p, cl, prune, R0, w),
           \A c \in Range(calls) : c.do = "delete_sid_rule",
           NEW a, NEW x \in Remote(p), WayOpen(p, a, x)
    PROVE  Leaves(kern, a, x) /\ Forwards(kern, a, x) \subseteq Lists(p, a, x)
  <1>1. PICK A : A = Range(calls)
    OBVIOUS
  <1>2. PayloadTyped(p) /\ Progress(p, cl, R0, A)
    BY <1>1 DEF Settling, At, Applying
  <1>3. /\ RoutesDue(kern, A, VrfRoutes(p)) /\ RulesDue(kern, A, VrfRules(p)) /\ ClaimsSettled(p, cl)
        /\ RoutesDue(kern, A, TableRoutes(p, cl)) /\ ClearDue(kern, A, TableClear(p, cl))
        /\ RulesDue(kern, A, Needed(p, cl)) /\ SteersTrim(kern, A, Steers(p, cl))
    BY <1>2, RestsDiffer DEF Progress
  <1>4. /\ \A t, y, list : Route(t, y, list) \notin A /\ Unroute(t, y) \notin A
        /\ \A u : SidRule(u) \notin A
        /\ \A r : Unsteer(r) \notin A
    BY <1>1 DEF Route, Unroute, SidRule, Unsteer
  <1>5. /\ \A e \in VrfRoutes(p) \cup TableRoutes(p, cl) : kern.routes[e[1]][e[2]] = e[3]
        /\ \A e \in TableClear(p, cl) : kern.routes[e[1]][e[2]] = <<>>
        /\ VrfRules(p) \subseteq kern.sidRules /\ Needed(p, cl) \subseteq kern.sidRules
        /\ kern.steerRules \subseteq Steers(p, cl)
    BY <1>3, <1>4 DEF RoutesDue, ClearDue, RulesDue, SteersTrim
  <1>6. ASSUME NEW e \in Ways(p) PROVE WayNew(kern, e)
    <2>1. PICK y \in Remote(p) : Open(EncapOf(p, y)) /\ e = <<y, EncapOf(p, y).segs, EncapOf(p, y).rule>>
      BY DEF Ways
    <2>2. <<Vrf, y, EncapOf(p, y).segs>> \in VrfRoutes(p) /\ EncapOf(p, y).rule \in VrfRules(p)
      BY <2>1 DEF Open, VrfRoutes, VrfRules, RulesOf
    <2>3. kern.routes[Vrf][y] = EncapOf(p, y).segs
      BY <1>5, <2>2
    <2> QED  BY <1>5, <2>1, <2>2, <2>3 DEF WayNew
  <1>7. kern.routes[Vrf][x] # <<>> /\ Served(p, a, x, kern.routes[Vrf][x])
    BY <1>2, <1>6, NewWayServes
  <1>8. prune \/ OneRoute(p)
    BY DEF At
  <1>9. ASSUME NEW t \in SteerTablesOf(kern, a) PROVE Served(p, a, x, kern.routes[t][x])
    <2>1. PICK r \in kern.steerRules : r.from = a /\ r.table = t
      BY DEF SteerTablesOf
    <2>2. PICK vm \in DOMAIN cl : r \in Want(p, vm, cl[vm])
      BY <1>5 DEF Steers
    <2> DEFINE f == Contents(p, cl, prune, vm, r)
    <2>3. f \in Fills(p, cl, prune) /\ f.rule = r
      BY <2>2, ContentsIn
    <2>4. f.routes \subseteq TableRoutes(p, cl)
      BY DEF Contents, TableRoutes
    <2>5. f.clear \subseteq TableClear(p, cl)
      BY DEF Contents, TableClear
    <2>6. f.sids \subseteq Needed(p, cl)
      <3> DEFINE of(v) == RulesOf({SteerEncap(p, v, y) : y \in SteeredOf(p, v)})
      <3>1. f.sids = of(vm)
        BY DEF Contents, SteerRulesOf
      <3>2. Needed(p, cl) = VrfRules(p) \cup UNION {of(v) : v \in DOMAIN cl}
        BY DEF Needed, VrfRules
      <3> HIDE DEF of, f
      <3> QED  BY <3>1, <3>2
    <2> HIDE DEF f
    <2>7. Filled(kern, f)
      BY <1>5, <2>4, <2>5, <2>6 DEF Filled
    <2>8. Served(p, a, x, kern.routes[f.rule.table][x])
      BY <1>2, <1>3, <1>8, <2>1, <2>3, <2>7, FilledServes
    <2> QED  BY <2>1, <2>3, <2>8
  <1> QED  BY <1>7, <1>9, FlowsOn

LEMMA FlowsAnyway == IInv /\ Settling /\ Flowing => MakeBeforeBreak
  <1> SUFFICES ASSUME IInv, Settling, Flowing, Applying, NEW a, ~Resteered(a), NEW p, p = P, NEW x \in Remote(p),
                      NEW w, w = was, Leaves(w, a, x), WayOpen(p, a, x)
               PROVE  Leaves(kern, a, x) /\ Forwards(kern, a, x) \subseteq Lists(p, a, x)
    BY DEF MakeBeforeBreak, KeepsFlowing
  <1>1. PICK cl : cl = pass.claimed
    OBVIOUS
  <1>2. PICK prune : prune = (pass.kind # "add")
    OBVIOUS
  <1>3. PICK rest : rest = pass.rest
    OBVIOUS
  <1>4. PICK s : s = calls
    OBVIOUS
  <1>5. At(p, cl, prune, rest, w) /\ prune \in BOOLEAN
    BY <1>1, <1>2, <1>3 DEF At, P
  <1>6. PayloadTyped(p) /\ Phase(p, cl, prune, rest, s, w)
    BY <1>4, <1>5 DEF Flowing
  <1>7. CASE rest \in Early \cup {R4, A3}
    <2>1. Quiet(kern, s, w)
      BY <1>6, <1>7 DEF Phase
    <2>2. /\ \A t \in SteerTablesOf(w, a) : Served(p, a, x, w.routes[t][x])
          /\ (\A t \in SteerTablesOf(w, a) : w.routes[t][x] = <<>>)
                 => w.routes[Vrf][x] # <<>> /\ Served(p, a, x, w.routes[Vrf][x])
      BY <2>1, OldServes DEF Quiet
    <2>3. SteerTablesOf(kern, a) = SteerTablesOf(w, a) /\ kern.routes = w.routes
      BY <2>1 DEF Quiet, SteerTablesOf
    <2> QED  BY <2>2, <2>3, FlowsOn
  <1>8. CASE rest \in {R3, R2, A2}
    BY <1>6, <1>8, ReroutingServes DEF Phase
  <1>9. CASE rest \in {R1, A1} \/ (rest = R0 /\ ~prune)
    <2>1. prune \/ OneRoute(p)
      BY <1>6 DEF Phase
    <2>2. ClaimsSettled(p, cl) /\ Resteering(kern, s, w, Target(p, cl), Ways(p), Range(cl), Fills(p, cl, prune))
      BY <1>6, <1>9 DEF Phase
    <2> QED  BY <1>1, <1>6, <2>1, <2>2, ResteeringServes
  <1>10. CASE rest = R0 /\ prune
    <2>1. \A c \in Range(calls) : c.do = "delete_sid_rule"
      BY <1>4, <1>6, <1>10 DEF Phase
    <2>2. pass.kind # "add"
      BY <1>2, <1>10
    <2> QED  BY <1>5, <1>10, <2>1, <2>2, SettledServes
  <1> QED  BY <1>6, <1>7, <1>8, <1>9, <1>10 DEF Phase

\* While a payload is applied without a fault, between any two calls, a VM's
\* packet to an address that stays remote leaves by the old or the new path.
THEOREM RoutesUnbroken == Spec => []MakeBeforeBreak
  BY FlowsAnyway, FlowingAlways, SettlingAlways, RoutesInvariance, PTL
=============================================================================
