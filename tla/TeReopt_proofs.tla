--------------------------- MODULE TeReopt_proofs ---------------------------
(***************************************************************************)
(* What TeReopt and the fabric it measures promise, proved for any fabric, *)
(* any demands and any length of the run.                                  *)
(*                                                                         *)
(* A pass is three nested loops, folds over sequences: a fold's value is   *)
(* the last of a chain of turns (Chain), so what every turn keeps (Sober)  *)
(* holds of the pass.  What the memory of the process says of the pairs    *)
(* it touched is Remembered; what the link states say of broken links is   *)
(* SeenDown; what the agents' counters, reads and rows have to do with the *)
(* flows of the period is Counted and Shown.                               *)
(*                                                                         *)
(* The search for a path is proved optimal of any network (Seeking: until  *)
(* the destination is popped, the heap holds a label as good as any route),*)
(* and the two searches in rounds for the links of all shortest paths to   *)
(* find exactly those (HopCounts, Leads).                                  *)
(***************************************************************************)
EXTENDS TeReopt, FiniteSetTheorems, SequenceTheorems, WellFoundedInduction, TLAPS

\* Induction, on a set: the provers do not instantiate a predicate.
LEMMA SetInduction ==
    ASSUME NEW S, 0 \in S, \A n \in Nat : n \in S => n + 1 \in S
    PROVE  Nat \subseteq S
  <1> DEFINE T == {n \in Nat : n \notin S}
  <1> DEFINE Less == OpToRel(<, Nat)
  <1> SUFFICES ASSUME T # {} PROVE FALSE
    OBVIOUS
  <1>1. IsWellFoundedOn(Less, Nat)
    BY NatLessThanWellFounded
  <1>2. \A x, y \in Nat : y < x => <<y, x>> \in Less
    BY DEF OpToRel
  <1>3. PICK x \in T : \A y \in T : ~(<<y, x>> \in Less)
    <2> HIDE DEF Less
    <2>1. T \subseteq Nat
      OBVIOUS
    <2> HIDE DEF T
    <2> QED  BY <1>1, <2>1, WFMin
  <1> HIDE DEF Less
  <1>4. x \in Nat /\ x # 0
    OBVIOUS
  <1>5. x - 1 \in Nat /\ x - 1 < x
    BY <1>4
  <1>6. x - 1 \notin T
    BY <1>2, <1>3, <1>4, <1>5
  <1>7. x - 1 + 1 \in S
    BY <1>5, <1>6
  <1> QED  BY <1>4, <1>7

-----------------------------------------------------------------------------
(* What the loops of a pass do, one element after the other                *)

\* One step of a loop: an automatic path judged, a candidate tried on the
\* congested link b, or a congested link relieved.
Turn(loop, see, b, v, x) ==
    IF loop = "judge" THEN Judge(see, v, x)
    ELSE IF loop = "try" THEN TryMove(see, b, v, x)
    ELSE Relieve(see, v, x)

LEMMA MaxIn == ASSUME NEW n \in Nat, NEW s \in SUBSET (1..n), s # {}
               PROVE Max(s) \in s /\ \A y \in s : Max(s) >= y
  <1>1. PICK x \in s : \A y \in s : x >= y
    <2> DEFINE R == {k \in Nat : \A t \in SUBSET (1..k) : t # {} => \E x \in t : \A y \in t : x >= y}
    <2>1. 0 \in R
      <3>1. 1..0 = {}
        OBVIOUS
      <3> QED  BY <3>1
    <2>2. ASSUME NEW k \in Nat, k \in R PROVE k + 1 \in R
      <3> SUFFICES ASSUME NEW t \in SUBSET (1..(k + 1)), t # {} PROVE \E x \in t : \A y \in t : x >= y
        OBVIOUS
      <3>1. CASE k + 1 \in t
        BY <3>1
      <3>2. CASE k + 1 \notin t
        <4>1. t \in SUBSET (1..k)
          BY <3>2
        <4> QED  BY <2>2, <4>1
      <3> QED  BY <3>1, <3>2
    <2>3. n \in R
      <3> HIDE DEF R
      <3> QED  BY <2>1, <2>2, SetInduction
    <2> QED  BY <2>3
  <1> QED  BY <1>1 DEF Max

\* The fold that a loop is, step by step.
Folded(f, loop, see, b, base, seq, n) ==
    \A s \in SUBSET (1..n) :
        f[s] = IF s = {} THEN base ELSE Turn(loop, see, b, f[s \ {Max(s)}], seq[Max(s)])

LEMMA FoldExists ==
    ASSUME NEW loop, NEW see, NEW b, NEW base, NEW seq, NEW n \in Nat
    PROVE  \E f : f = [s \in SUBSET (1..n) |-> f[s]] /\ Folded(f, loop, see, b, base, seq, n)
  <1> DEFINE T == 1..n
  <1> DEFINE pick(s) == Max(s)
  <1> DEFINE Body(f, s) == IF s = {} THEN base ELSE Turn(loop, see, b, f[s \ {pick(s)}], seq[pick(s)])
  <1> DEFINE Recurs(f, k) == \A s \in SUBSET T : Cardinality(s) <= k => f[s] = Body(f, s)
  <1> DEFINE S == {k \in Nat : \E f : Recurs(f, k)}
  <1>0. IsFiniteSet(T)
    BY FS_Interval
  <1>1. \A s \in SUBSET T : IsFiniteSet(s) /\ Cardinality(s) \in Nat
    BY <1>0, FS_Subset, FS_CardinalityType
  <1>2. \A s \in SUBSET T : s # {} => pick(s) \in s /\ s \ {pick(s)} \in SUBSET T
    BY MaxIn
  <1> HIDE DEF pick, T
  <1>3. \A s \in SUBSET T : s # {} => Cardinality(s \ {pick(s)}) = Cardinality(s) - 1
    BY <1>1, <1>2, FS_RemoveElement
  <1>4. \A s \in SUBSET T : Cardinality(s) <= 0 => s = {}
    BY <1>1, FS_EmptySet
  <1>5. 0 \in S
    <2>1. Recurs([s \in SUBSET T |-> base], 0)
      BY <1>4
    <2> QED  BY <2>1
  <1>6. ASSUME NEW k \in Nat, k \in S PROVE k + 1 \in S
    <2>1. PICK f : Recurs(f, k)
      BY <1>6
    <2> DEFINE g == [s \in SUBSET T |-> Body(f, s)]
    <2>2. \A s \in SUBSET T : g[s] = Body(f, s)
      OBVIOUS
    <2> HIDE DEF g
    <2>3. Recurs(g, k + 1)
      <3> SUFFICES ASSUME NEW s \in SUBSET T, Cardinality(s) <= k + 1 PROVE g[s] = Body(g, s)
        OBVIOUS
      <3>1. CASE s = {}
        BY <2>2, <3>1
      <3>2. CASE s # {}
        <4> DEFINE u == s \ {pick(s)}
        <4>1. u \in SUBSET T /\ Cardinality(u) <= k
          BY <1>1, <1>2, <1>3, <3>2
        <4>2. f[u] = Body(f, u) /\ g[u] = Body(f, u)
          BY <2>1, <2>2, <4>1
        <4> HIDE DEF u
        <4>3. g[s] = Turn(loop, see, b, f[u], seq[pick(s)])
          BY <2>2, <3>2 DEF u
        <4> QED  BY <3>2, <4>2, <4>3 DEF u
      <3> QED  BY <3>1, <3>2
    <2>4. \E f1 : Recurs(f1, k + 1)
      BY <2>3
    <2> HIDE DEF Recurs
    <2> QED  BY <2>4
  <1>7. PICK f0 : Recurs(f0, Cardinality(T))
    <2> HIDE DEF Recurs
    <2>1. Cardinality(T) \in S
      <3> HIDE DEF S
      <3> QED  BY <1>1, <1>5, <1>6, SetInduction
    <2> QED  BY <2>1
  <1>8. \A s \in SUBSET T : f0[s] = Body(f0, s)
    <2>1. \A s \in SUBSET T : Cardinality(s) <= Cardinality(T)
      BY <1>0, FS_Subset
    <2> QED  BY <1>7, <2>1
  <1> DEFINE f == [s \in SUBSET T |-> f0[s]]
  <1>9. \A s \in SUBSET T : f[s] = f0[s]
    OBVIOUS
  <1>10. f = [s \in SUBSET T |-> f[s]]
    OBVIOUS
  <1> HIDE DEF f
  <1>11. \A s \in SUBSET T : f[s] = Body(f, s)
    BY <1>2, <1>8, <1>9
  <1>12. Folded(f, loop, see, b, base, seq, n)
    BY <1>11 DEF Folded, T, pick
  <1> QED  BY <1>10, <1>12 DEF T

\* What a loop has come to after k of the n elements.
Chain(f, loop, see, b, base, seq, n) ==
    f[0] = base /\ \A k \in 1..n : f[k] = Turn(loop, see, b, f[k - 1], seq[k])

LEMMA FoldChains ==
    ASSUME NEW f, NEW loop, NEW see, NEW b, NEW base, NEW seq, NEW n \in Nat,
           Folded(f, loop, see, b, base, seq, n)
    PROVE  \E g : Chain(g, loop, see, b, base, seq, n) /\ f[1..n] = g[n]
  <1> DEFINE g == [k \in 0..n |-> f[1..k]]
  <1>1. 1..0 = {}
    OBVIOUS
  <1>2. g[0] = base
    BY <1>1 DEF Folded
  <1>3. ASSUME NEW k \in 1..n PROVE g[k] = Turn(loop, see, b, g[k - 1], seq[k])
    <2>1. 1..k \in SUBSET (1..n) /\ 1..k # {}
      OBVIOUS
    <2>2. Max(1..k) = k
      <3>1. Max(1..k) \in 1..k /\ \A y \in 1..k : Max(1..k) >= y
        <4>1. k \in 1..k /\ \A y \in 1..k : k >= y
          OBVIOUS
        <4> QED  BY <4>1 DEF Max
      <3> QED  BY <3>1
    <2>3. (1..k) \ {k} = 1..(k - 1) /\ k - 1 \in 0..n
      OBVIOUS
    <2>4. f[1..k] = Turn(loop, see, b, f[1..(k - 1)], seq[k])
      BY <2>1, <2>2, <2>3 DEF Folded
    <2> QED  BY <2>3, <2>4
  <1>4. g[n] = f[1..n]
    OBVIOUS
  <1> HIDE DEF g
  <1>5. Chain(g, loop, see, b, base, seq, n)
    BY <1>2, <1>3 DEF Chain
  <1> QED  BY <1>4, <1>5

\* The three loops of a pass are such chains.
LEMMA ReleaseChains ==
    ASSUME NEW see, NEW w, NEW order, NEW n \in Nat, DOMAIN order = 1..n
    PROVE  \E g : Chain(g, "judge", see, 0, w, order, n) /\ Release(see, w, order) = g[n]
  <1> DEFINE Body(f, s) ==
          IF s = {} THEN w ELSE Once(LAMBDA u : Judge(see, u, order[Max(s)]), f[s \ {Max(s)}])
  <1> DEFINE Iterates(f) == f = [s \in SUBSET DOMAIN order |-> Body(f, s)]
  <1>1. ASSUME NEW f, NEW s PROVE Body(f, s) = IF s = {} THEN w
                    ELSE Turn("judge", see, 0, f[s \ {Max(s)}], order[Max(s)])
    BY DEF Once, Turn
  <1> HIDE DEF Body
  <1>2. PICK f : f = [s \in SUBSET (1..n) |-> f[s]] /\ Folded(f, "judge", see, 0, w, order, n)
    BY FoldExists
  <1>3. \A s \in SUBSET (1..n) : f[s] = Body(f, s)
    BY <1>1, <1>2 DEF Folded
  <1>4. Iterates(f)
    BY <1>2, <1>3
  <1> DEFINE iter == CHOOSE h : Iterates(h)
  <1>5. Iterates(iter)
    BY <1>4
  <1>6. Release(see, w, order) = iter[DOMAIN order]
    BY DEF Release, FoldLeft, MapThenFoldSet, Body
  <1> HIDE DEF iter
  <1>7. \A s \in SUBSET (1..n) : iter[s] = Body(iter, s)
    BY <1>5
  <1>8. Folded(iter, "judge", see, 0, w, order, n)
    BY <1>1, <1>7 DEF Folded
  <1>9. PICK g : Chain(g, "judge", see, 0, w, order, n) /\ iter[1..n] = g[n]
    BY <1>8, FoldChains
  <1> QED  BY <1>6, <1>9

\* What a congested link starts from.
ReliefStart(see, l, w) == [w EXCEPT !.load = see.congested[l] - Gone(see, w, l), !.table = w.read]

LEMMA ReliefChains ==
    ASSUME NEW see, NEW l, NEW w, NEW n \in Nat, DOMAIN Candidates(see, l) = 1..n,
           ~(Cardinality({p \in DOMAIN see.pairs : l \in LinksUsed(see, p)}) <= 1)
    PROVE  \E g : Chain(g, "try", see, l, ReliefStart(see, l, w), Candidates(see, l), n) /\ Relieve(see, w, l) = g[n]
  <1> DEFINE start == ReliefStart(see, l, w)
  <1> DEFINE seq == Candidates(see, l)
  <1> DEFINE Body(f, s) ==
          IF s = {} THEN start ELSE Once(LAMBDA u : TryMove(see, l, u, seq[Max(s)]), f[s \ {Max(s)}])
  <1> DEFINE Iterates(f) == f = [s \in SUBSET DOMAIN seq |-> Body(f, s)]
  <1>1. ASSUME NEW f, NEW s PROVE Body(f, s) = IF s = {} THEN start
                    ELSE Turn("try", see, l, f[s \ {Max(s)}], seq[Max(s)])
    BY DEF Once, Turn
  <1> HIDE DEF Body
  <1>2. PICK f : f = [s \in SUBSET (1..n) |-> f[s]] /\ Folded(f, "try", see, l, start, seq, n)
    BY FoldExists
  <1>3. \A s \in SUBSET (1..n) : f[s] = Body(f, s)
    BY <1>1, <1>2 DEF Folded
  <1>4. Iterates(f)
    BY <1>2, <1>3
  <1> DEFINE iter == CHOOSE h : Iterates(h)
  <1>5. Iterates(iter)
    BY <1>4
  <1>6. Relieve(see, w, l) = iter[DOMAIN seq]
    BY DEF Relieve, ReliefStart, start, seq, FoldLeft, MapThenFoldSet, Body
  <1> HIDE DEF iter
  <1>7. \A s \in SUBSET (1..n) : iter[s] = Body(iter, s)
    BY <1>5
  <1>8. Folded(iter, "try", see, l, start, seq, n)
    BY <1>1, <1>7 DEF Folded
  <1>9. PICK g : Chain(g, "try", see, l, start, seq, n) /\ iter[1..n] = g[n]
    BY <1>8, FoldChains
  <1> QED  BY <1>6, <1>9

LEMMA SteerChains ==
    ASSUME NEW see, NEW w, NEW n \in Nat, DOMAIN Hottest(see) = 1..n
    PROVE  \E g : Chain(g, "relieve", see, 0, [w EXCEPT !.read = w.auto], Hottest(see), n) /\ Steer(see, w) = g[n]
  <1> DEFINE start == [w EXCEPT !.read = w.auto]
  <1> DEFINE seq == Hottest(see)
  <1> DEFINE Body(f, s) ==
          IF s = {} THEN start ELSE Once(LAMBDA u : Relieve(see, u, seq[Max(s)]), f[s \ {Max(s)}])
  <1> DEFINE Iterates(f) == f = [s \in SUBSET DOMAIN seq |-> Body(f, s)]
  <1>1. ASSUME NEW f, NEW s PROVE Body(f, s) = IF s = {} THEN start
                    ELSE Turn("relieve", see, 0, f[s \ {Max(s)}], seq[Max(s)])
    BY DEF Once, Turn
  <1> HIDE DEF Body
  <1>2. PICK f : f = [s \in SUBSET (1..n) |-> f[s]] /\ Folded(f, "relieve", see, 0, start, seq, n)
    BY FoldExists
  <1>3. \A s \in SUBSET (1..n) : f[s] = Body(f, s)
    BY <1>1, <1>2 DEF Folded
  <1>4. Iterates(f)
    BY <1>2, <1>3
  <1> DEFINE iter == CHOOSE h : Iterates(h)
  <1>5. Iterates(iter)
    BY <1>4
  <1>6. Steer(see, w) = iter[DOMAIN seq]
    BY DEF Steer, start, seq, FoldLeft, MapThenFoldSet, Body
  <1> HIDE DEF iter
  <1>7. \A s \in SUBSET (1..n) : iter[s] = Body(iter, s)
    BY <1>5
  <1>8. Folded(iter, "relieve", see, 0, start, seq, n)
    BY <1>1, <1>7 DEF Folded
  <1>9. PICK g : Chain(g, "relieve", see, 0, start, seq, n) /\ iter[1..n] = g[n]
    BY <1>8, FoldChains
  <1> QED  BY <1>6, <1>9

-----------------------------------------------------------------------------
(* What a computed path is made of                                         *)

LEMMA WalksFunction ==
    ASSUME NEW n \in Nat
    PROVE  \E walks : /\ Walks(n) = walks[n] /\ \A k \in 0..n : walks[k] \in Nat
                      /\ walks[0] = 1 /\ \A k \in 1..n : walks[k] = 1 + k * walks[k - 1]
  <1> DEFINE Body(f, k) == IF k = 0 THEN 1 ELSE 1 + k * f[k - 1]
  <1> DEFINE Iterates(f) == f = [k \in 0..n |-> Body(f, k)]
  <1> DEFINE Upto(f, m) == \A k \in 0..m : f[k] = Body(f, k) /\ f[k] \in Nat
  <1> DEFINE S == {m \in Nat : \E f : Upto(f, m)}
  <1>1. 0 \in S
    <2> DEFINE f == [k \in {0} |-> 1]
    <2>1. f[0] = Body(f, 0) /\ f[0] \in Nat /\ 0..0 = {0}
      OBVIOUS
    <2> HIDE DEF f, Body
    <2>2. Upto(f, 0)
      BY <2>1
    <2> HIDE DEF Upto
    <2> QED  BY <2>2
  <1>2. ASSUME NEW m \in Nat, m \in S PROVE m + 1 \in S
    <2>1. PICK f : Upto(f, m)
      BY <1>2
    <2> DEFINE g == [k \in 0..(m + 1) |-> IF k <= m THEN f[k] ELSE Body(f, m + 1)]
    <2>2. \A k \in 0..m : g[k] = f[k] /\ (k > 0 => g[k - 1] = f[k - 1])
      OBVIOUS
    <2>3. g[m + 1] = 1 + (m + 1) * f[m] /\ g[m] = f[m] /\ f[m] \in Nat
      BY <2>1
    <2> HIDE DEF g
    <2>4. \A k \in 0..m : g[k] = Body(g, k) /\ g[k] \in Nat
      BY <2>1, <2>2
    <2>5. g[m + 1] = Body(g, m + 1) /\ g[m + 1] \in Nat
      <3>1. m + 1 - 1 = m /\ m + 1 # 0 /\ (m + 1) * f[m] \in Nat
        BY <2>3
      <3> QED  BY <2>3, <3>1
    <2> HIDE DEF Body
    <2>6. Upto(g, m + 1)
      BY <2>4, <2>5
    <2> HIDE DEF Upto
    <2> QED  BY <2>6
  <1>3. PICK f0 : Upto(f0, n)
    <2>1. n \in S
      <3> HIDE DEF S
      <3> QED  BY <1>1, <1>2, SetInduction
    <2> HIDE DEF Upto
    <2> QED  BY <2>1
  <1>4. \E f : Iterates(f)
    <2> DEFINE f == [k \in 0..n |-> f0[k]]
    <2>1. \A k \in 0..n : f[k] = f0[k] /\ (k # 0 => f[k - 1] = f0[k - 1])
      OBVIOUS
    <2>2. f = [k \in 0..n |-> f[k]]
      OBVIOUS
    <2> HIDE DEF f
    <2>3. \A k \in 0..n : f[k] = Body(f, k)
      BY <1>3, <2>1
    <2> HIDE DEF Body
    <2> QED  BY <2>2, <2>3
  <1> DEFINE walks == CHOOSE f : Iterates(f)
  <1>5. Iterates(walks)
    BY <1>4
  <1>6. Walks(n) = walks[n]
    BY DEF Walks
  <1> HIDE DEF walks
  <1> DEFINE R == {m \in Nat : m <= n => walks[m] \in Nat}
  <1>7. 0 \in R
    BY <1>5
  <1>8. ASSUME NEW m \in Nat, m \in R PROVE m + 1 \in R
    <2> SUFFICES ASSUME m + 1 <= n PROVE walks[m + 1] \in Nat
      OBVIOUS
    <2>1. walks[m + 1] = 1 + (m + 1) * walks[m] /\ walks[m] \in Nat
      BY <1>5, <1>8
    <2> QED  BY <2>1
  <1>9. Nat \subseteq R
    <2> HIDE DEF R
    <2> QED  BY <1>7, <1>8, SetInduction
  <1>10. \A k \in 0..n : walks[k] \in Nat
    BY <1>9
  <1>11. walks[0] = 1 /\ \A k \in 1..n : walks[k] = 1 + k * walks[k - 1]
    BY <1>5
  <1> QED  BY <1>6, <1>10, <1>11

LEMMA WalksNat == ASSUME NEW n \in Nat PROVE Walks(n) \in Nat /\ Walks(n) >= 1 /\ Walks(0) = 1
  <1>1. PICK w : /\ Walks(n) = w[n] /\ \A k \in 0..n : w[k] \in Nat
                 /\ w[0] = 1 /\ \A k \in 1..n : w[k] = 1 + k * w[k - 1]
    BY WalksFunction
  <1>2. Walks(0) = 1
    <2>1. PICK v : Walks(0) = v[0] /\ v[0] = 1
      BY WalksFunction
    <2> QED  BY <2>1
  <1>3. CASE n = 0
    BY <1>2, <1>3
  <1>4. CASE n > 0
    <2>1. w[n] = 1 + n * w[n - 1] /\ w[n - 1] \in Nat
      BY <1>1, <1>4
    <2>2. n * w[n - 1] \in Nat
      BY <2>1
    <2> QED  BY <1>1, <1>2, <2>1, <2>2
  <1> QED  BY <1>3, <1>4

LEMMA WalksStep == ASSUME NEW n \in Nat PROVE Walks(n + 1) = 1 + (n + 1) * Walks(n)
  <1>1. PICK v : /\ Walks(n) = v[n] /\ \A k \in 0..n : v[k] \in Nat
                 /\ v[0] = 1 /\ \A k \in 1..n : v[k] = 1 + k * v[k - 1]
    BY WalksFunction
  <1>2. PICK w : /\ Walks(n + 1) = w[n + 1] /\ \A k \in 0..(n + 1) : w[k] \in Nat
                 /\ w[0] = 1 /\ \A k \in 1..(n + 1) : w[k] = 1 + k * w[k - 1]
    BY WalksFunction
  <1> DEFINE R == {m \in Nat : m <= n => v[m] = w[m]}
  <1>3. 0 \in R
    BY <1>1, <1>2
  <1>4. ASSUME NEW m \in Nat, m \in R PROVE m + 1 \in R
    <2> SUFFICES ASSUME m + 1 <= n PROVE v[m + 1] = w[m + 1]
      OBVIOUS
    <2>1. v[m + 1] = 1 + (m + 1) * v[m + 1 - 1] /\ w[m + 1] = 1 + (m + 1) * w[m + 1 - 1]
      BY <1>1, <1>2
    <2>2. m + 1 - 1 = m /\ v[m] = w[m]
      BY <1>4
    <2> QED  BY <2>1, <2>2
  <1>5. n \in R
    <2> HIDE DEF R
    <2> QED  BY <1>3, <1>4, SetInduction
  <1>6. w[n + 1] = 1 + (n + 1) * w[n + 1 - 1] /\ n + 1 - 1 = n
    BY <1>2
  <1> QED  BY <1>1, <1>2, <1>5, <1>6

\* A search over links of the residual network: what its heap holds are paths
\* along them.
Sound(residual, s) == \A e \in s.heap : Len(e.path) >= 1 /\ LinksOf(e.path) \subseteq DOMAIN residual

\* A residual network among some nodes.
Among(residual, nodes, widths) ==
    /\ \A l \in DOMAIN residual : l = <<l[1], l[2]>> /\ {l[1], l[2]} \subseteq nodes
    /\ \A l \in DOMAIN residual : residual[l] \in widths

LEMMA PoppedSound ==
    ASSUME NEW residual, NEW nodes, NEW widths, Among(residual, nodes, widths),
           NEW s \in Searches(nodes, widths), Sound(residual, s), NEW top \in s.heap
    PROVE  Popped(residual, s, top) \in Searches(nodes, widths) /\ Sound(residual, Popped(residual, s, top))
  <1> DEFINE Label == [hops : Nat, width : widths, path : Seq(nodes)]
  <1> DEFINE next == Extensions(residual, top, s.best)
  <1>1. s.heap \subseteq Label /\ s.best \in [nodes -> [hops : Nat, width : widths]]
        /\ s = [heap |-> s.heap, best |-> s.best]
    BY DEF Searches
  <1>2. top \in Label /\ Len(top.path) >= 1 /\ LinksOf(top.path) \subseteq DOMAIN residual
    BY <1>1 DEF Sound
  <1>3. ASSUME NEW e \in next
        PROVE  e \in Label /\ Len(e.path) >= 1 /\ LinksOf(e.path) \subseteq DOMAIN residual
    <2>1. PICK l \in DOMAIN residual :
              /\ l[1] = Last(top.path)
              /\ e = [hops |-> top.hops + 1, path |-> Append(top.path, l[2]),
                      width |-> IF residual[l] < top.width THEN residual[l] ELSE top.width]
      BY <1>3 DEF Extensions, ExtensionsAny
    <2>2. l[2] \in nodes /\ l = <<l[1], l[2]>> /\ residual[l] \in widths
      BY DEF Among
    <2>3. top.path \in Seq(nodes) /\ top.hops \in Nat /\ top.width \in widths
      BY <1>2
    <2> DEFINE q == Append(top.path, l[2])
    <2>4. q \in Seq(nodes) /\ Len(q) = Len(top.path) + 1 /\ q[Len(q)] = l[2]
          /\ \A i \in 1..Len(top.path) : q[i] = top.path[i]
      BY <2>2, <2>3
    <2>5. e.path = q /\ e.hops = top.hops + 1 /\ e.width \in widths
      BY <2>1, <2>2, <2>3
    <2>6. e \in Label
      BY <2>1, <2>2, <2>3, <2>4
    <2> HIDE DEF q
    <2>7. Len(top.path) \in Nat
      BY <2>3
    <2>8. ASSUME NEW i \in 1..(Len(q) - 1) PROVE <<q[i], q[i + 1]>> \in DOMAIN residual
      <3>1. CASE i + 1 <= Len(top.path)
        <4>1. q[i] = top.path[i] /\ q[i + 1] = top.path[i + 1] /\ i \in 1..(Len(top.path) - 1)
          BY <2>4, <2>7, <3>1
        <4>2. <<top.path[i], top.path[i + 1]>> \in LinksOf(top.path)
          BY <4>1 DEF LinksOf
        <4> QED  BY <1>2, <4>1, <4>2
      <3>2. CASE i = Len(top.path)
        <4>1. q[i] = l[1] /\ q[i + 1] = l[2]
          BY <2>1, <2>4, <2>7, <3>2, <1>2 DEF Last
        <4> QED  BY <2>2, <4>1
      <3> QED  BY <2>4, <2>7, <3>1, <3>2
    <2>9. LinksOf(q) \subseteq DOMAIN residual
      BY <2>8 DEF LinksOf
    <2> QED  BY <2>4, <2>5, <2>6, <2>7, <2>9
  <1> HIDE DEF next
  <1> DEFINE heap2 == (s.heap \ {top}) \cup next
  <1> DEFINE best2 == [n \in DOMAIN s.best |->
                          IF \E e \in next : Last(e.path) = n
                          THEN LET e == CHOOSE e \in next : Last(e.path) = n
                               IN  [hops |-> e.hops, width |-> e.width]
                          ELSE s.best[n]]
  <1>4. heap2 \subseteq Label /\ \A e \in heap2 : Len(e.path) >= 1 /\ LinksOf(e.path) \subseteq DOMAIN residual
    BY <1>1, <1>3 DEF Sound
  <1>5. best2 \in [nodes -> [hops : Nat, width : widths]]
    <2> SUFFICES ASSUME NEW n \in nodes PROVE best2[n] \in [hops : Nat, width : widths]
      BY <1>1
    <2>1. CASE \E e \in next : Last(e.path) = n
      <3> DEFINE e == CHOOSE e \in next : Last(e.path) = n
      <3>1. e \in next
        BY <2>1
      <3>2. best2[n] = [hops |-> e.hops, width |-> e.width]
        BY <1>1, <2>1
      <3> HIDE DEF e
      <3> QED  BY <1>3, <3>1, <3>2
    <2>2. CASE ~\E e \in next : Last(e.path) = n
      BY <1>1, <2>2
    <2> QED  BY <2>1, <2>2
  <1>6. Popped(residual, s, top) = IF ~AsGood(top, s.best[Last(top.path)])
                                   THEN [heap |-> s.heap \ {top}, best |-> s.best]
                                   ELSE [heap |-> heap2, best |-> best2]
    BY Zenon DEF Popped, next
  <1> HIDE DEF heap2, best2
  <1>7. CASE Popped(residual, s, top) = [heap |-> heap2, best |-> best2]
    BY <1>4, <1>5, <1>7 DEF Sound, Searches
  <1>8. CASE Popped(residual, s, top) = [heap |-> s.heap \ {top}, best |-> s.best]
    BY <1>1, <1>8 DEF Sound, Searches
  <1> QED  BY <1>6, <1>7, <1>8

\* What a search s has found after n more pops, if f[n - 1] says what any search
\* has found after n - 1.
Onward(residual, dst, f, n, s) ==
    IF n = 0 \/ Least(s.heap) = {} THEN NoPath
    ELSE IF Last(Top(s.heap).path) = dst THEN Top(s.heap).path
    ELSE f[n - 1][Popped(residual, s, Top(s.heap))]

\* A search, turn by turn.
LEMMA SettleTurns ==
    ASSUME NEW residual, NEW dst, NEW nodes, NEW widths, NEW search, IsFiniteSet(nodes)
    PROVE  LET most == Walks(Cardinality(nodes))
           IN  \E settle :
                   /\ Settle(residual, dst, nodes, widths, search) = settle[most][search]
                   /\ \A n \in 0..most : \A s \in Searches(nodes, widths) :
                         settle[n][s] = Onward(residual, dst, settle, n, s)
  <1> DEFINE All == Searches(nodes, widths)
  <1> DEFINE most == Walks(Cardinality(nodes))
  <1> DEFINE Body(f, n, s) == Onward(residual, dst, f, n, s)
  <1> DEFINE Iterates(f) == f = [n \in 0..most |-> [s \in All |-> Body(f, n, s)]]
  <1> DEFINE Upto(f, m) == \A n \in 0..m : f[n] = [s \in All |-> Body(f, n, s)]
  <1>1. most \in Nat
    BY WalksNat, FS_CardinalityType
  <1>2. ASSUME NEW f, NEW g, NEW n, n = 0 \/ f[n - 1] = g[n - 1], NEW s
        PROVE  Body(f, n, s) = Body(g, n, s)
    BY <1>2 DEF Onward
  <1> HIDE DEF most, All, Body
  <1>3. \E f : Upto(f, most)
    <2> DEFINE S == {m \in Nat : \E f : Upto(f, m)}
    <2>1. 0 \in S
      <3> DEFINE f == [n \in {0} |-> [s \in All |-> Body(<< >>, n, s)]]
      <3>1. f[0] = [s \in All |-> Body(<< >>, 0, s)] /\ 0..0 = {0}
        OBVIOUS
      <3> HIDE DEF f
      <3>2. \A s \in All : Body(<< >>, 0, s) = Body(f, 0, s)
        BY <1>2
      <3>3. Upto(f, 0)
        BY <3>1, <3>2
      <3> HIDE DEF Upto
      <3> QED  BY <3>3
    <2>2. ASSUME NEW m \in Nat, m \in S PROVE m + 1 \in S
      <3>1. PICK f : Upto(f, m)
        BY <2>2
      <3> DEFINE g == [n \in 0..(m + 1) |-> IF n <= m THEN f[n] ELSE [s \in All |-> Body(f, m + 1, s)]]
      <3>2. /\ \A n \in 0..m : g[n] = f[n] /\ (n = 0 \/ f[n - 1] = g[n - 1])
            /\ g[m + 1] = [s \in All |-> Body(f, m + 1, s)] /\ g[m] = f[m] /\ m + 1 - 1 = m
        OBVIOUS
      <3> HIDE DEF g
      <3>3. ASSUME NEW n \in 0..m, NEW s \in All PROVE Body(f, n, s) = Body(g, n, s)
        <4>1. n = 0 \/ f[n - 1] = g[n - 1]
          BY <3>2
        <4> QED  BY <4>1 DEF Body, Onward
      <3>4. \A n \in 0..m : g[n] = [s \in All |-> Body(g, n, s)]
        BY <3>1, <3>2, <3>3
      <3>5. \A s \in All : Body(f, m + 1, s) = Body(g, m + 1, s)
        BY <1>2, <3>2
      <3>6. g[m + 1] = [s \in All |-> Body(g, m + 1, s)]
        BY <3>2, <3>5
      <3>7. Upto(g, m + 1)
        BY <3>4, <3>6
      <3> HIDE DEF Upto
      <3> QED  BY <3>7
    <2>3. most \in S
      <3> HIDE DEF S
      <3> QED  BY <1>1, <2>1, <2>2, SetInduction
    <2> HIDE DEF Upto
    <2> QED  BY <2>3
  <1>4. \E f : Iterates(f)
    <2>1. PICK h : Upto(h, most)
      <3> HIDE DEF Upto
      <3> QED  BY <1>3
    <2> DEFINE f == [n \in 0..most |-> h[n]]
    <2>2. \A n \in 0..most : f[n] = h[n] /\ (n = 0 \/ h[n - 1] = f[n - 1])
      BY <1>1
    <2>3. f = [n \in 0..most |-> f[n]]
      OBVIOUS
    <2> HIDE DEF f
    <2>4. \A n \in 0..most : \A s \in All : Body(h, n, s) = Body(f, n, s)
      BY <1>2, <2>2
    <2>5. \A n \in 0..most : f[n] = [s \in All |-> Body(f, n, s)]
      BY <2>1, <2>2, <2>4
    <2> QED  BY <2>3, <2>5
  <1> DEFINE settle == CHOOSE f : Iterates(f)
  <1>5. Iterates(settle)
    BY <1>4
  <1>6. Settle(residual, dst, nodes, widths, search) = settle[most][search]
    BY DEF Settle, Onward, most, All, Body
  <1> HIDE DEF settle
  <1>7. ASSUME NEW n \in 0..most, NEW s \in All PROVE settle[n][s] = Body(settle, n, s)
    <2>1. settle[n] = [r \in All |-> Body(settle, n, r)]
      BY <1>5
    <2> QED  BY <2>1
  <1> QED  BY <1>6, <1>7 DEF most, All, Body

LEMMA SettledOn ==
    ASSUME NEW residual, NEW dst, NEW nodes, NEW widths, NEW search \in Searches(nodes, widths),
           IsFiniteSet(nodes), Among(residual, nodes, widths), Sound(residual, search)
    PROVE  LET path == Settle(residual, dst, nodes, widths, search)
           IN  path # NoPath => LinksOf(path) \subseteq DOMAIN residual
  <1> DEFINE All == Searches(nodes, widths)
  <1> DEFINE most == Walks(Cardinality(nodes))
  <1>1. most \in Nat
    BY WalksNat, FS_CardinalityType
  <1>2. PICK settle : /\ Settle(residual, dst, nodes, widths, search) = settle[most][search]
                      /\ \A n \in 0..most : \A s \in All : settle[n][s] = Onward(residual, dst, settle, n, s)
    BY SettleTurns
  <1>6. Settle(residual, dst, nodes, widths, search) = settle[most][search]
    BY <1>2
  <1>7. \A n \in 0..most : \A s \in All : settle[n][s] = Onward(residual, dst, settle, n, s)
    BY <1>2
  <1> HIDE DEF most, All
  <1> DEFINE Good(n) == \A s \in All : Sound(residual, s) =>
                            settle[n][s] = NoPath \/ LinksOf(settle[n][s]) \subseteq DOMAIN residual
  <1> DEFINE S == {n \in Nat : n <= most => Good(n)}
  <1>8. 0 \in S
    <2>1. ASSUME NEW s \in All PROVE settle[0][s] = NoPath
      <3>1. settle[0][s] = Onward(residual, dst, settle, 0, s)
        BY <1>1, <1>7
      <3> QED  BY <3>1 DEF Onward
    <2> QED  BY <2>1
  <1>9. ASSUME NEW n \in Nat, n \in S PROVE n + 1 \in S
    <2> SUFFICES ASSUME n + 1 <= most, NEW s \in All, Sound(residual, s), settle[n + 1][s] # NoPath
                 PROVE  LinksOf(settle[n + 1][s]) \subseteq DOMAIN residual
      OBVIOUS
    <2>1. Good(n) /\ n + 1 \in 0..most
      BY <1>1, <1>9
    <2> DEFINE top == Top(s.heap)
    <2>2. Least(s.heap) # {} /\ settle[n + 1][s] = IF Last(top.path) = dst THEN top.path
                                                   ELSE settle[n][Popped(residual, s, top)]
      <3>1. settle[n + 1][s] = Onward(residual, dst, settle, n + 1, s)
        BY <1>7, <2>1
      <3>2. n + 1 # 0 /\ n + 1 - 1 = n
        OBVIOUS
      <3> QED  BY <3>1, <3>2 DEF Onward
    <2>3. top \in s.heap
      <3>1. top \in Least(s.heap)
        BY <2>2 DEF Top
      <3> QED  BY <3>1 DEF Least
    <2> HIDE DEF top
    <2>4. Popped(residual, s, top) \in All /\ Sound(residual, Popped(residual, s, top))
      BY <2>3, PoppedSound DEF All
    <2>5. LinksOf(top.path) \subseteq DOMAIN residual
      BY <2>3 DEF Sound
    <2> QED  BY <2>1, <2>2, <2>4, <2>5
  <1>10. Good(most)
    <2>1. most \in S
      <3> HIDE DEF S
      <3> QED  BY <1>1, <1>8, <1>9, SetInduction
    <2> QED  BY <1>1, <2>1
  <1> QED  BY <1>6, <1>10 DEF All

\* A network with finitely many links has finitely many nodes.
LEMMA NodesFinite ==
    ASSUME NEW cap, IsFiniteSet(DOMAIN cap)
    PROVE  IsFiniteSet(NodesIn(cap))
  <1>1. ASSUME NEW k \in {1, 2} PROVE IsFiniteSet({l[k] : l \in DOMAIN cap})
    <2> DEFINE f == [l \in DOMAIN cap |-> l[k]]
    <2> DEFINE T == {l[k] : l \in DOMAIN cap}
    <2>1. f \in Surjection(DOMAIN cap, T)
      BY DEF Surjection
    <2> HIDE DEF f, T
    <2>2. IsFiniteSet(T)
      BY <2>1, FS_Surjection
    <2> QED  BY <2>2 DEF T
  <1> DEFINE A == {l[1] : l \in DOMAIN cap}
  <1> DEFINE B == {l[2] : l \in DOMAIN cap}
  <1>2. IsFiniteSet(A) /\ IsFiniteSet(B) /\ NodesIn(cap) = A \cup B
    BY <1>1 DEF NodesIn
  <1> HIDE DEF A, B
  <1>3. IsFiniteSet(A \cup B)
    <2>1. IsFiniteSet(A) /\ IsFiniteSet(B)
      BY <1>2
    <2> QED  BY <2>1, FS_Union
  <1> QED  BY <1>2, <1>3

\* A computed path only takes links of the network it was computed on.
LEMMA ComputedOn ==
    ASSUME NEW cap, NEW used, NEW src, NEW dst, NEW bw,
           IsFiniteSet(DOMAIN cap), \A l \in DOMAIN cap : l = <<l[1], l[2]>>,
           Compute(cap, used, src, dst, bw) # NoPath
    PROVE  LinksOf(Compute(cap, used, src, dst, bw)) \subseteq DOMAIN cap
  <1> DEFINE widest == 1 + FoldSet(LAMBDA l, acc : acc + cap[l], 0, DOMAIN cap)
  <1> DEFINE nodes == {src} \cup NodesIn(cap)
  <1> DEFINE start == [heap |-> {[hops |-> 0, width |-> widest, path |-> <<src>>]},
                       best |-> [n \in nodes |-> [hops |-> IF n = src THEN 0 ELSE Cardinality(nodes),
                                                  width |-> widest]]]
  <1> DEFINE residual == Residual(cap, used, bw)
  <1> DEFINE widths == {widest} \cup {residual[l] : l \in DOMAIN residual}
  <1>1. Compute(cap, used, src, dst, bw) = Settle(residual, dst, nodes, widths, start)
    BY DEF Compute, Once
  <1>2. IsFiniteSet(nodes) /\ src \in nodes /\ \A l \in DOMAIN cap : {l[1], l[2]} \subseteq nodes
    <2>1. IsFiniteSet(NodesIn(cap))
      BY NodesFinite
    <2>2. IsFiniteSet(NodesIn(cap) \cup {src}) /\ NodesIn(cap) \cup {src} = nodes
      BY <2>1, FS_AddElement
    <2> QED  BY <2>2 DEF NodesIn
  <1>3. DOMAIN residual \subseteq DOMAIN cap
    BY DEF Residual
  <1>4. Cardinality(nodes) \in Nat
    BY <1>2, FS_CardinalityType
  <1> HIDE DEF nodes, residual, widest
  <1>5. Among(residual, nodes, widths)
    BY <1>2, <1>3 DEF Among
  <1>6. widest \in widths
    OBVIOUS
  <1> HIDE DEF widths
  <1>7. start \in Searches(nodes, widths)
    <2>1. <<src>> \in Seq(nodes)
      BY <1>2
    <2>2. [hops |-> 0, width |-> widest, path |-> <<src>>] \in [hops : Nat, width : widths, path : Seq(nodes)]
      BY <1>6, <2>1
    <2>3. [n \in nodes |-> [hops |-> IF n = src THEN 0 ELSE Cardinality(nodes), width |-> widest]]
              \in [nodes -> [hops : Nat, width : widths]]
      BY <1>4, <1>6
    <2> QED  BY <2>2, <2>3 DEF Searches
  <1>8. Sound(residual, start)
    <2>1. Len(<<src>>) = 1 /\ 1..(1 - 1) = {}
      OBVIOUS
    <2>2. LinksOf(<<src>>) = {}
      BY <2>1 DEF LinksOf
    <2> QED  BY <2>1, <2>2 DEF Sound
  <1> HIDE DEF start
  <1> QED  BY <1>1, <1>2, <1>3, <1>5, <1>7, <1>8, SettledOn

-----------------------------------------------------------------------------
(* What the search takes the least of                                      *)

\* R, a set of pairs, orders S as a heap does: any two, and in a row.
Orders(R, S) ==
    /\ \A x, y \in S : <<x, y>> \in R \/ <<y, x>> \in R
    /\ \A x, y, z \in S : <<x, y>> \in R /\ <<y, z>> \in R => <<x, z>> \in R

LEMMA LeastExists ==
    ASSUME NEW S, IsFiniteSet(S), S # {}, NEW R, Orders(R, S)
    PROVE  \E x \in S : \A y \in S : <<x, y>> \in R
  <1> DEFINE Has(T) == \E x \in T : \A y \in T : <<x, y>> \in R
  <1> DEFINE Ns == {n \in Nat : \A T \in SUBSET S : T # {} /\ Cardinality(T) <= n => Has(T)}
  <1>1. \A T \in SUBSET S : IsFiniteSet(T) /\ Cardinality(T) \in Nat
    BY FS_Subset, FS_CardinalityType
  <1>2. 0 \in Ns
    <2> SUFFICES ASSUME NEW T \in SUBSET S, T # {}, Cardinality(T) <= 0 PROVE FALSE
      OBVIOUS
    <2>1. Cardinality(T) = 0
      BY <1>1
    <2> QED  BY <1>1, <2>1, FS_EmptySet
  <1>3. ASSUME NEW n \in Nat, n \in Ns PROVE n + 1 \in Ns
    <2> SUFFICES ASSUME NEW T \in SUBSET S, T # {}, Cardinality(T) <= n + 1 PROVE Has(T)
      OBVIOUS
    <2>1. PICK t \in T : TRUE
      OBVIOUS
    <2>2. CASE T = {t}
      <3>1. <<t, t>> \in R
        BY DEF Orders
      <3> QED  BY <2>2, <3>1
    <2>3. CASE T # {t}
      <3> DEFINE U == T \ {t}
      <3>1. U \in SUBSET S /\ U # {} /\ T = U \cup {t}
        BY <2>1, <2>3
      <3>2. Cardinality(U) = Cardinality(T) - 1
        BY <1>1, <2>1, FS_RemoveElement
      <3>3. Cardinality(U) <= n
        BY <1>1, <3>2
      <3> HIDE DEF U
      <3>4. PICK x \in U : \A y \in U : <<x, y>> \in R
        BY <1>3, <3>1, <3>3
      <3>5. CASE <<x, t>> \in R
        BY <3>1, <3>4, <3>5
      <3>6. CASE <<t, x>> \in R
        <4>1. \A y \in U : <<t, y>> \in R
          BY <2>1, <3>1, <3>4, <3>6 DEF Orders
        <4>2. <<t, t>> \in R
          BY <2>1 DEF Orders
        <4> QED  BY <2>1, <3>1, <4>1, <4>2
      <3> QED  BY <2>1, <3>1, <3>5, <3>6 DEF Orders
    <2> QED  BY <2>2, <2>3
  <1>4. Cardinality(S) \in Ns
    <2> HIDE DEF Ns
    <2> QED  BY <1>1, <1>2, <1>3, SetInduction
  <1> QED  BY <1>1, <1>4

LEMMA MinIs ==
    ASSUME NEW S \in SUBSET Int, IsFiniteSet(S), S # {}
    PROVE  Min(S) \in S /\ \A y \in S : Min(S) <= y
  <1> DEFINE R == {e \in S \X S : e[1] <= e[2]}
  <1>1. Orders(R, S)
    BY DEF Orders
  <1>2. \A x, y \in S : <<x, y>> \in R <=> x <= y
    OBVIOUS
  <1> HIDE DEF R
  <1>3. \E x \in S : \A y \in S : x <= y
    BY <1>1, <1>2, LeastExists
  <1> QED  BY <1>3 DEF Min

\* The order of lists of numbers: the first difference decides, if there is one.
LEMMA PrefixIs ==
    ASSUME NEW p \in Seq(Int), NEW q \in Seq(Int)
    PROVE  IsPrefix(p, q) <=> Len(p) <= Len(q) /\ \A i \in 1..Len(p) : p[i] = q[i]
  <1>1. Len(p) \in Nat /\ Len(q) \in Nat /\ SubSeq(p, 1, Len(p)) = p
    OBVIOUS
  <1>2. CASE Len(p) <= Len(q)
    <2> DEFINE r == SubSeq(q, 1, Len(p))
    <2>1. r \in Seq(Int) /\ Len(r) = Len(p) /\ \A i \in 1..Len(p) : r[i] = q[i]
      BY <1>1, <1>2
    <2> HIDE DEF r
    <2>2. p = r <=> \A i \in 1..Len(p) : p[i] = r[i]
      BY <1>1, <2>1, SeqEqual
    <2> QED  BY <1>1, <1>2, <2>1, <2>2 DEF IsPrefix, r
  <1> QED  BY <1>2 DEF IsPrefix

LEMMA LexTotal ==
    ASSUME NEW p \in Seq(Int), NEW q \in Seq(Int)
    PROVE  LexBefore(p, q) \/ LexBefore(q, p)
  <1> DEFINE D == {i \in DOMAIN p \cap DOMAIN q : p[i] # q[i]}
  <1>1. Len(p) \in Nat /\ Len(q) \in Nat /\ DOMAIN p = 1..Len(p) /\ DOMAIN q = 1..Len(q)
        /\ (\A i \in 1..Len(p) : p[i] \in Int) /\ \A i \in 1..Len(q) : q[i] \in Int
    OBVIOUS
  <1>2. CASE D = {}
    <2>1. \A i \in 1..Len(p) : i <= Len(q) => p[i] = q[i]
      BY <1>1, <1>2
    <2>2. CASE Len(p) <= Len(q)
      <3>1. \A i \in 1..Len(p) : p[i] = q[i]
        BY <1>1, <2>1, <2>2
      <3> QED  BY <2>2, <3>1, PrefixIs DEF LexBefore
    <2>3. CASE Len(q) <= Len(p)
      <3>1. \A i \in 1..Len(q) : q[i] = p[i]
        BY <1>1, <2>1, <2>3
      <3> QED  BY <2>3, <3>1, PrefixIs DEF LexBefore
    <2> QED  BY <1>1, <2>2, <2>3
  <1>3. CASE D # {}
    <2>1. D \in SUBSET Int /\ D \in SUBSET (1..Len(p))
      BY <1>1
    <2>2. IsFiniteSet(D)
      <3>1. IsFiniteSet(1..Len(p))
        BY <1>1, FS_Interval
      <3> HIDE DEF D
      <3> QED  BY <2>1, <3>1, FS_Subset
    <2>3. PICK i \in D : \A j \in D : i <= j
      <3> HIDE DEF D
      <3> QED  BY <1>3, <2>1, <2>2, MinIs
    <2>4. \A j \in 1..(i - 1) : p[j] = q[j] /\ q[j] = p[j]
      <3> SUFFICES ASSUME NEW j \in 1..(i - 1) PROVE p[j] = q[j]
        OBVIOUS
      <3>1. i \in 1..Len(p) /\ i \in 1..Len(q)
        BY <1>1
      <3>2. j \in DOMAIN p \cap DOMAIN q /\ ~(i <= j)
        BY <1>1, <3>1
      <3> QED  BY <2>3, <3>2
    <2>5. p[i] < q[i] \/ q[i] < p[i]
      BY <1>1, <2>3
    <2> QED  BY <2>3, <2>4, <2>5 DEF LexBefore
  <1> QED  BY <1>2, <1>3

LEMMA LexTransitive ==
    ASSUME NEW p \in Seq(Int), NEW q \in Seq(Int), NEW r \in Seq(Int),
           LexBefore(p, q), LexBefore(q, r)
    PROVE  LexBefore(p, r)
  <1>1. /\ Len(p) \in Nat /\ Len(q) \in Nat /\ Len(r) \in Nat
        /\ DOMAIN p = 1..Len(p) /\ DOMAIN q = 1..Len(q) /\ DOMAIN r = 1..Len(r)
        /\ \A i \in 1..Len(p) : p[i] \in Int
        /\ \A i \in 1..Len(q) : q[i] \in Int
        /\ \A i \in 1..Len(r) : r[i] \in Int
    OBVIOUS
  <1>2. CASE IsPrefix(p, q) /\ IsPrefix(q, r)
    <2>1. IsPrefix(p, r)
      BY <1>1, <1>2, PrefixIs
    <2> QED  BY <2>1 DEF LexBefore
  <1>3. ASSUME IsPrefix(p, q), NEW i \in DOMAIN q \cap DOMAIN r,
               q[i] < r[i], \A j \in 1..(i - 1) : q[j] = r[j]
        PROVE  LexBefore(p, r)
    <2>1. Len(p) <= Len(q) /\ \A j \in 1..Len(p) : p[j] = q[j]
      BY <1>3, PrefixIs
    <2>2. CASE i \in DOMAIN p
      <3>1. p[i] < r[i] /\ \A j \in 1..(i - 1) : p[j] = r[j]
        BY <1>1, <1>3, <2>1, <2>2
      <3> QED  BY <1>3, <2>2, <3>1 DEF LexBefore
    <2>3. CASE i \notin DOMAIN p
      <3>1. i \in Int /\ i > Len(p) /\ i <= Len(r)
        BY <1>1, <1>3, <2>3
      <3>2. \A j \in 1..Len(p) : p[j] = q[j] /\ q[j] = r[j]
        BY <1>1, <1>3, <2>1, <3>1
      <3>3. Len(p) <= Len(r) /\ \A j \in 1..Len(p) : p[j] = r[j]
        BY <1>1, <3>1, <3>2
      <3> QED  BY <3>3, PrefixIs DEF LexBefore
    <2> QED  BY <2>2, <2>3
  <1>4. ASSUME NEW i \in DOMAIN p \cap DOMAIN q, p[i] < q[i],
               \A j \in 1..(i - 1) : p[j] = q[j], IsPrefix(q, r)
        PROVE  LexBefore(p, r)
    <2>1. Len(q) <= Len(r) /\ \A j \in 1..Len(q) : q[j] = r[j]
      BY <1>4, PrefixIs
    <2>2. i \in DOMAIN r /\ p[i] < r[i] /\ \A j \in 1..(i - 1) : p[j] = r[j]
      BY <1>1, <1>4, <2>1
    <2> QED  BY <1>4, <2>2 DEF LexBefore
  <1>5. ASSUME NEW i \in DOMAIN p \cap DOMAIN q, p[i] < q[i],
               \A j \in 1..(i - 1) : p[j] = q[j],
               NEW k \in DOMAIN q \cap DOMAIN r, q[k] < r[k],
               \A j \in 1..(k - 1) : q[j] = r[j]
        PROVE  LexBefore(p, r)
    <2> DEFINE m == IF i <= k THEN i ELSE k
    <2>1. m \in DOMAIN p \cap DOMAIN r
      BY <1>1, <1>5
    <2>2. p[m] < r[m]
      <3>0. i \in Int /\ k \in Int /\ i >= 1 /\ k >= 1
        BY <1>1
      <3>1. CASE i < k
        <4>1. q[i] = r[i] /\ m = i
          BY <1>5, <3>0, <3>1
        <4> QED  BY <1>5, <4>1
      <3>2. CASE i = k
        <4>1. p[i] < q[i] /\ q[i] < r[i] /\ m = i
          BY <1>5, <3>0, <3>2
        <4>2. p[i] \in Int /\ q[i] \in Int /\ r[i] \in Int
          BY <1>1, <3>2
        <4> QED  BY <4>1, <4>2
      <3>3. CASE i > k
        <4>1. p[k] = q[k] /\ m = k
          BY <1>5, <3>0, <3>3
        <4> QED  BY <1>5, <4>1
      <3> QED  BY <3>0, <3>1, <3>2, <3>3
    <2>3. \A j \in 1..(m - 1) : p[j] = r[j]
      BY <1>1, <1>5
    <2> QED  BY <2>1, <2>2, <2>3 DEF LexBefore
  <1> QED  BY <1>2, <1>3, <1>4, <1>5 DEF LexBefore

\* A heap with an entry has a least one.
LEMMA LeastOfHeap ==
    ASSUME NEW heap, IsFiniteSet(heap), heap # {},
           heap \subseteq [hops : Nat, width : Int, path : Seq(Int)]
    PROVE  Least(heap) # {}
  <1> DEFINE R == {e \in heap \X heap : HeapBefore(e[1], e[2])}
  <1>1. \A x, y \in heap : <<x, y>> \in R <=> HeapBefore(x, y)
    OBVIOUS
  <1>2. \A x, y \in heap : HeapBefore(x, y) \/ HeapBefore(y, x)
    <2> SUFFICES ASSUME NEW x \in heap, NEW y \in heap PROVE HeapBefore(x, y) \/ HeapBefore(y, x)
      OBVIOUS
    <2>1. AsGood(x, y) \/ AsGood(y, x)
      BY DEF AsGood
    <2>2. LexBefore(x.path, y.path) \/ LexBefore(y.path, x.path)
      BY LexTotal
    <2> QED  BY <2>1, <2>2 DEF HeapBefore
  <1>3. \A x, y, z \in heap : HeapBefore(x, y) /\ HeapBefore(y, z) => HeapBefore(x, z)
    <2> SUFFICES ASSUME NEW x \in heap, NEW y \in heap, NEW z \in heap,
                        HeapBefore(x, y), HeapBefore(y, z)
                 PROVE  HeapBefore(x, z)
      OBVIOUS
    <2>1. AsGood(x, z) /\ (AsGood(z, x) => AsGood(y, x) /\ AsGood(z, y))
      BY DEF HeapBefore, AsGood
    <2>2. AsGood(z, x) => LexBefore(x.path, z.path)
      BY <2>1, LexTransitive DEF HeapBefore
    <2> QED  BY <2>1, <2>2 DEF HeapBefore
  <1> HIDE DEF R
  <1>4. Orders(R, heap)
    BY <1>1, <1>2, <1>3 DEF Orders
  <1>5. \E x \in heap : \A y \in heap : HeapBefore(x, y)
    BY <1>1, <1>4, LeastExists
  <1> QED  BY <1>5 DEF Least

-----------------------------------------------------------------------------
(* The search finds the best path                                          *)

\* A label one link further.
Plus(a, r) == [hops |-> a.hops + 1, width |-> IF r < a.width THEN r ELSE a.width]

\* A path the search may hold: from src, never twice at a node, with its label.
Held(residual, src, widest, e) ==
    /\ Len(e.path) = e.hops + 1 /\ e.path[1] = src
    /\ \A i, j \in 1..Len(e.path) : e.path[i] = e.path[j] => i = j
    /\ \A l \in LinksOf(e.path) : e.width <= residual[l]
    /\ (e.width = widest /\ e.hops = 0) \/ \E l \in LinksOf(e.path) : e.width = residual[l]

\* A node whose label is still to be passed on, or has been to all its
\* neighbours; the destination is never passed.
Waiting(s, n) == \E e \in s.heap : Last(e.path) = n /\ AsGood(e, s.best[n])
PassedOn(residual, dst, s, n) ==
    n # dst /\ \A l \in DOMAIN residual : l[1] = n => AsGood(s.best[l[2]], Plus(s.best[n], residual[l]))

\* The search, between two pops.
Seeking(residual, src, dst, nodes, widest, s) ==
    /\ IsFiniteSet(s.heap)
    /\ \A e \in s.heap : Held(residual, src, widest, e)
    /\ \A e \in s.heap : AsGood(s.best[Last(e.path)], e)
    /\ \A e \in s.heap : \A i \in 1..Len(e.path) : s.best[e.path[i]].hops <= e.hops
    /\ AsGood(s.best[src], [hops |-> 0, width |-> widest])
    /\ \A n \in nodes : s.best[n].hops < Cardinality(nodes) =>
          Waiting(s, n) \/ PassedOn(residual, dst, s, n)

\* Links that are pairs of nodes, each a number, with some room on each.
Network(residual, nodes, widths) ==
    /\ IsFiniteSet(nodes) /\ nodes \subseteq Int /\ widths \subseteq Int
    /\ Among(residual, nodes, widths)

\* A search on such links, none of which has as much room as a path without links.
Searching(residual, nodes, widths, src, widest, s) ==
    /\ Network(residual, nodes, widths) /\ src \in nodes
    /\ widest \in Int /\ \A l \in DOMAIN residual : residual[l] < widest
    /\ s \in Searches(nodes, widths) /\ Sound(residual, s)

LEMMA AsGoodOrder ==
    ASSUME NEW a, NEW b, NEW c, a.hops \in Nat, b.hops \in Nat, c.hops \in Nat,
           a.width \in Int, b.width \in Int, c.width \in Int
    PROVE  /\ AsGood(a, b) \/ AsGood(b, a)
           /\ AsGood(a, b) /\ AsGood(b, c) => AsGood(a, c)
           /\ AsGood(a, b) => a.hops <= b.hops
           /\ AsGood(a, b) /\ AsGood(b, a) <=> a.hops = b.hops /\ a.width = b.width
  BY DEF AsGood

\* What is one link further than the popped path.
LEMMA ExtensionIs ==
    ASSUME NEW residual, NEW nodes, NEW widths, NEW src, NEW widest, NEW s,
           Searching(residual, nodes, widths, src, widest, s), NEW top \in s.heap,
           Held(residual, src, widest, top), NEW e \in ExtensionsAny(residual, top, s.best)
    PROVE  /\ e \in [hops : Nat, width : widths, path : Seq(nodes)]
           /\ Held(residual, src, widest, e)
           /\ e.hops = top.hops + 1 /\ e.path = Append(top.path, Last(e.path)) /\ Len(e.path) = Len(top.path) + 1
           /\ Last(e.path) \in nodes \ ToSet(top.path)
           /\ <<Last(top.path), Last(e.path)>> \in DOMAIN residual
           /\ e.width = Plus(top, residual[<<Last(top.path), Last(e.path)>>]).width
  <1> Network(residual, nodes, widths) /\ widest \in Int /\ (\A l \in DOMAIN residual : residual[l] < widest)
      /\ s \in Searches(nodes, widths) /\ Sound(residual, s)
    BY DEF Searching
  <1>1. top \in [hops : Nat, width : widths, path : Seq(nodes)] /\ top.width \in Int /\ Len(top.path) >= 1
    BY DEF Searches, Sound, Network
  <1>2. PICK l \in DOMAIN residual :
            /\ l[1] = Last(top.path) /\ l[2] \notin ToSet(top.path)
            /\ e = [hops |-> top.hops + 1, path |-> Append(top.path, l[2]),
                    width |-> IF residual[l] < top.width THEN residual[l] ELSE top.width]
    BY DEF ExtensionsAny
  <1> DEFINE p == top.path
  <1> DEFINE n == Len(p)
  <1> DEFINE q == Append(p, l[2])
  <1>3. p \in Seq(nodes) /\ n \in Nat /\ n >= 1 /\ l[2] \in nodes /\ l = <<l[1], l[2]>>
        /\ residual[l] \in widths /\ residual[l] \in Int
    <2>1. p \in Seq(nodes) /\ n \in Nat /\ n >= 1
      BY <1>1
    <2>2. l = <<l[1], l[2]>> /\ {l[1], l[2]} \subseteq nodes /\ residual[l] \in widths /\ widths \subseteq Int
      BY DEF Network, Among
    <2> QED  BY <2>1, <2>2
  <1>4. q \in Seq(nodes) /\ Len(q) = n + 1 /\ q[n + 1] = l[2] /\ \A i \in 1..n : q[i] = p[i]
    BY <1>3
  <1>5. e.path = q /\ e.hops = top.hops + 1 /\ Last(q) = l[2] /\ p[n] = l[1]
    BY <1>2, <1>4 DEF Last
  <1>6. e.width \in widths /\ e.width <= residual[l] /\ e.width <= top.width
        /\ (e.width = residual[l] \/ e.width = top.width)
    BY <1>1, <1>2, <1>3
  <1>7. LinksOf(q) = LinksOf(p) \cup {l}
    <2>1. \A i \in 1..(n + 1 - 1) : <<q[i], q[i + 1]>> = IF i < n THEN <<p[i], p[i + 1]>> ELSE l
      BY <1>3, <1>4, <1>5
    <2>2. LinksOf(q) = {<<q[i], q[i + 1]>> : i \in 1..(n + 1 - 1)}
      <3> HIDE DEF q
      <3> QED  BY <1>4 DEF LinksOf
    <2>3. LinksOf(p) = {<<p[i], p[i + 1]>> : i \in 1..(n - 1)}
      BY DEF LinksOf
    <2> HIDE DEF q, p
    <2>4. LinksOf(q) \subseteq LinksOf(p) \cup {l}
      <3> SUFFICES ASSUME NEW i \in 1..(n + 1 - 1) PROVE <<q[i], q[i + 1]>> \in LinksOf(p) \cup {l}
        BY <2>2
      <3>1. CASE i < n
        <4>1. i \in 1..(n - 1)
          BY <1>3, <3>1
        <4> QED  BY <2>1, <2>3, <3>1, <4>1
      <3>2. CASE ~(i < n)
        BY <2>1, <3>2
      <3> QED  BY <3>1, <3>2
    <2>5. l \in LinksOf(q)
      <3>1. n \in 1..(n + 1 - 1) /\ ~(n < n)
        BY <1>3
      <3> QED  BY <2>1, <2>2, <3>1
    <2>6. LinksOf(p) \subseteq LinksOf(q)
      <3> SUFFICES ASSUME NEW i \in 1..(n - 1) PROVE <<p[i], p[i + 1]>> \in LinksOf(q)
        BY <2>3
      <3>1. i \in 1..(n + 1 - 1) /\ i < n
        BY <1>3
      <3> QED  BY <2>1, <2>2, <3>1
    <2> QED  BY <2>4, <2>5, <2>6
  <1>8. Held(residual, src, widest, e)
    <2>1. Len(q) = e.hops + 1 /\ q[1] = src
      BY <1>3, <1>4, <1>5 DEF Held
    <2>2. ASSUME NEW i \in 1..Len(q), NEW j \in 1..Len(q), q[i] = q[j] PROVE i = j
      <3>1. \A k \in 1..n : p[k] \in ToSet(p)
        BY <1>3 DEF ToSet
      <3>2. CASE i <= n /\ j <= n
        <4>1. i \in 1..n /\ j \in 1..n /\ p[i] = p[j]
          BY <1>3, <1>4, <2>2, <3>2
        <4> QED  BY <4>1 DEF Held
      <3>3. CASE i <= n /\ ~(j <= n)
        <4>1. i \in 1..n /\ j = n + 1
          BY <1>3, <1>4, <3>3
        <4>2. p[i] = l[2]
          BY <1>4, <2>2, <4>1
        <4> QED  BY <1>2, <3>1, <4>1, <4>2
      <3>4. CASE ~(i <= n) /\ j <= n
        <4>1. j \in 1..n /\ i = n + 1
          BY <1>3, <1>4, <3>4
        <4>2. p[j] = l[2]
          BY <1>4, <2>2, <4>1
        <4> QED  BY <1>2, <3>1, <4>1, <4>2
      <3>5. CASE ~(i <= n) /\ ~(j <= n)
        BY <1>3, <1>4, <3>5
      <3> QED  BY <3>2, <3>3, <3>4, <3>5
    <2>3. \A k \in LinksOf(q) : e.width <= residual[k]
      <3>1. \A k \in LinksOf(p) : top.width <= residual[k] /\ residual[k] \in Int
        BY DEF Held, Sound, Network, Among
      <3>2. e.width \in Int
        BY <1>6 DEF Network
      <3> HIDE DEF p, q
      <3>3. ASSUME NEW k \in LinksOf(p) PROVE e.width <= residual[k]
        BY <1>1, <1>6, <3>1, <3>2
      <3> QED  BY <1>6, <1>7, <3>3
    <2>4. \E k \in LinksOf(q) : e.width = residual[k]
      <3>1. CASE e.width = residual[l]
        BY <1>7, <3>1
      <3>2. CASE e.width = top.width /\ e.width # residual[l]
        <4>1. top.width # widest
          BY <1>1, <1>3, <1>6, <3>2
        <4>2. \E k \in LinksOf(p) : top.width = residual[k]
          BY <4>1 DEF Held
        <4> QED  BY <1>7, <3>2, <4>2
      <3> QED  BY <1>6, <3>1, <3>2
    <2> QED  BY <1>5, <2>1, <2>2, <2>3, <2>4 DEF Held
  <1>9. e \in [hops : Nat, width : widths, path : Seq(nodes)]
    BY <1>1, <1>2, <1>4, <1>6
  <1> QED  BY <1>2, <1>3, <1>4, <1>5, <1>8, <1>9 DEF Plus

\* A path that is nowhere twice has as many nodes as places.
LEMMA PathNodes ==
    ASSUME NEW nodes, IsFiniteSet(nodes), NEW p \in Seq(nodes),
           \A i, j \in 1..Len(p) : p[i] = p[j] => i = j
    PROVE  /\ ToSet(p) \in SUBSET nodes /\ Cardinality(ToSet(p)) = Len(p)
           /\ Cardinality(nodes \ ToSet(p)) = Cardinality(nodes) - Len(p) /\ Len(p) <= Cardinality(nodes)
           /\ Cardinality(nodes) \in Nat /\ IsFiniteSet(nodes \ ToSet(p))
  <1> DEFINE T == ToSet(p)
  <1> DEFINE S == 1..Len(p)
  <1>1. Len(p) \in Nat /\ p \in [S -> nodes] /\ DOMAIN p = S
    OBVIOUS
  <1>2. T = {p[i] : i \in S} /\ T \in SUBSET nodes
    BY <1>1 DEF ToSet
  <1>3. IsFiniteSet(S) /\ Cardinality(S) = Len(p)
    BY <1>1, FS_Interval
  <1>4. p \in Surjection(S, T) /\ p \in Injection(S, T)
    <2>1. p \in [S -> T] /\ \A t \in T : \E i \in S : p[i] = t
      BY <1>1, <1>2
    <2> HIDE DEF T, S
    <2>2. \A i, j \in S : p[i] = p[j] => i = j
      BY DEF S
    <2> QED  BY <2>1, <2>2 DEF Surjection, Injection, IsInjective
  <1> HIDE DEF S, T
  <1>5. IsFiniteSet(T) /\ Cardinality(T) = Len(p)
    BY <1>3, <1>4, FS_Surjection
  <1>6. nodes \cap T = T
    BY <1>2
  <1>7. IsFiniteSet(nodes \ T) /\ Cardinality(nodes \ T) = Cardinality(nodes) - Cardinality(T)
    BY <1>6, FS_Difference
  <1>8. Cardinality(T) <= Cardinality(nodes) /\ Cardinality(nodes) \in Nat
    BY <1>2, FS_Subset, FS_CardinalityType
  <1> QED  BY <1>2, <1>5, <1>7, <1>8 DEF T

\* At most one extension for each node that is not on the path.
LEMMA ExtensionsFew ==
    ASSUME NEW residual, NEW nodes, NEW widths, NEW src, NEW widest, NEW s,
           Searching(residual, nodes, widths, src, widest, s), NEW top \in s.heap,
           Held(residual, src, widest, top)
    PROVE  LET next == Extensions(residual, top, s.best)
           IN  /\ IsFiniteSet(next) /\ Cardinality(next) \in Nat
               /\ Cardinality(next) <= Cardinality(nodes) - Len(top.path)
               /\ Len(top.path) <= Cardinality(nodes) /\ Cardinality(nodes) \in Nat
               /\ \A e, g \in ExtensionsAny(residual, top, s.best) : Last(e.path) = Last(g.path) => e = g
  <1> Network(residual, nodes, widths) /\ widest \in Int /\ (\A l \in DOMAIN residual : residual[l] < widest)
      /\ s \in Searches(nodes, widths) /\ Sound(residual, s)
    BY DEF Searching
  <1> DEFINE all == ExtensionsAny(residual, top, s.best)
  <1> DEFINE next == Extensions(residual, top, s.best)
  <1> DEFINE free == nodes \ ToSet(top.path)
  <1>1. next \in SUBSET all
    BY DEF Extensions
  <1>2. \A e \in all : /\ e \in [hops : Nat, width : widths, path : Seq(nodes)]
                       /\ e.hops = top.hops + 1 /\ e.path = Append(top.path, Last(e.path))
                       /\ Last(e.path) \in free
                       /\ e.width = Plus(top, residual[<<Last(top.path), Last(e.path)>>]).width
    <2> HIDE DEF free
    <2> SUFFICES ASSUME NEW e \in all
                 PROVE  /\ e \in [hops : Nat, width : widths, path : Seq(nodes)]
                        /\ e.hops = top.hops + 1 /\ e.path = Append(top.path, Last(e.path))
                        /\ Last(e.path) \in nodes \ ToSet(top.path)
                        /\ e.width = Plus(top, residual[<<Last(top.path), Last(e.path)>>]).width
      BY DEF free
    <2> QED  BY ExtensionIs
  <1>3. ASSUME NEW e \in all, NEW g \in all, Last(e.path) = Last(g.path) PROVE e = g
    <2>1. e.hops = g.hops /\ e.path = g.path /\ e.width = g.width
      BY <1>2, <1>3
    <2>2. e = [hops |-> e.hops, width |-> e.width, path |-> e.path]
      BY <1>2
    <2>3. g = [hops |-> g.hops, width |-> g.width, path |-> g.path]
      BY <1>2
    <2> QED  BY <2>1, <2>2, <2>3
  <1> HIDE DEF all, next
  <1> DEFINE f == [e \in next |-> Last(e.path)]
  <1>4. f \in Injection(next, free)
    <2>1. f \in [next -> free]
      BY <1>1, <1>2
    <2>2. \A e, g \in next : f[e] = f[g] => e = g
      BY <1>1, <1>3
    <2> HIDE DEF f, free
    <2> QED  BY <2>1, <2>2 DEF Injection, IsInjective
  <1> HIDE DEF f
  <1>5. /\ Cardinality(free) = Cardinality(nodes) - Len(top.path) /\ IsFiniteSet(free)
        /\ Len(top.path) <= Cardinality(nodes) /\ Cardinality(nodes) \in Nat
    <2>1. top.path \in Seq(nodes) /\ IsFiniteSet(nodes)
      BY DEF Searches, Network
    <2>2. \A i, j \in 1..Len(top.path) : top.path[i] = top.path[j] => i = j
      BY DEF Held
    <2> QED  BY <2>1, <2>2, PathNodes
  <1> HIDE DEF free
  <1>6. IsFiniteSet(next) /\ Cardinality(next) <= Cardinality(free)
    BY <1>4, <1>5, FS_Injection
  <1>7. Cardinality(next) \in Nat
    BY <1>6, FS_CardinalityType
  <1> QED  BY <1>3, <1>5, <1>6, <1>7 DEF all, next

LEMMA PoppedSeeking ==
    ASSUME NEW residual, NEW nodes, NEW widths, NEW src, NEW dst, NEW widest, NEW s,
           Searching(residual, nodes, widths, src, widest, s),
           Seeking(residual, src, dst, nodes, widest, s), NEW top \in s.heap, Last(top.path) # dst
    PROVE  Seeking(residual, src, dst, nodes, widest, Popped(residual, s, top))
  <1> src \in nodes /\ Network(residual, nodes, widths) /\ widest \in Int /\ (\A l \in DOMAIN residual : residual[l] < widest)
      /\ s \in Searches(nodes, widths) /\ Sound(residual, s)
    BY DEF Searching
  <1> DEFINE Entry == [hops : Nat, width : widths, path : Seq(nodes)]
  <1> DEFINE all == ExtensionsAny(residual, top, s.best)
  <1> DEFINE next == Extensions(residual, top, s.best)
  <1> DEFINE node == Last(top.path)
  <1> DEFINE big == Cardinality(nodes)
  <1>1. /\ s.heap \subseteq Entry /\ s.best \in [nodes -> [hops : Nat, width : widths]]
        /\ widths \subseteq Int
    BY DEF Searches, Network
  <1>2. \A n \in nodes : s.best[n].hops \in Nat /\ s.best[n].width \in Int
    BY <1>1
  <1>3. \A e \in s.heap : /\ e.hops \in Nat /\ e.width \in Int /\ Last(e.path) \in nodes
                          /\ \A i \in 1..Len(e.path) : e.path[i] \in nodes
    <2> SUFFICES ASSUME NEW e \in s.heap
                 PROVE  /\ e.hops \in Nat /\ e.width \in Int /\ Last(e.path) \in nodes
                        /\ \A i \in 1..Len(e.path) : e.path[i] \in nodes
      OBVIOUS
    <2>1. e \in Entry /\ Len(e.path) >= 1
      BY <1>1 DEF Sound
    <2>2. e.path \in Seq(nodes) /\ e.hops \in Nat /\ e.width \in Int
      BY <1>1, <2>1
    <2>3. \A i \in 1..Len(e.path) : e.path[i] \in nodes
      BY <2>2
    <2>4. Len(e.path) \in 1..Len(e.path)
      BY <2>1, <2>2
    <2> QED  BY <2>2, <2>3, <2>4 DEF Last
  <1>4. Held(residual, src, widest, top) /\ AsGood(s.best[node], top)
    BY DEF Seeking
  <1>5. \A e \in all : /\ e \in Entry /\ Held(residual, src, widest, e)
                       /\ e.hops = top.hops + 1 /\ e.path = Append(top.path, Last(e.path))
                       /\ Len(e.path) = Len(top.path) + 1
                       /\ Last(e.path) \in nodes \ ToSet(top.path)
                       /\ <<node, Last(e.path)>> \in DOMAIN residual
                       /\ e.width = Plus(top, residual[<<node, Last(e.path)>>]).width
    <2> SUFFICES ASSUME NEW e \in ExtensionsAny(residual, top, s.best)
                 PROVE  /\ e \in [hops : Nat, width : widths, path : Seq(nodes)]
                        /\ Held(residual, src, widest, e)
                        /\ e.hops = top.hops + 1 /\ e.path = Append(top.path, Last(e.path))
                        /\ Len(e.path) = Len(top.path) + 1
                        /\ Last(e.path) \in nodes \ ToSet(top.path)
                        /\ <<Last(top.path), Last(e.path)>> \in DOMAIN residual
                        /\ e.width = Plus(top, residual[<<Last(top.path), Last(e.path)>>]).width
      OBVIOUS
    <2> QED  BY <1>4, ExtensionIs
  <1>6. \A e \in all : e.hops \in Nat /\ e.width \in Int /\ Last(e.path) \in nodes
    BY <1>1, <1>5
  <1>7. next = {e \in all : AsGood(e, s.best[Last(e.path)])}
    BY DEF Extensions
  <1>8. IsFiniteSet(next) /\ \A e, g \in all : Last(e.path) = Last(g.path) => e = g
    BY <1>4, ExtensionsFew
  <1>9. big \in Nat
    BY FS_CardinalityType DEF Network
  <1>10. top.path \in Seq(nodes) /\ Len(top.path) >= 1 /\ Len(top.path) \in Nat
    BY <1>1 DEF Sound
  <1>11. \A n \in nodes : AsGood(s.best[n], s.best[n])
    BY <1>2 DEF AsGood
  <1>12. CASE ~AsGood(top, s.best[node])
    <2> DEFINE v == [heap |-> s.heap \ {top}, best |-> s.best]
    <2>1. Popped(residual, s, top) = v
      BY <1>12 DEF Popped
    <2>2. IsFiniteSet(v.heap)
      BY FS_Subset DEF Seeking
    <2>3. v.heap \in SUBSET s.heap /\ v.best = s.best /\ v.heap = s.heap \ {top}
      OBVIOUS
    <2> HIDE DEF v
    <2>4. ASSUME NEW n \in nodes, v.best[n].hops < big
          PROVE  Waiting(v, n) \/ PassedOn(residual, dst, v, n)
      <3>1. Waiting(s, n) \/ PassedOn(residual, dst, s, n)
        BY <2>3, <2>4 DEF Seeking
      <3>2. CASE Waiting(s, n)
        <4>1. PICK e \in s.heap : Last(e.path) = n /\ AsGood(e, s.best[n])
          BY <3>2 DEF Waiting
        <4>2. e # top
          BY <1>12, <4>1
        <4> QED  BY <2>3, <4>1, <4>2 DEF Waiting
      <3>3. CASE PassedOn(residual, dst, s, n)
        BY <2>3, <3>3 DEF PassedOn
      <3> QED  BY <3>1, <3>2, <3>3
    <2> QED  BY <2>1, <2>2, <2>3, <2>4 DEF Seeking
  <1>13. CASE AsGood(top, s.best[node])
    <2> DEFINE heap2 == (s.heap \ {top}) \cup next
    <2> DEFINE best2 == [n \in DOMAIN s.best |->
                            IF \E e \in next : Last(e.path) = n
                            THEN LET e == CHOOSE e \in next : Last(e.path) = n
                                 IN  [hops |-> e.hops, width |-> e.width]
                            ELSE s.best[n]]
    <2>1. Popped(residual, s, top) = [heap |-> heap2, best |-> best2]
      BY <1>13, Zenon DEF Popped
    <2>2. ASSUME NEW e \in next
          PROVE  e \in all /\ best2[Last(e.path)].hops = e.hops /\ best2[Last(e.path)].width = e.width
      <3>1. e \in all /\ \A g \in next : g \in all
        BY <2>2, <1>7
      <3>2. Last(e.path) \in DOMAIN s.best
        BY <1>1, <1>5, <3>1
      <3> DEFINE g == CHOOSE g \in next : Last(g.path) = Last(e.path)
      <3>3. g \in next /\ Last(g.path) = Last(e.path)
        BY <2>2
      <3>4. best2[Last(e.path)] = [hops |-> g.hops, width |-> g.width]
        BY <2>2, <3>2
      <3> HIDE DEF g
      <3>5. g = e
        BY <1>8, <3>1, <3>3
      <3> QED  BY <3>1, <3>4, <3>5
    <2>3. ASSUME NEW n \in nodes, \A e \in next : Last(e.path) # n PROVE best2[n] = s.best[n]
      BY <1>1, <2>3
    <2> HIDE DEF next, all, best2
    <2>4. ASSUME NEW n \in nodes
          PROVE  /\ best2[n].hops \in Nat /\ best2[n].width \in Int
                 /\ AsGood(best2[n], s.best[n]) /\ best2[n].hops <= s.best[n].hops
                 /\ best2[n] = s.best[n] \/ \E e \in next : Last(e.path) = n /\ e.hops = best2[n].hops
                                                            /\ e.width = best2[n].width
      <3>1. CASE \E e \in next : Last(e.path) = n
        <4>1. PICK e \in next : Last(e.path) = n
          BY <3>1
        <4>2. e \in all /\ best2[n].hops = e.hops /\ best2[n].width = e.width
          BY <2>2, <4>1
        <4>3. AsGood(e, s.best[n]) /\ e.hops \in Nat /\ e.width \in Int
          BY <1>6, <1>7, <4>1, <4>2
        <4> QED  BY <1>2, <4>1, <4>2, <4>3 DEF AsGood
      <3>2. CASE ~\E e \in next : Last(e.path) = n
        BY <1>2, <1>11, <2>3, <3>2
      <3> QED  BY <3>1, <3>2
    <2>5. IsFiniteSet(heap2)
      <3>1. IsFiniteSet(s.heap \ {top})
        BY FS_Subset DEF Seeking
      <3> QED  BY <1>8, <3>1, FS_Union
    <2>6. \A e \in heap2 : Held(residual, src, widest, e)
      BY <1>5, <2>2 DEF Seeking
    <2>7. ASSUME NEW e \in heap2 PROVE AsGood(best2[Last(e.path)], e)
      <3>1. CASE e \in next
        BY <2>2, <1>6, <3>1 DEF AsGood
      <3>2. CASE e \in s.heap
        <4>1. AsGood(s.best[Last(e.path)], e) /\ Last(e.path) \in nodes
          BY <1>3, <3>2 DEF Seeking
        <4>2. AsGood(best2[Last(e.path)], s.best[Last(e.path)])
          BY <2>4, <4>1
        <4> QED  BY <1>2, <1>3, <2>4, <3>2, <4>1, <4>2, AsGoodOrder
      <3> QED  BY <3>1, <3>2
    <2>8. ASSUME NEW e \in heap2, NEW i \in 1..Len(e.path) PROVE best2[e.path[i]].hops <= e.hops
      <3>1. CASE e \in next
        <4>1. e \in all /\ Len(e.path) = Len(top.path) + 1 /\ e.hops = top.hops + 1
              /\ e.path = Append(top.path, Last(e.path))
          BY <1>5, <2>2, <3>1
        <4>2. CASE i <= Len(top.path)
          <5>1. e.path[i] = top.path[i] /\ i \in 1..Len(top.path)
            BY <1>10, <4>1, <4>2
          <5>2. s.best[top.path[i]].hops <= top.hops /\ top.path[i] \in nodes /\ top.hops \in Nat
            BY <1>3, <5>1 DEF Seeking
          <5>3. best2[top.path[i]].hops <= s.best[top.path[i]].hops
            BY <2>4, <5>2
          <5> QED  BY <1>2, <2>4, <4>1, <5>1, <5>2, <5>3
        <4>3. CASE ~(i <= Len(top.path))
          <5>1. e.path[i] = Last(e.path)
            BY <1>10, <4>1, <4>3
          <5> QED  BY <1>6, <2>2, <3>1, <5>1
        <4> QED  BY <4>2, <4>3
      <3>2. CASE e \in s.heap
        <4>1. s.best[e.path[i]].hops <= e.hops /\ e.path[i] \in nodes /\ e.hops \in Nat
          BY <1>3, <3>2 DEF Seeking
        <4> QED  BY <1>2, <2>4, <4>1
      <3> QED  BY <3>1, <3>2
    <2>9. AsGood(best2[src], [hops |-> 0, width |-> widest])
      <3>1. AsGood(s.best[src], [hops |-> 0, width |-> widest])
        BY DEF Seeking
      <3>2. AsGood(best2[src], s.best[src])
        BY <2>4
      <3> QED  BY <1>2, <2>4, <3>1, <3>2 DEF AsGood
    <2> DEFINE v == [heap |-> heap2, best |-> best2]
    <2>10. v.heap = heap2 /\ v.best = best2
      OBVIOUS
    <2> HIDE DEF v
    <2>11. ASSUME NEW n \in nodes, best2[n].hops < big
           PROVE  Waiting(v, n) \/ PassedOn(residual, dst, v, n)
      <3>1. CASE \E e \in next : Last(e.path) = n
        <4>1. PICK e \in next : Last(e.path) = n
          BY <3>1
        <4>2. AsGood(e, best2[n])
          BY <1>6, <2>2, <4>1 DEF AsGood
        <4> QED  BY <2>10, <4>1, <4>2 DEF Waiting
      <3>2. CASE ~\E e \in next : Last(e.path) = n
        <4>1. best2[n] = s.best[n]
          BY <2>3, <3>2
        <4>2. Waiting(s, n) \/ PassedOn(residual, dst, s, n)
          BY <2>11, <4>1 DEF Seeking
        <4>3. CASE PassedOn(residual, dst, s, n)
          <5> SUFFICES ASSUME NEW l \in DOMAIN residual, l[1] = n
                       PROVE  AsGood(best2[l[2]], Plus(s.best[n], residual[l]))
            BY <2>10, <4>1, <4>3 DEF PassedOn
          <5>1. AsGood(s.best[l[2]], Plus(s.best[n], residual[l]))
            BY <4>3 DEF PassedOn
          <5>2. l[2] \in nodes /\ residual[l] \in Int
            BY DEF Network, Among
          <5>3. AsGood(best2[l[2]], s.best[l[2]])
            BY <2>4, <5>2
          <5>4. Plus(s.best[n], residual[l]).hops \in Nat /\ Plus(s.best[n], residual[l]).width \in Int
            BY <1>2, <5>2 DEF Plus
          <5> QED  BY <1>2, <2>4, <5>1, <5>2, <5>3, <5>4, AsGoodOrder
        <4>4. CASE Waiting(s, n) /\ n # node
          <5>1. PICK e \in s.heap : Last(e.path) = n /\ AsGood(e, s.best[n])
            BY <4>4 DEF Waiting
          <5>2. e \in heap2
            BY <4>4, <5>1
          <5> QED  BY <2>10, <4>1, <5>1, <5>2 DEF Waiting
        <4>5. CASE n = node
          <5>1. s.best[n].hops = top.hops /\ s.best[n].width = top.width
            BY <1>2, <1>3, <1>4, <1>13, <4>5, AsGoodOrder
          <5> SUFFICES ASSUME NEW l \in DOMAIN residual, l[1] = n
                       PROVE  AsGood(best2[l[2]], Plus(s.best[n], residual[l]))
            BY <2>10, <4>1, <4>5 DEF PassedOn
          <5>2. l[2] \in nodes /\ residual[l] \in Int /\ l = <<n, l[2]>>
            BY DEF Network, Among
          <5> DEFINE m == l[2]
          <5>3. /\ Plus(s.best[n], residual[l]).hops = top.hops + 1
                /\ Plus(s.best[n], residual[l]).width = IF residual[l] < top.width THEN residual[l] ELSE top.width
            BY <5>1 DEF Plus
          <5>4. CASE m \in ToSet(top.path)
            <6>1. PICK i \in 1..Len(top.path) : top.path[i] = m
              BY <1>10, <5>4 DEF ToSet
            <6>2. s.best[m].hops <= top.hops
              BY <6>1 DEF Seeking
            <6>3. best2[m].hops <= s.best[m].hops /\ best2[m].hops \in Nat
              BY <2>4, <5>2
            <6> QED  BY <1>2, <1>3, <5>2, <5>3, <6>2, <6>3 DEF AsGood
          <5>5. CASE m \notin ToSet(top.path)
            <6> DEFINE e == [hops |-> top.hops + 1, path |-> Append(top.path, m),
                             width |-> IF residual[l] < top.width THEN residual[l] ELSE top.width]
            <6>1. e \in all
              BY <4>5, <5>5 DEF ExtensionsAny, all
            <6>2. Last(e.path) = m
              BY <1>10, <5>2 DEF Last
            <6>3. e.hops = Plus(s.best[n], residual[l]).hops /\ e.width = Plus(s.best[n], residual[l]).width
              BY <5>3
            <6> HIDE DEF e
            <6>4. e.hops \in Nat /\ e.width \in Int
              BY <1>6, <6>1
            <6>5. CASE e \in next
              <7>1. best2[m].hops = e.hops /\ best2[m].width = e.width
                BY <2>2, <6>2, <6>5
              <7> QED  BY <6>3, <6>4, <7>1 DEF AsGood
            <6>6. CASE e \notin next
              <7>1. ~AsGood(e, s.best[m])
                BY <1>7, <6>1, <6>2, <6>6
              <7>2. AsGood(best2[m], s.best[m]) /\ best2[m].hops \in Nat /\ best2[m].width \in Int
                BY <2>4, <5>2
              <7>3. s.best[m].hops \in Nat /\ s.best[m].width \in Int
                BY <1>2, <5>2
              <7> QED  BY <6>3, <6>4, <7>1, <7>2, <7>3 DEF AsGood
            <6> QED  BY <6>5, <6>6
          <5> QED  BY <5>4, <5>5
        <4> QED  BY <4>2, <4>3, <4>4, <4>5
      <3> QED  BY <3>1, <3>2
    <2> HIDE DEF heap2
    <2>12. Seeking(residual, src, dst, nodes, widest, v)
      BY <2>5, <2>6, <2>7, <2>8, <2>9, <2>10, <2>11 DEF Seeking
    <2> QED  BY <2>1, <2>12 DEF v
  <1> QED  BY <1>12, <1>13

\* Every entry may have as many loop-free walks popped after it as its path
\* leaves nodes for, itself included.
Room(nodes, heap) == UNION {{e} \X (1..Walks(Cardinality(nodes) - Len(e.path))) : e \in heap}
Short(nodes, heap) == \A e \in heap : Cardinality(nodes) - Len(e.path) \in Nat

LEMMA RoomFinite ==
    ASSUME NEW nodes, NEW heap, IsFiniteSet(heap), Short(nodes, heap)
    PROVE  IsFiniteSet(Room(nodes, heap)) /\ Cardinality(Room(nodes, heap)) \in Nat
           /\ (Cardinality(Room(nodes, heap)) = 0 => heap = {})
  <1> DEFINE F(e) == {e} \X (1..Walks(Cardinality(nodes) - Len(e.path)))
  <1> DEFINE T == {F(e) : e \in heap}
  <1>1. ASSUME NEW e \in heap PROVE IsFiniteSet(F(e)) /\ <<e, 1>> \in F(e)
    <2>1. Walks(Cardinality(nodes) - Len(e.path)) \in Nat /\ Walks(Cardinality(nodes) - Len(e.path)) >= 1
      BY WalksNat DEF Short
    <2>2. IsFiniteSet(1..Walks(Cardinality(nodes) - Len(e.path)))
      <3> DEFINE w == Walks(Cardinality(nodes) - Len(e.path))
      <3>1. w \in Int
        BY <2>1
      <3> HIDE DEF w
      <3>2. IsFiniteSet(1..w)
        BY <3>1, FS_Interval
      <3> QED  BY <3>2 DEF w
    <2>3. IsFiniteSet(F(e))
      BY <2>2, FS_Product, FS_Singleton
    <2>4. 1 \in 1..Walks(Cardinality(nodes) - Len(e.path))
      BY <2>1
    <2> QED  BY <2>3, <2>4
  <1> HIDE DEF F
  <1>2. IsFiniteSet(T)
    <2> DEFINE f == [e \in heap |-> F(e)]
    <2>1. f \in Surjection(heap, T)
      BY DEF Surjection
    <2> HIDE DEF f, T
    <2> QED  BY <2>1, FS_Surjection
  <1>3. \A X \in T : IsFiniteSet(X)
    BY <1>1
  <1>4. Room(nodes, heap) = UNION T
    BY DEF Room, F
  <1> HIDE DEF T
  <1>5. IsFiniteSet(Room(nodes, heap))
    BY <1>2, <1>3, <1>4, FS_UNION
  <1>6. ASSUME NEW e \in heap PROVE Room(nodes, heap) # {}
    BY <1>1, <1>4, <1>6 DEF T
  <1> QED  BY <1>5, <1>6, FS_CardinalityType, FS_EmptySet

\* A pop takes one of them.
LEMMA RoomPopped ==
    ASSUME NEW nodes, NEW heap, NEW top \in heap, NEW next, IsFiniteSet(heap), IsFiniteSet(next),
           Short(nodes, heap), Short(nodes, next),
           \A e \in next : Len(e.path) = Len(top.path) + 1,
           Cardinality(nodes) \in Nat, Len(top.path) \in Nat,
           Cardinality(next) <= Cardinality(nodes) - Len(top.path)
    PROVE  Cardinality(Room(nodes, (heap \ {top}) \cup next)) < Cardinality(Room(nodes, heap))
  <1> DEFINE k == Cardinality(nodes) - Len(top.path)
  <1> DEFINE rest == heap \ {top}
  <1> DEFINE mine == {top} \X (1..Walks(k))
  <1> DEFINE more == Room(nodes, next)
  <1>1. k \in Nat /\ Walks(k) \in Nat /\ Walks(k) >= 1
    BY WalksNat DEF Short
  <1>2. IsFiniteSet(rest) /\ Short(nodes, rest) /\ rest \cap {top} = {} /\ heap = rest \cup {top}
    BY FS_RemoveElement DEF Short
  <1>3. IsFiniteSet(mine) /\ Cardinality(mine) = Walks(k)
    <2>1. IsFiniteSet(1..Walks(k)) /\ Cardinality(1..Walks(k)) = Walks(k)
      BY <1>1, FS_Interval
    <2>2. IsFiniteSet({top}) /\ Cardinality({top}) = 1
      BY FS_Singleton
    <2>3. Cardinality(mine) = 1 * Walks(k) /\ IsFiniteSet(mine)
      BY <2>1, <2>2, FS_Product
    <2> QED  BY <1>1, <2>3
  <1>4. Cardinality(Room(nodes, heap)) = Cardinality(Room(nodes, rest)) + Walks(k)
        /\ Cardinality(Room(nodes, rest)) \in Nat
    <2>1. Room(nodes, heap) = Room(nodes, rest) \cup mine
      BY <1>2 DEF Room
    <2>2. Room(nodes, rest) \cap mine = {}
      BY <1>2 DEF Room
    <2> HIDE DEF mine, rest
    <2>3. IsFiniteSet(Room(nodes, rest)) /\ Cardinality(Room(nodes, rest)) \in Nat
      BY <1>2, RoomFinite
    <2>4. Cardinality(Room(nodes, rest) \cup mine)
              = Cardinality(Room(nodes, rest)) + Cardinality(mine) - Cardinality(Room(nodes, rest) \cap mine)
      BY <1>3, <2>3, FS_Union
    <2>5. Cardinality({}) = 0
      BY FS_EmptySet
    <2>6. Cardinality(Room(nodes, heap)) = Cardinality(Room(nodes, rest) \cup mine)
      BY <2>1
    <2>7. Cardinality(Room(nodes, rest) \cap mine) = 0
      BY <2>2, <2>5
    <2> HIDE DEF k
    <2> QED  BY <1>1, <1>3, <2>3, <2>4, <2>6, <2>7
  <1>5. Cardinality(more) <= Walks(k) - 1
    <2>1. CASE next = {}
      <3>1. more = {}
        BY <2>1 DEF Room
      <3> QED  BY <1>1, <3>1, FS_EmptySet
    <2>2. CASE next # {}
      <3>1. Cardinality(next) \in Nat /\ Cardinality(next) # 0
        BY <2>2, FS_CardinalityType, FS_EmptySet
      <3>2. k > 0 /\ k - 1 \in Nat /\ k - 1 + 1 = k
        BY <1>1, <3>1
      <3>3. Walks(k) = 1 + k * Walks(k - 1) /\ Walks(k - 1) \in Nat
        <4>1. Walks(k - 1 + 1) = 1 + (k - 1 + 1) * Walks(k - 1)
          BY <3>2, WalksStep
        <4> QED  BY <3>2, <4>1, WalksNat
      <3>4. \A e \in next : Cardinality(nodes) - Len(e.path) = k - 1
        BY <1>1
      <3> DEFINE W == 1..Walks(k - 1)
      <3>5. more = next \X W
        <4>1. more = UNION {{e} \X (1..Walks(Cardinality(nodes) - Len(e.path))) : e \in next}
          BY DEF Room
        <4> HIDE DEF k, more
        <4>2. more = UNION {{e} \X W : e \in next}
          BY <3>4, <4>1
        <4> HIDE DEF W
        <4> QED  BY <4>2
      <3>6. IsFiniteSet(W) /\ Cardinality(W) = Walks(k - 1)
        BY <3>3, FS_Interval
      <3> HIDE DEF W, more, k
      <3>7. Cardinality(more) = Cardinality(next) * Walks(k - 1)
        BY <3>5, <3>6, FS_Product
      <3>8. Cardinality(next) <= k
        BY DEF k
      <3>9. Cardinality(next) * Walks(k - 1) <= k * Walks(k - 1)
        <4> DEFINE a == Cardinality(next)
        <4> DEFINE c == Walks(k - 1)
        <4>1. a \in Nat /\ c \in Nat /\ k \in Nat /\ a <= k
          BY <1>1, <3>1, <3>3, <3>8
        <4> HIDE DEF a, c
        <4>2. (k - a) \in Nat /\ (k - a) * c >= 0
          BY <4>1
        <4>3. k * c = a * c + (k - a) * c
          BY <4>1
        <4>4. a * c \in Int /\ k * c \in Int /\ (k - a) * c \in Int
          BY <4>1
        <4>5. a * c <= k * c
          BY <4>2, <4>3, <4>4
        <4> QED  BY <4>5 DEF a, c
      <3>10. k * Walks(k - 1) \in Nat /\ Cardinality(next) * Walks(k - 1) \in Nat
        BY <1>1, <3>1, <3>3
      <3> QED  BY <1>1, <3>3, <3>7, <3>9, <3>10
    <2> QED  BY <2>1, <2>2
  <1>6. Cardinality(Room(nodes, rest \cup next)) <= Cardinality(Room(nodes, rest)) + Cardinality(more)
    <2>1. Room(nodes, rest \cup next) = Room(nodes, rest) \cup more
      BY DEF Room
    <2> HIDE DEF rest, more
    <2>2. IsFiniteSet(Room(nodes, rest)) /\ Cardinality(Room(nodes, rest)) \in Nat
      BY <1>2, RoomFinite
    <2>3. IsFiniteSet(more) /\ Cardinality(more) \in Nat
      BY RoomFinite DEF more
    <2>4. Cardinality(Room(nodes, rest) \cup more)
              = Cardinality(Room(nodes, rest)) + Cardinality(more) - Cardinality(Room(nodes, rest) \cap more)
      BY <2>2, <2>3, FS_Union
    <2>5. Cardinality(Room(nodes, rest) \cap more) \in Nat
      BY <2>2, FS_Intersection, FS_CardinalityType
    <2>6. Cardinality(Room(nodes, rest \cup next)) = Cardinality(Room(nodes, rest) \cup more)
      BY <2>1
    <2> QED  BY <2>2, <2>3, <2>4, <2>5, <2>6
  <1>7. Cardinality(more) \in Nat /\ Cardinality(Room(nodes, rest \cup next)) \in Nat
    <2>1. IsFiniteSet(rest \cup next) /\ Short(nodes, rest \cup next)
      BY <1>2, FS_Union DEF Short
    <2> QED  BY <2>1, RoomFinite
  <1> HIDE DEF more, mine, k
  <1> QED  BY <1>1, <1>4, <1>5, <1>6, <1>7

\* No path in the heap has more nodes than there are.
LEMMA SeekingShort ==
    ASSUME NEW residual, NEW nodes, NEW widths, NEW src, NEW dst, NEW widest, NEW s,
           Searching(residual, nodes, widths, src, widest, s),
           Seeking(residual, src, dst, nodes, widest, s)
    PROVE  Short(nodes, s.heap) /\ Cardinality(nodes) \in Nat
  <1>1. \A e \in s.heap : e.path \in Seq(nodes) /\ Len(e.path) \in Nat /\ Held(residual, src, widest, e)
    BY DEF Searching, Searches, Seeking
  <1>2. ASSUME NEW e \in s.heap PROVE Len(e.path) <= Cardinality(nodes)
    <2>1. e.path \in Seq(nodes) /\ IsFiniteSet(nodes) /\ \A i, j \in 1..Len(e.path) : e.path[i] = e.path[j] => i = j
      BY <1>1 DEF Searching, Network, Held
    <2> QED  BY <2>1, PathNodes
  <1>3. Cardinality(nodes) \in Nat
    BY FS_CardinalityType DEF Searching, Network
  <1> QED  BY <1>1, <1>2, <1>3 DEF Short

LEMMA PoppedRoom ==
    ASSUME NEW residual, NEW nodes, NEW widths, NEW src, NEW dst, NEW widest, NEW s,
           Searching(residual, nodes, widths, src, widest, s),
           Seeking(residual, src, dst, nodes, widest, s), NEW top \in s.heap
    PROVE  /\ Cardinality(Room(nodes, Popped(residual, s, top).heap)) < Cardinality(Room(nodes, s.heap))
           /\ Cardinality(Room(nodes, Popped(residual, s, top).heap)) \in Nat
           /\ Cardinality(Room(nodes, s.heap)) \in Nat
  <1> Network(residual, nodes, widths) /\ s \in Searches(nodes, widths) /\ Sound(residual, s)
    BY DEF Searching
  <1> DEFINE next == Extensions(residual, top, s.best)
  <1>1. \A e \in s.heap : e.path \in Seq(nodes) /\ Len(e.path) \in Nat
    BY DEF Searches
  <1>2. IsFiniteSet(s.heap) /\ \A e \in s.heap : Held(residual, src, widest, e)
    BY DEF Seeking
  <1>3. Short(nodes, s.heap) /\ Cardinality(nodes) \in Nat
    BY SeekingShort
  <1>4. /\ IsFiniteSet(next) /\ Cardinality(next) \in Nat
        /\ Cardinality(next) <= Cardinality(nodes) - Len(top.path)
    BY <1>2, ExtensionsFew
  <1>5. \A e \in next : e.path \in Seq(nodes) /\ Held(residual, src, widest, e) /\ Len(e.path) = Len(top.path) + 1
    <2> SUFFICES ASSUME NEW e \in ExtensionsAny(residual, top, s.best)
                 PROVE  e.path \in Seq(nodes) /\ Held(residual, src, widest, e) /\ Len(e.path) = Len(top.path) + 1
      BY DEF Extensions
    <2>1. Held(residual, src, widest, top)
      BY <1>2
    <2>2. /\ e \in [hops : Nat, width : widths, path : Seq(nodes)]
          /\ Held(residual, src, widest, e)
          /\ e.hops = top.hops + 1 /\ e.path = Append(top.path, Last(e.path)) /\ Len(e.path) = Len(top.path) + 1
          /\ Last(e.path) \in nodes \ ToSet(top.path)
          /\ <<Last(top.path), Last(e.path)>> \in DOMAIN residual
          /\ e.width = Plus(top, residual[<<Last(top.path), Last(e.path)>>]).width
      BY <2>1, ExtensionIs
    <2>3. e.path \in Seq(nodes)
      BY <2>2
    <2> QED  BY <2>2, <2>3
  <1>6. Short(nodes, next)
    <2>1. ASSUME NEW e \in next PROVE Len(e.path) <= Cardinality(nodes) /\ Len(e.path) \in Nat
      <3>1. e.path \in Seq(nodes) /\ IsFiniteSet(nodes) /\ \A i, j \in 1..Len(e.path) : e.path[i] = e.path[j] => i = j
        BY <1>5 DEF Network, Held
      <3>2. Len(e.path) \in Nat
        BY <3>1
      <3> QED  BY <3>1, <3>2, PathNodes
    <2> QED  BY <1>3, <2>1 DEF Short
  <1> HIDE DEF next
  <1> DEFINE rest == s.heap \ {top}
  <1>7. IsFiniteSet(rest) /\ Short(nodes, rest) /\ IsFiniteSet(rest \cup next) /\ Short(nodes, rest \cup next)
    <2>1. IsFiniteSet(rest)
      BY <1>2, FS_RemoveElement
    <2>2. IsFiniteSet(rest \cup next)
      BY <1>4, <2>1, FS_Union
    <2> QED  BY <1>3, <1>6, <2>1, <2>2 DEF Short
  <1>8. Cardinality(Room(nodes, rest \cup next)) < Cardinality(Room(nodes, s.heap))
    BY <1>1, <1>2, <1>3, <1>4, <1>5, <1>6, RoomPopped
  <1>9. Cardinality(Room(nodes, rest)) < Cardinality(Room(nodes, s.heap))
    <2>1. IsFiniteSet({}) /\ Cardinality({}) = 0
      BY FS_EmptySet
    <2>2. Cardinality(nodes) - Len(top.path) \in Nat
      BY <1>3 DEF Short
    <2>3. Short(nodes, {}) /\ Cardinality({}) <= Cardinality(nodes) - Len(top.path)
      BY <2>1, <2>2 DEF Short
    <2>4. Cardinality(Room(nodes, rest \cup {})) < Cardinality(Room(nodes, s.heap))
      BY <1>1, <1>2, <1>3, <2>1, <2>3, RoomPopped
    <2>5. rest \cup {} = rest
      OBVIOUS
    <2> QED  BY <2>4, <2>5
  <1>10. /\ Cardinality(Room(nodes, rest)) \in Nat /\ Cardinality(Room(nodes, rest \cup next)) \in Nat
         /\ Cardinality(Room(nodes, s.heap)) \in Nat
    BY <1>2, <1>3, <1>7, RoomFinite
  <1>11. Popped(residual, s, top).heap = rest \/ Popped(residual, s, top).heap = rest \cup next
    BY DEF Popped, next
  <1> QED  BY <1>8, <1>9, <1>10, <1>11

\* A route of the network from src to dst, nowhere twice at a node.
Route(residual, src, dst, w) ==
    /\ Len(w) >= 1 /\ w[1] = src /\ Last(w) = dst /\ LinksOf(w) \subseteq DOMAIN residual
    /\ \A i, j \in 1..Len(w) : w[i] = w[j] => i = j

\* Until dst is popped, the heap holds something at least as good as any route.
LEMMA Reached ==
    ASSUME NEW residual, NEW nodes, NEW widths, NEW src, NEW dst, NEW widest, NEW s,
           Searching(residual, nodes, widths, src, widest, s),
           Seeking(residual, src, dst, nodes, widest, s),
           NEW w \in Seq(nodes), Route(residual, src, dst, w),
           NEW b \in Int, b <= widest, \A l \in LinksOf(w) : b <= residual[l]
    PROVE  \E e \in s.heap : AsGood(e, [hops |-> Len(w) - 1, width |-> b])
  <1> DEFINE goal == [hops |-> Len(w) - 1, width |-> b]
  <1> SUFFICES ASSUME \A e \in s.heap : ~AsGood(e, goal) PROVE FALSE
    OBVIOUS
  <1> Network(residual, nodes, widths) /\ s \in Searches(nodes, widths) /\ widest \in Int
    BY DEF Searching
  <1>1. /\ Len(w) \in Nat /\ Len(w) >= 1 /\ w[Len(w)] = dst /\ w[1] = src
        /\ \A i \in 1..Len(w) : w[i] \in nodes
    BY DEF Route, Last
  <1>2. \A n \in nodes : s.best[n].hops \in Nat /\ s.best[n].width \in Int
    BY DEF Searches, Network
  <1>3. \A e \in s.heap : e.hops \in Nat /\ e.width \in Int
    BY DEF Searches, Network
  <1>4. Len(w) <= Cardinality(nodes) /\ Cardinality(nodes) \in Nat
    BY PathNodes DEF Route, Network
  <1>5. ASSUME NEW k \in 1..Len(w), AsGood(s.best[w[k]], [hops |-> k - 1, width |-> b])
        PROVE  PassedOn(residual, dst, s, w[k])
    <2>1. s.best[w[k]].hops <= k - 1 /\ w[k] \in nodes
      BY <1>1, <1>2, <1>5 DEF AsGood
    <2>2. s.best[w[k]].hops < Cardinality(nodes)
      BY <1>1, <1>2, <1>4, <2>1
    <2>3. Waiting(s, w[k]) \/ PassedOn(residual, dst, s, w[k])
      BY <2>1, <2>2 DEF Seeking
    <2>4. AsGood(s.best[w[k]], goal)
      BY <1>1, <1>2, <1>5, <2>1 DEF AsGood
    <2>5. ASSUME NEW e \in s.heap, AsGood(e, s.best[w[k]]) PROVE FALSE
      <3>1. goal.hops \in Nat /\ goal.width \in Int
        BY <1>1
      <3> HIDE DEF goal
      <3>2. AsGood(e, goal)
        BY <1>2, <1>3, <2>1, <2>4, <2>5, <3>1, AsGoodOrder
      <3> QED  BY <2>5, <3>2
    <2> QED  BY <2>3, <2>5 DEF Waiting
  <1> DEFINE S == {k \in Nat : k < Len(w) => AsGood(s.best[w[k + 1]], [hops |-> k + 1 - 1, width |-> b])}
  <1>6. 0 \in S
    <2>1. AsGood(s.best[src], [hops |-> 0, width |-> widest]) /\ src \in nodes
      BY <1>1 DEF Seeking
    <2> QED  BY <1>1, <1>2, <2>1 DEF AsGood
  <1>7. ASSUME NEW k \in Nat, k \in S PROVE k + 1 \in S
    <2> SUFFICES ASSUME k + 1 < Len(w)
                 PROVE  AsGood(s.best[w[k + 1 + 1]], [hops |-> k + 1 + 1 - 1, width |-> b])
      OBVIOUS
    <2> DEFINE i == k + 1
    <2>1. AsGood(s.best[w[i]], [hops |-> i - 1, width |-> b]) /\ i \in 1..Len(w) /\ i + 1 \in 1..Len(w)
          /\ i \in 1..(Len(w) - 1)
      BY <1>1, <1>7
    <2> HIDE DEF i
    <2>2. PassedOn(residual, dst, s, w[i])
      BY <1>5, <2>1
    <2> DEFINE l == <<w[i], w[i + 1]>>
    <2>3. l \in LinksOf(w)
      BY <2>1 DEF LinksOf
    <2>4. l \in DOMAIN residual /\ l[1] = w[i] /\ l[2] = w[i + 1]
      BY <2>3 DEF Route
    <2>5. residual[l] \in Int /\ b <= residual[l]
      BY <2>3, <2>4 DEF Network, Among
    <2>6. AsGood(s.best[w[i + 1]], Plus(s.best[w[i]], residual[l]))
      BY <2>2, <2>4 DEF PassedOn
    <2> HIDE DEF l
    <2>7. /\ s.best[w[i]].hops \in Nat /\ s.best[w[i]].width \in Int
          /\ s.best[w[i + 1]].hops \in Nat /\ s.best[w[i + 1]].width \in Int /\ i \in Nat
      BY <1>1, <1>2, <2>1
    <2>8. AsGood(s.best[w[i + 1]], [hops |-> i + 1 - 1, width |-> b])
      <3> DEFINE x == s.best[w[i]]
      <3> DEFINE y == s.best[w[i + 1]]
      <3> DEFINE r == residual[l]
      <3>1. x.hops \in Nat /\ x.width \in Int /\ y.hops \in Nat /\ y.width \in Int /\ r \in Int /\ i \in Nat
        BY <2>5, <2>7
      <3>2. x.hops < i - 1 \/ (x.hops = i - 1 /\ x.width >= b)
        BY <2>1 DEF AsGood
      <3>3. \/ y.hops < x.hops + 1
            \/ y.hops = x.hops + 1 /\ y.width >= (IF r < x.width THEN r ELSE x.width)
        BY <2>6 DEF AsGood, Plus
      <3>4. b <= r
        BY <2>5
      <3> HIDE DEF x, y, r
      <3>5. y.hops < i \/ (y.hops = i /\ y.width >= b)
        <4>1. CASE y.hops < x.hops + 1
          BY <3>1, <3>2, <4>1
        <4>2. CASE y.hops = x.hops + 1 /\ r < x.width /\ y.width >= r
          BY <3>1, <3>2, <3>4, <4>2
        <4>3. CASE y.hops = x.hops + 1 /\ ~(r < x.width) /\ y.width >= x.width
          BY <3>1, <3>2, <4>3
        <4> QED  BY <3>1, <3>3, <4>1, <4>2, <4>3
      <3>6. i + 1 - 1 = i
        BY <3>1
      <3> QED  BY <3>5, <3>6 DEF AsGood, y
    <2> QED  BY <2>8 DEF i
  <1>8. Len(w) - 1 \in S
    <2>1. Len(w) - 1 \in Nat
      BY <1>1
    <2> HIDE DEF S
    <2> QED  BY <1>6, <1>7, <2>1, SetInduction
  <1>9. AsGood(s.best[w[Len(w)]], [hops |-> Len(w) - 1, width |-> b]) /\ Len(w) \in 1..Len(w)
    <2>1. Len(w) - 1 < Len(w) /\ Len(w) - 1 + 1 = Len(w)
      BY <1>1
    <2> QED  BY <1>1, <1>8, <2>1
  <1>10. PassedOn(residual, dst, s, w[Len(w)])
    BY <1>5, <1>9
  <1> QED  BY <1>1, <1>10 DEF PassedOn

\* The bottleneck of a route is the room on one of its links.
LEMMA Bottleneck ==
    ASSUME NEW residual, NEW nodes, NEW widths, NEW src, NEW dst, src # dst,
           Network(residual, nodes, widths),
           NEW w \in Seq(nodes), Route(residual, src, dst, w)
    PROVE  /\ Width(residual, w) \in Int
           /\ \A l \in LinksOf(w) : Width(residual, w) <= residual[l] /\ residual[l] \in Int
           /\ \E l \in LinksOf(w) : Width(residual, w) = residual[l]
  <1> DEFINE S == {residual[l] : l \in LinksOf(w)}
  <1>1. Len(w) \in Nat /\ Len(w) >= 1 /\ w[1] = src /\ w[Len(w)] = dst
    BY DEF Route, Last
  <1>2. Len(w) # 1
    BY <1>1
  <1>3. \A l \in LinksOf(w) : residual[l] \in Int
    BY DEF Route, Network, Among
  <1>4. IsFiniteSet(S)
    <2> DEFINE I == 1..(Len(w) - 1)
    <2> DEFINE f == [i \in I |-> residual[<<w[i], w[i + 1]>>]]
    <2>1. IsFiniteSet(I)
      BY <1>1, FS_Interval
    <2>2. \A x \in S : \E i \in I : f[i] = x
      BY DEF LinksOf
    <2>3. f \in [I -> S]
      BY DEF LinksOf
    <2> HIDE DEF f, S, I
    <2>4. f \in Surjection(I, S)
      BY <2>2, <2>3 DEF Surjection
    <2> QED  BY <2>1, <2>4, FS_Surjection
  <1>5. S # {}
    <2>1. 1 \in 1..(Len(w) - 1)
      BY <1>1, <1>2
    <2>2. <<w[1], w[1 + 1]>> \in LinksOf(w)
      BY <2>1 DEF LinksOf
    <2> QED  BY <2>2
  <1>6. S \in SUBSET Int
    BY <1>3
  <1>7. Width(residual, w) = Min(S)
    BY DEF Width
  <1>8. Min(S) \in S /\ \A y \in S : Min(S) <= y
    <2> HIDE DEF S
    <2> QED  BY <1>4, <1>5, <1>6, MinIs
  <1> QED  BY <1>3, <1>6, <1>7, <1>8

\* No route at all, or one that none is shorter than, or as short and wider.
Unbeaten(residual, src, dst, nodes, path) ==
    IF \A w \in Seq(nodes) : ~Route(residual, src, dst, w) THEN path = NoPath
    ELSE /\ path \in Seq(nodes) /\ Route(residual, src, dst, path)
         /\ \A w \in Seq(nodes) : Route(residual, src, dst, w) =>
               \/ Len(path) < Len(w)
               \/ Len(path) = Len(w) /\ Width(residual, path) >= Width(residual, w)

\* A search that has emptied its heap has no route to find.
LEMMA Exhausted ==
    ASSUME NEW residual, NEW nodes, NEW widths, NEW src, NEW dst, NEW widest, NEW s, src # dst,
           Searching(residual, nodes, widths, src, widest, s),
           Seeking(residual, src, dst, nodes, widest, s), s.heap = {}
    PROVE  Unbeaten(residual, src, dst, nodes, NoPath)
  <1>1. ASSUME NEW w \in Seq(nodes), Route(residual, src, dst, w) PROVE FALSE
    <2> DEFINE b == Width(residual, w)
    <2>1. Network(residual, nodes, widths) /\ widest \in Int /\ \A l \in DOMAIN residual : residual[l] < widest
      BY DEF Searching
    <2>2. b \in Int /\ (\A l \in LinksOf(w) : b <= residual[l]) /\ \E l \in LinksOf(w) : b = residual[l]
      BY <1>1, <2>1, Bottleneck
    <2>3. b <= widest
      BY <1>1, <2>1, <2>2 DEF Route
    <2> HIDE DEF b
    <2>4. \E e \in s.heap : AsGood(e, [hops |-> Len(w) - 1, width |-> b])
      BY <1>1, <2>2, <2>3, Reached
    <2> QED  BY <2>4
  <1> QED  BY <1>1 DEF Unbeaten

\* A search that pops the destination has found the best route.
LEMMA Arrived ==
    ASSUME NEW residual, NEW nodes, NEW widths, NEW src, NEW dst, NEW widest, NEW s, src # dst,
           Searching(residual, nodes, widths, src, widest, s),
           Seeking(residual, src, dst, nodes, widest, s),
           NEW top \in Least(s.heap), Last(top.path) = dst
    PROVE  Unbeaten(residual, src, dst, nodes, top.path)
  <1>1. /\ Network(residual, nodes, widths) /\ widest \in Int
        /\ \A l \in DOMAIN residual : residual[l] < widest
        /\ s \in Searches(nodes, widths) /\ Sound(residual, s)
    BY DEF Searching
  <1>2. \A e \in s.heap : e.hops \in Nat /\ e.width \in Int /\ e.path \in Seq(nodes)
    BY <1>1 DEF Searches, Network
  <1>3. top \in s.heap /\ \A e \in s.heap : AsGood(top, e)
    BY DEF Least, HeapBefore
  <1>4. Held(residual, src, widest, top)
    BY <1>3 DEF Seeking
  <1>5. Route(residual, src, dst, top.path) /\ top.path \in Seq(nodes)
    BY <1>1, <1>2, <1>3, <1>4 DEF Held, Sound, Route
  <1>6. /\ Width(residual, top.path) \in Int
        /\ \E l \in LinksOf(top.path) : Width(residual, top.path) = residual[l]
    BY <1>1, <1>5, Bottleneck
  <1>7. Width(residual, top.path) >= top.width /\ Len(top.path) = top.hops + 1
    BY <1>2, <1>3, <1>4, <1>6 DEF Held
  <1>8. ASSUME NEW w \in Seq(nodes), Route(residual, src, dst, w)
        PROVE  \/ Len(top.path) < Len(w)
               \/ Len(top.path) = Len(w) /\ Width(residual, top.path) >= Width(residual, w)
    <2> DEFINE b == Width(residual, w)
    <2>1. b \in Int /\ (\A l \in LinksOf(w) : b <= residual[l]) /\ \E l \in LinksOf(w) : b = residual[l]
      BY <1>1, <1>8, Bottleneck
    <2>2. b <= widest
      BY <1>1, <1>8, <2>1 DEF Route
    <2>3. Len(w) \in Nat /\ Len(w) >= 1
      BY <1>8 DEF Route
    <2> HIDE DEF b
    <2> DEFINE goal == [hops |-> Len(w) - 1, width |-> b]
    <2>4. PICK e \in s.heap : AsGood(e, goal)
      BY <1>8, <2>1, <2>2, Reached
    <2>5. AsGood(top, goal)
      <3>1. goal.hops \in Nat /\ goal.width \in Int
        BY <2>1, <2>3
      <3> HIDE DEF goal
      <3> QED  BY <1>2, <1>3, <2>4, <3>1, AsGoodOrder
    <2>6. top.hops < Len(w) - 1 \/ (top.hops = Len(w) - 1 /\ top.width >= b)
      BY <2>5 DEF AsGood
    <2>7. top.hops \in Nat /\ top.width \in Int
      BY <1>2, <1>3
    <2>8. Len(top.path) < Len(w) \/ (Len(top.path) = Len(w) /\ Width(residual, top.path) >= b)
      BY <1>6, <1>7, <2>1, <2>3, <2>6, <2>7
    <2> QED  BY <2>8 DEF b
  <1> QED  BY <1>5, <1>8 DEF Unbeaten

LEMMA SettledBest ==
    ASSUME NEW residual, NEW nodes, NEW widths, NEW src, NEW dst, NEW widest, NEW search, src # dst,
           Searching(residual, nodes, widths, src, widest, search),
           Seeking(residual, src, dst, nodes, widest, search),
           Cardinality(Room(nodes, search.heap)) <= Walks(Cardinality(nodes))
    PROVE  Unbeaten(residual, src, dst, nodes, Settle(residual, dst, nodes, widths, search))
  <1> DEFINE most == Walks(Cardinality(nodes))
  <1>1. Network(residual, nodes, widths) /\ IsFiniteSet(nodes) /\ search \in Searches(nodes, widths)
    BY DEF Searching, Network
  <1>2. most \in Nat
    BY <1>1, WalksNat, FS_CardinalityType
  <1>3. PICK settle : /\ Settle(residual, dst, nodes, widths, search) = settle[most][search]
                      /\ \A n \in 0..most : \A s \in Searches(nodes, widths) :
                            settle[n][s] = Onward(residual, dst, settle, n, s)
    BY <1>1, SettleTurns
  <1> HIDE DEF most
  <1> DEFINE Sought(s) == /\ Searching(residual, nodes, widths, src, widest, s)
                          /\ Seeking(residual, src, dst, nodes, widest, s)
  <1> DEFINE Good(n) == \A s : Sought(s) /\ Cardinality(Room(nodes, s.heap)) <= n
                                  => Unbeaten(residual, src, dst, nodes, settle[n][s])
  <1> DEFINE S == {n \in Nat : n <= most => Good(n)}
  <1>4. ASSUME NEW s, Sought(s), NEW n \in 0..most,
               n = 0 \/ Least(s.heap) = {}, Cardinality(Room(nodes, s.heap)) <= n
        PROVE  Unbeaten(residual, src, dst, nodes, settle[n][s])
    <2>1. s \in Searches(nodes, widths)
      BY <1>4 DEF Searching
    <2>2. IsFiniteSet(s.heap) /\ s.heap \subseteq [hops : Nat, width : Int, path : Seq(Int)]
      <3>1. IsFiniteSet(s.heap)
        BY <1>4 DEF Seeking
      <3>2. s.heap \subseteq [hops : Nat, width : widths, path : Seq(nodes)]
        BY <2>1 DEF Searches
      <3>3. nodes \subseteq Int /\ widths \subseteq Int
        BY <1>1 DEF Network
      <3>4. ASSUME NEW e \in s.heap PROVE e \in [hops : Nat, width : Int, path : Seq(Int)]
        <4>1. e = [hops |-> e.hops, width |-> e.width, path |-> e.path]
              /\ e.hops \in Nat /\ e.width \in widths /\ e.path \in Seq(nodes)
          BY <3>2
        <4>2. e.path \in Seq(Int)
          BY <3>3, <4>1
        <4> QED  BY <3>3, <4>1, <4>2
      <3> QED  BY <3>1, <3>4
    <2>3. Short(nodes, s.heap)
      BY <1>4, SeekingShort
    <2>4. s.heap = {}
      <3>1. CASE Least(s.heap) = {}
        BY <2>2, <3>1, LeastOfHeap
      <3>2. CASE n = 0
        <4>1. Cardinality(Room(nodes, s.heap)) \in Nat
          BY <2>2, <2>3, RoomFinite
        <4>2. Cardinality(Room(nodes, s.heap)) = 0
          BY <1>4, <3>2, <4>1
        <4> QED  BY <2>2, <2>3, <4>2, RoomFinite
      <3> QED  BY <1>4, <3>1, <3>2
    <2>5. settle[n][s] = NoPath
      <3>1. settle[n][s] = Onward(residual, dst, settle, n, s)
        BY <1>3, <2>1
      <3> QED  BY <1>4, <3>1 DEF Onward
    <2>6. Unbeaten(residual, src, dst, nodes, NoPath)
      BY <1>4, <2>4, Exhausted
    <2> QED  BY <2>5, <2>6
  <1>5. 0 \in S
    <2>1. ASSUME NEW s, Sought(s), Cardinality(Room(nodes, s.heap)) <= 0
          PROVE  Unbeaten(residual, src, dst, nodes, settle[0][s])
      <3>1. 0 \in 0..most
        BY <1>2
      <3> HIDE DEF Sought
      <3> QED  BY <1>4, <2>1, <3>1
    <2> HIDE DEF Sought
    <2>2. Good(0)
      BY <2>1
    <2> HIDE DEF Good
    <2> QED  BY <2>2
  <1>6. ASSUME NEW n \in Nat, n \in S PROVE n + 1 \in S
    <2> SUFFICES ASSUME n + 1 <= most, NEW s, Sought(s), Cardinality(Room(nodes, s.heap)) <= n + 1
                 PROVE  Unbeaten(residual, src, dst, nodes, settle[n + 1][s])
      OBVIOUS
    <2>1. Good(n) /\ n + 1 \in 0..most
      BY <1>2, <1>6
    <2> HIDE DEF Good
    <2>2. CASE Least(s.heap) = {}
      BY <1>4, <2>1, <2>2
    <2>3. CASE Least(s.heap) # {}
      <3> DEFINE top == Top(s.heap)
      <3>1. top \in Least(s.heap)
        BY <2>3 DEF Top
      <3>2. top \in s.heap
        BY <3>1 DEF Least
      <3>3. s \in Searches(nodes, widths) /\ Sound(residual, s)
        BY DEF Searching
      <3>4. settle[n + 1][s] = IF Last(top.path) = dst THEN top.path
                               ELSE settle[n][Popped(residual, s, top)]
        <4>1. settle[n + 1][s] = Onward(residual, dst, settle, n + 1, s)
          BY <1>3, <2>1, <3>3
        <4>2. n + 1 # 0 /\ n + 1 - 1 = n
          OBVIOUS
        <4> QED  BY <2>3, <4>1, <4>2 DEF Onward
      <3> HIDE DEF top
      <3>5. CASE Last(top.path) = dst
        <4>1. Unbeaten(residual, src, dst, nodes, top.path)
          BY <3>1, <3>5, Arrived
        <4> QED  BY <3>4, <3>5, <4>1
      <3>6. CASE Last(top.path) # dst
        <4> DEFINE v == Popped(residual, s, top)
        <4>1. Seeking(residual, src, dst, nodes, widest, v)
          BY <3>2, <3>6, PoppedSeeking
        <4>2. v \in Searches(nodes, widths) /\ Sound(residual, v)
          BY <1>1, <3>2, <3>3, PoppedSound DEF Network
        <4>3. Searching(residual, nodes, widths, src, widest, v)
          BY <4>2 DEF Searching
        <4>4. /\ Cardinality(Room(nodes, v.heap)) < Cardinality(Room(nodes, s.heap))
              /\ Cardinality(Room(nodes, v.heap)) \in Nat
              /\ Cardinality(Room(nodes, s.heap)) \in Nat
          BY <3>2, PoppedRoom
        <4> HIDE DEF v
        <4>5. Cardinality(Room(nodes, v.heap)) <= n
          BY <4>4
        <4>6. Unbeaten(residual, src, dst, nodes, settle[n][v])
          BY <2>1, <4>1, <4>3, <4>5 DEF Good
        <4> QED  BY <3>4, <3>6, <4>6 DEF v
      <3> QED  BY <3>5, <3>6
    <2> QED  BY <2>2, <2>3
  <1>7. Good(most)
    <2>1. most \in S
      <3> HIDE DEF S
      <3> QED  BY <1>2, <1>5, <1>6, SetInduction
    <2> QED  BY <1>2, <2>1
  <1>8. Unbeaten(residual, src, dst, nodes, settle[most][search])
    BY <1>7 DEF most
  <1> QED  BY <1>3, <1>8

\* The reference: the walks without loops, one link longer each round.
Longer(links, inner, paths) ==
    paths \cup UNION {{Append(w, b) : b \in {b \in inner \ ToSet(w) : <<Last(w), b>> \in links}} : w \in paths}

LEMMA LongerHas ==
    ASSUME NEW links, NEW inner, NEW paths, NEW v \in paths, NEW b \in inner \ ToSet(v),
           <<Last(v), b>> \in links
    PROVE  Append(v, b) \in Longer(links, inner, paths)
  <1> DEFINE Free(w) == {c \in inner \ ToSet(w) : <<Last(w), c>> \in links}
  <1> DEFINE E(w) == {Append(w, c) : c \in Free(w)}
  <1>1. Append(v, b) \in E(v)
    OBVIOUS
  <1>2. Longer(links, inner, paths) = paths \cup UNION {E(w) : w \in paths}
    BY DEF Longer
  <1> HIDE DEF E
  <1> QED  BY <1>1, <1>2

LEMMA LoopFreeWalks ==
    ASSUME NEW links, NEW inner, NEW src, NEW dst, IsFiniteSet(inner)
    PROVE  \E walks : /\ LoopFree(links, inner, src, dst) = {w \in walks[Cardinality(inner)] : Last(w) = dst}
                      /\ walks[0] = {<<src>>}
                      /\ \A k \in 1..Cardinality(inner) : walks[k] = Longer(links, inner, walks[k - 1])
  <1> DEFINE n == Cardinality(inner)
  <1> DEFINE Body(f, k) == IF k = 0 THEN {<<src>>}
                           ELSE CHOOSE r \in {Longer(links, inner, y) : y \in {f[k - 1]}} : TRUE
  <1> DEFINE Iterates(f) == f = [k \in 0..n |-> Body(f, k)]
  <1> DEFINE Upto(f, m) == \A k \in 0..m : f[k] = Body(f, k)
  <1> DEFINE S == {m \in Nat : \E f : Upto(f, m)}
  <1> DEFINE walks == CHOOSE f : Iterates(f)
  <1>1. LoopFree(links, inner, src, dst) = {w \in walks[n] : Last(w) = dst}
    BY DEF LoopFree, Once, Longer
  <1>2. \A f, g, k : k = 0 \/ f[k - 1] = g[k - 1] => Body(f, k) = Body(g, k)
    <2> SUFFICES ASSUME NEW f, NEW g, NEW k, k = 0 \/ f[k - 1] = g[k - 1] PROVE Body(f, k) = Body(g, k)
      OBVIOUS
    <2>1. CASE k = 0
      BY <2>1
    <2>2. CASE f[k - 1] = g[k - 1]
      <3> DEFINE x == f[k - 1]
      <3>1. g[k - 1] = x
        BY <2>2
      <3> QED  BY <3>1, Zenon
    <2> QED  BY <2>1, <2>2
  <1>3. \A f : Body(f, 0) = {<<src>>}
    OBVIOUS
  <1>4. \A f : \A k \in 1..n : Body(f, k) = Longer(links, inner, f[k - 1])
    OBVIOUS
  <1>5. n \in Nat
    BY FS_CardinalityType
  <1> HIDE DEF n, Body
  <1>6. 0 \in S
    <2> DEFINE f == [k \in {0} |-> {<<src>>}]
    <2>1. f[0] = {<<src>>} /\ 0..0 = {0}
      OBVIOUS
    <2> HIDE DEF f
    <2>2. Upto(f, 0)
      BY <1>3, <2>1
    <2> HIDE DEF Upto
    <2> QED  BY <2>2
  <1>7. ASSUME NEW m \in Nat, m \in S PROVE m + 1 \in S
    <2>1. PICK f : Upto(f, m)
      BY <1>7
    <2> DEFINE g == [k \in 0..(m + 1) |-> IF k <= m THEN f[k] ELSE Body(f, m + 1)]
    <2>2. \A k \in 0..m : g[k] = f[k] /\ (k = 0 \/ f[k - 1] = g[k - 1])
      OBVIOUS
    <2>3. g[m + 1] = Body(f, m + 1) /\ f[m + 1 - 1] = g[m + 1 - 1]
      OBVIOUS
    <2> HIDE DEF g
    <2>4. \A k \in 0..m : g[k] = Body(g, k)
      BY <1>2, <2>1, <2>2
    <2>5. g[m + 1] = Body(g, m + 1)
      BY <1>2, <2>3
    <2>6. Upto(g, m + 1)
      BY <2>4, <2>5
    <2> HIDE DEF Upto
    <2> QED  BY <2>6
  <1>8. PICK f0 : Upto(f0, n)
    <2>1. n \in S
      <3> HIDE DEF S
      <3> QED  BY <1>5, <1>6, <1>7, SetInduction
    <2> HIDE DEF Upto
    <2> QED  BY <2>1
  <1>9. \E f : Iterates(f)
    <2> DEFINE f == [k \in 0..n |-> f0[k]]
    <2>1. \A k \in 0..n : f[k] = f0[k] /\ (k = 0 \/ f0[k - 1] = f[k - 1])
      BY <1>5
    <2>2. f = [k \in 0..n |-> f[k]]
      OBVIOUS
    <2> HIDE DEF f
    <2>3. \A k \in 0..n : f[k] = Body(f, k)
      BY <1>2, <1>8, <2>1
    <2> QED  BY <2>2, <2>3
  <1>10. Iterates(walks)
    BY <1>9
  <1> HIDE DEF walks
  <1>11. \A k \in 0..n : walks[k] = Body(walks, k)
    BY <1>10
  <1>12. walks[0] = {<<src>>} /\ \A k \in 1..n : walks[k] = Longer(links, inner, walks[k - 1])
    <2>1. 0 \in 0..n /\ \A k \in 1..n : k \in 0..n
      BY <1>5
    <2> QED  BY <1>3, <1>4, <1>11, <2>1
  <1> QED  BY <1>1, <1>12 DEF n

\* The part of a route up to its k-th node, or one that goes on with a node, is one.
LEMMA RouteLonger ==
    ASSUME NEW residual, NEW nodes, NEW src, NEW w \in Seq(nodes), NEW b \in nodes \ ToSet(w),
           Route(residual, src, Last(w), w), <<Last(w), b>> \in DOMAIN residual
    PROVE  Append(w, b) \in Seq(nodes) /\ Route(residual, src, b, Append(w, b))
  <1> DEFINE q == Append(w, b)
  <1>1. /\ q \in Seq(nodes) /\ Len(q) = Len(w) + 1 /\ q[Len(w) + 1] = b
        /\ \A i \in 1..Len(w) : q[i] = w[i] /\ q[i] # b
        /\ Len(w) \in Nat /\ Len(w) >= 1
    BY DEF Route, ToSet
  <1> HIDE DEF q
  <1>2. q[1] = src /\ Last(q) = b
    BY <1>1 DEF Route, Last
  <1>3. LinksOf(q) \subseteq DOMAIN residual
    <2> SUFFICES ASSUME NEW i \in 1..(Len(q) - 1) PROVE <<q[i], q[i + 1]>> \in DOMAIN residual
      BY DEF LinksOf
    <2>1. CASE i < Len(w)
      <3>1. <<w[i], w[i + 1]>> \in LinksOf(w) /\ q[i] = w[i] /\ q[i + 1] = w[i + 1]
        BY <1>1, <2>1 DEF LinksOf
      <3> QED  BY <3>1 DEF Route
    <2>2. CASE ~(i < Len(w))
      <3>1. i = Len(w)
        BY <1>1, <2>2
      <3> QED  BY <1>1, <3>1 DEF Last
    <2> QED  BY <2>1, <2>2
  <1>4. ASSUME NEW i \in 1..Len(q), NEW j \in 1..Len(q), q[i] = q[j] PROVE i = j
    <2>1. CASE i \in 1..Len(w) /\ j \in 1..Len(w)
      BY <1>1, <1>4, <2>1 DEF Route
    <2>2. CASE ~(i \in 1..Len(w) /\ j \in 1..Len(w))
      BY <1>1, <1>4, <2>2
    <2> QED  BY <2>1, <2>2
  <1>5. Route(residual, src, b, q)
    BY <1>1, <1>2, <1>3, <1>4 DEF Route
  <1> QED  BY <1>1, <1>5 DEF q

LEMMA RoutePart ==
    ASSUME NEW residual, NEW nodes, NEW src, NEW dst, NEW w \in Seq(nodes), Route(residual, src, dst, w),
           NEW k \in Nat, k + 1 < Len(w)
    PROVE  LET part(m) == SubSeq(w, 1, m)
           IN  /\ part(k + 2) = Append(part(k + 1), w[k + 2])
               /\ w[k + 2] \notin ToSet(part(k + 1))
               /\ <<Last(part(k + 1)), w[k + 2]>> \in DOMAIN residual
  <1> DEFINE p == SubSeq(w, 1, k + 1)
  <1> DEFINE q == SubSeq(w, 1, k + 2)
  <1>1. /\ Len(w) \in Nat /\ k + 2 \in 1..Len(w) /\ k + 1 \in 1..Len(w) /\ k + 1 \in 1..(Len(w) - 1)
        /\ k + 1 + 1 = k + 2
    OBVIOUS
  <1>2. /\ p \in Seq(nodes) /\ Len(p) = k + 1 /\ \A i \in 1..(k + 1) : p[i] = w[i]
        /\ q \in Seq(nodes) /\ Len(q) = k + 2 /\ \A i \in 1..(k + 2) : q[i] = w[i]
    BY <1>1
  <1> HIDE DEF p, q
  <1>3. w[k + 2] \in nodes
    BY <1>1
  <1>4. q = Append(p, w[k + 2])
    <2> DEFINE r == Append(p, w[k + 2])
    <2>1. r \in Seq(nodes) /\ Len(r) = k + 2 /\ r[k + 2] = w[k + 2] /\ \A i \in 1..(k + 1) : r[i] = w[i]
      BY <1>2, <1>3
    <2> HIDE DEF r
    <2>2. \A i \in 1..Len(q) : q[i] = r[i]
      BY <1>2, <2>1
    <2>3. q = r
      BY <1>2, <2>1, <2>2, SeqEqual
    <2> QED  BY <2>3 DEF r
  <1>5. w[k + 2] \notin ToSet(p)
    <2> SUFFICES ASSUME NEW i \in 1..(k + 1), p[i] = w[k + 2] PROVE FALSE
      BY <1>2 DEF ToSet
    <2>1. w[i] = w[k + 2] /\ i \in 1..Len(w) /\ i # k + 2
      BY <1>1, <1>2
    <2> QED  BY <1>1, <2>1 DEF Route
  <1>6. <<Last(p), w[k + 2]>> \in DOMAIN residual
    <2>1. Last(p) = w[k + 1]
      BY <1>2 DEF Last
    <2>2. <<w[k + 1], w[k + 1 + 1]>> \in LinksOf(w)
      BY <1>1 DEF LinksOf
    <2> QED  BY <1>1, <2>1, <2>2 DEF Route
  <1> QED  BY <1>4, <1>5, <1>6 DEF p, q

\* The reference has exactly the routes.
LEMMA LoopFreeIs ==
    ASSUME NEW residual, NEW inner, NEW src, NEW dst, IsFiniteSet(inner),
           \A l \in DOMAIN residual : l[2] \in inner
    PROVE  \A w : w \in LoopFree(DOMAIN residual, inner, src, dst)
                     <=> w \in Seq({src} \cup inner) /\ Route(residual, src, dst, w)
  <1> DEFINE nodes == {src} \cup inner
  <1> DEFINE links == DOMAIN residual
  <1> DEFINE N == Cardinality(inner)
  <1>1. N \in Nat
    BY FS_CardinalityType
  <1>2. PICK walks : /\ LoopFree(links, inner, src, dst) = {w \in walks[N] : Last(w) = dst}
                     /\ walks[0] = {<<src>>}
                     /\ \A k \in 1..N : walks[k] = Longer(links, inner, walks[k - 1])
    BY LoopFreeWalks
  <1>3. \A k \in Nat : k + 1 <= N => walks[k + 1] = Longer(links, inner, walks[k])
    <2>1. \A k \in Nat : k + 1 - 1 = k /\ (k + 1 <= N => k + 1 \in 1..N)
      BY <1>1
    <2> QED  BY <1>2, <2>1
  <1>4. /\ <<src>> \in Seq(nodes) /\ Route(residual, src, src, <<src>>) /\ Last(<<src>>) = src
    <2>1. Len(<<src>>) = 1 /\ 1..(1 - 1) = {} /\ 1..1 = {1} /\ <<src>>[1] = src /\ src \in nodes
      OBVIOUS
    <2>2. LinksOf(<<src>>) = {}
      BY <2>1 DEF LinksOf
    <2> QED  BY <2>1, <2>2 DEF Route, Last
  <1> DEFINE Sent(k) == \A w \in walks[k] : w \in Seq(nodes) /\ Route(residual, src, Last(w), w)
  <1> DEFINE A == {k \in Nat : k <= N => Sent(k)}
  <1>5. 0 \in A
    BY <1>2, <1>4
  <1>6. ASSUME NEW k \in Nat, k \in A PROVE k + 1 \in A
    <2> SUFFICES ASSUME k + 1 <= N, NEW v \in walks[k + 1]
                 PROVE  v \in Seq(nodes) /\ Route(residual, src, Last(v), v)
      OBVIOUS
    <2>1. Sent(k) /\ v \in Longer(links, inner, walks[k])
      BY <1>1, <1>3, <1>6
    <2>2. CASE v \in walks[k]
      BY <2>1, <2>2
    <2>3. CASE v \notin walks[k]
      <3>1. PICK w \in walks[k] : \E b \in inner \ ToSet(w) : <<Last(w), b>> \in links /\ v = Append(w, b)
        BY <2>1, <2>3 DEF Longer
      <3>2. PICK b \in inner \ ToSet(w) : <<Last(w), b>> \in links /\ v = Append(w, b)
        BY <3>1
      <3>3. w \in Seq(nodes) /\ Route(residual, src, Last(w), w) /\ b \in nodes \ ToSet(w)
        BY <2>1
      <3>4. v \in Seq(nodes) /\ Route(residual, src, b, v)
        BY <3>2, <3>3, RouteLonger
      <3>5. b = Last(v)
        BY <3>4 DEF Route
      <3> QED  BY <3>4, <3>5
    <2> QED  BY <2>2, <2>3
  <1>7. Sent(N)
    <2>1. N \in A
      <3> HIDE DEF A
      <3> QED  BY <1>1, <1>5, <1>6, SetInduction
    <2> QED  BY <1>1, <2>1
  <1>8. ASSUME NEW w \in Seq(nodes), Route(residual, src, dst, w) PROVE w \in walks[N]
    <2> DEFINE part(m) == SubSeq(w, 1, m)
    <2> DEFINE Round(k) == IF k < Len(w) THEN part(k + 1) ELSE w
    <2> DEFINE B == {k \in Nat : k <= N => Round(k) \in walks[k]}
    <2>1. Len(w) \in Nat /\ Len(w) >= 1 /\ w[1] = src /\ part(Len(w)) = w
      BY <1>8 DEF Route
    <2>2. 0 \in B
      <3>1. part(1) = <<src>>
        <4>1. part(1) \in Seq(nodes) /\ Len(part(1)) = 1 /\ part(1)[1] = src
          BY <2>1
        <4> HIDE DEF part
        <4> QED  BY <4>1
      <3>2. Round(0) = part(1)
        <4> HIDE DEF part
        <4> QED  BY <2>1
      <3> HIDE DEF Round, part
      <3> QED  BY <1>2, <3>1, <3>2
    <2>3. ASSUME NEW k \in Nat, k \in B PROVE k + 1 \in B
      <3> SUFFICES ASSUME k + 1 <= N PROVE Round(k + 1) \in walks[k + 1]
        OBVIOUS
      <3>1. Round(k) \in walks[k] /\ walks[k + 1] = Longer(links, inner, walks[k])
        BY <1>1, <1>3, <2>3
      <3>2. CASE k + 1 < Len(w)
        <4>1. Round(k) = part(k + 1) /\ Round(k + 1) = part(k + 2)
          <5>1. k < Len(w) /\ k + 1 + 1 = k + 2
            BY <2>1, <3>2
          <5> HIDE DEF part
          <5> QED  BY <3>2, <5>1
        <4>2. /\ part(k + 2) = Append(part(k + 1), w[k + 2]) /\ w[k + 2] \notin ToSet(part(k + 1))
              /\ <<Last(part(k + 1)), w[k + 2]>> \in DOMAIN residual
          BY <1>8, <3>2, RoutePart
        <4> HIDE DEF part, Round
        <4>3. w[k + 2] \in inner
          <5> DEFINE l == <<Last(part(k + 1)), w[k + 2]>>
          <5>1. l \in DOMAIN residual /\ l[2] = w[k + 2]
            BY <4>2
          <5> QED  BY <5>1
        <4>4. PICK v : v = part(k + 1)
          OBVIOUS
        <4>5. PICK b : b = w[k + 2]
          OBVIOUS
        <4>6. v \in walks[k] /\ b \in inner \ ToSet(v) /\ <<Last(v), b>> \in links
          BY <3>1, <4>1, <4>2, <4>3, <4>4, <4>5
        <4>7. Append(v, b) \in Longer(links, inner, walks[k])
          BY <4>6, LongerHas
        <4>8. Append(v, b) = Round(k + 1)
          BY <4>1, <4>2, <4>4, <4>5
        <4> QED  BY <3>1, <4>7, <4>8
      <3>3. CASE ~(k + 1 < Len(w))
        <4>1. Round(k + 1) = w /\ Round(k) = w
          <5> HIDE DEF part
          <5>1. k + 1 = Len(w) \/ ~(k < Len(w))
            BY <2>1, <3>3
          <5> QED  BY <2>1, <3>3, <5>1
        <4> HIDE DEF Round
        <4> QED  BY <3>1, <4>1 DEF Longer
      <3> QED  BY <3>2, <3>3
    <2>4. Round(N) \in walks[N]
      <3>1. N \in B
        <4> HIDE DEF B
        <4> QED  BY <1>1, <2>2, <2>3, SetInduction
      <3> QED  BY <1>1, <3>1
    <2>5. Len(w) <= N + 1
      <3>1. IsFiniteSet(nodes) /\ Cardinality(nodes) <= N + 1
        <4>1. nodes = inner \cup {src}
          OBVIOUS
        <4> HIDE DEF nodes
        <4>2. IsFiniteSet(inner \cup {src})
              /\ (Cardinality(inner \cup {src}) = N \/ Cardinality(inner \cup {src}) = N + 1)
          BY FS_AddElement
        <4> QED  BY <1>1, <4>1, <4>2
      <3>2. Len(w) <= Cardinality(nodes) /\ Cardinality(nodes) \in Nat
        BY <1>8, <3>1, PathNodes DEF Route
      <3> QED  BY <1>1, <2>1, <3>1, <3>2
    <2>6. Round(N) = w
      <3>1. ~(N < Len(w)) \/ N + 1 = Len(w)
        BY <1>1, <2>1, <2>5
      <3> HIDE DEF part
      <3> QED  BY <2>1, <3>1
    <2> QED  BY <2>4, <2>6
  <1>9. ASSUME NEW w PROVE w \in LoopFree(links, inner, src, dst) <=> w \in Seq(nodes) /\ Route(residual, src, dst, w)
    <2>1. ASSUME w \in Seq(nodes), Route(residual, src, dst, w)
          PROVE  w \in walks[N] /\ Last(w) = dst
      BY <1>8, <2>1 DEF Route
    <2> QED  BY <1>2, <1>7, <2>1
  <1> QED  BY <1>9

\* A sum over a set, one element after the other, in the order FoldSet takes them.
Pick(s) == CHOOSE x \in s : TRUE

LEMMA SumExists ==
    ASSUME NEW weight, NEW T, IsFiniteSet(T)
    PROVE  \E f : f = [s \in SUBSET T |-> IF s = {} THEN 0
                                          ELSE f[s \ {Pick(s)}] + weight[Pick(s)]]
  <1> DEFINE Body(f, s) == IF s = {} THEN 0 ELSE f[s \ {Pick(s)}] + weight[Pick(s)]
  <1> DEFINE Recurs(f, n) == \A s \in SUBSET T : Cardinality(s) <= n => f[s] = Body(f, s)
  <1> DEFINE S == {n \in Nat : \E f : Recurs(f, n)}
  <1>1. \A s \in SUBSET T : IsFiniteSet(s) /\ Cardinality(s) \in Nat
    BY FS_Subset, FS_CardinalityType
  <1>2. \A s \in SUBSET T : s # {} => Pick(s) \in s /\ s \ {Pick(s)} \in SUBSET T
    BY DEF Pick
  <1>3. \A s \in SUBSET T : s # {} => Cardinality(s \ {Pick(s)}) = Cardinality(s) - 1
    BY <1>1, <1>2, FS_RemoveElement
  <1>4. \A s \in SUBSET T : Cardinality(s) <= 0 => s = {}
    BY <1>1, FS_EmptySet
  <1>5. 0 \in S
    <2>1. Recurs([s \in SUBSET T |-> 0], 0)
      BY <1>4
    <2> QED  BY <2>1
  <1>6. ASSUME NEW n \in Nat, n \in S PROVE n + 1 \in S
    <2>1. PICK f : Recurs(f, n)
      BY <1>6
    <2> DEFINE g == [s \in SUBSET T |-> Body(f, s)]
    <2>2. \A s \in SUBSET T : g[s] = Body(f, s)
      OBVIOUS
    <2> HIDE DEF g
    <2>3. Recurs(g, n + 1)
      <3> SUFFICES ASSUME NEW s \in SUBSET T, Cardinality(s) <= n + 1 PROVE g[s] = Body(g, s)
        OBVIOUS
      <3>1. CASE s = {}
        BY <2>2, <3>1
      <3>2. CASE s # {}
        <4> DEFINE u == s \ {Pick(s)}
        <4>1. u \in SUBSET T /\ Cardinality(u) <= n
          BY <1>1, <1>2, <1>3, <3>2
        <4>2. f[u] = Body(f, u) /\ g[u] = Body(f, u)
          BY <2>1, <2>2, <4>1
        <4> HIDE DEF u
        <4>3. g[s] = f[u] + weight[Pick(s)]
          BY <2>2, <3>2 DEF u
        <4> QED  BY <3>2, <4>2, <4>3 DEF u
      <3> QED  BY <3>1, <3>2
    <2>4. \E f1 : Recurs(f1, n + 1)
      BY <2>3
    <2> HIDE DEF Recurs
    <2> QED  BY <2>4
  <1>7. PICK f0 : Recurs(f0, Cardinality(T))
    <2> HIDE DEF Recurs
    <2>1. Cardinality(T) \in S
      <3> HIDE DEF S
      <3> QED  BY <1>1, <1>5, <1>6, SetInduction
    <2> QED  BY <2>1
  <1>8. \A s \in SUBSET T : f0[s] = Body(f0, s)
    <2>1. \A s \in SUBSET T : Cardinality(s) <= Cardinality(T)
      BY FS_Subset
    <2> QED  BY <1>7, <2>1
  <1> DEFINE f == [s \in SUBSET T |-> f0[s]]
  <1>9. \A s \in SUBSET T : f[s] = f0[s]
    OBVIOUS
  <1>10. \A s \in SUBSET T : Body(f, s) = f0[s]
    BY <1>2, <1>8, <1>9
  <1>11. f = [s \in SUBSET T |-> Body(f, s)]
    <2>1. f = [s \in SUBSET T |-> f0[s]]
      OBVIOUS
    <2> HIDE DEF f
    <2> QED  BY <1>10, <2>1
  <1> HIDE DEF f
  <1> QED  BY <1>11

LEMMA SumBounds ==
    ASSUME NEW weight, NEW T, IsFiniteSet(T), \A x \in T : weight[x] \in Nat, NEW f,
           \A s \in SUBSET T : IF s = {} THEN f[s] = 0 ELSE \E x \in s : f[s] = f[s \ {x}] + weight[x]
    PROVE  f[T] \in Nat /\ \A x \in T : weight[x] <= f[T]
  <1> DEFINE Bounds(s) == f[s] \in Nat /\ \A x \in s : weight[x] <= f[s]
  <1> DEFINE S == {n \in Nat : \A s \in SUBSET T : Cardinality(s) <= n => Bounds(s)}
  <1>1. \A s \in SUBSET T : IsFiniteSet(s) /\ Cardinality(s) \in Nat
    BY FS_Subset, FS_CardinalityType
  <1>2. 0 \in S
    <2>1. \A s \in SUBSET T : Cardinality(s) <= 0 => s = {}
      BY <1>1, FS_EmptySet
    <2>2. f[{}] = 0
      OBVIOUS
    <2> QED  BY <2>1, <2>2
  <1>3. ASSUME NEW n \in Nat, n \in S PROVE n + 1 \in S
    <2>1. ASSUME NEW s \in SUBSET T, Cardinality(s) <= n + 1 PROVE Bounds(s)
      <3>1. CASE s = {}
        BY <3>1
      <3>2. CASE s # {}
        <4>1. PICK x \in s : f[s] = f[s \ {x}] + weight[x]
          BY <3>2
        <4>2. s \ {x} \in SUBSET T /\ Cardinality(s \ {x}) <= n
          BY <1>1, <2>1, FS_RemoveElement
        <4>3. f[s \ {x}] \in Nat /\ (\A y \in s \ {x} : weight[y] <= f[s \ {x}]) /\ weight[x] \in Nat
          BY <1>3, <4>2
        <4>4. \A y \in s : weight[y] \in Nat
          OBVIOUS
        <4>5. f[s] \in Nat
          BY <4>1, <4>3
        <4>6. ASSUME NEW y \in s PROVE weight[y] <= f[s]
          <5>1. CASE y = x
            BY <4>1, <4>3, <5>1
          <5>2. CASE y # x
            <6>1. weight[y] <= f[s \ {x}] /\ weight[y] \in Nat
              BY <4>3, <4>4, <5>2
            <6> QED  BY <4>1, <4>3, <6>1
          <5> QED  BY <5>1, <5>2
        <4> QED  BY <4>5, <4>6
      <3> QED  BY <3>1, <3>2
    <2> QED  BY <2>1
  <1>4. Cardinality(T) \in S
    <2> HIDE DEF S
    <2>1. Cardinality(T) \in Nat
      BY <1>1
    <2> QED  BY <1>2, <1>3, <2>1, SetInduction
  <1> QED  BY <1>1, <1>4

LEMMA CapacitySum ==
    ASSUME NEW cap, IsFiniteSet(DOMAIN cap), \A l \in DOMAIN cap : cap[l] \in Nat
    PROVE  LET sum == FoldSet(LAMBDA l, acc : acc + cap[l], 0, DOMAIN cap)
           IN  sum \in Nat /\ \A l \in DOMAIN cap : cap[l] <= sum
  <1> DEFINE T == DOMAIN cap
  <1> DEFINE sum == FoldSet(LAMBDA l, acc : acc + cap[l], 0, T)
  <1> DEFINE Body(f, s) == IF s = {} THEN 0 ELSE f[s \ {Pick(s)}] + cap[Pick(s)]
  <1> DEFINE Iterates(f) == f = [s \in SUBSET T |-> Body(f, s)]
  <1> DEFINE iter == CHOOSE f : Iterates(f)
  <1>1. sum = iter[T]
    BY DEF FoldSet, MapThenFoldSet, Pick
  <1>2. \E f : Iterates(f)
    BY SumExists
  <1>3. Iterates(iter)
    BY <1>2
  <1>4. \A s \in SUBSET T : s # {} => Pick(s) \in s
    BY DEF Pick
  <1> HIDE DEF iter, sum
  <1>5. \A s \in SUBSET T : iter[s] = Body(iter, s)
    BY <1>3
  <1>6. \A s \in SUBSET T : IF s = {} THEN iter[s] = 0 ELSE \E x \in s : iter[s] = iter[s \ {x}] + cap[x]
    BY <1>4, <1>5
  <1>7. iter[T] \in Nat /\ \A l \in T : cap[l] <= iter[T]
    BY <1>6, SumBounds
  <1> QED  BY <1>1, <1>7 DEF sum

\* The search starts at src, with nothing passed on yet.
LEMMA SearchStarts ==
    ASSUME NEW residual, NEW nodes, NEW widths, NEW src, NEW dst, NEW widest,
           Network(residual, nodes, widths), src \in nodes, widest \in widths,
           \A l \in DOMAIN residual : residual[l] < widest
    PROVE  LET start == [heap |-> {[hops |-> 0, width |-> widest, path |-> <<src>>]},
                         best |-> [n \in nodes |-> [hops |-> IF n = src THEN 0 ELSE Cardinality(nodes),
                                                    width |-> widest]]]
           IN  /\ Searching(residual, nodes, widths, src, widest, start)
               /\ Seeking(residual, src, dst, nodes, widest, start)
               /\ Cardinality(Room(nodes, start.heap)) <= Walks(Cardinality(nodes))
  <1> DEFINE entry == [hops |-> 0, width |-> widest, path |-> <<src>>]
  <1> DEFINE best == [n \in nodes |-> [hops |-> IF n = src THEN 0 ELSE Cardinality(nodes), width |-> widest]]
  <1> DEFINE start == [heap |-> {entry}, best |-> best]
  <1> DEFINE N == Cardinality(nodes)
  <1>1. IsFiniteSet(nodes) /\ N \in Nat /\ widest \in Int
    BY FS_CardinalityType DEF Network
  <1>2. <<src>> \in Seq(nodes) /\ Len(<<src>>) = 1 /\ 1..(1 - 1) = {} /\ <<src>>[1] = src
    OBVIOUS
  <1>3. LinksOf(<<src>>) = {} /\ Last(<<src>>) = src
    BY <1>2 DEF LinksOf, Last
  <1>4. /\ entry.hops = 0 /\ entry.width = widest /\ entry.path = <<src>>
        /\ entry \in [hops : Nat, width : widths, path : Seq(nodes)]
    BY <1>2
  <1>5. /\ best[src].hops = 0 /\ best[src].width = widest
        /\ \A n \in nodes : n # src => best[n].hops = N
        /\ best \in [nodes -> [hops : Nat, width : widths]]
    BY <1>1
  <1>6. start.heap = {entry} /\ start.best = best /\ start \in Searches(nodes, widths)
    BY <1>4, <1>5 DEF Searches
  <1> HIDE DEF entry, best
  <1> HIDE DEF start
  <1>7. Sound(residual, start)
    BY <1>2, <1>3, <1>4, <1>6 DEF Sound
  <1>8. Searching(residual, nodes, widths, src, widest, start)
    BY <1>1, <1>6, <1>7 DEF Searching
  <1>9. AsGood(start.best[src], entry) /\ AsGood(entry, start.best[src])
        /\ AsGood(start.best[src], [hops |-> 0, width |-> widest])
    BY <1>1, <1>4, <1>5, <1>6 DEF AsGood
  <1>10. Held(residual, src, widest, entry)
    <2>1. \A i, j \in 1..Len(<<src>>) : <<src>>[i] = <<src>>[j] => i = j
      BY <1>2
    <2> QED  BY <1>2, <1>3, <1>4, <2>1 DEF Held
  <1>11. \A i \in 1..Len(entry.path) : start.best[entry.path[i]].hops <= entry.hops
    BY <1>2, <1>4, <1>5, <1>6
  <1>12. \A n \in nodes : start.best[n].hops < N => Waiting(start, n)
    <2> SUFFICES ASSUME NEW n \in nodes, start.best[n].hops < N PROVE Waiting(start, n)
      OBVIOUS
    <2>1. n = src
      BY <1>1, <1>5, <1>6
    <2> QED  BY <1>3, <1>4, <1>6, <1>9, <2>1 DEF Waiting
  <1>13. Seeking(residual, src, dst, nodes, widest, start)
    <2>1. IsFiniteSet(start.heap)
      BY <1>6, FS_Singleton
    <2> QED  BY <1>3, <1>4, <1>6, <1>9, <1>10, <1>11, <1>12, <2>1 DEF Seeking
  <1>14. Cardinality(Room(nodes, start.heap)) <= Walks(N)
    <2>1. N # 0
      BY <1>1, FS_EmptySet
    <2>2. N - 1 \in Nat /\ N - 1 + 1 = N
      BY <1>1, <2>1
    <2> DEFINE w == Walks(N - 1)
    <2>3. w \in Nat /\ Walks(N - 1 + 1) = 1 + (N - 1 + 1) * w
      BY <2>2, WalksNat, WalksStep
    <2>4. Room(nodes, start.heap) = {entry} \X (1..Walks(N - Len(<<src>>)))
      <3>1. ASSUME NEW e PROVE Room(nodes, {e}) = {e} \X (1..Walks(N - Len(e.path)))
        BY DEF Room
      <3> HIDE DEF N
      <3> QED  BY <1>4, <1>6, <3>1
    <2>5. Room(nodes, start.heap) = {entry} \X (1..w)
      BY <1>2, <2>4
    <2> HIDE DEF w, N
    <2>6. IsFiniteSet(1..w) /\ Cardinality(1..w) = w
      BY <2>3, FS_Interval
    <2>7. Cardinality({entry} \X (1..w)) = 1 * w
      <3>1. IsFiniteSet({entry}) /\ Cardinality({entry}) = 1
        BY FS_Singleton
      <3> QED  BY <2>6, <3>1, FS_Product
    <2>8. N * w >= w
      <3>1. N - 1 \in Nat /\ (N - 1) * w >= 0
        BY <2>2, <2>3
      <3>2. N * w = (N - 1) * w + w
        BY <1>1, <2>3
      <3>3. (N - 1) * w \in Int /\ N * w \in Int
        BY <1>1, <2>3
      <3> QED  BY <2>3, <3>1, <3>2, <3>3
    <2>9. Walks(N) = 1 + N * w /\ N * w \in Int
      BY <1>1, <2>2, <2>3
    <2> QED  BY <2>3, <2>5, <2>7, <2>8, <2>9
  <1> QED  BY <1>8, <1>13, <1>14 DEF start, entry, best

\* compute() returns a widest of the shortest paths with room for bw, and None
\* only when no path has room, whatever the links, their capacities and loads.
THEOREM SearchIsOptimal ==
    ASSUME NEW cap, NEW used, NEW src \in Int, NEW dst \in Int, NEW bw, src # dst,
           IsFiniteSet(DOMAIN cap),
           \A l \in DOMAIN cap : l = <<l[1], l[2]>> /\ {l[1], l[2]} \subseteq Int /\ cap[l] \in Nat,
           \A l \in DOMAIN used : used[l] \in Nat
    PROVE  Optimal(Compute(cap, used, src, dst, bw), cap, used, src, dst, bw)
  <1> DEFINE sum == FoldSet(LAMBDA l, acc : acc + cap[l], 0, DOMAIN cap)
  <1> DEFINE widest == 1 + sum
  <1> DEFINE nodes == {src} \cup NodesIn(cap)
  <1> DEFINE start == [heap |-> {[hops |-> 0, width |-> widest, path |-> <<src>>]},
                       best |-> [n \in nodes |-> [hops |-> IF n = src THEN 0 ELSE Cardinality(nodes),
                                                  width |-> widest]]]
  <1> DEFINE residual == Residual(cap, used, bw)
  <1> DEFINE widths == {widest} \cup {residual[l] : l \in DOMAIN residual}
  <1> DEFINE path == Settle(residual, dst, nodes, widths, start)
  <1> DEFINE all == LoopFree(DOMAIN residual, NodesIn(cap), src, dst)
  <1>1. Compute(cap, used, src, dst, bw) = path
    BY DEF Compute, Once
  <1>2. IsFiniteSet(NodesIn(cap)) /\ IsFiniteSet(nodes) /\ nodes \subseteq Int /\ src \in nodes
    <2>1. IsFiniteSet(NodesIn(cap))
      BY NodesFinite
    <2>2. NodesIn(cap) \subseteq Int
      BY DEF NodesIn
    <2>3. IsFiniteSet(nodes)
      BY <2>1, FS_Singleton, FS_Union
    <2> QED  BY <2>1, <2>2, <2>3
  <1>3. sum \in Nat /\ \A l \in DOMAIN cap : cap[l] <= sum
    BY CapacitySum
  <1> HIDE DEF sum
  <1>4. /\ DOMAIN residual \subseteq DOMAIN cap
        /\ \A l \in DOMAIN residual : residual[l] \in Int /\ residual[l] <= cap[l]
    <2>1. \A l : Get(used, l) \in Nat
      BY DEF Get
    <2>2. \A l \in DOMAIN residual : l \in DOMAIN cap /\ residual[l] = cap[l] - Get(used, l)
      BY DEF Residual
    <2> HIDE DEF residual
    <2> QED  BY <2>1, <2>2
  <1>5. widest \in Int /\ \A l \in DOMAIN residual : residual[l] < widest
    <2> HIDE DEF residual
    <2> QED  BY <1>3, <1>4
  <1> HIDE DEF residual, widest
  <1>6. Network(residual, nodes, widths)
    <2>1. \A l \in DOMAIN residual : l = <<l[1], l[2]>> /\ {l[1], l[2]} \subseteq nodes
      BY <1>4 DEF NodesIn
    <2>2. widths \subseteq Int
      BY <1>4, <1>5
    <2> HIDE DEF nodes
    <2> QED  BY <1>2, <2>1, <2>2 DEF Network, Among
  <1>7. widest \in widths
    OBVIOUS
  <1> HIDE DEF widths, nodes
  <1>8. /\ Searching(residual, nodes, widths, src, widest, start)
        /\ Seeking(residual, src, dst, nodes, widest, start)
        /\ Cardinality(Room(nodes, start.heap)) <= Walks(Cardinality(nodes))
    BY <1>2, <1>5, <1>6, <1>7, SearchStarts
  <1> HIDE DEF start
  <1>9. Unbeaten(residual, src, dst, nodes, path)
    BY <1>8, SettledBest
  <1>10. \A w : w \in all <=> w \in Seq(nodes) /\ Route(residual, src, dst, w)
    <2>1. \A l \in DOMAIN residual : l[2] \in NodesIn(cap)
      BY <1>4 DEF NodesIn
    <2>2. \A w : w \in LoopFree(DOMAIN residual, NodesIn(cap), src, dst)
                    <=> w \in Seq({src} \cup NodesIn(cap)) /\ Route(residual, src, dst, w)
      BY <1>2, <2>1, LoopFreeIs
    <2> QED  BY <2>2 DEF nodes
  <1> HIDE DEF all, path
  <1>11. IF all = {} THEN path = NoPath
         ELSE /\ path \in all
              /\ \A other \in all :
                    \/ Len(path) < Len(other)
                    \/ (Len(path) = Len(other) /\ Width(residual, path) >= Width(residual, other))
    <2>1. CASE \A w \in Seq(nodes) : ~Route(residual, src, dst, w)
      BY <1>9, <1>10, <2>1 DEF Unbeaten
    <2>2. CASE ~\A w \in Seq(nodes) : ~Route(residual, src, dst, w)
      BY <1>9, <1>10, <2>2 DEF Unbeaten
    <2> QED  BY <2>1, <2>2
  <1> QED  BY <1>1, <1>11 DEF Optimal, all, residual

-----------------------------------------------------------------------------
(* Every link of every shortest path                                       *)

\* The nodes one link further; the links that lose a hop on the way back from
\* some nodes; and one round of each search that goes in rounds.
Further(cap, reached) == reached \cup {l[2] : l \in {l \in DOMAIN cap : l[1] \in reached}}
Into(cap, dist, reached) ==
    {l \in DOMAIN cap : l[2] \in reached /\ l[1] \in DOMAIN dist /\ dist[l[1]] = dist[l[2]] - 1}
RoundOf(kind, a, b, y) ==
    IF kind = "walks" THEN Longer(a, b, y)
    ELSE IF kind = "within" THEN Further(a, y)
    ELSE y \cup Into(a, b, {l[1] : l \in y})

InRounds(f, kind, a, b, base, n) == f[0] = base /\ \A k \in 1..n : f[k] = RoundOf(kind, a, b, f[k - 1])

LEMMA Rounds ==
    ASSUME NEW kind, NEW a, NEW b, NEW base, NEW n \in Nat
    PROVE  \E f : f = [k \in 0..n |-> f[k]] /\ InRounds(f, kind, a, b, base, n)
  <1> DEFINE Upto(f, m) == f[0] = base /\ \A k \in 1..m : f[k] = RoundOf(kind, a, b, f[k - 1])
  <1> DEFINE S == {m \in Nat : \E f : Upto(f, m)}
  <1>1. 0 \in S
    <2> DEFINE f == [k \in {0} |-> base]
    <2>1. f[0] = base /\ 1..0 = {}
      OBVIOUS
    <2> HIDE DEF f
    <2>2. Upto(f, 0)
      BY <2>1
    <2> HIDE DEF Upto
    <2> QED  BY <2>2
  <1>2. ASSUME NEW m \in Nat, m \in S PROVE m + 1 \in S
    <2>1. PICK f : Upto(f, m)
      BY <1>2
    <2> DEFINE next == RoundOf(kind, a, b, f[m])
    <2> DEFINE g == [k \in 0..(m + 1) |-> IF k <= m THEN f[k] ELSE next]
    <2> HIDE DEF next
    <2>2. g[0] = f[0] /\ \A k \in 1..m : g[k] = f[k] /\ g[k - 1] = f[k - 1]
      OBVIOUS
    <2>3. g[m + 1] = next /\ g[m + 1 - 1] = f[m]
      OBVIOUS
    <2> HIDE DEF g
    <2>4. \A k \in 1..m : g[k] = RoundOf(kind, a, b, g[k - 1])
      BY <2>1, <2>2
    <2>5. g[m + 1] = RoundOf(kind, a, b, g[m + 1 - 1])
      BY <2>3 DEF next
    <2>6. \A k \in 1..(m + 1) : k = m + 1 \/ k \in 1..m
      OBVIOUS
    <2>7. Upto(g, m + 1)
      BY <2>1, <2>2, <2>4, <2>5, <2>6
    <2> HIDE DEF Upto
    <2> QED  BY <2>7
  <1>3. PICK h : Upto(h, n)
    <2>1. n \in S
      <3> HIDE DEF S
      <3> QED  BY <1>1, <1>2, SetInduction
    <2> HIDE DEF Upto
    <2> QED  BY <2>1
  <1> DEFINE f == [k \in 0..n |-> h[k]]
  <1>4. f[0] = h[0] /\ (\A k \in 1..n : f[k] = h[k] /\ f[k - 1] = h[k - 1]) /\ f = [k \in 0..n |-> f[k]]
    OBVIOUS
  <1> HIDE DEF f
  <1>5. InRounds(f, kind, a, b, base, n)
    BY <1>3, <1>4 DEF InRounds
  <1> QED  BY <1>4, <1>5

DistancesBy(cap, src, far, dist, within) ==
    /\ within[0] = {src}
    /\ \A k \in 1..far : within[k] = Further(cap, within[k - 1])
    /\ dist = [n \in within[far] |-> Min({d \in 0..far : n \in within[d]})]

LEMMA DistancesAre ==
    ASSUME NEW cap, NEW src, IsFiniteSet(NodesIn(cap))
    PROVE  \E within : DistancesBy(cap, src, Cardinality(NodesIn(cap)), Distances(cap, src), within)
  <1> DEFINE far == Cardinality(NodesIn(cap))
  <1> DEFINE Body(f, k) == IF k = 0 THEN {src}
                           ELSE CHOOSE r \in {Further(cap, y) : y \in {f[k - 1]}} : TRUE
  <1> DEFINE Iterates(f) == f = [k \in 0..far |-> Body(f, k)]
  <1> DEFINE within == CHOOSE f : Iterates(f)
  <1>1. Distances(cap, src) = [n \in within[far] |-> Min({d \in 0..far : n \in within[d]})]
    BY DEF Distances, Once, Further
  <1>2. \A f : Body(f, 0) = {src}
    OBVIOUS
  <1>3. \A f : \A k \in 1..far : Body(f, k) = Further(cap, f[k - 1])
    OBVIOUS
  <1>4. far \in Nat
    BY FS_CardinalityType
  <1> HIDE DEF far, Body
  <1>5. \E f : Iterates(f)
    <2>1. PICK f : f = [k \in 0..far |-> f[k]] /\ InRounds(f, "within", cap, src, {src}, far)
      BY <1>4, Rounds
    <2>2. f[0] = {src} /\ \A k \in 1..far : f[k] = Further(cap, f[k - 1])
      BY <2>1 DEF InRounds, RoundOf
    <2>3. \A k \in 0..far : f[k] = Body(f, k)
      <3>1. \A k \in 0..far : k = 0 \/ k \in 1..far
        BY <1>4
      <3> QED  BY <1>2, <1>3, <2>1, <2>2, <3>1
    <2> QED  BY <2>1, <2>3
  <1>6. Iterates(within)
    BY <1>5
  <1> HIDE DEF within
  <1>7. \A k \in 0..far : within[k] = Body(within, k)
    BY <1>6
  <1>8. within[0] = {src} /\ \A k \in 1..far : within[k] = Further(cap, within[k - 1])
    <2>1. 0 \in 0..far /\ \A k \in 1..far : k \in 0..far
      BY <1>4
    <2> QED  BY <1>2, <1>3, <1>7, <2>1
  <1> QED  BY <1>1, <1>8 DEF far, DistancesBy

\* Links that are pairs of nodes.
Paired(cap, nodes) == \A l \in DOMAIN cap : l = <<l[1], l[2]>> /\ l[1] \in nodes /\ l[2] \in nodes

LEMMA RoutePrefix ==
    ASSUME NEW cap, NEW nodes, NEW src, NEW dst, NEW w \in Seq(nodes), Route(cap, src, dst, w),
           NEW i \in 1..Len(w)
    PROVE  /\ SubSeq(w, 1, i) \in Seq(nodes) /\ Len(SubSeq(w, 1, i)) = i
           /\ Route(cap, src, w[i], SubSeq(w, 1, i)) /\ w[i] \in nodes
  <1> DEFINE p == SubSeq(w, 1, i)
  <1>1. p \in Seq(nodes) /\ Len(p) = i /\ (\A j \in 1..i : p[j] = w[j]) /\ w[i] \in nodes
        /\ Len(w) \in Nat /\ i \in Nat /\ i >= 1
    OBVIOUS
  <1> HIDE DEF p
  <1>2. p[1] = src /\ Last(p) = w[i]
    BY <1>1 DEF Route, Last
  <1>3. LinksOf(p) \subseteq DOMAIN cap
    <2> SUFFICES ASSUME NEW j \in 1..(i - 1) PROVE <<p[j], p[j + 1]>> \in DOMAIN cap
      BY <1>1 DEF LinksOf
    <2>1. p[j] = w[j] /\ p[j + 1] = w[j + 1] /\ j \in 1..(Len(w) - 1)
      BY <1>1
    <2>2. <<w[j], w[j + 1]>> \in LinksOf(w)
      BY <2>1 DEF LinksOf
    <2> QED  BY <2>1, <2>2 DEF Route
  <1>4. \A j, k \in 1..Len(p) : p[j] = p[k] => j = k
    <2>1. \A j \in 1..Len(p) : j \in 1..Len(w) /\ p[j] = w[j]
      BY <1>1
    <2> QED  BY <2>1 DEF Route
  <1>5. Route(cap, src, w[i], p)
    BY <1>1, <1>2, <1>3, <1>4 DEF Route
  <1> QED  BY <1>1, <1>5 DEF p

LEMMA RouteStep ==
    ASSUME NEW cap, NEW nodes, NEW src, NEW a, NEW b \in nodes, NEW w \in Seq(nodes),
           Route(cap, src, a, w), <<a, b>> \in DOMAIN cap
    PROVE  \E v \in Seq(nodes) : Route(cap, src, b, v) /\ Len(v) <= Len(w) + 1
  <1>1. Last(w) = a /\ Len(w) \in Nat
    BY DEF Route
  <1>2. CASE b \in ToSet(w)
    <2>1. PICK i \in 1..Len(w) : w[i] = b
      BY <1>2 DEF ToSet
    <2> DEFINE v == SubSeq(w, 1, i)
    <2>2. v \in Seq(nodes) /\ Len(v) = i /\ Route(cap, src, b, v)
      BY <2>1, RoutePrefix
    <2> HIDE DEF v
    <2> QED  BY <1>1, <2>2
  <1>3. CASE b \notin ToSet(w)
    <2> DEFINE v == Append(w, b)
    <2>1. v \in Seq(nodes) /\ Route(cap, src, b, v)
      BY <1>1, <1>3, RouteLonger
    <2>2. Len(v) = Len(w) + 1
      OBVIOUS
    <2> HIDE DEF v
    <2> QED  BY <1>1, <2>1, <2>2
  <1> QED  BY <1>2, <1>3

LEMMA WithinIs ==
    ASSUME NEW cap, NEW src, NEW nodes, src \in nodes, Paired(cap, nodes), NEW far \in Nat, NEW within,
           within[0] = {src}, \A k \in 1..far : within[k] = Further(cap, within[k - 1])
    PROVE  \A k \in 0..far : \A n :
              n \in within[k] <=> \E w \in Seq(nodes) : Route(cap, src, n, w) /\ Len(w) <= k + 1
  <1> DEFINE Reach(n, k) == \E w \in Seq(nodes) : Route(cap, src, n, w) /\ Len(w) <= k + 1
  <1> DEFINE S == {k \in Nat : k <= far => \A n : n \in within[k] <=> Reach(n, k)}
  <1>1. 0 \in S
    <2>1. ASSUME NEW n, NEW w \in Seq(nodes), Route(cap, src, n, w), Len(w) <= 1 PROVE n = src
      <3>1. Len(w) \in Nat /\ Len(w) >= 1 /\ w[1] = src /\ w[Len(w)] = n
        BY <2>1 DEF Route, Last
      <3>2. Len(w) = 1
        <4> DEFINE m == Len(w)
        <4>1. m \in Nat /\ m >= 1 /\ m <= 1
          BY <2>1, <3>1
        <4> HIDE DEF m
        <4>2. m = 1
          BY <4>1
        <4> QED  BY <4>2 DEF m
      <3> QED  BY <3>1, <3>2
    <2>2. Reach(src, 0)
      <3>1. Len(<<src>>) = 1 /\ 1..(1 - 1) = {} /\ 1..1 = {1} /\ <<src>>[1] = src /\ <<src>> \in Seq(nodes)
        OBVIOUS
      <3>2. LinksOf(<<src>>) = {}
        BY <3>1 DEF LinksOf
      <3>3. Route(cap, src, src, <<src>>)
        BY <3>1, <3>2 DEF Route, Last
      <3> QED  BY <3>1, <3>3
    <2>3. 0 + 1 = 1
      OBVIOUS
    <2> QED  BY <2>1, <2>2, <2>3
  <1>2. ASSUME NEW k \in Nat, k \in S PROVE k + 1 \in S
    <2> SUFFICES ASSUME k + 1 <= far, NEW n PROVE n \in within[k + 1] <=> Reach(n, k + 1)
      OBVIOUS
    <2>1. \A m : m \in within[k] <=> Reach(m, k)
      BY <1>2
    <2>2. within[k + 1] = Further(cap, within[k])
      <3>1. k + 1 \in 1..far /\ k + 1 - 1 = k
        OBVIOUS
      <3> QED  BY <3>1
    <2>3. ASSUME n \in within[k + 1] PROVE Reach(n, k + 1)
      <3>1. CASE n \in within[k]
        <4>1. PICK w \in Seq(nodes) : Route(cap, src, n, w) /\ Len(w) <= k + 1
          BY <2>1, <3>1
        <4>2. Len(w) <= k + 1 + 1
          BY <4>1
        <4> QED  BY <4>1, <4>2
      <3>2. CASE n \notin within[k]
        <4>1. PICK l \in DOMAIN cap : l[1] \in within[k] /\ n = l[2]
          BY <2>2, <2>3, <3>2 DEF Further
        <4>2. PICK w \in Seq(nodes) : Route(cap, src, l[1], w) /\ Len(w) <= k + 1
          BY <2>1, <4>1
        <4>3. <<l[1], n>> \in DOMAIN cap /\ n \in nodes
          BY <4>1 DEF Paired
        <4>4. PICK v \in Seq(nodes) : Route(cap, src, n, v) /\ Len(v) <= Len(w) + 1
          BY <4>2, <4>3, RouteStep
        <4>5. Len(v) <= k + 1 + 1
          BY <4>2, <4>4
        <4> QED  BY <4>4, <4>5
      <3> QED  BY <3>1, <3>2
    <2>4. ASSUME NEW w \in Seq(nodes), Route(cap, src, n, w), Len(w) <= k + 1 + 1 PROVE n \in within[k + 1]
      <3>1. Len(w) \in Nat /\ Len(w) >= 1 /\ w[Len(w)] = n
        BY <2>4 DEF Route, Last
      <3>2. CASE Len(w) <= k + 1
        BY <2>1, <2>2, <2>4, <3>2 DEF Further
      <3>3. CASE ~(Len(w) <= k + 1)
        <4>1. Len(w) = k + 2 /\ k + 1 \in 1..Len(w) /\ k + 1 \in 1..(Len(w) - 1) /\ k + 1 + 1 = k + 2
          BY <2>4, <3>1, <3>3
        <4> DEFINE p == SubSeq(w, 1, k + 1)
        <4>2. p \in Seq(nodes) /\ Len(p) = k + 1 /\ Route(cap, src, w[k + 1], p)
          BY <2>4, <4>1, RoutePrefix
        <4> HIDE DEF p
        <4>3. w[k + 1] \in within[k]
          BY <2>1, <4>2
        <4>4. <<w[k + 1], w[k + 1 + 1]>> \in LinksOf(w)
          BY <4>1 DEF LinksOf
        <4>5. PICK l \in DOMAIN cap : l = <<w[k + 1], n>>
          BY <2>4, <3>1, <4>1, <4>4 DEF Route
        <4>6. l[1] \in within[k] /\ l[2] = n
          BY <4>3, <4>5
        <4> QED  BY <2>2, <4>6 DEF Further
      <3> QED  BY <3>2, <3>3
    <2> QED  BY <2>3, <2>4
  <1>3. \A k \in 0..far : k \in S
    <2> HIDE DEF S
    <2>1. \A k \in 0..far : k \in Nat
      OBVIOUS
    <2> QED  BY <1>1, <1>2, <2>1, SetInduction
  <1> QED  BY <1>3

\* What the distances are: one hop less than the nodes of a shortest route.
HopCounts(cap, src, nodes, dist) ==
    /\ \A n : n \in DOMAIN dist <=> \E w \in Seq(nodes) : Route(cap, src, n, w)
    /\ \A n \in DOMAIN dist : dist[n] \in Nat /\ \E w \in Seq(nodes) : Route(cap, src, n, w) /\ Len(w) = dist[n] + 1
    /\ \A n \in DOMAIN dist : \A w \in Seq(nodes) : Route(cap, src, n, w) => Len(w) >= dist[n] + 1

LEMMA DistanceIs ==
    ASSUME NEW cap, NEW src, NEW nodes, nodes = {src} \cup NodesIn(cap), IsFiniteSet(NodesIn(cap)),
           Paired(cap, nodes)
    PROVE  /\ HopCounts(cap, src, nodes, Distances(cap, src))
           /\ \A w \in Seq(nodes) : \A n : Route(cap, src, n, w) => Len(w) <= Cardinality(NodesIn(cap)) + 1
  <1> DEFINE far == Cardinality(NodesIn(cap))
  <1> DEFINE dist == Distances(cap, src)
  <1>1. far \in Nat
    BY FS_CardinalityType
  <1>a. PICK within : DistancesBy(cap, src, far, dist, within)
    BY DistancesAre
  <1>2. /\ within[0] = {src}
        /\ \A k \in 1..far : within[k] = Further(cap, within[k - 1])
        /\ dist = [n \in within[far] |-> Min({d \in 0..far : n \in within[d]})]
    BY <1>a DEF DistancesBy
  <1>3. IsFiniteSet(nodes) /\ Cardinality(nodes) <= far + 1 /\ Cardinality(nodes) \in Nat
    <2>1. nodes = NodesIn(cap) \cup {src}
      OBVIOUS
    <2>2. IsFiniteSet(NodesIn(cap) \cup {src})
          /\ (Cardinality(NodesIn(cap) \cup {src}) = far \/ Cardinality(NodesIn(cap) \cup {src}) = far + 1)
      BY FS_AddElement
    <2> HIDE DEF far
    <2> QED  BY <1>1, <2>1, <2>2
  <1> HIDE DEF far, dist
  <1>4. \A k \in 0..far : \A n :
           n \in within[k] <=> \E w \in Seq(nodes) : Route(cap, src, n, w) /\ Len(w) <= k + 1
    BY <1>1, <1>2, WithinIs
  <1>5. ASSUME NEW n, NEW w \in Seq(nodes), Route(cap, src, n, w)
        PROVE  Len(w) \in Nat /\ Len(w) >= 1 /\ Len(w) <= far + 1
    <2>1. Len(w) <= Cardinality(nodes)
      BY <1>3, <1>5, PathNodes DEF Route
    <2>2. Len(w) \in Nat /\ Len(w) >= 1
      BY <1>5 DEF Route
    <2> QED  BY <1>1, <1>3, <2>1, <2>2
  <1>6. \A n : n \in DOMAIN dist <=> \E w \in Seq(nodes) : Route(cap, src, n, w)
    <2>1. DOMAIN dist = within[far] /\ far \in 0..far
      BY <1>1, <1>2
    <2> QED  BY <1>4, <1>5, <2>1
  <1>7. ASSUME NEW n \in DOMAIN dist
        PROVE  /\ dist[n] \in 0..far /\ n \in within[dist[n]]
               /\ \A d \in 0..far : n \in within[d] => dist[n] <= d
    <2> DEFINE D == {d \in 0..far : n \in within[d]}
    <2>1. n \in within[far] /\ dist[n] = Min(D)
      BY <1>2, <1>7
    <2>2. D \in SUBSET Int /\ D # {}
      BY <1>1, <2>1
    <2>3. IsFiniteSet(D)
      <3>1. IsFiniteSet(0..far) /\ D \in SUBSET (0..far)
        BY <1>1, FS_Interval
      <3> HIDE DEF D
      <3> QED  BY <3>1, FS_Subset
    <2>4. Min(D) \in D /\ \A d \in D : Min(D) <= d
      <3> HIDE DEF D
      <3> QED  BY <2>2, <2>3, MinIs
    <2> QED  BY <2>1, <2>4
  <1>8. ASSUME NEW n \in DOMAIN dist, NEW w \in Seq(nodes), Route(cap, src, n, w)
        PROVE  Len(w) >= dist[n] + 1
    <2>1. Len(w) \in Nat /\ Len(w) >= 1 /\ Len(w) <= far + 1
      BY <1>5, <1>8
    <2>2. Len(w) - 1 \in 0..far /\ Len(w) <= Len(w) - 1 + 1
      BY <1>1, <2>1
    <2>3. n \in within[Len(w) - 1]
      BY <1>4, <1>8, <2>2
    <2>4. dist[n] <= Len(w) - 1 /\ dist[n] \in 0..far
      BY <1>7, <2>2, <2>3
    <2> QED  BY <1>1, <2>1, <2>4
  <1>9. ASSUME NEW n \in DOMAIN dist
        PROVE  dist[n] \in Nat /\ \E w \in Seq(nodes) : Route(cap, src, n, w) /\ Len(w) = dist[n] + 1
    <2>1. dist[n] \in 0..far /\ n \in within[dist[n]]
      BY <1>7
    <2>2. PICK w \in Seq(nodes) : Route(cap, src, n, w) /\ Len(w) <= dist[n] + 1
      BY <1>4, <2>1
    <2>3. Len(w) >= dist[n] + 1 /\ Len(w) \in Nat
      BY <1>5, <1>8, <2>2
    <2> QED  BY <1>1, <2>1, <2>2, <2>3
  <1>10. HopCounts(cap, src, nodes, dist)
    BY <1>6, <1>8, <1>9 DEF HopCounts
  <1> QED  BY <1>5, <1>10 DEF far, dist

\* A link adds a hop at most, and on a shortest route every link adds one.
LEMMA LinkDistance ==
    ASSUME NEW cap, NEW src, NEW nodes, NEW dist, Paired(cap, nodes),
           HopCounts(cap, src, nodes, dist), NEW l \in DOMAIN cap, l[1] \in DOMAIN dist
    PROVE  /\ l[2] \in DOMAIN dist /\ dist[l[2]] <= dist[l[1]] + 1
           /\ dist[l[1]] \in Nat /\ dist[l[2]] \in Nat
  <1>1. PICK w \in Seq(nodes) : Route(cap, src, l[1], w) /\ Len(w) = dist[l[1]] + 1
    BY DEF HopCounts
  <1>2. dist[l[1]] \in Nat
    BY DEF HopCounts
  <1>3. <<l[1], l[2]>> \in DOMAIN cap /\ l[2] \in nodes
    BY DEF Paired
  <1>4. PICK v \in Seq(nodes) : Route(cap, src, l[2], v) /\ Len(v) <= Len(w) + 1
    BY <1>1, <1>3, RouteStep
  <1>5. l[2] \in DOMAIN dist
    BY <1>4 DEF HopCounts
  <1>6. dist[l[2]] \in Nat /\ Len(v) >= dist[l[2]] + 1
    BY <1>4, <1>5 DEF HopCounts
  <1>7. Len(v) \in Nat
    OBVIOUS
  <1> QED  BY <1>1, <1>2, <1>4, <1>5, <1>6, <1>7

LEMMA HopMore ==
    ASSUME NEW a \in Nat, NEW b \in Nat, NEW c \in Nat, NEW k \in Nat, b <= a + 1, a <= c + k
    PROVE  b <= c + (k + 1)
  OBVIOUS

ShortestTo(cap, src, dst, dist, w) == Route(cap, src, dst, w) /\ Len(w) = dist[dst] + 1
CountsUp(dist, w) == \A i \in 1..Len(w) : w[i] \in DOMAIN dist /\ dist[w[i]] = i - 1

LEMMA ShortestSteps ==
    ASSUME NEW cap, NEW src, NEW dst, NEW nodes, NEW dist, Paired(cap, nodes),
           HopCounts(cap, src, nodes, dist), NEW w \in Seq(nodes), ShortestTo(cap, src, dst, dist, w)
    PROVE  CountsUp(dist, w)
  <1> SUFFICES ASSUME NEW i \in 1..Len(w) PROVE w[i] \in DOMAIN dist /\ dist[w[i]] = i - 1
    BY DEF CountsUp
  <1> USE DEF ShortestTo
  <1>1. Len(w) \in Nat /\ Len(w) >= 1 /\ w[Len(w)] = dst /\ i \in Nat /\ i >= 1 /\ i <= Len(w)
    BY DEF Route, Last
  <1>2. ASSUME NEW j \in 1..Len(w) PROVE w[j] \in DOMAIN dist /\ dist[w[j]] \in Nat /\ dist[w[j]] <= j - 1
    <2> DEFINE p == SubSeq(w, 1, j)
    <2>1. p \in Seq(nodes) /\ Len(p) = j /\ Route(cap, src, w[j], p)
      BY RoutePrefix
    <2> HIDE DEF p
    <2>2. w[j] \in DOMAIN dist
      BY <2>1 DEF HopCounts
    <2>3. dist[w[j]] \in Nat /\ Len(p) >= dist[w[j]] + 1
      BY <2>1, <2>2 DEF HopCounts
    <2> QED  BY <2>1, <2>2, <2>3
  <1> DEFINE S == {k \in Nat : i + k <= Len(w) => dist[w[i + k]] <= dist[w[i]] + k}
  <1>3. 0 \in S
    <2>1. i + 0 = i /\ dist[w[i]] \in Nat
      BY <1>1, <1>2
    <2> QED  BY <2>1
  <1>4. ASSUME NEW k \in Nat, k \in S PROVE k + 1 \in S
    <2> SUFFICES ASSUME i + (k + 1) <= Len(w) PROVE dist[w[i + (k + 1)]] <= dist[w[i]] + (k + 1)
      OBVIOUS
    <2>0. PICK j : j = i + k
      OBVIOUS
    <2>1. /\ j \in 1..Len(w) /\ j + 1 \in 1..Len(w) /\ j \in 1..(Len(w) - 1) /\ i + (k + 1) = j + 1
          /\ dist[w[j]] <= dist[w[i]] + k
      BY <1>1, <1>4, <2>0
    <2>2. <<w[j], w[j + 1]>> \in LinksOf(w)
      BY <2>1 DEF LinksOf
    <2>3. PICK l \in DOMAIN cap : l[1] = w[j] /\ l[2] = w[j + 1]
      <3>1. <<w[j], w[j + 1]>> \in DOMAIN cap
        BY <2>2 DEF Route
      <3>2. <<w[j], w[j + 1]>>[1] = w[j] /\ <<w[j], w[j + 1]>>[2] = w[j + 1]
        OBVIOUS
      <3> QED  BY <3>1, <3>2
    <2>4. dist[w[j + 1]] <= dist[w[j]] + 1
      BY <1>2, <2>1, <2>3, LinkDistance
    <2>5. dist[w[j]] \in Nat /\ dist[w[j + 1]] \in Nat /\ dist[w[i]] \in Nat
      BY <1>2, <2>1
    <2>6. dist[w[j + 1]] <= dist[w[i]] + (k + 1) /\ i + (k + 1) = j + 1
      BY <2>1, <2>4, <2>5, HopMore
    <2> QED  BY <2>6
  <1>5. dist[w[Len(w)]] <= dist[w[i]] + (Len(w) - i)
    <2>1. Len(w) - i \in Nat /\ i + (Len(w) - i) = Len(w)
      BY <1>1
    <2> DEFINE d == Len(w) - i
    <2>2. d \in S
      <3> HIDE DEF S
      <3> QED  BY <1>3, <1>4, <2>1, SetInduction
    <2>3. i + d <= Len(w) => dist[w[i + d]] <= dist[w[i]] + d
      BY <2>2
    <2>4. i + d = Len(w) /\ i + d <= Len(w)
      BY <1>1
    <2> HIDE DEF d
    <2>5. dist[w[Len(w)]] <= dist[w[i]] + d
      BY <2>3, <2>4
    <2> QED  BY <2>5 DEF d
  <1>6. w[i] \in DOMAIN dist /\ dist[w[i]] \in Nat /\ dist[w[i]] <= i - 1
    BY <1>2
  <1>7. dist[dst] = Len(w) - 1
    <2>1. dist[w[Len(w)]] \in Nat
      BY <1>1, <1>2
    <2> QED  BY <1>1, <2>1
  <1> QED  BY <1>1, <1>5, <1>6, <1>7

\* A way from n to dst that loses a hop at each link, read backwards.
Leads(cap, dst, nodes, dist, n, v) ==
    /\ Len(v) >= 1 /\ v[1] = n /\ v[Len(v)] = dst /\ LinksOf(v) \subseteq DOMAIN cap
    /\ \A i \in 1..Len(v) : v[i] \in DOMAIN dist /\ dist[v[i]] = dist[n] + i - 1

LEMMA LeadsLonger ==
    ASSUME NEW cap, NEW dst, NEW nodes, NEW dist, Paired(cap, nodes),
           NEW l \in DOMAIN cap, l[1] \in DOMAIN dist, dist[l[1]] \in Nat, dist[l[2]] = dist[l[1]] + 1,
           NEW v \in Seq(nodes), Leads(cap, dst, nodes, dist, l[2], v)
    PROVE  \E u \in Seq(nodes) : Leads(cap, dst, nodes, dist, l[1], u)
  <1> DEFINE u == [i \in 1..(Len(v) + 1) |-> IF i = 1 THEN l[1] ELSE v[i - 1]]
  <1>1. Len(v) \in Nat /\ Len(v) >= 1 /\ v[1] = l[2] /\ v[Len(v)] = dst /\ \A i \in 1..Len(v) : v[i] \in nodes
    BY DEF Leads
  <1>2. /\ u \in Seq(nodes) /\ Len(u) = Len(v) + 1 /\ u[1] = l[1]
        /\ \A i \in 2..Len(u) : u[i] = v[i - 1] /\ i - 1 \in 1..Len(v)
    <2>1. \A i \in 1..(Len(v) + 1) : u[i] \in nodes
      <3> SUFFICES ASSUME NEW i \in 1..(Len(v) + 1) PROVE u[i] \in nodes
        OBVIOUS
      <3>1. CASE i = 1
        BY <3>1 DEF Paired
      <3>2. CASE i # 1
        <4>1. i - 1 \in 1..Len(v)
          BY <1>1, <3>2
        <4> QED  BY <1>1, <3>2, <4>1
      <3> QED  BY <3>1, <3>2
    <2>2. u \in [1..(Len(v) + 1) -> nodes]
      BY <2>1
    <2>3. u \in Seq(nodes) /\ Len(u) = Len(v) + 1
      <3>1. Len(v) + 1 \in Nat
        BY <1>1
      <3> HIDE DEF u
      <3> QED  BY <2>2, <3>1
    <2>4. u[1] = l[1] /\ \A i \in 2..(Len(v) + 1) : u[i] = v[i - 1] /\ i - 1 \in 1..Len(v)
      BY <1>1
    <2> HIDE DEF u
    <2> QED  BY <2>3, <2>4
  <1> HIDE DEF u
  <1>3. u[Len(u)] = dst
    BY <1>1, <1>2
  <1>4. ASSUME NEW i \in 1..(Len(u) - 1) PROVE <<u[i], u[i + 1]>> \in DOMAIN cap
    <2>1. CASE i = 1
      <3>1. u[i] = l[1] /\ u[i + 1] = l[2]
        BY <1>1, <1>2, <2>1
      <3> QED  BY <3>1 DEF Paired
    <2>2. CASE i # 1
      <3>1. i - 1 \in 1..(Len(v) - 1) /\ u[i] = v[i - 1] /\ u[i + 1] = v[i - 1 + 1]
        BY <1>1, <1>2, <2>2
      <3>2. <<v[i - 1], v[i - 1 + 1]>> \in LinksOf(v)
        BY <3>1 DEF LinksOf
      <3> QED  BY <3>1, <3>2 DEF Leads
    <2> QED  BY <2>1, <2>2
  <1>5. ASSUME NEW i \in 1..Len(u) PROVE u[i] \in DOMAIN dist /\ dist[u[i]] = dist[l[1]] + i - 1
    <2>1. CASE i = 1
      BY <1>2, <2>1
    <2>2. CASE i # 1
      <3>1. u[i] = v[i - 1] /\ i - 1 \in 1..Len(v)
        BY <1>1, <1>2, <2>2
      <3>2. v[i - 1] \in DOMAIN dist /\ dist[v[i - 1]] = dist[l[2]] + (i - 1) - 1
        BY <3>1 DEF Leads
      <3>3. i \in Int
        BY <1>1, <1>2
      <3> QED  BY <3>1, <3>2, <3>3
    <2> QED  BY <2>1, <2>2
  <1>6. LinksOf(u) \subseteq DOMAIN cap
    BY <1>4 DEF LinksOf
  <1>7. Len(u) >= 1
    BY <1>1, <1>2
  <1>8. Leads(cap, dst, nodes, dist, l[1], u)
    BY <1>2, <1>3, <1>5, <1>6, <1>7 DEF Leads
  <1> QED  BY <1>2, <1>8

Joins(w, u, v, m, n) ==
    Len(w) = m + n /\ (\A i \in 1..m : w[i] = u[i]) /\ \A k \in 1..n : \A i : i = m + k => w[i] = v[k]

LEMMA Joined ==
    ASSUME NEW S, NEW u \in Seq(S), NEW v \in Seq(S), NEW m, m = Len(u), NEW n, n = Len(v)
    PROVE  /\ m \in Nat /\ n \in Nat
           /\ \E w \in Seq(S) : Joins(w, u, v, m, n)
  <1> DEFINE w == u \o v
  <1>1. /\ w \in Seq(S) /\ Len(w) = Len(u) + Len(v)
        /\ \A i \in 1..(Len(u) + Len(v)) : w[i] = IF i <= Len(u) THEN u[i] ELSE v[i - Len(u)]
    BY ConcatProperties
  <1> HIDE DEF w
  <1>2. m \in Nat /\ n \in Nat
    OBVIOUS
  <1>3. \A i \in 1..m : w[i] = u[i]
    BY <1>1, <1>2
  <1>4. ASSUME NEW k \in 1..n, NEW i, i = m + k PROVE w[i] = v[k]
    <2>1. i \in 1..(m + n) /\ ~(i <= m) /\ i - m = k
      BY <1>2, <1>4
    <2> QED  BY <1>1, <2>1
  <1>5. Joins(w, u, v, m, n)
    BY <1>1, <1>3, <1>4 DEF Joins
  <1> QED  BY <1>1, <1>2, <1>5

\* A link that loses a hop towards dst is on a shortest route.
LEMMA LinkOnShortest ==
    ASSUME NEW cap, NEW src, NEW dst, NEW nodes, NEW dist, Paired(cap, nodes),
           HopCounts(cap, src, nodes, dist),
           NEW l \in DOMAIN cap, l[1] \in DOMAIN dist, dist[l[2]] = dist[l[1]] + 1,
           NEW v \in Seq(nodes), Leads(cap, dst, nodes, dist, l[2], v)
    PROVE  \E w \in Seq(nodes) : Route(cap, src, dst, w) /\ Len(w) = dist[dst] + 1 /\ l \in LinksOf(w)
  <1>1. PICK u \in Seq(nodes) : Route(cap, src, l[1], u) /\ Len(u) = dist[l[1]] + 1
    BY DEF HopCounts
  <1>2. dist[l[1]] \in Nat
    BY DEF HopCounts
  <1>a. PICK m : m = Len(u)
    OBVIOUS
  <1>b. PICK n : n = Len(v)
    OBVIOUS
  <1>c. PICK q : q = dist[l[1]]
    OBVIOUS
  <1>3. m \in Nat /\ n \in Nat /\ m >= 1 /\ n >= 1 /\ m = q + 1 /\ q \in Nat
    BY <1>1, <1>2, <1>a, <1>b, <1>c DEF Route, Leads
  <1>d. u[1] = src /\ u[m] = l[1] /\ v[1] = l[2] /\ v[n] = dst
    BY <1>1, <1>a, <1>b DEF Route, Last, Leads
  <1>j. PICK w \in Seq(nodes) : Joins(w, u, v, m, n)
    BY <1>a, <1>b, Joined
  <1>4. /\ Len(w) = m + n
        /\ \A i \in 1..m : w[i] = u[i]
        /\ \A k \in 1..n : \A i : i = m + k => w[i] = v[k]
    BY <1>j DEF Joins
  <1>5. \A i \in 1..m : dist[u[i]] = i - 1
    <2>1. ShortestTo(cap, src, l[1], dist, u)
      BY <1>1 DEF ShortestTo
    <2> QED  BY <1>a, <2>1, ShortestSteps DEF CountsUp
  <1>6. \A i \in 1..n : dist[v[i]] = q + i
    <2> SUFFICES ASSUME NEW i \in 1..n PROVE dist[v[i]] = q + i
      OBVIOUS
    <2>1. dist[v[i]] = dist[l[2]] + i - 1 /\ dist[l[2]] = q + 1
      BY <1>b, <1>c DEF Leads
    <2>2. i \in Int /\ q + 1 + i - 1 = q + i
      BY <1>3
    <2> QED  BY <2>1, <2>2
  <1>e. \A i \in 1..Len(w) : i \in 1..m \/ \E k \in 1..n : i = m + k
    <2> SUFFICES ASSUME NEW i \in 1..(m + n), ~(i <= m) PROVE \E k \in 1..n : i = m + k
      BY <1>3, <1>4
    <2>1. i - m \in 1..n /\ i = m + (i - m)
      BY <1>3
    <2> QED  BY <2>1
  <1>7. ASSUME NEW i \in 1..Len(w) PROVE dist[w[i]] = i - 1
    <2>1. CASE i \in 1..m
      BY <1>4, <1>5, <2>1
    <2>2. ASSUME NEW k \in 1..n, i = m + k PROVE dist[w[i]] = i - 1
      <3>0. w[i] = v[k]
        BY <1>4, <2>2
      <3>1. dist[w[i]] = q + k
        BY <1>6, <3>0
      <3>2. q + k = m + k - 1
        BY <1>3
      <3> QED  BY <1>3, <2>2, <3>1, <3>2
    <2> QED  BY <1>e, <2>1, <2>2
  <1>8. w[1] = src /\ w[Len(w)] = dst /\ Len(w) >= 1 /\ Len(w) \in Nat
    <2>1. 1 \in 1..m /\ n \in 1..n /\ m + n >= 1 /\ m + n \in Nat
      BY <1>3
    <2> QED  BY <1>4, <1>d, <2>1
  <1>9. Len(w) = dist[dst] + 1
    <2>1. dist[w[Len(w)]] = Len(w) - 1
      BY <1>7, <1>8
    <2> QED  BY <1>8, <2>1
  <1>10. ASSUME NEW i \in 1..Len(w), NEW j \in 1..Len(w), w[i] = w[j] PROVE i = j
    <2>1. i - 1 = j - 1
      BY <1>7, <1>10
    <2> QED  BY <2>1
  <1>11. w[m] = l[1] /\ w[m + 1] = l[2] /\ m \in 1..(Len(w) - 1) /\ l = <<w[m], w[m + 1]>>
    <2>1. w[m] = l[1] /\ w[m + 1] = l[2] /\ m \in 1..(m + n - 1)
      <3>1. 1 \in 1..n /\ m \in 1..m /\ m \in 1..(m + n - 1)
        BY <1>3
      <3>2. w[m] = u[m]
        BY <1>4, <3>1
      <3>3. w[m + 1] = v[1]
        <4> \A i : i = m + 1 => w[i] = v[1]
          BY <1>4, <3>1
        <4> QED  OBVIOUS
      <3> QED  BY <1>3, <1>d, <3>1, <3>2, <3>3
    <2>2. Len(w) - 1 = m + n - 1
      BY <1>3, <1>4
    <2>3. l = <<l[1], l[2]>>
      BY DEF Paired
    <2> QED  BY <2>1, <2>2, <2>3
  <1>12. l \in LinksOf(w)
    BY <1>11 DEF LinksOf
  <1>13. ASSUME NEW i \in 1..(Len(w) - 1) PROVE <<w[i], w[i + 1]>> \in DOMAIN cap
    <2>0. i \in 1..(m + n - 1)
      BY <1>3, <1>4
    <2>1. CASE i < m
      <3>0. i \in 1..m /\ i + 1 \in 1..m /\ i \in 1..(m - 1)
        BY <1>3, <2>0, <2>1
      <3>1. w[i] = u[i] /\ w[i + 1] = u[i + 1]
        BY <1>4, <3>0
      <3>2. <<u[i], u[i + 1]>> \in LinksOf(u)
        BY <1>a, <3>0 DEF LinksOf
      <3> QED  BY <1>1, <3>1, <3>2 DEF Route
    <2>2. CASE i = m
      BY <1>11, <2>2
    <2>3. CASE i > m
      <3>0. PICK k : k = i - m
        OBVIOUS
      <3>1. k \in 1..n /\ k + 1 \in 1..n /\ k \in 1..(n - 1) /\ i = m + k /\ i + 1 = m + (k + 1)
        BY <1>3, <2>0, <2>3, <3>0
      <3>2. w[i] = v[k] /\ w[i + 1] = v[k + 1]
        BY <1>3, <1>4, <3>1
      <3>3. <<v[k], v[k + 1]>> \in LinksOf(v)
        BY <1>b, <3>1 DEF LinksOf
      <3> QED  BY <3>2, <3>3 DEF Leads
    <2>4. i < m \/ i = m \/ i > m
      BY <1>3
    <2> QED  BY <2>1, <2>2, <2>3, <2>4
  <1>14. Route(cap, src, dst, w)
    <2>1. LinksOf(w) \subseteq DOMAIN cap
      BY <1>13 DEF LinksOf
    <2>2. Last(w) = dst
      BY <1>8 DEF Last
    <2> QED  BY <1>8, <1>10, <2>1, <2>2 DEF Route
  <1> QED  BY <1>4, <1>9, <1>12, <1>14

\* The rounds of the search back from dst, and the links it ends with.
BackBy(cap, dist, dst, far, links, back) ==
    /\ back[0] = Into(cap, dist, {dst})
    /\ \A k \in 1..far : back[k] = back[k - 1] \cup Into(cap, dist, {l[1] : l \in back[k - 1]})
    /\ links = back[far]

LEMMA BackAre ==
    ASSUME NEW cap, NEW src, NEW dst, IsFiniteSet(NodesIn(cap)),
           dst \in DOMAIN Distances(cap, src), src # dst
    PROVE  \E back : BackBy(cap, Distances(cap, src), dst, Cardinality(NodesIn(cap)),
                            ShortestLinks(cap, src, dst), back)
  <1> DEFINE far == Cardinality(NodesIn(cap))
  <1> DEFINE dist == Distances(cap, src)
  <1> DEFINE more(links) == links \cup Into(cap, dist, {l[1] : l \in links})
  <1> DEFINE Body(f, k) == IF k = 0 THEN Into(cap, dist, {dst})
                           ELSE CHOOSE r \in {more(y) : y \in {f[k - 1]}} : TRUE
  <1> DEFINE Iterates(f) == f = [k \in 0..far |-> Body(f, k)]
  <1> DEFINE back == CHOOSE f : Iterates(f)
  <1>1. ShortestLinks(cap, src, dst) = back[far]
    BY DEF ShortestLinks, Once, Into
  <1>2. \A f : Body(f, 0) = Into(cap, dist, {dst})
    OBVIOUS
  <1>3. \A f : \A k \in 1..far : Body(f, k) = f[k - 1] \cup Into(cap, dist, {l[1] : l \in f[k - 1]})
    <2> SUFFICES ASSUME NEW f, NEW k \in 1..far PROVE Body(f, k) = more(f[k - 1])
      OBVIOUS
    <2>1. k # 0
      OBVIOUS
    <2> HIDE DEF more
    <2> QED  BY <2>1
  <1>4. far \in Nat
    BY FS_CardinalityType
  <1> HIDE DEF far, Body, dist
  <1>5. \E f : Iterates(f)
    <2>1. PICK f : f = [k \in 0..far |-> f[k]] /\ InRounds(f, "back", cap, dist, Into(cap, dist, {dst}), far)
      BY <1>4, Rounds
    <2>2. /\ f[0] = Into(cap, dist, {dst})
          /\ \A k \in 1..far : f[k] = f[k - 1] \cup Into(cap, dist, {l[1] : l \in f[k - 1]})
      BY <2>1 DEF InRounds, RoundOf
    <2>3. \A k \in 0..far : f[k] = Body(f, k)
      <3>1. \A k \in 0..far : k = 0 \/ k \in 1..far
        BY <1>4
      <3> QED  BY <1>2, <1>3, <2>1, <2>2, <3>1
    <2> QED  BY <2>1, <2>3
  <1>6. Iterates(back)
    BY <1>5
  <1> HIDE DEF back
  <1>7. \A k \in 0..far : back[k] = Body(back, k)
    BY <1>6
  <1>8. /\ back[0] = Into(cap, dist, {dst})
        /\ \A k \in 1..far : back[k] = back[k - 1] \cup Into(cap, dist, {l[1] : l \in back[k - 1]})
    <2>1. 0 \in 0..far /\ \A k \in 1..far : k \in 0..far
      BY <1>4
    <2> QED  BY <1>2, <1>3, <1>7, <2>1
  <1> QED  BY <1>1, <1>8 DEF far, dist, BackBy

\* Every link the search back finds loses a hop, and leads on to dst.
LEMMA BackLeads ==
    ASSUME NEW cap, NEW src, NEW dst, NEW nodes, NEW dist, NEW far \in Nat, NEW links, NEW back,
           Paired(cap, nodes), HopCounts(cap, src, nodes, dist), dst \in DOMAIN dist, dst \in nodes,
           BackBy(cap, dist, dst, far, links, back), NEW k \in 0..far, NEW l \in back[k]
    PROVE  /\ l \in DOMAIN cap /\ l[1] \in DOMAIN dist /\ dist[l[2]] = dist[l[1]] + 1
           /\ \E v \in Seq(nodes) : Leads(cap, dst, nodes, dist, l[2], v)
  <1> DEFINE Ok(m) == /\ m \in DOMAIN cap /\ m[1] \in DOMAIN dist /\ dist[m[2]] = dist[m[1]] + 1
                      /\ \E v \in Seq(nodes) : Leads(cap, dst, nodes, dist, m[2], v)
  <1>1. ASSUME NEW reached, NEW m \in Into(cap, dist, reached),
               \A n \in reached : n \in DOMAIN dist /\ \E v \in Seq(nodes) : Leads(cap, dst, nodes, dist, n, v)
        PROVE  Ok(m)
    <2>1. /\ m \in DOMAIN cap /\ m[1] \in DOMAIN dist /\ m[2] \in reached /\ dist[m[1]] = dist[m[2]] - 1
          /\ m[2] \in DOMAIN dist
      BY <1>1 DEF Into
    <2>2. dist[m[1]] \in Nat /\ dist[m[2]] \in Nat
      BY <2>1 DEF HopCounts
    <2>3. dist[m[2]] = dist[m[1]] + 1
      BY <2>1, <2>2
    <2> QED  BY <1>1, <2>1, <2>3
  <1>2. \E v \in Seq(nodes) : Leads(cap, dst, nodes, dist, dst, v)
    <2> DEFINE v == <<dst>>
    <2>1. v \in Seq(nodes) /\ Len(v) = 1 /\ v[1] = dst /\ 1..(Len(v) - 1) = {}
      OBVIOUS
    <2> HIDE DEF v
    <2>2. LinksOf(v) = {}
      BY <2>1 DEF LinksOf
    <2>3. dist[dst] \in Nat
      BY DEF HopCounts
    <2>4. \A i \in 1..Len(v) : v[i] \in DOMAIN dist /\ dist[v[i]] = dist[dst] + i - 1
      BY <2>1, <2>3
    <2>5. Leads(cap, dst, nodes, dist, dst, v)
      BY <2>1, <2>2, <2>4 DEF Leads
    <2> QED  BY <2>1, <2>5
  <1>3. ASSUME NEW m, Ok(m) PROVE \E v \in Seq(nodes) : Leads(cap, dst, nodes, dist, m[1], v)
    <2>1. dist[m[1]] \in Nat
      BY <1>3 DEF HopCounts
    <2>2. PICK v \in Seq(nodes) : Leads(cap, dst, nodes, dist, m[2], v)
      BY <1>3
    <2> QED  BY <1>3, <2>1, <2>2, LeadsLonger
  <1> DEFINE S == {i \in Nat : i <= far => \A m \in back[i] : Ok(m)}
  <1>4. 0 \in S
    <2>1. back[0] = Into(cap, dist, {dst})
      BY DEF BackBy
    <2>2. \A m \in back[0] : Ok(m)
      <3> HIDE DEF Ok
      <3> QED  BY <1>1, <1>2, <2>1
    <2> HIDE DEF Ok
    <2> QED  BY <2>2
  <1>5. ASSUME NEW i \in Nat, i \in S PROVE i + 1 \in S
    <2> SUFFICES ASSUME i + 1 <= far, NEW m \in back[i + 1] PROVE Ok(m)
      OBVIOUS
    <2> DEFINE reached == {x[1] : x \in back[i]}
    <2>1. i + 1 \in 1..far /\ i + 1 - 1 = i /\ i <= far
      OBVIOUS
    <2>2. back[i + 1] = back[i] \cup Into(cap, dist, reached)
      BY <2>1 DEF BackBy
    <2>3. \A x \in back[i] : Ok(x)
      BY <1>5, <2>1
    <2>4. \A n \in reached : n \in DOMAIN dist /\ \E v \in Seq(nodes) : Leads(cap, dst, nodes, dist, n, v)
      <3> SUFFICES ASSUME NEW x \in back[i]
                   PROVE  x[1] \in DOMAIN dist /\ \E v \in Seq(nodes) : Leads(cap, dst, nodes, dist, x[1], v)
        OBVIOUS
      <3>1. Ok(x)
        BY <2>3
      <3> QED  BY <1>3, <3>1
    <2> HIDE DEF reached, Ok
    <2> QED  BY <1>1, <2>2, <2>3, <2>4
  <1>6. k \in S
    <2>1. k \in Nat
      OBVIOUS
    <2> HIDE DEF S
    <2> QED  BY <1>4, <1>5, <2>1, SetInduction
  <1>7. k <= far => \A m \in back[k] : Ok(m)
    <2> HIDE DEF Ok
    <2> QED  BY <1>6
  <1> QED  BY <1>7

\* The search back finds every link of a shortest route, the last one first.
LEMMA BackHas ==
    ASSUME NEW cap, NEW src, NEW dst, NEW nodes, NEW dist, NEW far \in Nat, NEW links, NEW back,
           Paired(cap, nodes), HopCounts(cap, src, nodes, dist), BackBy(cap, dist, dst, far, links, back),
           NEW w \in Seq(nodes), Route(cap, src, dst, w), Len(w) = dist[dst] + 1, Len(w) <= far + 1
    PROVE  LinksOf(w) \subseteq links
  <1>a. \A j \in 1..Len(w) : w[j] \in DOMAIN dist /\ dist[w[j]] = j - 1
    <2>1. ShortestTo(cap, src, dst, dist, w)
      BY DEF ShortestTo
    <2> QED  BY <2>1, ShortestSteps DEF CountsUp
  <1>0. PICK n : n = Len(w) - 1
    OBVIOUS
  <1>1. n \in Nat /\ Len(w) = n + 1 /\ n <= far /\ w[n + 1] = dst
    BY <1>0 DEF Route, Last
  <1>2. ASSUME NEW i \in 1..n, NEW reached, w[i + 1] \in reached
        PROVE  <<w[i], w[i + 1]>> \in Into(cap, dist, reached)
    <2>1. i \in 1..Len(w) /\ i + 1 \in 1..Len(w) /\ i \in 1..(Len(w) - 1) /\ i - 1 = (i + 1 - 1) - 1
      BY <1>1
    <2>2. <<w[i], w[i + 1]>> \in DOMAIN cap
      <3>1. <<w[i], w[i + 1]>> \in LinksOf(w)
        BY <2>1 DEF LinksOf
      <3> QED  BY <3>1 DEF Route
    <2>3. w[i] \in DOMAIN dist /\ dist[w[i]] = i - 1 /\ dist[w[i + 1]] = i + 1 - 1
      <3>1. \A j \in 1..Len(w) : w[j] \in DOMAIN dist /\ dist[w[j]] = j - 1
        BY <1>a
      <3> QED  BY <2>1, <3>1
    <2>4. dist[w[i]] = dist[w[i + 1]] - 1
      BY <2>1, <2>3
    <2> DEFINE l == <<w[i], w[i + 1]>>
    <2>5. l[1] = w[i] /\ l[2] = w[i + 1]
      OBVIOUS
    <2> HIDE DEF l
    <2>6. l \in DOMAIN cap
      BY <2>2 DEF l
    <2>7. l \in Into(cap, dist, reached)
      BY <1>2, <2>3, <2>4, <2>5, <2>6 DEF Into
    <2> QED  BY <2>7 DEF l
  <1> DEFINE S == {k \in Nat : k <= far => \A i \in 1..n : i + k >= n => <<w[i], w[i + 1]>> \in back[k]}
  <1>3. 0 \in S
    <2>1. back[0] = Into(cap, dist, {dst})
      BY DEF BackBy
    <2>2. ASSUME NEW i \in 1..n, i + 0 >= n PROVE <<w[i], w[i + 1]>> \in back[0]
      <3>1. i = n
        BY <1>1, <2>2
      <3>2. w[i + 1] \in {dst}
        BY <1>1, <3>1
      <3> QED  BY <1>2, <2>1, <3>2
    <2> QED  BY <2>2
  <1>4. ASSUME NEW k \in Nat, k \in S PROVE k + 1 \in S
    <2> SUFFICES ASSUME k + 1 <= far, NEW i \in 1..n, i + (k + 1) >= n PROVE <<w[i], w[i + 1]>> \in back[k + 1]
      OBVIOUS
    <2>1. k + 1 \in 1..far /\ k + 1 - 1 = k /\ k <= far
      OBVIOUS
    <2>2. back[k + 1] = back[k] \cup Into(cap, dist, {l[1] : l \in back[k]})
      BY <2>1 DEF BackBy
    <2>3. \A j \in 1..n : j + k >= n => <<w[j], w[j + 1]>> \in back[k]
      BY <1>4, <2>1
    <2>4. CASE i + k >= n
      BY <2>2, <2>3, <2>4
    <2>5. CASE ~(i + k >= n)
      <3>1. i + 1 \in 1..n /\ i + 1 + k >= n
        BY <1>1, <2>5
      <3>2. <<w[i + 1], w[i + 1 + 1]>> \in back[k]
        BY <2>3, <3>1
      <3>3. <<w[i + 1], w[i + 1 + 1]>>[1] = w[i + 1]
        OBVIOUS
      <3>4. w[i + 1] \in {l[1] : l \in back[k]}
        BY <3>2, <3>3
      <3>5. <<w[i], w[i + 1]>> \in Into(cap, dist, {l[1] : l \in back[k]})
        BY <1>2, <3>4
      <3> QED  BY <2>2, <3>5
    <2> QED  BY <2>4, <2>5
  <1>5. far \in S
    <2> HIDE DEF S
    <2> QED  BY <1>3, <1>4, SetInduction
  <1>6. ASSUME NEW i \in 1..n PROVE <<w[i], w[i + 1]>> \in back[far]
    <2>1. i + far >= n /\ far <= far
      BY <1>1
    <2>2. far <= far => \A j \in 1..n : j + far >= n => <<w[j], w[j + 1]>> \in back[far]
      BY <1>5
    <2> QED  BY <2>1, <2>2
  <1>7. Len(w) - 1 = n
    BY <1>1
  <1> QED  BY <1>6, <1>7 DEF LinksOf, BackBy

\* shortest_links() returns every link of every shortest path and no other,
\* whatever the links: its two searches, out from src and back from dst, find
\* exactly those (services/pce.py).
THEOREM ShortestLinksAreAll ==
    ASSUME NEW cap, IsFiniteSet(DOMAIN cap), \A l \in DOMAIN cap : l = <<l[1], l[2]>>,
           NEW src, NEW dst
    PROVE  ShortestLinks(cap, src, dst) = AllShortest(cap, src, dst)
  <1> DEFINE inner == NodesIn(cap)
  <1> DEFINE nodes == {src} \cup NodesIn(cap)
  <1> DEFINE dist == Distances(cap, src)
  <1> DEFINE far == Cardinality(NodesIn(cap))
  <1> DEFINE all == LoopFree(DOMAIN cap, NodesIn(cap), src, dst)
  <1> DEFINE shortest == {p \in all : \A q \in all : Len(p) <= Len(q)}
  <1>1. IsFiniteSet(inner) /\ far \in Nat
    BY NodesFinite, FS_CardinalityType
  <1>2. \A l \in DOMAIN cap : l[1] \in inner /\ l[2] \in inner
    BY DEF NodesIn
  <1>3. Paired(cap, nodes)
    BY <1>2 DEF Paired
  <1>4. HopCounts(cap, src, nodes, dist) /\ \A w \in Seq(nodes) : \A n : Route(cap, src, n, w) => Len(w) <= far + 1
    BY <1>1, <1>3, DistanceIs
  <1>5. \A w : w \in all <=> w \in Seq(nodes) /\ Route(cap, src, dst, w)
    BY <1>1, <1>2, LoopFreeIs
  <1>6. AllShortest(cap, src, dst) = UNION {LinksOf(p) : p \in shortest}
    BY DEF AllShortest
  <1> HIDE DEF inner, nodes, far, all
  <1>7. CASE dst \notin DOMAIN dist
    <2>1. ShortestLinks(cap, src, dst) = {}
      BY <1>7 DEF ShortestLinks
    <2>2. all = {}
      <3> HIDE DEF dist
      <3> QED  BY <1>4, <1>5, <1>7 DEF HopCounts
    <2> QED  BY <1>6, <2>1, <2>2
  <1>8. CASE src = dst
    <2>1. ShortestLinks(cap, src, dst) = {}
      BY <1>8 DEF ShortestLinks
    <2>2. ASSUME NEW p \in shortest PROVE LinksOf(p) = {}
      <3>1. p \in Seq(nodes) /\ Route(cap, src, dst, p)
        BY <1>5, <2>2
      <3>2. Len(p) \in Nat /\ Len(p) >= 1 /\ p[1] = p[Len(p)]
        BY <1>8, <3>1 DEF Route, Last
      <3>3. 1 \in 1..Len(p) /\ Len(p) \in 1..Len(p)
        BY <3>2
      <3>4. Len(p) = 1
        BY <3>1, <3>2, <3>3 DEF Route
      <3>5. 1..(Len(p) - 1) = {}
        BY <3>4
      <3> QED  BY <3>5 DEF LinksOf
    <2> HIDE DEF shortest
    <2> QED  BY <1>6, <2>1, <2>2
  <1>9. CASE dst \in DOMAIN dist /\ src # dst
    <2>1. PICK back : BackBy(cap, dist, dst, far, ShortestLinks(cap, src, dst), back)
      BY <1>1, <1>9, BackAre DEF inner, far
    <2> HIDE DEF dist
    <2>2. PICK s \in Seq(nodes) : Route(cap, src, dst, s) /\ Len(s) = dist[dst] + 1
      BY <1>4, <1>9 DEF HopCounts
    <2>3. dst \in nodes
      <3>1. Len(s) \in Nat /\ Len(s) >= 1 /\ s[Len(s)] = dst
        BY <2>2 DEF Route, Last
      <3> QED  BY <3>1
    <2>4. \A q \in all : Len(q) \in Nat /\ Len(q) >= dist[dst] + 1
      BY <1>4, <1>5, <1>9 DEF HopCounts
    <2>5. ASSUME NEW p \in shortest PROVE LinksOf(p) \subseteq ShortestLinks(cap, src, dst)
      <3>1. p \in Seq(nodes) /\ Route(cap, src, dst, p) /\ s \in all
        BY <1>5, <2>2, <2>5
      <3>2. Len(p) = dist[dst] + 1
        <4>1. Len(p) <= Len(s) /\ Len(p) >= dist[dst] + 1 /\ Len(p) \in Nat /\ Len(s) = dist[dst] + 1
          BY <2>2, <2>4, <2>5, <3>1
        <4> QED  BY <4>1
      <3>3. Len(p) <= far + 1
        BY <1>4, <3>1
      <3> QED  BY <1>1, <1>3, <1>4, <2>1, <3>1, <3>2, <3>3, BackHas
    <2>6. ASSUME NEW l \in ShortestLinks(cap, src, dst) PROVE \E p \in shortest : l \in LinksOf(p)
      <3>1. far \in 0..far /\ l \in back[far]
        BY <1>1, <2>1, <2>6 DEF BackBy
      <3>2. /\ l \in DOMAIN cap /\ l[1] \in DOMAIN dist /\ dist[l[2]] = dist[l[1]] + 1
            /\ \E v \in Seq(nodes) : Leads(cap, dst, nodes, dist, l[2], v)
        BY <1>1, <1>3, <1>4, <1>9, <2>1, <2>3, <3>1, BackLeads
      <3>3. PICK w \in Seq(nodes) : Route(cap, src, dst, w) /\ Len(w) = dist[dst] + 1 /\ l \in LinksOf(w)
        BY <1>3, <1>4, <3>2, LinkOnShortest
      <3>4. w \in all /\ \A q \in all : Len(w) <= Len(q)
        BY <1>5, <2>4, <3>3
      <3> QED  BY <3>3, <3>4
    <2> HIDE DEF shortest
    <2> QED  BY <1>6, <2>5, <2>6
  <1> QED  BY <1>7, <1>8, <1>9

-----------------------------------------------------------------------------
(* What a pass may do, kept by every turn of its loops                     *)

Fields == {"auto", "read", "table", "moved", "pending", "linkMoved", "idleSince",
           "load", "released", "placed"}
Handled(w) == w.released \cup w.placed

\* The pairs that the process has moved or released within te_reopt_hold_down.
Resting(p) == p \in DOMAIN moved /\ moved[p] > now - HoldDown

\* Moves and releases share te_reopt_max_moves; a pair that had one of either
\* was not resting, and the memory of the process says so; nothing else of
\* that memory is lost.
Rationed(w) ==
    /\ DOMAIN w = Fields
    /\ IsFiniteSet(w.released) /\ IsFiniteSet(w.placed) /\ IsFiniteSet(DOMAIN w.auto)
    /\ Cardinality(w.released) + Cardinality(w.placed) <= MaxMoves
    /\ \A p \in Handled(w) : ~Resting(p) /\ p \in DOMAIN w.moved /\ w.moved[p] = now
    /\ \A p : p \notin Handled(w) => IF Resting(p) THEN p \in DOMAIN w.moved /\ w.moved[p] = moved[p]
                                     ELSE p \notin DOMAIN w.moved

\* A pair this pass has placed is on links that pass may use, and no user path
\* decides it.
WellPlaced(see, w) ==
    \A p \in Handled(w) : p \in DOMAIN w.auto =>
        LinksOf(w.auto[p]) \subseteq DOMAIN Usable(see) /\ ~Covered(p)

Sober(see, w) == Rationed(w) /\ WellPlaced(see, w)

LEMMA UsableLinks ==
    ASSUME NEW see
    PROVE  /\ DOMAIN Usable(see) = Links \ (see.dead \cup DOMAIN see.congested)
           /\ IsFiniteSet(DOMAIN Usable(see)) /\ \A l \in DOMAIN Usable(see) : l = <<l[1], l[2]>>
  <1>1. DOMAIN Usable(see) = Links \ (see.dead \cup DOMAIN see.congested)
    BY DEF Usable, Without, Restrict, Links
  <1>2. DOMAIN Usable(see) \in SUBSET Links
    BY <1>1
  <1> QED  BY <1>1, <1>2, FabricAssumption, FS_Subset

LEMMA OneMore ==
    ASSUME NEW S, NEW x, IsFiniteSet(S)
    PROVE  /\ IsFiniteSet(S \cup {x})
           /\ Cardinality(S) \in Nat /\ Cardinality(S \cup {x}) \in Nat
           /\ Cardinality(S \cup {x}) <= Cardinality(S) + 1
  <1>1. IsFiniteSet(S \cup {x})
    BY FS_AddElement
  <1>2. Cardinality(S) \in Nat /\ Cardinality(S \cup {x}) \in Nat
    BY <1>1, FS_CardinalityType
  <1>3. Cardinality(S \cup {x}) = IF x \in S THEN Cardinality(S) ELSE Cardinality(S) + 1
    BY FS_AddElement
  <1> QED  BY <1>1, <1>2, <1>3

\* A release while no pair is placed yet.
LEMMA JudgeSober ==
    ASSUME NEW see, NEW w, NEW p, Sober(see, w), w.placed = {}
    PROVE  Sober(see, Judge(see, w, p)) /\ Judge(see, w, p).placed = {}
  <1> DEFINE v == Judge(see, w, p)
  <1>1. v = w
        \/ \E timed : v = [w EXCEPT !.idleSince = timed]
        \/ /\ ~(Cardinality(w.released) >= MaxMoves) /\ ~HeldDown(w, p)
           /\ \E since : v = [w EXCEPT !.auto = Without(@, {p}), !.idleSince = since,
                              !.moved = Marked(@, {p}, now),
                              !.linkMoved = Marked(@, DefaultLinks(see, p), now),
                              !.released = @ \cup {p}]
    BY Zenon DEF Judge
  <1> HIDE DEF v
  <1>2. CASE v = w
    BY <1>2 DEF v
  <1>3. ASSUME NEW since, v = [w EXCEPT !.idleSince = since] PROVE Sober(see, v) /\ v.placed = {}
    <2>1. v.auto = w.auto /\ v.moved = w.moved /\ v.released = w.released /\ v.placed = w.placed /\ DOMAIN v = Fields
      BY <1>3 DEF Sober, Rationed, Fields
    <2> QED  BY <2>1 DEF Sober, Rationed, WellPlaced, Handled
  <1>4. ASSUME ~(Cardinality(w.released) >= MaxMoves), ~HeldDown(w, p), NEW since,
               v = [w EXCEPT !.auto = Without(@, {p}), !.idleSince = since,
                             !.moved = Marked(@, {p}, now),
                             !.linkMoved = Marked(@, DefaultLinks(see, p), now),
                             !.released = @ \cup {p}]
        PROVE  Sober(see, v) /\ v.placed = {}
    <2>1. v.auto = Without(w.auto, {p}) /\ v.moved = Marked(w.moved, {p}, now)
          /\ v.released = w.released \cup {p} /\ v.placed = w.placed /\ DOMAIN v = Fields
      BY <1>4 DEF Sober, Rationed, Fields
    <2>0. /\ DOMAIN Without(w.auto, {p}) = DOMAIN w.auto \ {p}
          /\ \A q \in DOMAIN w.auto \ {p} : Without(w.auto, {p})[q] = w.auto[q]
          /\ DOMAIN Marked(w.moved, {p}, now) = DOMAIN w.moved \cup {p}
          /\ Marked(w.moved, {p}, now)[p] = now
          /\ \A q \in DOMAIN w.moved : q # p => Marked(w.moved, {p}, now)[q] = w.moved[q]
      BY DEF Without, Restrict, Marked
    <2>2. IsFiniteSet(v.released) /\ Cardinality(v.released) + Cardinality(v.placed) <= MaxMoves
      <3>1. IsFiniteSet(w.released) /\ MaxMoves \in Nat
        BY ReoptAssumption DEF Sober, Rationed
      <3>2. Cardinality({}) = 0
        BY FS_EmptySet
      <3>3. IsFiniteSet(w.released \cup {p}) /\ Cardinality(w.released) \in Nat
            /\ Cardinality(w.released \cup {p}) \in Nat
            /\ Cardinality(w.released \cup {p}) <= Cardinality(w.released) + 1
        BY <3>1, OneMore
      <3> QED  BY <1>4, <2>1, <3>1, <3>2, <3>3
    <2>3. IsFiniteSet(DOMAIN v.auto)
      <3>1. IsFiniteSet(DOMAIN w.auto) /\ DOMAIN v.auto \in SUBSET DOMAIN w.auto
        BY <2>0, <2>1 DEF Sober, Rationed
      <3> QED  BY <3>1, FS_Subset
    <2>4. Handled(v) = Handled(w) \cup {p}
      BY <2>1 DEF Handled
    <2>5. ~Resting(p)
      BY <1>4 DEF Sober, Rationed, HeldDown, Resting
    <2>6. Rationed(v)
      BY <2>0, <2>1, <2>2, <2>3, <2>4, <2>5 DEF Sober, Rationed
    <2>7. WellPlaced(see, v)
      BY <2>0, <2>1, <2>4 DEF Sober, WellPlaced
    <2> QED  BY <2>1, <2>6, <2>7 DEF Sober
  <1>5. Sober(see, v) /\ v.placed = {}
    BY <1>1, <1>2, <1>3, <1>4
  <1> QED  BY <1>5 DEF v

LEMMA TryMoveSober ==
    ASSUME NEW see, NEW l, NEW w, NEW p, Sober(see, w)
    PROVE  Sober(see, TryMove(see, l, w, p)) /\ TryMove(see, l, w, p).read = w.read
  <1> DEFINE v == TryMove(see, l, w, p)
  <1> DEFINE path == Compute(Usable(see), Used(see, w, p), SrcHost[p], DstHost[p], PairRate(see, p))
  <1> DEFINE may == /\ Cardinality(w.released) + Cardinality(w.placed) < MaxMoves
                    /\ Above(w.load, Low, l)
                    /\ ~Covered(p) /\ ~HeldDown(w, p)
                    /\ p \in DOMAIN w.table \/ RoomForAnother(see, w.table, p)
  <1> DEFINE waiting == [at |-> now, on |-> LinksOf(path), rate |-> PairRate(see, p)]
  <1>1. v = IF ~may \/ path = NoPath \/ ~Fits(see, path, Used(see, w, p), p) THEN w
            ELSE [w EXCEPT !.auto = Marked(@, {p}, path), !.table = Marked(@, {p}, path),
                           !.moved = Marked(@, {p}, now), !.idleSince = Without(@, {p}),
                           !.linkMoved = Marked(@, LinksUsed(see, p), now),
                           !.pending = Marked(@, {p}, waiting),
                           !.load = @ - RateOn(see, p, l), !.placed = @ \cup {p}]
    <2>1. Once(LAMBDA held : Compute(Usable(see), held, SrcHost[p], DstHost[p], PairRate(see, p)),
               Used(see, w, p)) = path
      BY DEF Once
    <2> QED  BY <2>1 DEF TryMove
  <1> SUFFICES Sober(see, v) /\ v.read = w.read
    OBVIOUS
  <1> HIDE DEF v
  <1>2. CASE v = w
    BY <1>2
  <1>3. CASE may /\ path # NoPath /\ v # w
    <2>0. LinksOf(path) \subseteq DOMAIN Usable(see)
      BY <1>3, UsableLinks, ComputedOn
    <2> HIDE DEF path
    <2>1. v.auto = Marked(w.auto, {p}, path) /\ v.moved = Marked(w.moved, {p}, now) /\ v.read = w.read
          /\ v.released = w.released /\ v.placed = w.placed \cup {p} /\ DOMAIN v = Fields
      BY <1>1, <1>3 DEF Sober, Rationed, Fields
    <2>8. /\ DOMAIN Marked(w.auto, {p}, path) = DOMAIN w.auto \cup {p}
          /\ Marked(w.auto, {p}, path)[p] = path
          /\ \A q \in DOMAIN w.auto : q # p => Marked(w.auto, {p}, path)[q] = w.auto[q]
          /\ DOMAIN Marked(w.moved, {p}, now) = DOMAIN w.moved \cup {p}
          /\ Marked(w.moved, {p}, now)[p] = now
          /\ \A q \in DOMAIN w.moved : q # p => Marked(w.moved, {p}, now)[q] = w.moved[q]
      BY DEF Marked
    <2>2. IsFiniteSet(v.placed) /\ Cardinality(v.released) + Cardinality(v.placed) <= MaxMoves
      <3>1. IsFiniteSet(w.released) /\ IsFiniteSet(w.placed) /\ MaxMoves \in Nat
        BY ReoptAssumption DEF Sober, Rationed
      <3>2. Cardinality(w.released) \in Nat
        BY <3>1, FS_CardinalityType
      <3>3. IsFiniteSet(w.placed \cup {p}) /\ Cardinality(w.placed) \in Nat
            /\ Cardinality(w.placed \cup {p}) \in Nat
            /\ Cardinality(w.placed \cup {p}) <= Cardinality(w.placed) + 1
        BY <3>1, OneMore
      <3> QED  BY <1>3, <2>1, <3>1, <3>2, <3>3
    <2>3. IsFiniteSet(DOMAIN v.auto)
      <3>1. IsFiniteSet(DOMAIN w.auto) /\ DOMAIN v.auto = DOMAIN w.auto \cup {p}
        BY <2>8, <2>1 DEF Sober, Rationed
      <3> QED  BY <3>1, OneMore
    <2>4. Handled(v) = Handled(w) \cup {p}
      BY <2>1 DEF Handled
    <2>5. ~Resting(p)
      BY <1>3 DEF Sober, Rationed, HeldDown, Resting
    <2>6. Rationed(v)
      <3>1. IsFiniteSet(v.released)
        BY <2>1 DEF Sober, Rationed
      <3> QED  BY <2>8, <2>1, <2>2, <2>3, <2>4, <2>5, <3>1 DEF Sober, Rationed
    <2>7. WellPlaced(see, v)
      BY <1>3, <2>0, <2>8, <2>1, <2>4 DEF Sober, WellPlaced
    <2> QED  BY <2>1, <2>6, <2>7 DEF Sober
  <1> QED  BY <1>1, <1>2, <1>3

LEMMA ReleaseSober ==
    ASSUME NEW see, NEW w, NEW order, NEW n \in Nat, DOMAIN order = 1..n,
           Sober(see, w), w.placed = {}
    PROVE  Sober(see, Release(see, w, order))
  <1>1. PICK g : Chain(g, "judge", see, 0, w, order, n) /\ Release(see, w, order) = g[n]
    BY ReleaseChains
  <1> DEFINE S == {k \in Nat : k <= n => Sober(see, g[k]) /\ g[k].placed = {}}
  <1>2. 0 \in S
    BY <1>1 DEF Chain
  <1>3. ASSUME NEW k \in Nat, k \in S PROVE k + 1 \in S
    <2> SUFFICES ASSUME k + 1 <= n PROVE Sober(see, g[k + 1]) /\ g[k + 1].placed = {}
      OBVIOUS
    <2>1. k + 1 \in 1..n /\ k + 1 - 1 = k /\ Sober(see, g[k]) /\ g[k].placed = {}
      BY <1>3
    <2>2. g[k + 1] = Judge(see, g[k], order[k + 1])
      BY <1>1, <2>1 DEF Chain, Turn
    <2> QED  BY <2>1, <2>2, JudgeSober
  <1>4. n \in S
    <2> HIDE DEF S
    <2> QED  BY <1>2, <1>3, SetInduction
  <1> QED  BY <1>1, <1>4

LEMMA RelieveSober ==
    ASSUME NEW see, NEW w, NEW l, Sober(see, w)
    PROVE  Sober(see, Relieve(see, w, l))
  <1> DEFINE few == Cardinality({p \in DOMAIN see.pairs : l \in LinksUsed(see, p)}) <= 1
  <1>1. CASE few
    <2>1. Relieve(see, w, l) = w
      BY <1>1 DEF Relieve
    <2> QED  BY <2>1
  <1>2. CASE ~few
    <2> DEFINE worth == {p \in Pairs : l \in LinksUsed(see, p)
                              /\ 100 * RateOn(see, p, l) >= MinShare * Capacity[l]}
    <2> DEFINE n == Cardinality(worth)
    <2>1. n \in Nat
      <3>1. worth \in SUBSET Pairs
        OBVIOUS
      <3> HIDE DEF worth
      <3> QED  BY <3>1, FabricAssumption, FS_Subset, FS_CardinalityType
    <2>2. DOMAIN Candidates(see, l) = 1..n
      BY DEF Candidates, Sorted
    <2> HIDE DEF n
    <2> DEFINE start == ReliefStart(see, l, w)
    <2>3. PICK g : Chain(g, "try", see, l, start, Candidates(see, l), n) /\ Relieve(see, w, l) = g[n]
      BY <1>2, <2>1, <2>2, ReliefChains
    <2>4. Sober(see, start)
      <3>1. start.auto = w.auto /\ start.moved = w.moved /\ start.released = w.released
            /\ start.placed = w.placed /\ DOMAIN start = Fields
        BY DEF ReliefStart, Sober, Rationed, Fields
      <3> HIDE DEF start
      <3> QED  BY <3>1 DEF Sober, Rationed, WellPlaced, Handled
    <2> HIDE DEF start
    <2> DEFINE S == {k \in Nat : k <= n => Sober(see, g[k])}
    <2>5. 0 \in S
      BY <2>3, <2>4 DEF Chain
    <2>6. ASSUME NEW k \in Nat, k \in S PROVE k + 1 \in S
      <3> SUFFICES ASSUME k + 1 <= n PROVE Sober(see, g[k + 1])
        OBVIOUS
      <3>1. k + 1 \in 1..n /\ k + 1 - 1 = k /\ Sober(see, g[k])
        BY <2>1, <2>6
      <3>2. g[k + 1] = TryMove(see, l, g[k], Candidates(see, l)[k + 1])
        BY <2>3, <3>1 DEF Chain, Turn
      <3> QED  BY <3>1, <3>2, TryMoveSober
    <2>7. n \in S
      <3> HIDE DEF S
      <3> QED  BY <2>1, <2>5, <2>6, SetInduction
    <2> QED  BY <2>1, <2>3, <2>7
  <1> QED  BY <1>1, <1>2

LEMMA SteerSober ==
    ASSUME NEW see, NEW w, Sober(see, w), IsFiniteSet(DOMAIN see.congested)
    PROVE  Sober(see, Steer(see, w))
  <1> DEFINE n == Cardinality(DOMAIN see.congested)
  <1> DEFINE start == [w EXCEPT !.read = w.auto]
  <1>1. n \in Nat
    BY FS_CardinalityType
  <1>2. DOMAIN Hottest(see) = 1..n
    BY DEF Hottest, Sorted
  <1> HIDE DEF n
  <1>3. PICK g : Chain(g, "relieve", see, 0, start, Hottest(see), n) /\ Steer(see, w) = g[n]
    BY <1>1, <1>2, SteerChains
  <1>4. Sober(see, start)
    <2>1. start.auto = w.auto /\ start.moved = w.moved /\ start.released = w.released
          /\ start.placed = w.placed /\ DOMAIN start = Fields
      BY DEF Sober, Rationed, Fields
    <2> HIDE DEF start
    <2> QED  BY <2>1 DEF Sober, Rationed, WellPlaced, Handled
  <1> HIDE DEF start
  <1> DEFINE S == {k \in Nat : k <= n => Sober(see, g[k])}
  <1>5. 0 \in S
    BY <1>3, <1>4 DEF Chain
  <1>6. ASSUME NEW k \in Nat, k \in S PROVE k + 1 \in S
    <2> SUFFICES ASSUME k + 1 <= n PROVE Sober(see, g[k + 1])
      OBVIOUS
    <2>1. k + 1 \in 1..n /\ k + 1 - 1 = k /\ Sober(see, g[k])
      BY <1>1, <1>6
    <2>2. g[k + 1] = Relieve(see, g[k], Hottest(see)[k + 1])
      BY <1>3, <2>1 DEF Chain, Turn
    <2> QED  BY <2>1, <2>2, RelieveSober
  <1>7. n \in S
    <2> HIDE DEF S
    <2> QED  BY <1>1, <1>5, <1>6, SetInduction
  <1> QED  BY <1>1, <1>3, <1>7

\* A reading's parts.
LEMMA ReadingIs ==
    /\ Reading.congested = CongestedIn(LoadSeries)
    /\ Reading.dead = DeadLinks(SilentFabric(LastSeen))
    /\ IsFiniteSet(DOMAIN Reading.congested)
  <1>1. /\ Reading.congested = CongestedIn(LoadSeries)
        /\ Reading.dead = DeadLinks(SilentFabric(LastSeen))
    <2> DEFINE read(series, seen) ==
            [congested |-> CongestedIn(series), measured |-> MeasuredLoad(series),
             dead |-> Once(DeadLinks, SilentFabric(seen)),
             pairs |-> Once(PairsOf, AggregateView(seen))]
    <2> DEFINE last(series) == Once(LAMBDA seen : read(series, seen), LastSeen)
    <2> DEFINE parts == Once(LAMBDA series : last(series), LoadSeries)
    <2>1. Reading = parts
      BY DEF Reading
    <2> HIDE DEF last
    <2>2. parts = last(LoadSeries)
      BY DEF Once
    <2> HIDE DEF read, parts
    <2>3. last(LoadSeries) = read(LoadSeries, LastSeen)
      BY DEF Once, last
    <2>4. Once(DeadLinks, SilentFabric(LastSeen)) = DeadLinks(SilentFabric(LastSeen))
      BY DEF Once
    <2> QED  BY <2>1, <2>2, <2>3, <2>4 DEF read
  <1>2. DOMAIN CongestedIn(LoadSeries) \in SUBSET Links
    BY DEF CongestedIn, LoadSeries
  <1> QED  BY <1>1, <1>2, FabricAssumption, FS_Subset

\* Any pass, from a memory in which an automatic path is one of finitely many.
LEMMA OutcomeSober ==
    ASSUME IsFiniteSet(DOMAIN auto), NEW order \in SetToSeqs(DOMAIN auto)
    PROVE  Sober(Reading, Outcome(Reading, order))
  <1> DEFINE see == Reading
  <1>1. IsFiniteSet(DOMAIN see.congested)
    BY ReadingIs
  <1> HIDE DEF see
  <1> DEFINE n == Cardinality(DOMAIN auto)
  <1>2. n \in Nat
    BY FS_CardinalityType
  <1>3. DOMAIN order = 1..n
    BY DEF SetToSeqs
  <1> HIDE DEF n
  <1>4. Sober(see, Start) /\ Start.placed = {}
    <2>1. /\ DOMAIN Start = Fields /\ Start.released = {} /\ Start.placed = {}
          /\ Start.auto = auto
          /\ Start.moved = Restrict(moved, {p \in DOMAIN moved : moved[p] > now - HoldDown})
      BY DEF Start, Fields
    <2>2. IsFiniteSet({}) /\ Cardinality({}) = 0 /\ MaxMoves \in Nat
      BY FS_EmptySet, ReoptAssumption
    <2>3. \A p : IF Resting(p) THEN p \in DOMAIN Start.moved /\ Start.moved[p] = moved[p]
                 ELSE p \notin DOMAIN Start.moved
      BY <2>1 DEF Restrict, Resting
    <2>4. Handled(Start) = {}
      BY <2>1 DEF Handled
    <2>5. Rationed(Start)
      BY <2>1, <2>2, <2>3, <2>4 DEF Rationed
    <2> QED  BY <2>1, <2>4, <2>5 DEF Sober, WellPlaced
  <1>5. Sober(see, Release(see, Start, order))
    BY <1>2, <1>3, <1>4, ReleaseSober
  <1>6. Sober(see, Steer(see, Release(see, Start, order)))
    BY <1>1, <1>5, SteerSober
  <1>7. Outcome(see, order) = Steer(see, Release(see, Start, order))
    BY DEF Outcome, Once
  <1>8. Sober(see, Outcome(see, order))
    BY <1>6, <1>7
  <1> QED  BY <1>8 DEF see

-----------------------------------------------------------------------------
(* Moves and releases are rationed                                         *)

\* What the process remembers of the pairs it has moved or released lately,
\* and that the automatic paths are finitely many.
Remembered ==
    /\ now \in Nat /\ IsFiniteSet(DOMAIN auto)
    /\ \A p \in DOMAIN lastTouch :
          /\ lastTouch[p] \in Nat
          /\ now - lastTouch[p] < HoldDown => p \in DOMAIN moved /\ moved[p] = lastTouch[p]

RationedStep ==
    /\ Cardinality(Touched) <= MaxMoves
    /\ \A p \in Touched : p \in DOMAIN lastTouch => now - lastTouch[p] >= HoldDown

\* The steps that leave the process's memory and the automatic paths alone.
Elsewhere ==
    /\ UNCHANGED <<auto, moved, lastTouch>>
    /\ now' = now \/ now' = now + 1

LEMMA NextCases ==
    ASSUME [Next]_vars
    PROVE  \/ Elsewhere
           \/ \E p \in DOMAIN auto : DeletesAuto(p)
           \/ \E order \in SetToSeqs(DOMAIN auto) : Pass(order)
           \/ Restart
  <1>1. ASSUME NEW f, Period(f) PROVE Elsewhere
    BY <1>1 DEF Period, Measure, Elsewhere, memory
  <1>2. ASSUME NEW p, NEW mbps, DemandChanges(p, mbps) PROVE Elsewhere
    BY <1>2 DEF DemandChanges, Elsewhere, memory, fabric
  <1>3. ASSUME NEW p, NEW path, Rehash(p, path) PROVE Elsewhere
    BY <1>3 DEF Rehash, Elsewhere, memory, fabric
  <1>4. ASSUME NEW l, Break(l) PROVE Elsewhere
    BY <1>4 DEF Break, Elsewhere, memory, fabric
  <1>5. ASSUME NEW sel, UserCreates(sel) PROVE Elsewhere
    BY <1>5 DEF UserCreates, Elsewhere, memory, fabric
  <1>6. CASE UNCHANGED vars
    BY <1>6 DEF vars, Elsewhere, memory, history, fabric
  <1>7. CASE Next
    BY <1>1, <1>2, <1>3, <1>4, <1>5, <1>7 DEF Next
  <1> QED  BY <1>6, <1>7

\* Whom a step has touched: nobody, unless it is a pass.
LEMMA UntouchedElsewhere ==
    ASSUME \/ lastTouch' = lastTouch
           \/ lastTouch' = << >>
    PROVE  Touched = {} /\ Placed = {} /\ RationedStep
  <1>1. Touched = {}
    BY DEF Touched
  <1>2. Cardinality({}) = 0 /\ MaxMoves \in Nat
    BY FS_EmptySet, ReoptAssumption
  <1> QED  BY <1>1, <1>2 DEF RationedStep, Placed

\* What a pass does, of what the properties are about.
Passed(w) ==
    /\ Sober(Reading, w)
    /\ auto' = w.auto /\ moved' = w.moved
    /\ lastTouch' = Marked(lastTouch, Handled(w), now)
    /\ UNCHANGED <<fabric, world, brokenAt>>

LEMMA PassSober ==
    ASSUME IsFiniteSet(DOMAIN auto), NEW order \in SetToSeqs(DOMAIN auto), Pass(order)
    PROVE  \E w : Passed(w)
  <1>1. PICK w : /\ w = Outcome(Reading, order)
                 /\ auto' = w.auto /\ moved' = w.moved
                 /\ lastTouch' = Marked(lastTouch, w.released \cup w.placed, now)
                 /\ UNCHANGED <<fabric, world, brokenAt>>
    BY DEF Pass
  <1>2. Sober(Reading, w)
    BY <1>1, OutcomeSober
  <1>3. Passed(w)
    BY <1>1, <1>2 DEF Passed, Handled
  <1> QED  BY <1>3

LEMMA TouchedHandled ==
    ASSUME NEW w, Passed(w)
    PROVE  Touched \subseteq Handled(w)
  BY DEF Passed, Touched, Marked

LEMMA RememberedInit == Init => Remembered
  <1> SUFFICES ASSUME Init PROVE Remembered
    OBVIOUS
  <1>1. PICK s \in Starts : auto = s.auto
    BY DEF Init
  <1>2. IsFiniteSet(DOMAIN auto)
    BY <1>1, ReoptAssumption
  <1>3. now = 0 /\ lastTouch = << >>
    BY DEF Init, FabricInit
  <1> QED  BY <1>2, <1>3 DEF Remembered

LEMMA RememberedNext == Remembered /\ [Next]_vars => Remembered'
  <1> SUFFICES ASSUME Remembered, [Next]_vars PROVE Remembered'
    OBVIOUS
  <1>0. HoldDown \in Nat
    BY ReoptAssumption
  <1>1. CASE Elsewhere
    BY <1>0, <1>1 DEF Elsewhere, Remembered
  <1>2. ASSUME NEW p \in DOMAIN auto, DeletesAuto(p) PROVE Remembered'
    <2>1. auto' = Without(auto, {p}) /\ now' = now /\ moved' = moved /\ lastTouch' = lastTouch
      BY <1>2 DEF DeletesAuto, fabric, memory
    <2>2. DOMAIN auto' \in SUBSET DOMAIN auto
      BY <2>1 DEF Without, Restrict
    <2>3. IsFiniteSet(DOMAIN auto')
      BY <2>2, FS_Subset DEF Remembered
    <2> QED  BY <2>1, <2>3 DEF Remembered
  <1>3. ASSUME NEW order \in SetToSeqs(DOMAIN auto), Pass(order) PROVE Remembered'
    <2>1. PICK w : Passed(w)
      BY <1>3, PassSober DEF Remembered
    <2>2. now' = now /\ auto' = w.auto /\ moved' = w.moved
          /\ lastTouch' = Marked(lastTouch, Handled(w), now)
      BY <2>1 DEF Passed, fabric
    <2>3. IsFiniteSet(DOMAIN auto')
      BY <2>1, <2>2 DEF Passed, Sober, Rationed
    <2>4. ASSUME NEW p \in DOMAIN lastTouch'
          PROVE  /\ lastTouch'[p] \in Nat
                 /\ now - lastTouch'[p] < HoldDown => p \in DOMAIN w.moved /\ w.moved[p] = lastTouch'[p]
      <3>1. CASE p \in Handled(w)
        <4>1. lastTouch'[p] = now
          BY <2>2, <3>1 DEF Marked
        <4> QED  BY <2>1, <3>1, <4>1 DEF Passed, Sober, Rationed, Remembered
      <3>2. CASE p \notin Handled(w)
        <4>1. p \in DOMAIN lastTouch /\ lastTouch'[p] = lastTouch[p]
          BY <2>2, <3>2 DEF Marked
        <4>2. CASE Resting(p)
          <5>1. p \in DOMAIN w.moved /\ w.moved[p] = moved[p]
            BY <2>1, <3>2, <4>2 DEF Passed, Sober, Rationed
          <5> QED  BY <4>1, <5>1 DEF Remembered
        <4>3. CASE ~Resting(p)
          <5>1. ~(now - lastTouch[p] < HoldDown)
            BY <1>0, <4>1, <4>3 DEF Remembered, Resting
          <5> QED  BY <4>1, <5>1 DEF Remembered
        <4> QED  BY <4>2, <4>3
      <3> QED  BY <3>1, <3>2
    <2> QED  BY <2>2, <2>3, <2>4 DEF Remembered
  <1>4. CASE Restart
    <2>1. lastTouch' = << >> /\ auto' = auto /\ now' = now
      BY <1>4 DEF Restart, fabric
    <2> QED  BY <2>1 DEF Remembered
  <1> QED  BY <1>1, <1>2, <1>3, <1>4, NextCases

LEMMA RationedNext == Remembered /\ [Next]_vars => RationedStep
  <1> SUFFICES ASSUME Remembered, [Next]_vars PROVE RationedStep
    OBVIOUS
  <1>1. ASSUME NEW order \in SetToSeqs(DOMAIN auto), Pass(order) PROVE RationedStep
    <2>1. PICK w : Passed(w)
      BY <1>1, PassSober DEF Remembered
    <2>2. Touched \in SUBSET Handled(w)
      BY <2>1, TouchedHandled
    <2>3. Cardinality(Touched) <= MaxMoves
      <3>1. IsFiniteSet(w.released) /\ IsFiniteSet(w.placed)
            /\ Cardinality(w.released) + Cardinality(w.placed) <= MaxMoves
        BY <2>1 DEF Passed, Sober, Rationed
      <3>2. IsFiniteSet(Handled(w)) /\ Cardinality(Handled(w)) <= Cardinality(w.released) + Cardinality(w.placed)
        <4> DEFINE A == w.released
        <4> DEFINE B == w.placed
        <4>1. IsFiniteSet(A) /\ IsFiniteSet(B)
          BY <3>1
        <4> HIDE DEF A, B
        <4>2. IsFiniteSet(A \cup B)
              /\ Cardinality(A \cup B) = Cardinality(A) + Cardinality(B) - Cardinality(A \cap B)
          BY <4>1, FS_Union
        <4>3. A \cap B \in SUBSET A
          OBVIOUS
        <4>4. IsFiniteSet(A \cap B)
          BY <4>1, <4>3, FS_Subset
        <4>5. Cardinality(A) \in Nat /\ Cardinality(B) \in Nat /\ Cardinality(A \cap B) \in Nat
          BY <4>1, <4>4, FS_CardinalityType
        <4> QED  BY <4>2, <4>5 DEF Handled, A, B
      <3>3. Cardinality(w.released) \in Nat /\ Cardinality(w.placed) \in Nat /\ Cardinality(Handled(w)) \in Nat
        BY <3>1, <3>2, FS_CardinalityType
      <3>4. IsFiniteSet(Touched) /\ Cardinality(Touched) <= Cardinality(Handled(w))
        BY <2>2, <3>2, FS_Subset
      <3>5. Cardinality(Touched) \in Nat /\ MaxMoves \in Nat
        BY <3>4, FS_CardinalityType, ReoptAssumption
      <3> QED  BY <3>1, <3>2, <3>3, <3>4, <3>5
    <2>4. ASSUME NEW p \in Touched, p \in DOMAIN lastTouch PROVE now - lastTouch[p] >= HoldDown
      <3>1. ~Resting(p)
        BY <2>1, <2>2 DEF Passed, Sober, Rationed
      <3>2. HoldDown \in Nat
        BY ReoptAssumption
      <3> QED  BY <2>4, <3>1, <3>2 DEF Resting, Remembered
    <2> QED  BY <2>3, <2>4 DEF RationedStep
  <1>2. CASE Elsewhere
    BY <1>2, UntouchedElsewhere DEF Elsewhere
  <1>3. ASSUME NEW p \in DOMAIN auto, DeletesAuto(p) PROVE RationedStep
    BY <1>3, UntouchedElsewhere DEF DeletesAuto
  <1>4. CASE Restart
    BY <1>4, UntouchedElsewhere DEF Restart
  <1> QED  BY <1>1, <1>2, <1>3, <1>4, NextCases

\* Whatever the fabric does and the measurements say, a pair that was moved or
\* released is left alone for te_reopt_hold_down, and a pass moves and releases
\* te_reopt_max_moves pairs at most (te_reopt.py _release, _steer, _allowed).
THEOREM MovesAreRationed == Spec => MovesRationed
  <1>1. Init => Remembered
    BY RememberedInit
  <1>2. Remembered /\ [Next]_vars => Remembered'
    BY RememberedNext
  <1>3. Remembered /\ [Next]_vars => [RationedStep]_vars
    BY RationedNext
  <1>4. RationedStep <=> /\ Cardinality(Touched) <= MaxMoves
                         /\ \A p \in Touched : p \in DOMAIN lastTouch => now - lastTouch[p] >= HoldDown
    BY DEF RationedStep
  <1> QED  BY <1>1, <1>2, <1>3, <1>4, PTL DEF Spec, MovesRationed

\* What the sum of some pairs' rates is made of.
SumOf(flow, T) == FoldSet(LAMBDA p, acc : acc + flow[p].rate, 0, T)
Sums(f, flow, T) ==
    \A s \in SUBSET T : IF s = {} THEN f[s] = 0
                        ELSE \E x \in s : f[s] = f[s \ {x}] + flow[x].rate

LEMMA SumRecursion ==
    ASSUME NEW flow, NEW T, IsFiniteSet(T)
    PROVE  \E f : SumOf(flow, T) = f[T] /\ Sums(f, flow, T)
  <1> DEFINE weight == [p \in T |-> flow[p].rate]
  <1> DEFINE Body(f, s) == IF s = {} THEN 0 ELSE f[s \ {Pick(s)}] + flow[Pick(s)].rate
  <1> DEFINE Iterates(f) == f = [s \in SUBSET T |-> Body(f, s)]
  <1> DEFINE iter == CHOOSE f : Iterates(f)
  <1>1. \A s \in SUBSET T : s # {} => Pick(s) \in s
    BY DEF Pick
  <1>2. \E f : Iterates(f)
    <2>1. PICK f : f = [s \in SUBSET T |-> IF s = {} THEN 0 ELSE f[s \ {Pick(s)}] + weight[Pick(s)]]
      BY SumExists
    <2>2. \A s \in SUBSET T : s # {} => weight[Pick(s)] = flow[Pick(s)].rate
      BY <1>1
    <2> HIDE DEF weight
    <2>3. \A s \in SUBSET T : f[s] = Body(f, s)
      <3>1. \A s \in SUBSET T : f[s] = IF s = {} THEN 0 ELSE f[s \ {Pick(s)}] + weight[Pick(s)]
        BY <2>1
      <3> QED  BY <2>2, <3>1
    <2>4. f = [s \in SUBSET T |-> f[s]]
      BY <2>1
    <2> QED  BY <2>3, <2>4
  <1>3. Iterates(iter)
    BY <1>2
  <1>4. SumOf(flow, T) = iter[T]
    BY DEF SumOf, FoldSet, MapThenFoldSet, Pick
  <1> HIDE DEF iter
  <1>5. \A s \in SUBSET T : iter[s] = Body(iter, s)
    BY <1>3
  <1>6. Sums(iter, flow, T)
    BY <1>1, <1>5 DEF Sums
  <1> QED  BY <1>4, <1>6

LEMMA CarriedIsNat ==
    ASSUME NEW flow, \A p \in Pairs : flow[p].rate \in Nat, NEW l
    PROVE  Carried(flow, l) \in Nat
  <1> DEFINE T == {p \in Pairs : l \in flow[p].on}
  <1> DEFINE weight == [p \in T |-> flow[p].rate]
  <1>1. T \subseteq Pairs /\ \A p \in T : flow[p].rate \in Nat
    OBVIOUS
  <1>2. Carried(flow, l) = SumOf(flow, T)
    BY DEF Carried, SumOf
  <1> HIDE DEF T
  <1>3. IsFiniteSet(T)
    BY <1>1, FabricAssumption, FS_Subset
  <1>4. PICK f : SumOf(flow, T) = f[T] /\ Sums(f, flow, T)
    BY <1>3, SumRecursion
  <1>5. \A p \in T : weight[p] = flow[p].rate /\ weight[p] \in Nat
    BY <1>1
  <1> HIDE DEF weight
  <1>6. \A s \in SUBSET T : IF s = {} THEN f[s] = 0 ELSE \E x \in s : f[s] = f[s \ {x}] + weight[x]
    BY <1>4, <1>5 DEF Sums
  <1>7. f[T] \in Nat
    BY <1>3, <1>5, <1>6, SumBounds
  <1> QED  BY <1>2, <1>4, <1>7

-----------------------------------------------------------------------------
(* What the agents have reported                                           *)

Row == [t : Nat, up : BOOLEAN, mbps : Nat \cup {NoRate}]

Typed ==
    /\ now \in Nat
    /\ demand \in [Pairs -> Nat]
    /\ octets \in [Interfaces -> Nat]
    /\ states \in [Interfaces -> Seq(Row)]
    /\ \A i \in Interfaces : states[i] # << >> => Newest(i).t <= now

\* A link that is down was seen down by whoever reported on it since.
SeenDown ==
    /\ \A l \in broken : l \in DOMAIN brokenAt /\ brokenAt[l] \in Nat /\ brokenAt[l] <= now
    /\ \A i \in Interfaces :
          states[i] # << >> /\ i[1] \in broken /\ Newest(i).t > brokenAt[i[1]] => ~Newest(i).up

LEMMA RecentRowsTyped ==
    ASSUME NEW rows \in Seq(Row)
    PROVE  RecentRows(rows) \in Seq(Row)
  <1> DEFINE D == {n \in DOMAIN rows : ~Recent(rows[n])}
  <1>1. DOMAIN rows = 1..Len(rows) /\ Len(rows) \in Nat
    OBVIOUS
  <1>2. D \in SUBSET (1..Len(rows)) /\ RecentRows(rows) = SubSeq(rows, 1 + Cardinality(D), Len(rows))
    BY <1>1 DEF RecentRows
  <1> HIDE DEF D
  <1>3. Cardinality(D) \in Nat
    <2>1. IsFiniteSet(1..Len(rows))
      BY <1>1, FS_Interval
    <2>2. IsFiniteSet(D)
      BY <1>2, <2>1, FS_Subset
    <2> QED  BY <2>2, FS_CardinalityType
  <1>4. \A i \in (1 + Cardinality(D))..Len(rows) : rows[i] \in Row
    BY <1>1, <1>3
  <1>5. SubSeq(rows, 1 + Cardinality(D), Len(rows)) \in Seq(Row)
    BY <1>1, <1>3, <1>4, SubSeqProperties
  <1> QED  BY <1>2, <1>5

\* A flow that carries what the pairs send.
Flowing(flow) == \A p \in Pairs : flow[p].rate \in Nat

LEMMA FlowsAreTyped == ASSUME Typed PROVE Flowing(FlowsWith(auto))
  BY DEF Typed, Flowing, FlowsWith

\* What a period leaves in the counters and in the newest rows.
LEMMA OctetsAre ==
    ASSUME Typed, NEW flow, Flowing(flow), NEW reset, NEW i \in Interfaces
    PROVE  /\ octets[i] \in Nat /\ Carried(flow, i[1]) \in Nat
           /\ OctetsAfter(flow, reset)[i] \in {Carried(flow, i[1]), octets[i] + Carried(flow, i[1])}
  <1>1. octets[i] \in Nat /\ Carried(flow, i[1]) \in Nat
    BY CarriedIsNat DEF Typed, Flowing
  <1> QED  BY <1>1 DEF OctetsAfter

LEMMA RatesAre ==
    ASSUME Typed, NEW flow, Flowing(flow), NEW f, NEW i \in Interfaces, NEW down
    PROVE  LET row == StateRow(flow, f, down, i)
           IN  /\ row \in Row /\ row.t = now + 1 /\ (row.up <=> i[1] \notin down)
               /\ row.mbps # NoRate => row.mbps <= Carried(flow, i[1])
  <1> DEFINE before == octets[i]
  <1> DEFINE after == OctetsAfter(flow, f.reset)[i]
  <1> DEFINE rate == RateOf(before, after)
  <1>1. before \in Nat /\ Carried(flow, i[1]) \in Nat /\ after \in {Carried(flow, i[1]), before + Carried(flow, i[1])}
    BY OctetsAre
  <1>2. StateRow(flow, f, down, i) = [t |-> now + 1, up |-> i[1] \notin down, mbps |-> rate]
    BY DEF StateRow
  <1> HIDE DEF before, after
  <1>3. rate \in Nat \cup {NoRate} /\ (rate # NoRate => rate <= Carried(flow, i[1]))
    <2>1. CASE after < before
      BY <2>1 DEF RateOf
    <2>2. CASE ~(after < before)
      <3>1. rate = after - before
        BY <2>2 DEF RateOf
      <3> QED  BY <1>1, <2>2, <3>1
    <2> QED  BY <2>1, <2>2
  <1> HIDE DEF rate
  <1>4. now + 1 \in Nat
    BY DEF Typed
  <1> DEFINE row == StateRow(flow, f, down, i)
  <1>5. row \in Row /\ row.t = now + 1 /\ row.up = (i[1] \notin down) /\ row.mbps = rate
    <2>1. (i[1] \notin down) \in BOOLEAN
      OBVIOUS
    <2> QED  BY <1>2, <1>3, <1>4, <2>1 DEF Row
  <1> QED  BY <1>3, <1>5

LEMMA RowsAfter ==
    ASSUME Typed, NEW flow, Flowing(flow), NEW f, NEW down, Measure(flow, f, down),
           NEW i \in Interfaces
    PROVE  /\ states'[i] \in Seq(Row)
           /\ IF i[2] \in Reporters \ f.links
              THEN states'[i] # << >> /\ Last(states'[i]) = StateRow(flow, f, down, i)
              ELSE states'[i] = states[i]
  <1> DEFINE row == StateRow(flow, f, down, i)
  <1>1. row \in Row
    BY RatesAre
  <1>2. states[i] \in Seq(Row)
    BY DEF Typed
  <1>3. states'[i] = IF i[2] \in Reporters \ f.links THEN Append(RecentRows(states[i]), row) ELSE states[i]
    BY DEF Measure, AddLinkStates
  <1> HIDE DEF row
  <1>4. CASE i[2] \in Reporters \ f.links
    <2> DEFINE kept == RecentRows(states[i])
    <2>1. kept \in Seq(Row)
      BY <1>2, RecentRowsTyped
    <2> HIDE DEF kept
    <2>2. Append(kept, row) \in Seq(Row) /\ Append(kept, row) # << >> /\ Len(kept) \in Nat
          /\ Len(Append(kept, row)) = Len(kept) + 1 /\ Append(kept, row)[Len(kept) + 1] = row
      BY <1>1, <2>1, AppendProperties
    <2>3. Last(Append(kept, row)) = row
      BY <2>2 DEF Last
    <2> QED  BY <1>3, <1>4, <2>2, <2>3 DEF kept, row
  <1>5. CASE i[2] \notin Reporters \ f.links
    BY <1>2, <1>3, <1>5
  <1> QED  BY <1>4, <1>5

LEMMA TypedMeasure ==
    ASSUME Typed, NEW flow, Flowing(flow), NEW f, NEW down, Measure(flow, f, down), demand' = demand
    PROVE  Typed'
  <1>1. now' = now + 1 /\ now' \in Nat
    BY DEF Typed, Measure
  <1>2. octets' \in [Interfaces -> Nat]
    <2>1. octets' = OctetsAfter(flow, f.reset)
      BY DEF Measure
    <2>2. OctetsAfter(flow, f.reset) = [i \in Interfaces |-> OctetsAfter(flow, f.reset)[i]]
      BY DEF OctetsAfter
    <2>3. ASSUME NEW i \in Interfaces PROVE OctetsAfter(flow, f.reset)[i] \in Nat
      BY OctetsAre
    <2> QED  BY <2>1, <2>2, <2>3
  <1>3. states' \in [Interfaces -> Seq(Row)]
    <2>1. states' = [i \in Interfaces |-> states'[i]]
      BY DEF Measure, AddLinkStates
    <2>2. ASSUME NEW i \in Interfaces PROVE states'[i] \in Seq(Row)
      BY RowsAfter
    <2> QED  BY <2>1, <2>2
  <1>4. ASSUME NEW i \in Interfaces, states'[i] # << >> PROVE Last(states'[i]).t <= now'
    <2>1. CASE i[2] \in Reporters \ f.links
      BY <1>1, <2>1, RowsAfter, RatesAre DEF Typed
    <2>2. CASE i[2] \notin Reporters \ f.links
      <3>1. states'[i] = states[i]
        BY <2>2, RowsAfter
      <3>2. Last(states[i]).t <= now /\ Last(states[i]).t \in Nat
        <4>1. states[i] \in Seq(Row) /\ states[i] # << >>
          BY <1>4, <3>1 DEF Typed
        <4>2. Last(states[i]) \in Row
          BY <4>1 DEF Last
        <4> QED  BY <4>1, <4>2 DEF Typed, Newest, Row
      <3> QED  BY <1>1, <3>1, <3>2 DEF Typed
    <2> QED  BY <2>1, <2>2
  <1> QED  BY <1>1, <1>2, <1>3, <1>4 DEF Typed, Newest

\* What a step does to what is measured: a period, or nothing but a changed
\* demand or a link that goes down.
Measures(f) == Measure(FlowsWith(auto), f, broken) /\ UNCHANGED <<demand, broken, brokenAt>>
Still ==
    /\ UNCHANGED fabric
    /\ demand' = demand \/ \E p, mbps : mbps \in Rates /\ demand' = [demand EXCEPT ![p] = mbps]
    /\ \/ UNCHANGED <<broken, brokenAt>>
       \/ \E l : broken' = broken \cup l /\ brokenAt' = [k \in broken' |-> IF k \in broken THEN brokenAt[k] ELSE now]

LEMMA FabricCases ==
    ASSUME [Next]_vars
    PROVE  Still \/ \E f : Measures(f)
  <1>1. ASSUME NEW f, Period(f) PROVE Measures(f)
    BY <1>1 DEF Period, Measures, world
  <1>2. ASSUME NEW p, NEW mbps \in Rates, DemandChanges(p, mbps) PROVE Still
    BY <1>2 DEF DemandChanges, Still
  <1>3. ASSUME NEW p, NEW path, Rehash(p, path) PROVE Still
    BY <1>3 DEF Rehash, Still
  <1>4. ASSUME NEW l, Break(l) PROVE Still
    BY <1>4 DEF Break, Still
  <1>5. ASSUME NEW sel, UserCreates(sel) PROVE Still
    BY <1>5 DEF UserCreates, Still
  <1>6. ASSUME NEW p, DeletesAuto(p) PROVE Still
    BY <1>6 DEF DeletesAuto, Still, world
  <1>7. ASSUME NEW order, Pass(order) PROVE Still
    BY <1>7 DEF Pass, Still, world
  <1>8. CASE Restart
    BY <1>8 DEF Restart, Still, world
  <1>9. CASE UNCHANGED vars
    BY <1>9 DEF vars, Still, world, history
  <1>10. CASE Next
    BY <1>1, <1>2, <1>3, <1>4, <1>5, <1>6, <1>7, <1>8, <1>10 DEF Next
  <1> QED  BY <1>9, <1>10

LEMMA TypedInit == Init => Typed
  <1> SUFFICES ASSUME Init PROVE Typed
    OBVIOUS
  <1>1. PICK s \in Starts : demand = s.demand
    BY DEF Init
  <1>2. demand \in [Pairs -> Nat]
    BY <1>1, ReoptAssumption
  <1>3. now = 0 /\ octets = [i \in Interfaces |-> 0] /\ states = [i \in Interfaces |-> << >>]
    BY DEF Init, FabricInit
  <1>4. << >> \in Seq(Row)
    OBVIOUS
  <1> QED  BY <1>2, <1>3, <1>4 DEF Typed

LEMMA TypedNext == Typed /\ [Next]_vars => Typed'
  <1> SUFFICES ASSUME Typed, [Next]_vars PROVE Typed'
    OBVIOUS
  <1>1. ASSUME NEW f, Measures(f) PROVE Typed'
    BY <1>1, FlowsAreTyped, TypedMeasure DEF Measures
  <1>2. CASE Still
    <2>1. now' = now /\ octets' = octets /\ states' = states
      BY <1>2 DEF Still, fabric
    <2>2. demand' \in [Pairs -> Nat]
      BY <1>2, ReoptAssumption DEF Still, Typed
    <2> QED  BY <2>1, <2>2 DEF Typed, Newest
  <1> QED  BY <1>1, <1>2, FabricCases

LEMMA SeenDownInit == Init => SeenDown
  BY DEF Init, FabricInit, SeenDown

LEMMA SeenDownNext == Typed /\ SeenDown /\ [Next]_vars => SeenDown'
  <1> SUFFICES ASSUME Typed, SeenDown, [Next]_vars PROVE SeenDown'
    OBVIOUS
  <1>1. ASSUME NEW f, Measures(f) PROVE SeenDown'
    <2> DEFINE flow == FlowsWith(auto)
    <2>1. Flowing(flow)
      BY FlowsAreTyped
    <2> HIDE DEF flow
    <2>2. Measure(flow, f, broken) /\ broken' = broken /\ brokenAt' = brokenAt
      BY <1>1 DEF Measures, flow
    <2>3. now' = now + 1 /\ now \in Nat
      BY <2>2 DEF Measure, Typed
    <2>4. ASSUME NEW i \in Interfaces, states'[i] # << >>, i[1] \in broken,
                 Last(states'[i]).t > brokenAt[i[1]]
          PROVE  ~Last(states'[i]).up
      <3>1. CASE i[2] \in Reporters \ f.links
        <4> DEFINE row == StateRow(flow, f, broken, i)
        <4>1. Last(states'[i]) = row
          BY <2>1, <2>2, <3>1, RowsAfter
        <4>2. row.up <=> i[1] \notin broken
          BY <2>1, RatesAre
        <4> QED  BY <2>4, <4>1, <4>2
      <3>2. CASE i[2] \notin Reporters \ f.links
        <4>1. states'[i] = states[i]
          BY <2>1, <2>2, <3>2, RowsAfter
        <4> QED  BY <2>4, <4>1 DEF SeenDown, Newest
      <3> QED  BY <3>1, <3>2
    <2> QED  BY <2>2, <2>3, <2>4 DEF SeenDown, Newest
  <1>2. CASE Still
    <2>1. now' = now /\ states' = states /\ now \in Nat
      BY <1>2 DEF Still, fabric, Typed
    <2>2. CASE UNCHANGED <<broken, brokenAt>>
      BY <2>1, <2>2 DEF SeenDown, Newest
    <2>3. ASSUME NEW l, broken' = broken \cup l,
                 brokenAt' = [k \in broken' |-> IF k \in broken THEN brokenAt[k] ELSE now]
          PROVE  SeenDown'
      <3>1. \A k \in broken' : k \in DOMAIN brokenAt' /\ brokenAt'[k] \in Nat /\ brokenAt'[k] <= now
        BY <2>1, <2>3 DEF SeenDown
      <3>2. ASSUME NEW i \in Interfaces, states[i] # << >>, i[1] \in broken',
                   Newest(i).t > brokenAt'[i[1]]
            PROVE  ~Newest(i).up
        <4>1. CASE i[1] \in broken
          BY <2>3, <3>2, <4>1 DEF SeenDown
        <4>2. CASE i[1] \notin broken
          <5>1. brokenAt'[i[1]] = now /\ Newest(i).t <= now /\ states[i] \in Seq(Row)
            BY <2>3, <3>2, <4>2 DEF Typed
          <5>2. Newest(i) \in Row
            BY <3>2, <5>1 DEF Newest, Last
          <5>3. Newest(i).t \in Nat
            BY <5>2 DEF Row
          <5> QED  BY <2>1, <3>2, <5>1, <5>3
        <4> QED  BY <4>1, <4>2
      <3> QED  BY <2>1, <3>1, <3>2 DEF SeenDown, Newest
    <2> QED  BY <1>2, <2>2, <2>3 DEF Still
  <1> QED  BY <1>1, <1>2, FabricCases

-----------------------------------------------------------------------------
(* No pair is placed on a dead link                                        *)

LEMMA ReportedIsDown ==
    ASSUME Typed, SeenDown, NEW l \in Links, ReportedDown(l)
    PROVE  ~IsUp(l)
  <1>1. PICK r \in Told(l) : l \in broken /\ Newest(<<l, r>>).t > brokenAt[l]
    BY DEF ReportedDown
  <1>2. ASSUME NEW o \in Told(l)
        PROVE  /\ <<l, o>> \in Interfaces /\ Newest(<<l, o>>).t \in Nat
               /\ Newest(<<l, o>>).t > brokenAt[l] => ~Newest(<<l, o>>).up
    <2>1. <<l, o>> \in Interfaces /\ states[<<l, o>>] # << >>
      BY DEF Told, Ends, Interfaces
    <2>2. states[<<l, o>>] \in Seq(Row)
      BY <2>1 DEF Typed
    <2>3. Newest(<<l, o>>) \in Row
      BY <2>1, <2>2 DEF Newest, Last
    <2> QED  BY <1>1, <2>1, <2>3 DEF Row, SeenDown
  <1>3. brokenAt[l] \in Nat /\ now \in Nat /\ StaleAfter \in Nat
    BY <1>1, FabricAssumption DEF SeenDown, Typed
  <1>4. ASSUME NEW o \in Told(l), Newest(<<l, o>>).t >= Newest(<<l, r>>).t PROVE ~Newest(<<l, o>>).up
    BY <1>1, <1>2, <1>3, <1>4
  <1>5. CASE LiveEnds(l) # {}
    <2>1. PICK o \in LiveEnds(l) : TRUE
      BY <1>5
    <2>2. o \in Told(l) /\ Fresh(Newest(<<l, o>>).t)
      BY <2>1 DEF LiveEnds
    <2>3. CASE r \in LiveEnds(l)
      BY <1>1, <1>2, <1>5, <2>3 DEF IsUp
    <2>4. CASE r \notin LiveEnds(l)
      <3>1. ~Fresh(Newest(<<l, r>>).t)
        BY <1>1, <2>4 DEF LiveEnds
      <3>2. Newest(<<l, o>>).t >= Newest(<<l, r>>).t
        BY <1>1, <1>2, <1>3, <2>2, <3>1 DEF Fresh
      <3>3. ~Newest(<<l, o>>).up
        BY <1>4, <2>2, <3>2
      <3> QED  BY <1>5, <2>1, <3>3 DEF IsUp
    <2> QED  BY <2>3, <2>4
  <1>6. CASE LiveEnds(l) = {}
    <2>1. \E k \in Told(l) : \A o \in Told(l) : Newest(<<l, k>>).t >= Newest(<<l, o>>).t
      <3>1. Told(l) \subseteq {l[1], l[2]}
        BY DEF Told, Ends
      <3> QED  BY <1>1, <1>2, <3>1
    <2>2. MainEnd(l) = CHOOSE k \in Told(l) : \A o \in Told(l) : Newest(<<l, k>>).t >= Newest(<<l, o>>).t
      BY <1>6 DEF MainEnd
    <2>3. MainEnd(l) \in Told(l) /\ Newest(<<l, MainEnd(l)>>).t >= Newest(<<l, r>>).t
      BY <1>1, <2>1, <2>2
    <2>4. ~Newest(<<l, MainEnd(l)>>).up
      BY <1>4, <2>3
    <2> QED  BY <1>1, <1>6, <2>4 DEF IsUp
  <1> QED  BY <1>5, <1>6

PlacedOnLiveStep ==
    \A p \in Placed :
        /\ \A l \in LinksOf(auto'[p]) : ~ReportedDown(l)
        /\ \A sel \in user : ~Covers(sel, p)

LEMMA PlacedOnLiveNext == Typed /\ SeenDown /\ Remembered /\ [Next]_vars => PlacedOnLiveStep
  <1> SUFFICES ASSUME Typed, SeenDown, Remembered, [Next]_vars, NEW p \in Placed
               PROVE  /\ \A l \in LinksOf(auto'[p]) : ~ReportedDown(l)
                      /\ \A sel \in user : ~Covers(sel, p)
    BY DEF PlacedOnLiveStep
  <1>1. PICK order \in SetToSeqs(DOMAIN auto) : Pass(order)
    BY NextCases, UntouchedElsewhere DEF Elsewhere, DeletesAuto, Restart
  <1>2. PICK w : Passed(w)
    BY <1>1, PassSober DEF Remembered
  <1>3. p \in Handled(w) /\ p \in DOMAIN w.auto /\ auto'[p] = w.auto[p]
    BY <1>2, TouchedHandled DEF Placed, Passed
  <1>4. LinksOf(w.auto[p]) \subseteq DOMAIN Usable(Reading) /\ ~Covered(p)
    BY <1>2, <1>3 DEF Passed, Sober, WellPlaced
  <1>5. ASSUME NEW l \in LinksOf(w.auto[p]), ReportedDown(l) PROVE FALSE
    <2>1. l \in Links /\ l \notin Reading.dead
      BY <1>4, UsableLinks
    <2>2. ~IsUp(l)
      BY <1>5, <2>1, ReportedIsDown
    <2> QED  BY <2>1, <2>2, ReadingIs DEF DeadLinks
  <1> QED  BY <1>3, <1>4, <1>5 DEF Covered

\* No pass places a pair on a link that an end has reported down since it
\* broke, whatever became of the other end's reports, nor a pair that a user's
\* path decides (plugin.py _link_state_view, te_reopt.py _steer).
THEOREM PlacedOnLiveLinks == Spec => PlacedOnLive
  <1>1. Init => Typed /\ SeenDown /\ Remembered
    BY TypedInit, SeenDownInit, RememberedInit
  <1>2. Typed /\ SeenDown /\ Remembered /\ [Next]_vars => (Typed /\ SeenDown /\ Remembered)'
    BY TypedNext, SeenDownNext, RememberedNext
  <1>3. Typed /\ SeenDown /\ Remembered /\ [Next]_vars => [PlacedOnLiveStep]_vars
    BY PlacedOnLiveNext
  <1>4. PlacedOnLiveStep <=> \A p \in Placed :
                                 /\ \A l \in LinksOf(auto'[p]) : ~ReportedDown(l)
                                 /\ \A sel \in user : ~Covers(sel, p)
    BY DEF PlacedOnLiveStep
  <1> QED  BY <1>1, <1>2, <1>3, <1>4, PTL DEF Spec, PlacedOnLive

-----------------------------------------------------------------------------
(* What the agents count                                                   *)

LEMMA MaxOfRates ==
    ASSUME NEW A, IsFiniteSet(A), A # {}, NEW rates, \A k \in A : rates[k] \in Nat
    PROVE  \E x \in A : \A y \in A : rates[x] >= rates[y]
  <1> DEFINE S == {n \in Nat : \A B \in SUBSET A : B # {} /\ Cardinality(B) <= n =>
                                  \E x \in B : \A y \in B : rates[x] >= rates[y]}
  <1>1. \A B \in SUBSET A : IsFiniteSet(B) /\ Cardinality(B) \in Nat /\ (Cardinality(B) = 0 => B = {})
    BY FS_Subset, FS_CardinalityType, FS_EmptySet
  <1>2. 0 \in S
    BY <1>1
  <1>3. ASSUME NEW n \in Nat, n \in S PROVE n + 1 \in S
    <2> SUFFICES ASSUME NEW B \in SUBSET A, B # {}, Cardinality(B) <= n + 1
                 PROVE  \E x \in B : \A y \in B : rates[x] >= rates[y]
      OBVIOUS
    <2>1. PICK z \in B : TRUE
      OBVIOUS
    <2> DEFINE C == B \ {z}
    <2>2. C \in SUBSET A /\ B = C \cup {z}
      OBVIOUS
    <2>3. Cardinality(C) <= n
      <3>1. Cardinality(C) = Cardinality(B) - 1
        BY <1>1, FS_RemoveElement
      <3> QED  BY <1>1, <2>2, <3>1
    <2> HIDE DEF C
    <2>4. CASE C = {}
      BY <2>1, <2>2, <2>4
    <2>5. CASE C # {}
      <3>1. PICK x \in C : \A y \in C : rates[x] >= rates[y]
        BY <1>3, <2>2, <2>3, <2>5
      <3>2. rates[x] \in Nat /\ rates[z] \in Nat /\ \A y \in C : rates[y] \in Nat
        BY <2>2
      <3>3. CASE rates[x] >= rates[z]
        BY <2>2, <3>1, <3>3
      <3>4. CASE ~(rates[x] >= rates[z])
        <4>1. \A y \in B : rates[z] >= rates[y]
          BY <2>2, <3>1, <3>2, <3>4
        <4> QED  BY <4>1
      <3> QED  BY <3>3, <3>4
    <2> QED  BY <2>4, <2>5
  <1>4. Cardinality(A) \in S
    <2>1. Cardinality(A) \in Nat
      BY <1>1
    <2> HIDE DEF S
    <2> QED  BY <1>2, <1>3, <2>1, SetInduction
  <1> QED  BY <1>1, <1>4

LEMMA TopExists ==
    ASSUME NEW A, IsFiniteSet(A), NEW rates, \A k \in A : rates[k] \in Nat,
           NEW most \in Nat, most <= Cardinality(A)
    PROVE  \E best \in SUBSET A : /\ Cardinality(best) = most
                                  /\ \A k \in best, m \in A \ best : rates[k] >= rates[m]
  <1> DEFINE Best(n, best) == /\ Cardinality(best) = n
                              /\ \A k \in best, m \in A \ best : rates[k] >= rates[m]
  <1> DEFINE S == {n \in Nat : n <= Cardinality(A) => \E best \in SUBSET A : Best(n, best)}
  <1>1. 0 \in S
    <2>1. {} \in SUBSET A /\ Best(0, {})
      BY FS_EmptySet
    <2> HIDE DEF Best
    <2> QED  BY <2>1
  <1>2. ASSUME NEW n \in Nat, n \in S PROVE n + 1 \in S
    <2> SUFFICES ASSUME n + 1 <= Cardinality(A) PROVE \E best \in SUBSET A : Best(n + 1, best)
      OBVIOUS
    <2>1. Cardinality(A) \in Nat
      BY FS_CardinalityType
    <2>2. PICK best \in SUBSET A : Best(n, best)
      BY <1>2, <2>1
    <2>3. IsFiniteSet(best) /\ A \ best # {} /\ IsFiniteSet(A \ best)
      <3>1. IsFiniteSet(best) /\ IsFiniteSet(A \ best)
        BY FS_Subset
      <3>2. best # A
        BY <2>1, <2>2
      <3> QED  BY <3>1, <3>2
    <2> DEFINE left == A \ best
    <2>4. PICK x \in left : \A y \in left : rates[x] >= rates[y]
      <3>1. IsFiniteSet(left) /\ left # {} /\ \A k \in left : rates[k] \in Nat
        BY <2>3
      <3> HIDE DEF left
      <3> QED  BY <3>1, MaxOfRates
    <2> DEFINE more == best \cup {x}
    <2>5. Cardinality(more) = n + 1
      <3>1. x \notin best
        BY <2>4
      <3>2. Cardinality(best \cup {x}) = IF x \in best THEN Cardinality(best) ELSE Cardinality(best) + 1
        BY <2>3, FS_AddElement
      <3> QED  BY <2>2, <3>1, <3>2
    <2>6. \A k \in more, m \in A \ more : rates[k] >= rates[m]
      BY <2>2, <2>4
    <2>7. more \in SUBSET A /\ Best(n + 1, more)
      BY <2>4, <2>5, <2>6
    <2> HIDE DEF Best, more
    <2> QED  BY <2>7
  <1>3. most \in S
    <2> HIDE DEF S
    <2> QED  BY <1>1, <1>2, SetInduction
  <1> QED  BY <1>3

\* What an agent posts is measured, and worth posting.
LEMMA LargestIs ==
    ASSUME NEW rates, IsFiniteSet(DOMAIN rates), \A k \in DOMAIN rates : rates[k] \in Nat,
           NEW k \in Largest(rates)
    PROVE  k \in DOMAIN rates /\ rates[k] >= FloorRate
  <1> DEFINE Best(l, best) ==
          /\ Cardinality(best) = Min({TopK, Cardinality(AboveFloor(rates, l))})
          /\ \A n \in best, m \in AboveFloor(rates, l) \ best : rates[n] >= rates[m]
  <1>1. PICK l : k \in LargestOf(rates, l)
    BY DEF Largest
  <1>2. \E best \in SUBSET AboveFloor(rates, l) : Best(l, best)
    <2> DEFINE A == AboveFloor(rates, l)
    <2> DEFINE most == Min({TopK, Cardinality(A)})
    <2>1. A \in SUBSET DOMAIN rates
      BY DEF AboveFloor
    <2>2. IsFiniteSet(A)
      BY <2>1, FS_Subset
    <2>3. \A m \in A : rates[m] \in Nat
      BY <2>1
    <2> HIDE DEF A
    <2>4. Cardinality(A) \in Nat /\ TopK \in Nat
      BY <2>2, FS_CardinalityType, FabricAssumption
    <2>5. most \in Nat /\ most <= Cardinality(A)
      <3>1. \E x \in {TopK, Cardinality(A)} : \A y \in {TopK, Cardinality(A)} : x =< y
        BY <2>4
      <3>2. most \in {TopK, Cardinality(A)} /\ \A y \in {TopK, Cardinality(A)} : most =< y
        BY <3>1 DEF Min
      <3> HIDE DEF most
      <3> QED  BY <2>4, <3>2
    <2> HIDE DEF most
    <2>6. PICK best \in SUBSET A : /\ Cardinality(best) = most
                                   /\ \A n \in best, m \in A \ best : rates[n] >= rates[m]
      BY <2>2, <2>3, <2>5, TopExists
    <2> QED  BY <2>6 DEF A, most
  <1>3. LargestOf(rates, l) \in SUBSET AboveFloor(rates, l)
    <2>1. LargestOf(rates, l) = CHOOSE best \in SUBSET AboveFloor(rates, l) : Best(l, best)
      BY DEF LargestOf
    <2> HIDE DEF Best
    <2> QED  BY <1>2, <2>1
  <1> QED  BY <1>1, <1>3 DEF AboveFloor

\* The agents' counters, and their last read of them.
Counted ==
    \A r \in Reporters :
        /\ IsFiniteSet(DOMAIN elements[r]) /\ \A k \in DOMAIN elements[r] : elements[r][k].n \in Nat
        /\ pairsPrev[r] # NoRead =>
              /\ DOMAIN pairsPrev[r] = DOMAIN elements[r]
              /\ \A k \in DOMAIN elements[r] : pairsPrev[r][k] = elements[r][k].n

\* The key of a pair on a link that r sends it on, with the SID it has there.
Crossing(flow, r, k) ==
    /\ k[3] \in Pairs /\ k[1] \in Links \cap flow[k[3]].on /\ k[1][1] = r
    /\ k = <<k[1], flow[k[3]].sid, k[3]>>

LEMMA HitIs ==
    ASSUME NEW flow, NEW r
    PROVE  IsFiniteSet(Hit(flow, r)) /\ \A k \in Hit(flow, r) : Crossing(flow, r, k)
  <1>1. ASSUME NEW k \in Hit(flow, r) PROVE Crossing(flow, r, k)
    <2>1. PICK p \in Pairs, l \in Links : l \in flow[p].on /\ l[1] = r /\ k = <<l, flow[p].sid, p>>
      BY <1>1 DEF Hit
    <2> QED  BY <2>1 DEF Crossing
  <1> DEFINE f == [k \in Hit(flow, r) |-> <<k[1], k[3]>>]
  <1>2. f \in Injection(Hit(flow, r), Links \X Pairs)
    <2>1. \A k \in Hit(flow, r) : f[k] = <<k[1], k[3]>> /\ k[1] \in Links /\ k[3] \in Pairs
      BY <1>1 DEF Crossing
    <2>2. f \in [Hit(flow, r) -> Links \X Pairs]
      BY <2>1
    <2>3. ASSUME NEW a \in Hit(flow, r), NEW b \in Hit(flow, r), f[a] = f[b] PROVE a = b
      <3>1. a[1] = b[1] /\ a[3] = b[3]
        BY <2>1, <2>3
      <3>2. a = <<a[1], flow[a[3]].sid, a[3]>> /\ b = <<b[1], flow[b[3]].sid, b[3]>>
        BY <1>1 DEF Crossing
      <3> QED  BY <3>1, <3>2
    <2> HIDE DEF f
    <2> QED  BY <2>2, <2>3 DEF Injection, IsInjective
  <1>3. IsFiniteSet(Links \X Pairs)
    BY FabricAssumption, FS_Product
  <1> HIDE DEF f
  <1>4. IsFiniteSet(Hit(flow, r))
    BY <1>2, <1>3, FS_Injection
  <1> QED  BY <1>1, <1>4

LEMMA ElementsAre ==
    ASSUME Counted, NEW flow, Flowing(flow), NEW r \in Reporters
    PROVE  LET old == elements[r]
               new == ElementsAfter(flow, r)
           IN  /\ IsFiniteSet(DOMAIN new)
               /\ \A k \in DOMAIN new :
                     /\ new[k].n \in Nat
                     /\ \/ /\ Crossing(flow, r, k)
                           /\ new[k].n = (IF k \in DOMAIN old THEN old[k].n ELSE 0) + flow[k[3]].rate
                        \/ k \in DOMAIN old /\ new[k].n = old[k].n
  <1> DEFINE old == elements[r]
  <1> DEFINE hit == Hit(flow, r)
  <1> DEFINE kept == {k \in DOMAIN old : k \in hit \/ now + 1 - old[k].at < CounterIdle}
  <1> DEFINE new == ElementsAfter(flow, r)
  <1>1. DOMAIN new = hit \cup kept
        /\ \A k \in hit \cup kept : new[k].n = (IF k \in kept THEN old[k].n ELSE 0)
                                               + (IF k \in hit THEN flow[k[3]].rate ELSE 0)
    BY DEF ElementsAfter
  <1>2. kept \in SUBSET DOMAIN old /\ \A k \in hit : k \in DOMAIN old => k \in kept
    OBVIOUS
  <1>3. IsFiniteSet(DOMAIN old) /\ \A k \in DOMAIN old : old[k].n \in Nat
    BY DEF Counted
  <1>4. IsFiniteSet(hit) /\ \A k \in hit : Crossing(flow, r, k) /\ flow[k[3]].rate \in Nat
    BY HitIs DEF Flowing, Crossing
  <1> HIDE DEF old, hit, kept, new
  <1>5. IsFiniteSet(DOMAIN new)
    <2>1. IsFiniteSet(kept)
      BY <1>2, <1>3, FS_Subset
    <2>2. IsFiniteSet(hit \cup kept)
      BY <1>4, <2>1, FS_Union
    <2> QED  BY <1>1, <2>2
  <1>6. ASSUME NEW k \in DOMAIN new
        PROVE  /\ new[k].n \in Nat
               /\ \/ /\ Crossing(flow, r, k)
                     /\ new[k].n = (IF k \in DOMAIN old THEN old[k].n ELSE 0) + flow[k[3]].rate
                  \/ k \in DOMAIN old /\ new[k].n = old[k].n
    <2>1. CASE k \in hit
      BY <1>1, <1>2, <1>3, <1>4, <2>1
    <2>2. CASE k \notin hit
      BY <1>1, <1>2, <1>3, <2>2
    <2> QED  BY <2>1, <2>2
  <1> QED  BY <1>5, <1>6 DEF old, new

\* A row that an agent posts: a pair it sends on the link, at its very rate.
RealRow(flow, r, t, row) ==
    /\ row.pair \in Pairs /\ row.link \in Links \cap flow[row.pair].on /\ row.link[1] = r
    /\ row = [t |-> t, link |-> row.link, sid |-> flow[row.pair].sid, pair |-> row.pair,
              mbps |-> flow[row.pair].rate]

LEMMA PostedIsReal ==
    ASSUME Counted, NEW flow, Flowing(flow), NEW r \in Reporters,
           NEW row \in LoadRows(pairsPrev[r], Counts(flow)[r])
    PROVE  RealRow(flow, r, now + 1, row)
  <1> DEFINE old == elements[r]
  <1> DEFINE new == ElementsAfter(flow, r)
  <1> DEFINE before == pairsPrev[r]
  <1> DEFINE after == Counts(flow)[r]
  <1> DEFINE rates == PairRates(before, after)
  <1>1. PICK k \in Largest(rates) :
            row = [t |-> now + 1, link |-> k[1], sid |-> k[2], pair |-> k[3], mbps |-> rates[k]]
    BY DEF LoadRows
  <1>2. DOMAIN after = DOMAIN new /\ \A m \in DOMAIN new : after[m] = new[m].n
    BY DEF Counts
  <1>3. /\ IsFiniteSet(DOMAIN new)
        /\ \A m \in DOMAIN new :
              /\ new[m].n \in Nat
              /\ \/ /\ Crossing(flow, r, m)
                    /\ new[m].n = (IF m \in DOMAIN old THEN old[m].n ELSE 0) + flow[m[3]].rate
                 \/ m \in DOMAIN old /\ new[m].n = old[m].n
    BY ElementsAre
  <1>4. before # NoRead => DOMAIN before = DOMAIN old /\ \A m \in DOMAIN old : before[m] = old[m].n
    BY DEF Counted
  <1>5. \A m \in DOMAIN old : old[m].n \in Nat
    BY DEF Counted
  <1>6. \A m : Crossing(flow, r, m) => flow[m[3]].rate \in Nat
    BY DEF Crossing, Flowing
  <1> HIDE DEF old, new, before, after
  <1>7. CASE before = NoRead
    <2>1. rates = << >>
      BY <1>7 DEF PairRates
    <2>2. Largest(rates) = {}
      BY <2>1 DEF Largest
    <2> QED  BY <1>1, <2>2
  <1>8. CASE before # NoRead
    <2>1. DOMAIN rates = DOMAIN new
          /\ \A m \in DOMAIN new : rates[m] = IF m \in DOMAIN old /\ new[m].n >= old[m].n
                                              THEN new[m].n - old[m].n ELSE new[m].n
      BY <1>2, <1>4, <1>8 DEF PairRates
    <2> HIDE DEF rates
    <2>2. ASSUME NEW m \in DOMAIN new
          PROVE  rates[m] \in Nat /\ (rates[m] # 0 => Crossing(flow, r, m) /\ rates[m] = flow[m[3]].rate)
      <3>1. CASE Crossing(flow, r, m) /\ new[m].n = (IF m \in DOMAIN old THEN old[m].n ELSE 0) + flow[m[3]].rate
        <4>1. flow[m[3]].rate \in Nat
          BY <1>6, <3>1
        <4>2. CASE m \in DOMAIN old
          BY <1>5, <2>1, <3>1, <4>1, <4>2
        <4>3. CASE m \notin DOMAIN old
          BY <2>1, <3>1, <4>1, <4>3
        <4> QED  BY <4>2, <4>3
      <3>2. CASE m \in DOMAIN old /\ new[m].n = old[m].n
        BY <1>5, <2>1, <3>2
      <3> QED  BY <1>3, <3>1, <3>2
    <2>3. k \in DOMAIN rates /\ rates[k] >= FloorRate
      BY <1>1, <1>3, <2>1, <2>2, LargestIs
    <2>4. rates[k] # 0
      BY <2>3, FabricAssumption
    <2>5. Crossing(flow, r, k) /\ rates[k] = flow[k[3]].rate
      BY <2>1, <2>2, <2>3, <2>4
    <2>6. k[2] = flow[k[3]].sid
      BY <2>5 DEF Crossing
    <2> QED  BY <1>1, <2>5, <2>6 DEF Crossing, RealRow
  <1> QED  BY <1>7, <1>8

LEMMA TotalOfOne == ASSUME NEW row PROVE Total({row}) = 0 + row.mbps
  <1> DEFINE pick(s) == CHOOSE x \in s : TRUE
  <1> DEFINE Body(f, s) == IF s = {} THEN 0 ELSE f[s \ {pick(s)}] + pick(s).mbps
  <1> DEFINE Iterates(f) == f = [s \in SUBSET {row} |-> Body(f, s)]
  <1>1. SUBSET {row} = {{}, {row}} /\ {row} # {} /\ {row} \ {row} = {}
    OBVIOUS
  <1>2. pick({row}) = row
    OBVIOUS
  <1> HIDE DEF pick
  <1>3. \E f : Iterates(f)
    <2> DEFINE f == [s \in SUBSET {row} |-> IF s = {} THEN 0 ELSE 0 + row.mbps]
    <2>1. f[{}] = 0 /\ f[{row}] = 0 + row.mbps
      BY <1>1
    <2>2. f = [s \in SUBSET {row} |-> f[s]]
      OBVIOUS
    <2> HIDE DEF f
    <2>3. ASSUME NEW s \in SUBSET {row} PROVE f[s] = Body(f, s)
      <3>1. CASE s = {}
        BY <2>1, <3>1
      <3>2. CASE s = {row}
        BY <1>1, <1>2, <2>1, <3>2
      <3> QED  BY <1>1, <3>1, <3>2
    <2> HIDE DEF Body
    <2> QED  BY <2>2, <2>3
  <1> DEFINE iter == CHOOSE f : Iterates(f)
  <1>4. Iterates(iter)
    BY <1>3
  <1>5. Total({row}) = iter[{row}]
    BY DEF Total, FoldSet, MapThenFoldSet, pick
  <1> HIDE DEF iter
  <1>6. iter[{}] = Body(iter, {}) /\ iter[{row}] = Body(iter, {row})
    <2> HIDE DEF Body
    <2> QED  BY <1>1, <1>4
  <1>7. iter[{}] = 0 /\ iter[{row}] = iter[{}] + row.mbps
    BY <1>1, <1>2, <1>6
  <1> QED  BY <1>5, <1>7

-----------------------------------------------------------------------------
(* What the server lists is real                                           *)

\* What the agents have posted of the last period, and when.
Shown ==
    /\ Flowing(flowed)
    /\ \A r \in Reporters : \A row \in loads[r] :
          row.t \in Nat /\ row.t <= now /\ (row.t = now => RealRow(flowed, r, now, row))
    /\ \A i \in Interfaces : states[i] # << >> /\ Newest(i).t = now /\ Newest(i).mbps # NoRate =>
          Newest(i).mbps <= Carried(flowed, i[1])
    /\ \A i, j \in Interfaces : i[2] = j[2] /\ states[i] # << >> /\ Newest(i).t = now =>
          states[j] # << >> /\ Newest(j).t = now

LEMMA CountedInit == Init => Counted
  <1> SUFFICES ASSUME Init PROVE Counted
    OBVIOUS
  <1>1. elements = [r \in Reporters |-> << >>] /\ pairsPrev = [r \in Reporters |-> << >>]
    BY DEF Init, FabricInit
  <1>2. IsFiniteSet({}) /\ DOMAIN << >> = {}
    BY FS_EmptySet
  <1> QED  BY <1>1, <1>2 DEF Counted

LEMMA CountedNext == Typed /\ Counted /\ [Next]_vars => Counted'
  <1> SUFFICES ASSUME Typed, Counted, [Next]_vars PROVE Counted'
    OBVIOUS
  <1>1. ASSUME NEW f, Measures(f) PROVE Counted'
    <2> DEFINE flow == FlowsWith(auto)
    <2>1. Flowing(flow)
      BY FlowsAreTyped
    <2> HIDE DEF flow
    <2>2. Measure(flow, f, broken)
      BY <1>1 DEF Measures, flow
    <2>3. ASSUME NEW r \in Reporters
          PROVE  /\ IsFiniteSet(DOMAIN elements'[r]) /\ \A k \in DOMAIN elements'[r] : elements'[r][k].n \in Nat
                 /\ pairsPrev'[r] # NoRead =>
                       /\ DOMAIN pairsPrev'[r] = DOMAIN elements'[r]
                       /\ \A k \in DOMAIN elements'[r] : pairsPrev'[r][k] = elements'[r][k].n
      <3> DEFINE new == ElementsAfter(flow, r)
      <3>1. elements'[r] = new /\ pairsPrev'[r] \in {NoRead, Counts(flow)[r]}
        BY <2>2 DEF Measure
      <3>2. IsFiniteSet(DOMAIN new) /\ \A k \in DOMAIN new : new[k].n \in Nat
        BY <2>1, ElementsAre
      <3>3. Counts(flow)[r] = [k \in DOMAIN new |-> new[k].n]
        BY DEF Counts
      <3> HIDE DEF new
      <3> QED  BY <3>1, <3>2, <3>3
    <2> QED  BY <2>3 DEF Counted
  <1>2. CASE Still
    BY <1>2 DEF Still, fabric, Counted
  <1> QED  BY <1>1, <1>2, FabricCases

LEMMA ShownInit == Init => Shown
  <1> SUFFICES ASSUME Init PROVE Shown
    OBVIOUS
  <1>1. /\ flowed = [p \in Pairs |-> [on |-> {}, rate |-> 0, sid |-> "default"]]
        /\ loads = [r \in Reporters |-> {}] /\ states = [i \in Interfaces |-> << >>]
    BY DEF Init, FabricInit
  <1> QED  BY <1>1 DEF Shown, Flowing

LEMMA ShownNext == Typed /\ Counted /\ Shown /\ [Next]_vars => Shown'
  <1> SUFFICES ASSUME Typed, Counted, Shown, [Next]_vars PROVE Shown'
    OBVIOUS
  <1>1. ASSUME NEW f, Measures(f) PROVE Shown'
    <2> DEFINE flow == FlowsWith(auto)
    <2>1. Flowing(flow)
      BY FlowsAreTyped
    <2> HIDE DEF flow
    <2>2. Measure(flow, f, broken)
      BY <1>1 DEF Measures, flow
    <2>3. now' = now + 1 /\ now \in Nat /\ flowed' = flow
      BY <2>2 DEF Measure, Typed
    <2>4. ASSUME NEW r \in Reporters, NEW row \in loads'[r]
          PROVE  row.t \in Nat /\ row.t <= now + 1 /\ (row.t = now + 1 => RealRow(flow, r, now + 1, row))
      <3> DEFINE batch == LoadRows(pairsPrev[r], Counts(flow)[r])
      <3>1. loads'[r] \subseteq loads[r] \cup batch
        BY <2>2 DEF Measure, AddAggregateLoads
      <3>2. CASE row \in batch
        <4>1. RealRow(flow, r, now + 1, row)
          BY <2>1, <3>2, PostedIsReal
        <4>2. row.t = now + 1
          BY <4>1 DEF RealRow
        <4> QED  BY <2>3, <4>1, <4>2
      <3>3. CASE row \in loads[r]
        <4>1. row.t \in Nat /\ row.t <= now
          BY <3>3 DEF Shown
        <4> QED  BY <2>3, <4>1
      <3> QED  BY <3>1, <3>2, <3>3
    <2>5. ASSUME NEW i \in Interfaces, states'[i] # << >>, Last(states'[i]).t = now + 1
          PROVE  /\ i[2] \in Reporters \ f.links
                 /\ Last(states'[i]).mbps # NoRate => Last(states'[i]).mbps <= Carried(flow, i[1])
      <3>1. CASE i[2] \notin Reporters \ f.links
        <4>1. states'[i] = states[i] /\ states[i] \in Seq(Row)
          BY <2>1, <2>2, <3>1, RowsAfter DEF Typed
        <4>2. Last(states[i]) \in Row /\ Last(states[i]).t <= now
          BY <2>5, <4>1 DEF Last, Typed, Newest
        <4> QED  BY <2>3, <2>5, <4>1, <4>2 DEF Row
      <3>2. CASE i[2] \in Reporters \ f.links
        <4>1. Last(states'[i]) = StateRow(flow, f, broken, i)
          BY <2>1, <2>2, <3>2, RowsAfter
        <4> QED  BY <2>1, <3>2, <4>1, RatesAre
      <3> QED  BY <3>1, <3>2
    <2>6. ASSUME NEW j \in Interfaces, j[2] \in Reporters \ f.links
          PROVE  states'[j] # << >> /\ Last(states'[j]).t = now + 1
      <3>1. states'[j] # << >> /\ Last(states'[j]) = StateRow(flow, f, broken, j)
        BY <2>1, <2>2, <2>6, RowsAfter
      <3> QED  BY <2>1, <3>1, RatesAre
    <2>7. \A i, j \in Interfaces : i[2] = j[2] /\ states'[i] # << >> /\ Last(states'[i]).t = now + 1 =>
              states'[j] # << >> /\ Last(states'[j]).t = now + 1
      BY <2>5, <2>6
    <2> QED  BY <2>1, <2>3, <2>4, <2>5, <2>7 DEF Shown, Newest, Flowing
  <1>2. CASE Still
    <2>1. now' = now /\ states' = states /\ loads' = loads /\ flowed' = flowed
      BY <1>2 DEF Still, fabric
    <2> QED  BY <2>1 DEF Shown, Newest, Flowing
  <1> QED  BY <1>1, <1>2, FabricCases

\* Whoever has posted link states at the end of the last period has a row of
\* that time on every interface.
LEMMA SeenNow ==
    ASSUME Typed, Shown, NEW r \in Reporters, LastSeen[r] = now, now > 0
    PROVE  \A j \in Interfaces : j[2] = r => states[j] # << >> /\ Newest(j).t = now
  <1> DEFINE times == {Newest(i).t : i \in {i \in Interfaces : i[2] = r /\ states[i] # << >>}}
  <1> DEFINE T == {0} \cup times
  <1>1. now \in Nat /\ Max(T) = now
    BY DEF LastSeen, Typed
  <1>2. times \subseteq 0..now
    <2> SUFFICES ASSUME NEW i \in Interfaces, states[i] # << >> PROVE Newest(i).t \in 0..now
      OBVIOUS
    <2>1. states[i] \in Seq(Row) /\ Newest(i).t <= now
      BY DEF Typed
    <2>2. Newest(i) \in Row
      BY <2>1 DEF Newest, Last
    <2> QED  BY <1>1, <2>1, <2>2 DEF Row
  <1>3. ASSUME now \in times PROVE \A j \in Interfaces : j[2] = r => states[j] # << >> /\ Newest(j).t = now
    <2>1. PICK i \in Interfaces : i[2] = r /\ states[i] # << >> /\ Newest(i).t = now
      BY <1>3
    <2> QED  BY <2>1 DEF Shown
  <1> HIDE DEF times
  <1>4. now \in T
    <2> DEFINE s == T \ {0}
    <2>1. s \in SUBSET (1..now)
      BY <1>1, <1>2
    <2>2. \E x \in T : \A y \in T : x >= y
      <3>1. CASE s = {}
        BY <1>1, <3>1
      <3>2. CASE s # {}
        <4> HIDE DEF s
        <4>1. Max(s) \in s /\ \A y \in s : Max(s) >= y
          BY <1>1, <2>1, <3>2, MaxIn
        <4>2. Max(s) \in 1..now
          BY <2>1, <4>1
        <4>3. Max(s) \in T /\ Max(s) > 0 /\ \A y \in T : y = 0 \/ Max(s) >= y
          BY <1>1, <4>1, <4>2 DEF s
        <4> QED  BY <4>2, <4>3
      <3> QED  BY <3>1, <3>2
    <2> HIDE DEF T
    <2>3. Max(T) \in T
      BY <2>2 DEF Max
    <2> QED  BY <1>1, <2>3
  <1> QED  BY <1>1, <1>3, <1>4

LEMMA ShownIsReal == ASSUME Typed, Shown PROVE MeasuredIsReal
  <1> SUFFICES ASSUME NEW r \in Reporters, now > 0, LastSeen[r] = now
               PROVE  /\ \A row \in Listed(r, now) :
                            /\ <<row.link, row.pair>> \in Forwarded(r)
                            /\ RateIn(Listed(r, now), row.pair, row.link) <= flowed[row.pair].rate
                      /\ \A i \in {i \in Interfaces : i[2] = r} :
                            Newest(i).mbps # NoRate => Newest(i).mbps <= Carried(flowed, i[1])
    BY DEF MeasuredIsReal
  <1>1. \A j \in Interfaces : j[2] = r => states[j] # << >> /\ Newest(j).t = now
    BY SeenNow
  <1>2. ASSUME NEW row \in Listed(r, now) PROVE RealRow(flowed, r, now, row)
    <2>1. row \in loads[r] /\ row.t >= now
      BY DEF Listed
    <2>2. row.t \in Nat /\ row.t <= now /\ now \in Nat
      BY <2>1 DEF Shown, Typed
    <2> QED  BY <2>1, <2>2 DEF Shown
  <1>3. ASSUME NEW row \in Listed(r, now)
        PROVE  /\ <<row.link, row.pair>> \in Forwarded(r)
               /\ RateIn(Listed(r, now), row.pair, row.link) <= flowed[row.pair].rate
    <2>1. RealRow(flowed, r, now, row)
      BY <1>2
    <2>2. <<row.link, row.pair>> \in Forwarded(r)
      BY <2>1 DEF RealRow, Forwarded
    <2> DEFINE same == {o \in Listed(r, now) : o.pair = row.pair /\ o.link = row.link}
    <2>3. same = {row}
      <3>1. ASSUME NEW o \in same PROVE o = row
        <4>1. RealRow(flowed, r, now, o) /\ o.pair = row.pair /\ o.link = row.link
          BY <1>2
        <4> QED  BY <2>1, <4>1 DEF RealRow
      <3> QED  BY <3>1
    <2>4. RateIn(Listed(r, now), row.pair, row.link) = Total({row})
      <3>1. RateIn(Listed(r, now), row.pair, row.link) = Total(same)
        BY DEF RateIn
      <3> QED  BY <2>3, <3>1
    <2>5. row.mbps = flowed[row.pair].rate /\ flowed[row.pair].rate \in Nat
      BY <2>1 DEF RealRow, Shown, Flowing
    <2>6. RateIn(Listed(r, now), row.pair, row.link) = 0 + row.mbps
      BY <2>4, TotalOfOne
    <2> QED  BY <2>2, <2>5, <2>6
  <1> QED  BY <1>1, <1>3 DEF Shown

\* Whatever batches are lost, reads fail and interfaces are re-created: while
\* an agent posts its link states, every pair the server lists of it was on
\* that link in the last period, at no more than its rate there, and no rate
\* exceeds what the link carried (srv6-fabric-agent.py report, pair_rates;
\* aggregates.view).
THEOREM MeasurementsAreReal == Spec => []MeasuredIsReal
  <1>1. Init => Typed /\ Counted /\ Shown
    BY TypedInit, CountedInit, ShownInit
  <1>2. Typed /\ Counted /\ Shown /\ [Next]_vars => (Typed /\ Counted /\ Shown)'
    BY TypedNext, CountedNext, ShownNext
  <1>3. Typed /\ Counted /\ Shown => MeasuredIsReal
    BY ShownIsReal
  <1> QED  BY <1>1, <1>2, <1>3, PTL DEF Spec

-----------------------------------------------------------------------------
(* The paths asked for are the best                                        *)

\* For every pair, on what its links carry, the search returns a widest of the
\* shortest paths with room for the pair, or none when none has room, whatever
\* the fabric and the demands (pce.py compute); and with the links that are down
\* taken out, the links a release judges are those of all the shortest paths
\* (pce.py shortest_links).
THEOREM PathsAreOptimal == Spec => []PathsOptimal
  <1>1. Init => Typed /\ Counted /\ Shown
    BY TypedInit, CountedInit, ShownInit
  <1>2. Typed /\ Counted /\ Shown /\ [Next]_vars => (Typed /\ Counted /\ Shown)'
    BY TypedNext, CountedNext, ShownNext
  <1>3. Typed /\ Counted /\ Shown => PathsOptimal
    <2> SUFFICES ASSUME Shown PROVE PathsOptimal
      OBVIOUS
    <2> DEFINE used == [l \in Links |-> Carried(flowed, l)]
    <2>1. \A l \in DOMAIN used : used[l] \in Nat
      <3>1. \A l \in Links : Carried(flowed, l) \in Nat
        BY CarriedIsNat DEF Shown, Flowing
      <3> QED  BY <3>1
    <2> HIDE DEF used
    <2>2. IsFiniteSet(DOMAIN Capacity)
          /\ \A l \in DOMAIN Capacity : l = <<l[1], l[2]>> /\ {l[1], l[2]} \subseteq Int /\ Capacity[l] \in Nat
      BY FabricAssumption, ReoptAssumption DEF FabricAssumption, ReoptAssumption, Links
    <2>3. ASSUME NEW p \in Pairs
          PROVE  /\ Optimal(Compute(Capacity, used, SrcHost[p], DstHost[p], demand[p]),
                            Capacity, used, SrcHost[p], DstHost[p], demand[p])
                 /\ ShortestLinks(Without(Capacity, broken), SrcHost[p], DstHost[p])
                        = AllShortest(Without(Capacity, broken), SrcHost[p], DstHost[p])
      <3>1. SrcHost[p] \in Int /\ DstHost[p] \in Int /\ SrcHost[p] # DstHost[p]
        BY ReoptAssumption DEF ReoptAssumption
      <3>2. Optimal(Compute(Capacity, used, SrcHost[p], DstHost[p], demand[p]),
                    Capacity, used, SrcHost[p], DstHost[p], demand[p])
        BY <2>1, <2>2, <3>1, SearchIsOptimal
      <3> DEFINE up == Without(Capacity, broken)
      <3>3. DOMAIN up = DOMAIN Capacity \ broken
        BY DEF Without, Restrict
      <3> HIDE DEF up
      <3>4. IsFiniteSet(DOMAIN up) /\ \A l \in DOMAIN up : l = <<l[1], l[2]>>
        BY <2>2, <3>3, FS_Subset
      <3>5. ShortestLinks(up, SrcHost[p], DstHost[p]) = AllShortest(up, SrcHost[p], DstHost[p])
        BY <3>4, ShortestLinksAreAll
      <3> QED  BY <3>2, <3>5 DEF up
    <2>4. ASSUME NEW r \in Asked
          PROVE  /\ Optimal(Compute(Capacity, used, r[1], r[2], r[3]), Capacity, used, r[1], r[2], r[3])
                 /\ ShortestLinks(Without(Capacity, broken), r[1], r[2])
                        = AllShortest(Without(Capacity, broken), r[1], r[2])
      <3>1. PICK p \in Pairs : r = <<SrcHost[p], DstHost[p], demand[p]>>
        BY DEF Asked
      <3>2. r[1] = SrcHost[p] /\ r[2] = DstHost[p] /\ r[3] = demand[p]
        BY <3>1
      <3> QED  BY <2>3, <3>2
    <2>5. ASSUME NEW r \in {<<r[1], r[2]>> : r \in Asked}
          PROVE  ShortestLinks(Without(Capacity, broken), r[1], r[2])
                    = AllShortest(Without(Capacity, broken), r[1], r[2])
      <3>1. PICK q \in Asked : r = <<q[1], q[2]>>
        BY <2>5
      <3>2. r[1] = q[1] /\ r[2] = q[2]
        BY <3>1
      <3> QED  BY <2>4, <3>2
    <2> QED  BY <2>4, <2>5 DEF PathsOptimal, used
  <1> QED  BY <1>1, <1>2, <1>3, PTL DEF Spec
=============================================================================
