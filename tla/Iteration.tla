----------------------------- MODULE Iteration -----------------------------
(***************************************************************************)
(* Induction over the natural numbers as a fact about sets, so that proofs *)
(* can cite it: a set of numbers has a least element; a function that is   *)
(* applied again and again has its sequence of values; partial sums.  And  *)
(* what proofs about lists of references need: the places of a family of   *)
(* sets, occurrences in lists, counts that change by one.  And what loops  *)
(* compute that the models write as recursive functions: sums and products *)
(* over lists, and what changing, joining or mapping a list makes of them. *)
(***************************************************************************)
EXTENDS Integers, Sequences, FiniteSets, FiniteSetTheorems, SequenceTheorems,
        WellFoundedInduction, TLAPS

\* The least counterexample: every set of natural numbers that has a member
\* has a least one.  (The finite sets of numbers below each member are ordered
\* by inclusion, and that order is well founded.)
LEMMA Least ==
  ASSUME NEW S \in SUBSET Nat, S # {}
  PROVE  \E m \in S : \A k \in S : m <= k
<1> DEFINE below(n) == {i \in Nat : i < n}
           T == {below(n) : n \in S}
           R == StrictSubsetOrdering(Nat)
<1>1. \A n \in Nat : IsFiniteSet(below(n))
  <2> SUFFICES ASSUME NEW n \in Nat PROVE IsFiniteSet(below(n))
    OBVIOUS
  <2>1. below(n) = 0 .. n - 1 /\ n - 1 \in Int
    OBVIOUS
  <2> HIDE DEF below
  <2> QED
    BY <2>1, FS_Interval
<1>2. T \subseteq FiniteSubsetsOf(Nat) /\ T # {}
  BY <1>1 DEF FiniteSubsetsOf
<1>3. PICK x \in T : \A y \in T : <<y, x>> \notin R
  <2>1. IsWellFoundedOn(R, FiniteSubsetsOf(Nat))
    BY FS_StrictSubsetOrderingWellFounded
  <2> HIDE DEF T, R
  <2> QED
    BY <1>2, <2>1, WFMin
<1>4. PICK m \in S : x = below(m)
  OBVIOUS
<1>5. ASSUME NEW k \in S, k < m PROVE FALSE
  <2>1. below(k) \subseteq below(m) /\ k \in below(m) /\ k \notin below(k)
    BY <1>5
  <2>2. <<below(k), below(m)>> \in R
    BY <2>1 DEF StrictSubsetOrdering
  <2> QED
    BY <1>3, <1>4, <2>2
<1> QED
  BY <1>5

\* The same as a rule of induction: a set of numbers with 0 and with the
\* successor of each member is Nat.
LEMMA Induction ==
  ASSUME NEW S \in SUBSET Nat, 0 \in S, \A k \in S : k + 1 \in S
  PROVE  S = Nat
<1> DEFINE Rest == Nat \ S
<1> SUFFICES ASSUME Rest # {} PROVE FALSE
  OBVIOUS
<1>1. PICK m \in Rest : \A k \in Rest : m <= k
  <2>1. Rest \in SUBSET Nat
    OBVIOUS
  <2> HIDE DEF Rest
  <2> QED
    BY <2>1, Least
<1>2. m # 0 /\ m - 1 \in Nat /\ m - 1 \notin Rest
  BY <1>1
<1>3. m - 1 + 1 = m
  BY <1>1
<1> QED
  BY <1>1, <1>2, <1>3

\* Two functions that begin alike and go on alike are the same.
LEMMA SameSteps ==
  ASSUME NEW f, NEW h, NEW g, f[0] = h[0],
         \A k \in Nat : f[k + 1] = g[f[k]], \A k \in Nat : h[k + 1] = g[h[k]]
  PROVE  \A k \in Nat : f[k] = h[k]
<1> DEFINE S == {k \in Nat : f[k] = h[k]}
<1>1. 0 \in S /\ \A k \in S : k + 1 \in S
  OBVIOUS
<1>2. S \in SUBSET Nat
  OBVIOUS
<1>3. S = Nat
  <2> HIDE DEF S
  <2> QED
    BY <1>1, <1>2, Induction
<1> QED
  BY <1>3

\* The values of g applied again and again from a on.
Repeats(f, S, a, g) ==
  f \in [Nat -> S] /\ f[0] = a /\ \A k \in Nat : f[k + 1] = g[f[k]]

LEMMA Repeated ==
  ASSUME NEW S, NEW a \in S, NEW g \in [S -> S]
  PROVE  \E f : Repeats(f, S, a, g)
<1> DEFINE Good(n, f) == f[0] = a /\ \A k \in Nat : k < n => f[k + 1] = g[f[k]]
           Some == {n \in Nat : \E f \in [Nat -> S] : Good(n, f)}
<1>1. Some = Nat
  <2>1. 0 \in Some
    <3>1. [k \in Nat |-> a] \in [Nat -> S] /\ Good(0, [k \in Nat |-> a])
      OBVIOUS
    <3> QED
      BY <3>1
  <2>2. ASSUME NEW n \in Some PROVE n + 1 \in Some
    <3>1. PICK f \in [Nat -> S] : Good(n, f)
      BY <2>2
    <3> DEFINE h == [f EXCEPT ![n + 1] = g[f[n]]]
    <3>2. h \in [Nat -> S]
      OBVIOUS
    <3>3. Good(n + 1, h)
      BY <3>1
    <3>4. \E e \in [Nat -> S] : Good(n + 1, e)
      <4> HIDE DEF Good, h
      <4> QED
        BY <3>2, <3>3
    <3> QED
      BY <3>4
  <2>3. Some \in SUBSET Nat
    OBVIOUS
  <2> HIDE DEF Some
  <2> QED
    BY <2>1, <2>2, <2>3, Induction
<1>2. ASSUME NEW f \in [Nat -> S], NEW h \in [Nat -> S], NEW n \in Nat,
             Good(n + 1, f), Good(n, h)
      PROVE  f[n] = h[n]
  <2> DEFINE A == {k \in Nat : k <= n => f[k] = h[k]}
  <2>1. 0 \in A /\ \A k \in A : k + 1 \in A
    BY <1>2
  <2>2. A \in SUBSET Nat
    OBVIOUS
  <2>3. A = Nat
    <3> HIDE DEF A
    <3> QED
      BY <2>1, <2>2, Induction
  <2> QED
    BY <2>3
<1> DEFINE pick(n) == CHOOSE f \in [Nat -> S] : Good(n, f)
           lim == [n \in Nat |-> pick(n)[n]]
<1>3. \A n \in Nat : pick(n) \in [Nat -> S] /\ Good(n, pick(n))
  BY <1>1
<1> HIDE DEF pick
<1>4. lim \in [Nat -> S] /\ lim[0] = a
  BY <1>3
<1>5. ASSUME NEW k \in Nat PROVE lim[k + 1] = g[lim[k]]
  <2>1. pick(k + 1)[k] = pick(k)[k]
    <3>1. /\ pick(k + 1) \in [Nat -> S] /\ pick(k) \in [Nat -> S]
          /\ Good(k + 1, pick(k + 1)) /\ Good(k, pick(k))
      BY <1>3
    <3> HIDE DEF Good
    <3> QED
      BY <3>1, <1>2
  <2>2. pick(k + 1)[k + 1] = g[pick(k + 1)[k]]
    BY <1>3
  <2> QED
    BY <2>1, <2>2
<1>6. Repeats(lim, S, a, g)
  BY <1>4, <1>5 DEF Repeats
<1> QED
  BY <1>6
----------------------------------------------------------------------------
\* s is the sequence of the sums of the first values of a, as a recursive
\* function defines it.
IsSum(s, a, n) == s = [i \in 0 .. n |-> IF i = 0 THEN 0 ELSE s[i - 1] + a[i]]

\* There is one.
LEMMA Summed ==
  ASSUME NEW n \in Nat, NEW a \in [1 .. n -> Int]
  PROVE  \E s : IsSum(s, a, n)
<1> DEFINE S == Nat \X Int
           g == [x \in S |-> <<x[1] + 1, IF x[1] < n THEN x[2] + a[x[1] + 1] ELSE x[2]>>]
           z == <<0, 0>>
<1>1. z \in S
  OBVIOUS
<1>2. g \in [S -> S]
  <2> SUFFICES ASSUME NEW x \in S
               PROVE  <<x[1] + 1, IF x[1] < n THEN x[2] + a[x[1] + 1] ELSE x[2]>> \in S
    OBVIOUS
  <2>1. x[1] \in Nat /\ x[2] \in Int /\ (x[1] < n => a[x[1] + 1] \in Int)
    OBVIOUS
  <2> QED
    BY <2>1
<1>3. PICK f : Repeats(f, S, z, g)
  <2> HIDE DEF S, z, g
  <2> QED
    BY <1>1, <1>2, Repeated
<1>4. f \in [Nat -> S] /\ f[0] = z /\ \A k \in Nat : f[k + 1] = g[f[k]]
  BY <1>3 DEF Repeats
<1>5. ASSUME NEW k \in Nat
      PROVE  /\ f[k][1] \in Nat /\ f[k][2] \in Int
             /\ f[k + 1][1] = f[k][1] + 1
             /\ f[k][1] < n => f[k + 1][2] = f[k][2] + a[f[k][1] + 1]
  <2>1. f[k] \in S /\ f[k + 1] = g[f[k]]
    BY <1>4
  <2> DEFINE y == IF f[k][1] < n THEN f[k][2] + a[f[k][1] + 1] ELSE f[k][2]
  <2>2. f[k + 1] = <<f[k][1] + 1, y>>
    BY <2>1
  <2>3. f[k + 1][1] = f[k][1] + 1 /\ f[k + 1][2] = y
    <3> HIDE DEF y
    <3> QED
      BY <2>2
  <2> QED
    BY <2>1, <2>3
<1>6. \A k \in Nat : f[k][1] = k
  <2> DEFINE N == {k \in Nat : f[k][1] = k}
  <2>1. 0 \in N
    BY <1>4
  <2>2. ASSUME NEW k \in N PROVE k + 1 \in N
    <3>1. k \in Nat /\ f[k][1] = k /\ k + 1 \in Nat
      OBVIOUS
    <3>2. f[k + 1][1] = f[k][1] + 1
      BY <1>5, <3>1
    <3> QED
      BY <3>1, <3>2
  <2>3. N \in SUBSET Nat
    OBVIOUS
  <2>4. N = Nat
    <3> HIDE DEF N
    <3> QED
      BY <2>1, <2>2, <2>3, Induction
  <2> QED
    BY <2>4
<1> DEFINE s == [i \in 0 .. n |-> f[i][2]]
<1>7. \A i \in 0 .. n : s[i] = IF i = 0 THEN 0 ELSE s[i - 1] + a[i]
  <2> SUFFICES ASSUME NEW i \in 0 .. n PROVE s[i] = IF i = 0 THEN 0 ELSE s[i - 1] + a[i]
    OBVIOUS
  <2>1. CASE i = 0
    BY <1>4, <2>1
  <2>2. CASE i # 0
    <3>1. PICK k \in Nat : i = k + 1 /\ k \in 0 .. n /\ k < n
      <4>1. i - 1 \in Nat /\ i = (i - 1) + 1 /\ i - 1 \in 0 .. n /\ i - 1 < n
        BY <2>2
      <4> QED
        BY <4>1
    <3>2. f[k + 1][2] = f[k][2] + a[k + 1]
      BY <1>5, <1>6, <3>1
    <3>3. s[i] = f[k + 1][2] /\ s[k] = f[k][2] /\ i - 1 = k
      BY <3>1
    <3> QED
      BY <2>2, <3>1, <3>2, <3>3
  <2> QED
    BY <2>1, <2>2
<1>8. s = [i \in 0 .. n |-> IF i = 0 THEN 0 ELSE s[i - 1] + a[i]]
  <2>1. s = [i \in 0 .. n |-> s[i]]
    OBVIOUS
  <2> HIDE DEF s
  <2> QED
    BY <1>7, <2>1
<1> QED
  BY <1>8 DEF IsSum

\* What the values have in common and addition keeps, the sums have, too.
LEMMA SumIn ==
  ASSUME NEW n \in Nat, NEW M \in SUBSET Int, NEW a \in [1 .. n -> M], NEW s, IsSum(s, a, n),
         0 \in M, \A x, y \in M : x + y \in M
  PROVE  \A k \in 0 .. n : s[k] \in M
<1> DEFINE N == {k \in Nat : k <= n => s[k] \in M}
<1>1. s[0] = 0
  BY DEF IsSum
<1>2. ASSUME NEW k \in N, k + 1 <= n PROVE s[k + 1] \in M
  <2>1. s[k + 1] = s[(k + 1) - 1] + a[k + 1]
    <3>1. k + 1 \in 0 .. n /\ k + 1 # 0
      BY <1>2
    <3> QED
      BY <3>1 DEF IsSum
  <2>2. (k + 1) - 1 = k /\ k <= n /\ k + 1 \in 1 .. n
    BY <1>2
  <2>3. s[k] \in M /\ a[k + 1] \in M
    BY <2>2
  <2> QED
    BY <2>1, <2>2, <2>3
<1>3. 0 \in N /\ \A k \in N : k + 1 \in N
  BY <1>1, <1>2
<1>4. N \in SUBSET Nat
  OBVIOUS
<1>5. N = Nat
  <2> HIDE DEF N
  <2> QED
    BY <1>3, <1>4, Induction
<1> QED
  BY <1>5

\* Smaller values have smaller sums.
LEMMA SumMonotone ==
  ASSUME NEW n \in Nat, NEW a \in [1 .. n -> Int], NEW s, IsSum(s, a, n),
         NEW m \in Nat, NEW b \in [1 .. m -> Int], NEW t, IsSum(t, b, m),
         NEW h \in 0 .. n, h <= m, \A i \in 1 .. h : a[i] <= b[i]
  PROVE  s[h] <= t[h]
<1> DEFINE N == {k \in Nat : k <= h => s[k] <= t[k]}
<1>0. (\A k \in 0 .. n : s[k] \in Int) /\ (\A k \in 0 .. m : t[k] \in Int)
  <2>1. Int \in SUBSET Int /\ 0 \in Int /\ \A x, y \in Int : x + y \in Int
    OBVIOUS
  <2>2. \A k \in 0 .. n : s[k] \in Int
    BY <2>1, SumIn
  <2>3. \A k \in 0 .. m : t[k] \in Int
    BY <2>1, SumIn
  <2> QED
    BY <2>2, <2>3
<1>1. s[0] = 0 /\ t[0] = 0
  BY DEF IsSum
<1>2. ASSUME NEW k \in N, k + 1 <= h PROVE s[k + 1] <= t[k + 1]
  <2>1. s[k + 1] = s[(k + 1) - 1] + a[k + 1] /\ t[k + 1] = t[(k + 1) - 1] + b[k + 1]
    <3>1. k + 1 \in 0 .. n /\ k + 1 \in 0 .. m /\ k + 1 # 0
      BY <1>2
    <3> QED
      BY <3>1 DEF IsSum
  <2>2. (k + 1) - 1 = k /\ k \in 0 .. n /\ k \in 0 .. m /\ k + 1 \in 1 .. h
        /\ k + 1 \in 1 .. n /\ k + 1 \in 1 .. m
    BY <1>2
  <2>3. s[k] <= t[k] /\ a[k + 1] <= b[k + 1]
    BY <1>2, <2>2
  <2>4. s[k] \in Int /\ t[k] \in Int /\ a[k + 1] \in Int /\ b[k + 1] \in Int
    BY <1>0, <2>2
  <2> QED
    BY <2>1, <2>2, <2>3, <2>4
<1>3. 0 \in N /\ \A k \in N : k + 1 \in N
  BY <1>1, <1>2
<1>4. N \in SUBSET Nat
  OBVIOUS
<1>5. N = Nat
  <2> HIDE DEF N
  <2> QED
    BY <1>3, <1>4, Induction
<1> QED
  BY <1>5
-----------------------------------------------------------------------------
(***************************************************************************)
(* The places of a finite family of finite sets.                           *)
(***************************************************************************)
Spread(S) == UNION {{i} \X S[i] : i \in DOMAIN S}
Finite(S) == IsFiniteSet(DOMAIN S) /\ \A i \in DOMAIN S : IsFiniteSet(S[i])
Other(S, j) == [i \in DOMAIN S \ {j} |-> S[i]]

\* The places of a finite family of finite sets can be counted.
LEMMA SpreadFinite ==
  ASSUME NEW S, Finite(S)
  PROVE  IsFiniteSet(Spread(S)) /\ Cardinality(Spread(S)) \in Nat
<1> DEFINE h == [i \in DOMAIN S |-> {i} \X S[i]]
           R == {h[i] : i \in DOMAIN S}
<1>1. IsFiniteSet(R)
  <2>1. h \in Surjection(DOMAIN S, R)
    BY DEF Surjection
  <2> HIDE DEF h, R
  <2> QED
    BY <2>1, FS_Surjection DEF Finite
<1>2. \A T \in R : IsFiniteSet(T)
  <2> SUFFICES ASSUME NEW i \in DOMAIN S PROVE IsFiniteSet({i} \X S[i])
    OBVIOUS
  <2>1. IsFiniteSet({i}) /\ IsFiniteSet(S[i])
    BY FS_Singleton DEF Finite
  <2> QED
    BY <2>1, FS_Product
<1>3. Spread(S) = UNION R
  BY DEF Spread
<1> HIDE DEF R
<1>4. IsFiniteSet(Spread(S))
  BY <1>1, <1>2, <1>3, FS_UNION
<1> QED
  BY <1>4, FS_CardinalityType

\* The places of a family are those of one member and those of the others.
LEMMA SpreadSplit ==
  ASSUME NEW S, Finite(S), NEW j \in DOMAIN S
  PROVE  /\ Finite(Other(S, j))
         /\ Cardinality(Spread(S)) = Cardinality(Spread(Other(S, j))) + Cardinality(S[j])
         /\ Cardinality(Spread(Other(S, j))) \in Nat /\ Cardinality(S[j]) \in Nat
<1> DEFINE W == Other(S, j)
           P == {j} \X S[j]
<1>1. DOMAIN W = DOMAIN S \ {j} /\ \A i \in DOMAIN W : W[i] = S[i]
  BY DEF Other
<1> HIDE DEF W
<1>2. Finite(W)
  BY <1>1, FS_RemoveElement DEF Finite
<1>3. Spread(S) = Spread(W) \cup P /\ Spread(W) \cap P = {}
  BY <1>1 DEF Spread
<1>4. IsFiniteSet(P) /\ Cardinality(P) = Cardinality(S[j]) /\ Cardinality(S[j]) \in Nat
  <2>1. IsFiniteSet(S[j]) /\ Cardinality(S[j]) \in Nat
    BY FS_CardinalityType DEF Finite
  <2>2. IsFiniteSet({j}) /\ Cardinality({j}) = 1
    BY FS_Singleton
  <2>3. IsFiniteSet(P) /\ Cardinality(P) = Cardinality({j}) * Cardinality(S[j])
    BY <2>1, <2>2, FS_Product
  <2> QED
    BY <2>1, <2>2, <2>3
<1>5. IsFiniteSet(Spread(W)) /\ Cardinality(Spread(W)) \in Nat
  BY <1>2, SpreadFinite
<1> HIDE DEF P
<1>6. Cardinality(Spread(W) \cup P) = Cardinality(Spread(W)) + Cardinality(P) - Cardinality(Spread(W) \cap P)
  BY <1>4, <1>5, FS_Union
<1>7. Cardinality(Spread(W) \cap P) = 0
  BY <1>3, FS_EmptySet
<1>8. Cardinality(Spread(S)) = Cardinality(Spread(W)) + Cardinality(S[j])
  BY <1>3, <1>4, <1>5, <1>6, <1>7
<1> QED
  BY <1>2, <1>4, <1>5, <1>8 DEF W

\* A family with one more set.
LEMMA SpreadMore ==
  ASSUME NEW S, Finite(S), NEW R, Finite(R), NEW j \in DOMAIN R,
         DOMAIN S = DOMAIN R \ {j}, \A i \in DOMAIN S : R[i] = S[i]
  PROVE  /\ Cardinality(R[j]) \in Nat /\ Cardinality(Spread(S)) \in Nat
         /\ Cardinality(Spread(R)) = Cardinality(Spread(S)) + Cardinality(R[j])
<1>1. Spread(Other(R, j)) = Spread(S)
  BY DEF Other, Spread
<1>2. /\ Cardinality(Spread(R)) = Cardinality(Spread(Other(R, j))) + Cardinality(R[j])
      /\ Cardinality(R[j]) \in Nat
  BY SpreadSplit
<1> QED
  BY <1>1, <1>2, SpreadFinite
-----------------------------------------------------------------------------
(***************************************************************************)
(* Lists of numbered things, 0 being none, how often a thing is in one,    *)
(* and counts of all things.                                               *)
(***************************************************************************)
Numbered == Nat \ {0}
Lists    == Seq(Numbered)
Length(s) == Len(s)
Times(x, list) == Cardinality({i \in DOMAIN list : list[i] = x})

\* One more or less, of e; one if it is the same.
More(f, e) == [f EXCEPT ![e] = @ + 1]
Less(f, e) == [f EXCEPT ![e] = @ - 1]
Hit(x, y) == IF x = y THEN 1 ELSE 0

\* One reference more, of one object.
LEMMA MoreAt ==
  ASSUME NEW f \in [Nat -> Nat], NEW e \in Nat
  PROVE  More(f, e) \in [Nat -> Nat] /\ More(f, e)[e] > 0 /\ \A x \in Nat : More(f, e)[x] = f[x] + Hit(x, e)
<1>1. f[e] \in Nat
  OBVIOUS
<1>2. More(f, e) = [f EXCEPT ![e] = f[e] + 1]
  BY DEF More
<1> QED
  BY <1>1, <1>2 DEF Hit

\* One reference less, of one object.
LEMMA LessAt ==
  ASSUME NEW f \in [Nat -> Nat], NEW e \in Nat, f[e] > 0
  PROVE  Less(f, e) \in [Nat -> Nat] /\ \A x \in Nat : Less(f, e)[x] = f[x] - Hit(x, e)
<1>1. f[e] \in Nat /\ f[e] - 1 \in Nat
  OBVIOUS
<1>2. Less(f, e) = [f EXCEPT ![e] = f[e] - 1]
  BY DEF Less
<1> QED
  BY <1>1, <1>2 DEF Hit

\* A reference taken and given back leaves the counts as they were.
LEMMA LessMore ==
  ASSUME NEW f \in [Nat -> Nat], NEW e \in Nat
  PROVE  Less(More(f, e), e) = f
<1>1. /\ More(f, e) \in [Nat -> Nat] /\ More(f, e)[e] > 0
      /\ \A x \in Nat : More(f, e)[x] = f[x] + Hit(x, e)
  BY MoreAt
<1>2. /\ Less(More(f, e), e) \in [Nat -> Nat]
      /\ \A x \in Nat : Less(More(f, e), e)[x] = More(f, e)[x] - Hit(x, e)
  BY <1>1, LessAt
<1>3. ASSUME NEW x \in Nat PROVE Less(More(f, e), e)[x] = f[x]
  <2>1. f[x] \in Nat /\ Hit(x, e) \in Nat
    BY DEF Hit
  <2> QED
    BY <1>1, <1>2, <2>1
<1> QED
  BY <1>2, <1>3

\* Counts that differ by one at one object.
LEMMA IsMore ==
  ASSUME NEW f \in [Nat -> Nat], NEW h \in [Nat -> Nat], NEW e \in Nat, \A x \in Nat : h[x] = f[x] + Hit(x, e)
  PROVE  h = More(f, e) /\ Less(h, e) = f /\ h[e] > 0
<1>1. More(f, e) \in [Nat -> Nat] /\ More(f, e)[e] > 0 /\ \A x \in Nat : More(f, e)[x] = f[x] + Hit(x, e)
  BY MoreAt
<1>2. h = More(f, e)
  BY <1>1
<1> QED
  BY <1>1, <1>2, LessMore

\* Counts that agree everywhere are the same.
LEMMA SameNumbers ==
  ASSUME NEW f \in [Nat -> Nat], NEW h \in [Nat -> Nat], \A x \in Nat : f[x] = h[x]
  PROVE  f = h
OBVIOUS

\* Counting from the other end, twice.
LEMMA MirrorAt ==
  ASSUME NEW k \in Nat, NEW i \in 1 .. k
  PROVE  (k - i) + 1 \in 1 .. k /\ (k - ((k - i) + 1)) + 1 = i
OBVIOUS

\* How often a list has a member.
LEMMA TimesConcat ==
  ASSUME NEW T, NEW s \in Seq(T), NEW t \in Seq(T), NEW x
  PROVE  Times(x, s) \in Nat /\ Times(x, s \o t) = Times(x, s) + Times(x, t)
<1> DEFINE A(q) == {i \in DOMAIN q : q[i] = x}
           B == {i \in Len(s) + 1 .. Len(s) + Len(t) : t[i - Len(s)] = x}
<1>1. \A q \in Seq(T) : IsFiniteSet(A(q)) /\ Cardinality(A(q)) \in Nat
  <2> SUFFICES ASSUME NEW q \in Seq(T) PROVE IsFiniteSet(A(q)) /\ Cardinality(A(q)) \in Nat
    OBVIOUS
  <2>1. IsFiniteSet(1 .. Len(q)) /\ A(q) \in SUBSET (1 .. Len(q))
    BY FS_Interval
  <2> HIDE DEF A
  <2> QED
    BY <2>1, FS_Subset, FS_CardinalityType
<1>2. A(s \o t) = A(s) \cup B /\ A(s) \cap B = {}
  OBVIOUS
<1>3. IsFiniteSet(B) /\ Cardinality(B) = Cardinality(A(t))
  <2> DEFINE h == [i \in A(t) |-> i + Len(s)]
  <2>1. h \in Bijection(A(t), B)
    <3>1. h \in [A(t) -> B]
      OBVIOUS
    <3>2. \A i, j \in A(t) : h[i] = h[j] => i = j
      OBVIOUS
    <3>3. \A k \in B : \E i \in A(t) : h[i] = k
      <4> SUFFICES ASSUME NEW k \in B PROVE \E i \in A(t) : h[i] = k
        OBVIOUS
      <4>1. k - Len(s) \in A(t) /\ h[k - Len(s)] = k
        OBVIOUS
      <4> QED
        BY <4>1
    <3> HIDE DEF h, A, B
    <3> QED
      BY <3>1, <3>2, <3>3 DEF Bijection, Injection, Surjection, IsInjective
  <2>2. ExistsBijection(A(t), B)
    BY <2>1 DEF ExistsBijection
  <2>3. IsFiniteSet(A(t))
    BY <1>1
  <2> HIDE DEF A, B, h
  <2> QED
    BY <2>2, <2>3, FS_Bijection
<1>4. /\ Cardinality(A(s) \cup B) = Cardinality(A(s)) + Cardinality(B) - Cardinality(A(s) \cap B)
      /\ Cardinality({}) = 0
  <2>1. IsFiniteSet(A(s))
    BY <1>1
  <2> HIDE DEF A, B
  <2>2. Cardinality(A(s) \cup B) = Cardinality(A(s)) + Cardinality(B) - Cardinality(A(s) \cap B)
    BY <1>3, <2>1, FS_Union
  <2> QED
    BY <2>2, FS_EmptySet
<1>5. Cardinality(A(s)) \in Nat /\ Cardinality(A(t)) \in Nat
  BY <1>1
<1> HIDE DEF A, B
<1>6. Cardinality(A(s \o t)) = Cardinality(A(s)) + Cardinality(A(t))
  <2>1. Cardinality(A(s) \cap B) = 0
    BY <1>2, <1>4
  <2> QED
    BY <1>2, <1>3, <1>4, <1>5, <2>1
<1> QED
  BY <1>5, <1>6 DEF Times, A

\* What a list of one and the empty list hold.
LEMMA TimesOne ==
  ASSUME NEW x, NEW y
  PROVE  Times(x, <<y>>) = Hit(x, y) /\ Times(x, <<>>) = 0
<1>1. {i \in DOMAIN <<>> : <<>>[i] = x} = {}
  OBVIOUS
<1>2. Times(x, <<>>) = 0
  BY <1>1, FS_EmptySet DEF Times
<1>3. DOMAIN <<y>> = {1} /\ <<y>>[1] = y
  OBVIOUS
<1>4. CASE x = y
  <2>1. {i \in DOMAIN <<y>> : <<y>>[i] = x} = {1}
    BY <1>3, <1>4
  <2> QED
    BY <1>2, <1>4, <2>1, FS_Singleton DEF Times, Hit
<1>5. CASE x # y
  <2>1. {i \in DOMAIN <<y>> : <<y>>[i] = x} = {}
    BY <1>3, <1>5
  <2> QED
    BY <1>2, <1>5, <2>1, FS_EmptySet DEF Times, Hit
<1> QED
  BY <1>4, <1>5

\* A list that grows and shrinks at an end.
LEMMA TimesJoined ==
  ASSUME NEW s \in Lists, NEW t \in Lists, NEW x
  PROVE  s \o t \in Lists /\ Times(x, s) \in Nat /\ Times(x, s \o t) = Times(x, s) + Times(x, t)
<1>1. s \in Seq(Numbered) /\ t \in Seq(Numbered) /\ s \o t \in Seq(Numbered)
  BY DEF Lists
<1>2. Times(x, s) \in Nat /\ Times(x, s \o t) = Times(x, s) + Times(x, t)
  BY <1>1, TimesConcat
<1> QED
  BY <1>1, <1>2 DEF Lists

\* The places in a list are numbers.
LEMMA TimesNat ==
  ASSUME NEW s \in Lists, NEW x
  PROVE  Times(x, s) \in Nat /\ Length(s) \in Nat
<1>1. Length(s) \in Nat
  BY DEF Lists, Length
<1> QED
  BY <1>1, TimesJoined

\* A list grown at either end holds one more.
LEMMA TimesGrow ==
  ASSUME NEW s \in Lists, NEW x, NEW y \in Numbered
  PROVE  /\ Times(x, s) \in Nat /\ Hit(x, y) \in Nat
         /\ Append(s, y) \in Lists /\ Times(x, Append(s, y)) = Times(x, s) + Hit(x, y)
         /\ <<y>> \o s \in Lists /\ Times(x, <<y>> \o s) = Times(x, s) + Hit(x, y)
<1>1. Times(x, s) \in Nat
  BY TimesJoined
<1>2. <<y>> \in Lists /\ Append(s, y) = s \o <<y>> /\ s \o <<y>> \in Lists /\ <<y>> \o s \in Lists
  BY DEF Lists
<1>3. Times(x, s \o <<y>>) = Times(x, s) + Times(x, <<y>>)
  BY <1>2, TimesJoined
<1>4. Times(x, <<y>> \o s) = Times(x, <<y>>) + Times(x, s)
  BY <1>2, TimesJoined
<1>5. Times(x, <<y>>) = Hit(x, y) /\ Hit(x, y) \in Nat
  BY TimesOne DEF Hit
<1> QED
  BY <1>1, <1>2, <1>3, <1>4, <1>5

\* Where things are in a list that grew.
LEMMA AppendAt ==
  ASSUME NEW s \in Lists, NEW e \in Numbered
  PROVE  /\ DOMAIN s = 1 .. Len(s) /\ Len(s) \in Nat
         /\ DOMAIN Append(s, e) = DOMAIN s \cup {Len(s) + 1} /\ Len(s) + 1 \notin DOMAIN s
         /\ Append(s, e)[Len(s) + 1] = e /\ \A i \in DOMAIN s : Append(s, e)[i] = s[i]
BY DEF Lists

\* A list with an entry in front.
LEMMA PrependAt ==
  ASSUME NEW s \in Lists, NEW e \in Numbered
  PROVE  /\ DOMAIN s = 1 .. Len(s) /\ Len(s) \in Nat /\ <<e>> \o s \in Lists
         /\ DOMAIN (<<e>> \o s) = 1 .. Len(s) + 1 /\ Len(<<e>> \o s) = Len(s) + 1
         /\ (<<e>> \o s)[1] = e
         /\ \A i \in 1 .. Len(s) + 1 : i # 1 => i - 1 \in DOMAIN s /\ (<<e>> \o s)[i] = s[i - 1]
<1>1. <<e>> \in Seq(Numbered) /\ s \in Seq(Numbered) /\ Len(<<e>>) = 1 /\ <<e>>[1] = e
  BY DEF Lists
<1>2. Len(s) \in Nat /\ DOMAIN s = 1 .. Len(s)
  BY <1>1
<1> QED
  BY <1>1, <1>2 DEF Lists

\* Joining lists is associative.
LEMMA JoinedTwice ==
  ASSUME NEW s \in Lists, NEW t \in Lists, NEW u \in Lists
  PROVE  (s \o t) \o u = s \o (t \o u)
<1> DEFINE S == Numbered
<1>1. s \in Seq(S) /\ t \in Seq(S) /\ u \in Seq(S)
  BY DEF Lists
<1> HIDE DEF S
<1> QED
  BY ONLY <1>1

\* Lengths of lists joined and grown.
LEMMA LengthOf ==
  ASSUME NEW s \in Lists, NEW t \in Lists, NEW e \in Numbered
  PROVE  /\ Length(s) \in Nat /\ Length(s \o t) = Length(s) + Length(t)
         /\ Length(Append(s, e)) = Length(s) + 1 /\ Length(<<e>> \o s) = Length(s) + 1
         /\ Length(<<>>) = 0
         /\ s # <<>> => Length(s) = Length(Tail(s)) + 1 /\ Length(Tail(s)) \in Nat
BY DEF Lists, Length

\* The empty list.
LEMMA EmptyList == <<>> \in Lists /\ Length(<<>>) = 0 /\ \A x : Times(x, <<>>) = 0
<1>1. <<>> \in Lists
  BY DEF Lists
<1>2. Length(<<>>) = 0
  BY DEF Length
<1>3. \A x : Times(x, <<>>) = 0
  <2> SUFFICES ASSUME NEW x PROVE Times(x, <<>>) = 0
    OBVIOUS
  <2> QED
    BY TimesOne
<1> QED
  BY <1>1, <1>2, <1>3
----------------------------------------------------------------------------
(***************************************************************************)
(* Loops, which the models write as recursive functions.                   *)
(***************************************************************************)
\* What one round leads on to the next, all rounds have.
LEMMA RoundsKeep ==
  ASSUME NEW n \in Nat, NEW T, NEW f, f[0] \in T[0],
         \A i \in 1 .. n : f[i - 1] \in T[i - 1] => f[i] \in T[i]
  PROVE  \A i \in 0 .. n : f[i] \in T[i]
<1> DEFINE S == {i \in Nat : i <= n => f[i] \in T[i]}
<1>1. 0 \in S
  OBVIOUS
<1>2. ASSUME NEW k \in S PROVE k + 1 \in S
  <2>1. k \in Nat /\ (k <= n => f[k] \in T[k]) /\ k + 1 \in Nat
    OBVIOUS
  <2>2. ASSUME k + 1 <= n PROVE f[k + 1] \in T[k + 1]
    <3>1. k + 1 \in 1 .. n /\ (k + 1) - 1 = k /\ k <= n
      BY <2>1, <2>2
    <3> QED BY <2>1, <3>1
  <2> QED BY <2>1, <2>2
<1>3. S \in SUBSET Nat
  OBVIOUS
<1>4. S = Nat
  <2> HIDE DEF S
  <2> QED BY <1>1, <1>2, <1>3, Induction
<1> QED BY <1>4

\* f is what n rounds make of a, F[i] being what round i does.
IsRun(f, n, a, F) == f = [i \in 0 .. n |-> IF i = 0 THEN a ELSE F[i][f[i - 1]]]

\* The values exist, whatever the rounds are.
LEMMA RoundsExist ==
  ASSUME NEW n \in Nat, NEW a, NEW F
  PROVE  \E f : IsRun(f, n, a, F)
<1> USE DEF IsRun
<1> DEFINE Good(k, f) == f = [i \in 0 .. k |-> IF i = 0 THEN a ELSE F[i][f[i - 1]]]
           S == {k \in Nat : \E f : Good(k, f)}
<1>1. 0 \in S
  <2> DEFINE f == [i \in 0 .. 0 |-> a]
  <2>1. Good(0, f)
    OBVIOUS
  <2> QED BY <2>1
<1>2. ASSUME NEW k \in S PROVE k + 1 \in S
  <2>1. k \in Nat /\ k + 1 \in Nat
    OBVIOUS
  <2>2. PICK f : Good(k, f)
    BY <1>2
  <2> DEFINE h == [i \in 0 .. k + 1 |-> IF i <= k THEN f[i] ELSE F[k + 1][f[k]]]
  <2>3. DOMAIN h = 0 .. k + 1
    OBVIOUS
  <2>4. ASSUME NEW i \in 0 .. k + 1
        PROVE  h[i] = IF i = 0 THEN a ELSE F[i][h[i - 1]]
    <3>1. CASE i = 0
      <4>1. h[i] = f[0] /\ 0 \in 0 .. k
        BY <3>1, <2>1
      <4>2. f[0] = a
        BY <2>2, <4>1
      <4> QED BY <3>1, <4>1, <4>2
    <3>2. CASE i \in 1 .. k
      <4>1. i \in 0 .. k /\ i - 1 \in 0 .. k + 1 /\ i - 1 <= k /\ i # 0
        BY <3>2, <2>1
      <4>2. h[i] = f[i] /\ h[i - 1] = f[i - 1]
        BY <4>1
      <4>3. f[i] = F[i][f[i - 1]]
        BY <2>2, <4>1
      <4> QED BY <4>1, <4>2, <4>3
    <3>3. CASE i = k + 1
      <4>1. i # 0 /\ i - 1 = k /\ k \in 0 .. k + 1 /\ ~ i <= k /\ k <= k
        BY <3>3, <2>1
      <4>2. h[k] = f[k] /\ h[i] = F[k + 1][f[k]]
        BY <4>1
      <4> QED BY <3>3, <4>1, <4>2
    <3> QED BY <3>1, <3>2, <3>3, <2>1
  <2>5. h = [i \in 0 .. k + 1 |-> IF i = 0 THEN a ELSE F[i][h[i - 1]]]
    <3>1. h = [i \in 0 .. k + 1 |-> h[i]]
      OBVIOUS
    <3> HIDE DEF h
    <3> QED BY <2>4, <3>1
  <2> QED BY <2>1, <2>5
<1>3. S \in SUBSET Nat
  OBVIOUS
<1>4. S = Nat
  <2> HIDE DEF S
  <2> QED BY <1>1, <1>2, <1>3, Induction
<1> QED BY <1>4

\* Both together: the rounds lead from T[0] to T[n].
LEMMA Rounds ==
  ASSUME NEW n \in Nat, NEW T, NEW F, NEW a \in T[0],
         \A i \in 1 .. n : \A x \in T[i - 1] : F[i][x] \in T[i]
  PROVE  \E f : IsRun(f, n, a, F) /\ \A i \in 0 .. n : f[i] \in T[i]
<1>1. PICK f : IsRun(f, n, a, F)
  BY RoundsExist
<1>2. f[0] = a /\ \A i \in 1 .. n : f[i] = F[i][f[i - 1]]
  <2>1. 0 \in 0 .. n /\ \A i \in 1 .. n : i \in 0 .. n /\ i # 0
    OBVIOUS
  <2> QED BY <1>1, <2>1 DEF IsRun
<1>3. \A i \in 1 .. n : f[i - 1] \in T[i - 1] => f[i] \in T[i]
  BY <1>2
<1>4. f[0] \in T[0]
  BY <1>2
<1>5. \A i \in 0 .. n : f[i] \in T[i]
  BY <1>3, <1>4, RoundsKeep
<1> QED BY <1>1, <1>5
----------------------------------------------------------------------------
(***************************************************************************)
(* What a loop over a list makes of a value: g[x] is the round for x.      *)
(***************************************************************************)
IsFold(f, e, z, g) == f = [i \in 0 .. Len(e) |-> IF i = 0 THEN z ELSE g[e[i]][f[i - 1]]]
Folded(e, z, g)    == (CHOOSE f : IsFold(f, e, z, g))[Len(e)]

\* Every list is made by appending; a set that is closed under that has all.
LEMMA ListInduction ==
  ASSUME NEW A, NEW S \in SUBSET Seq(A), <<>> \in S, \A s \in S : \A x \in A : Append(s, x) \in S
  PROVE  S = Seq(A)
<1> DEFINE N == {n \in Nat : \A s \in Seq(A) : Len(s) = n => s \in S}
<1>1. 0 \in N
  <2>1. \A s \in Seq(A) : Len(s) = 0 => s = <<>>
    OBVIOUS
  <2> QED BY <2>1
<1>2. ASSUME NEW n \in N PROVE n + 1 \in N
  <2>1. n \in Nat /\ \A s \in Seq(A) : Len(s) = n => s \in S
    OBVIOUS
  <2>2. ASSUME NEW s \in Seq(A), Len(s) = n + 1 PROVE s \in S
    <3>1. s # <<>>
      BY <2>1, <2>2
    <3>2. PICK t \in Seq(A), x \in A : s = Append(t, x)
      BY <3>1, SequenceEmptyOrAppend
    <3>3. Len(t) = n
      <4>1. Len(s) = Len(t) + 1 /\ Len(t) \in Nat
        BY <3>2
      <4> QED BY ONLY <2>1, <2>2, <4>1
    <3> QED BY <2>1, <3>2, <3>3
  <2> QED BY <2>1, <2>2
<1>3. N \in SUBSET Nat
  OBVIOUS
<1>4. N = Nat
  <2> HIDE DEF N
  <2> QED BY <1>1, <1>2, <1>3, Induction
<1>5. \A s \in Seq(A) : Len(s) \in Nat
  OBVIOUS
<1> QED BY <1>4, <1>5

\* The values of the rounds exist, and are of the set that rounds do not leave.
LEMMA FoldRun ==
  ASSUME NEW A, NEW S, NEW z \in S, NEW g \in [A -> [S -> S]], NEW e \in Seq(A)
  PROVE  \E f : /\ IsFold(f, e, z, g) /\ Folded(e, z, g) = f[Len(e)]
                /\ \A i \in 0 .. Len(e) : f[i] \in S
                /\ f[0] = z /\ \A i \in 1 .. Len(e) : f[i] = g[e[i]][f[i - 1]]
<1> DEFINE n == Len(e)
           F == [i \in 1 .. n |-> g[e[i]]]
           h == CHOOSE f : IsFold(f, e, z, g)
           T == [i \in 0 .. n |-> S]
<1>1. n \in Nat /\ \A i \in 1 .. n : e[i] \in A
  OBVIOUS
<1>2. PICK f : IsRun(f, n, z, F)
  <2> HIDE DEF F, n
  <2> QED BY <1>1, RoundsExist
<1>3. IsFold(f, e, z, g)
  <2>1. f = [i \in 0 .. n |-> IF i = 0 THEN z ELSE F[i][f[i - 1]]]
    BY <1>2 DEF IsRun
  <2>2. \A i \in 0 .. n : i # 0 => F[i] = g[e[i]]
    BY <1>1
  <2> HIDE DEF F
  <2> QED BY SMTT(30), <2>1, <2>2 DEF IsFold
<1>4. IsFold(h, e, z, g)
  BY <1>3
<1>5. Folded(e, z, g) = h[n]
  BY DEF Folded
<1> HIDE DEF h
<1>6. h[0] = z /\ \A i \in 1 .. n : h[i] = g[e[i]][h[i - 1]]
  <2>1. 0 \in 0 .. n /\ \A i \in 1 .. n : i \in 0 .. n /\ i # 0
    BY <1>1
  <2> QED BY <1>4, <2>1 DEF IsFold
<1>7. \A i \in 0 .. n : h[i] \in T[i]
  <2>1. h[0] \in T[0]
    BY <1>1, <1>6
  <2>2. \A i \in 1 .. n : h[i - 1] \in T[i - 1] => h[i] \in T[i]
    <3>1. \A i \in 1 .. n : i \in 0 .. n /\ i - 1 \in 0 .. n
      BY <1>1
    <3>2. \A i \in 1 .. n : \A x \in S : g[e[i]][x] \in S
      BY <1>1
    <3> HIDE DEF n
    <3> QED BY <1>6, <3>1, <3>2
  <2> HIDE DEF T, n
  <2> QED BY <1>1, <2>1, <2>2, RoundsKeep
<1> QED BY <1>4, <1>5, <1>6, <1>7

\* Whatever goes through the same rounds ends with the same value.
LEMMA FoldSame ==
  ASSUME NEW A, NEW S, NEW z \in S, NEW g \in [A -> [S -> S]], NEW e \in Seq(A), NEW h, h[0] = z,
         \A i \in 1 .. Len(e) : h[i - 1] \in S => h[i] = g[e[i]][h[i - 1]]
  PROVE  \A f : IsFold(f, e, z, g) => \A k \in 0 .. Len(e) : h[k] = f[k]
<1> SUFFICES ASSUME NEW f, IsFold(f, e, z, g) PROVE \A i \in 0 .. Len(e) : h[i] = f[i]
  OBVIOUS
<1> DEFINE n == Len(e)
           T == [i \in 0 .. n |-> {x \in S : x = f[i]}]
<1>1. n \in Nat /\ \A i \in 1 .. n : e[i] \in A
  OBVIOUS
<1>2. f[0] = z /\ \A i \in 1 .. n : f[i] = g[e[i]][f[i - 1]]
  <2>1. 0 \in 0 .. n /\ \A i \in 1 .. n : i \in 0 .. n /\ i # 0
    BY <1>1
  <2> QED BY <2>1 DEF IsFold
<1>3. h[0] \in T[0]
  BY <1>1, <1>2
<1>4. ASSUME NEW i \in 1 .. n, h[i - 1] \in T[i - 1] PROVE h[i] \in T[i]
  <2>1. i \in 0 .. n /\ i - 1 \in 0 .. n
    BY <1>1
  <2>2. h[i - 1] \in S /\ h[i - 1] = f[i - 1]
    BY <1>4, <2>1
  <2>3. h[i] = g[e[i]][h[i - 1]] /\ g[e[i]][h[i - 1]] \in S
    BY <1>1, <2>2
  <2> HIDE DEF n
  <2> QED BY <1>2, <2>1, <2>2, <2>3
<1>5. \A i \in 0 .. n : h[i] \in T[i]
  <2> HIDE DEF T, n
  <2> QED BY <1>1, <1>3, <1>4, RoundsKeep
<1> QED BY <1>5

Obeys(h, e, S, z, g) ==
  h[0] = z /\ \A i \in 1 .. Len(e) : h[i - 1] \in S => h[i] = g[e[i]][h[i - 1]]

LEMMA FoldIs ==
  ASSUME NEW A, NEW S, NEW z \in S, NEW g \in [A -> [S -> S]], NEW e \in Seq(A), NEW h,
         Obeys(h, e, S, z, g)
  PROVE  h[Len(e)] = Folded(e, z, g) /\ Folded(e, z, g) \in S
<1>1. PICK f : /\ IsFold(f, e, z, g) /\ Folded(e, z, g) = f[Len(e)]
               /\ \A i \in 0 .. Len(e) : f[i] \in S
  BY FoldRun
<1>2. \A i \in 0 .. Len(e) : h[i] = f[i]
  BY <1>1, FoldSame DEF Obeys
<1>3. Len(e) \in 0 .. Len(e)
  OBVIOUS
<1> QED BY <1>1, <1>2, <1>3

\* One round after the other.
Stepwise(A, S, z, g) ==
  /\ Folded(<<>>, z, g) = z
  /\ \A e \in Seq(A) : Folded(e, z, g) \in S
  /\ \A e \in Seq(A) : \A x \in A : Folded(Append(e, x), z, g) = g[x][Folded(e, z, g)]

LEMMA FoldSteps ==
  ASSUME NEW A, NEW S, NEW z \in S, NEW g \in [A -> [S -> S]]
  PROVE  Stepwise(A, S, z, g)
<1>0. \A e \in Seq(A) :
        \E f : /\ IsFold(f, e, z, g) /\ Folded(e, z, g) = f[Len(e)]
               /\ \A i \in 0 .. Len(e) : f[i] \in S
               /\ f[0] = z /\ \A i \in 1 .. Len(e) : f[i] = g[e[i]][f[i - 1]]
  BY FoldRun
<1>1. Folded(<<>>, z, g) = z
  <2>1. <<>> \in Seq(A) /\ Len(<<>>) = 0
    OBVIOUS
  <2>2. \A e \in Seq(A) : Len(e) = 0 => Folded(e, z, g) = z
    <3> SUFFICES ASSUME NEW e \in Seq(A), Len(e) = 0 PROVE Folded(e, z, g) = z
      OBVIOUS
    <3>1. PICK f : /\ IsFold(f, e, z, g) /\ Folded(e, z, g) = f[Len(e)]
                   /\ \A i \in 0 .. Len(e) : f[i] \in S
                   /\ f[0] = z /\ \A i \in 1 .. Len(e) : f[i] = g[e[i]][f[i - 1]]
      BY ONLY <1>0, e \in Seq(A)
    <3> QED BY <3>1
  <2> QED BY <2>1, <2>2
<1>2. ASSUME NEW e \in Seq(A) PROVE Folded(e, z, g) \in S
  <2>1. PICK f : Folded(e, z, g) = f[Len(e)] /\ \A i \in 0 .. Len(e) : f[i] \in S
    BY FoldRun
  <2>2. Len(e) \in 0 .. Len(e)
    OBVIOUS
  <2> QED BY <2>1, <2>2
<1>3. ASSUME NEW e \in Seq(A), NEW x \in A
      PROVE  Folded(Append(e, x), z, g) = g[x][Folded(e, z, g)]
  <2> DEFINE d == Append(e, x)
             n == Len(e)
  <2>1. /\ d \in Seq(A) /\ Len(d) = n + 1 /\ d[n + 1] = x /\ n \in Nat
        /\ \A i \in 1 .. n : d[i] = e[i]
    BY AppendProperties
  <2> HIDE DEF d
  <2>2. PICK h : /\ IsFold(h, d, z, g) /\ Folded(d, z, g) = h[Len(d)]
                 /\ \A i \in 0 .. Len(d) : h[i] \in S
                 /\ h[0] = z /\ \A i \in 1 .. Len(d) : h[i] = g[d[i]][h[i - 1]]
    BY ONLY <1>0, <2>1
  <2>3. \A i \in 1 .. n : h[i] = g[e[i]][h[i - 1]]
    <3>1. \A i \in 1 .. n : i \in 1 .. n + 1
      BY <2>1
    <3> QED BY <2>1, <2>2, <3>1
  <2>4. h[n] = Folded(e, z, g)
    <3>1. Obeys(h, e, S, z, g)
      BY <2>2, <2>3 DEF Obeys
    <3>2. h[Len(e)] = Folded(e, z, g) /\ Folded(e, z, g) \in S
      BY <3>1, FoldIs
    <3> QED BY <3>2
  <2>5. h[n + 1] = g[x][h[n]]
    <3>1. n + 1 \in 1 .. n + 1 /\ (n + 1) - 1 = n
      BY <2>1
    <3> HIDE DEF n
    <3> QED BY <2>1, <2>2, <3>1
  <2> QED BY <2>1, <2>2, <2>4, <2>5 DEF d
<1> QED BY <1>1, <1>2, <1>3 DEF Stepwise
----------------------------------------------------------------------------
(***************************************************************************)
(* Sums and products over a list, V giving the values.                     *)
(***************************************************************************)
Adding(V)      == [x \in DOMAIN V |-> [s \in Int |-> s + V[x]]]
Multiplying(V) == [x \in DOMAIN V |-> [s \in Int |-> s * V[x]]]
ListSum(e, V)  == Folded(e, 0, Adding(V))
ListProd(e, V) == Folded(e, 1, Multiplying(V))

LEMMA RoundsOfSums ==
  ASSUME NEW A, NEW V \in [A -> Int]
  PROVE  /\ Adding(V) \in [A -> [Int -> Int]] /\ Multiplying(V) \in [A -> [Int -> Int]]
         /\ \A x \in A : \A s \in Int : Adding(V)[x][s] = s + V[x] /\ Multiplying(V)[x][s] = s * V[x]
<1>1. DOMAIN V = A /\ \A x \in A : V[x] \in Int
  OBVIOUS
<1>2. \A x \in A : \A s \in Int : s + V[x] \in Int /\ s * V[x] \in Int
  BY <1>1
<1>3. \A x \in A : [s \in Int |-> s + V[x]] \in [Int -> Int] /\ [s \in Int |-> s * V[x]] \in [Int -> Int]
  BY <1>2
<1> QED BY <1>1, <1>3 DEF Adding, Multiplying

LEMMA SumSteps ==
  ASSUME NEW A, NEW V \in [A -> Int]
  PROVE  /\ ListSum(<<>>, V) = 0
         /\ \A e \in Seq(A) : ListSum(e, V) \in Int
         /\ \A e \in Seq(A) : \A x \in A : ListSum(Append(e, x), V) = ListSum(e, V) + V[x]
<1> DEFINE g == Adding(V)
<1>1. g \in [A -> [Int -> Int]] /\ \A x \in A : \A s \in Int : g[x][s] = s + V[x]
  BY RoundsOfSums
<1> HIDE DEF g
<1>2. 0 \in Int
  OBVIOUS
<1>3. /\ Folded(<<>>, 0, g) = 0
      /\ \A e \in Seq(A) : Folded(e, 0, g) \in Int
      /\ \A e \in Seq(A) : \A x \in A : Folded(Append(e, x), 0, g) = g[x][Folded(e, 0, g)]
  <2>1. Stepwise(A, Int, 0, g)
    BY <1>1, <1>2, FoldSteps
  <2> QED BY <2>1 DEF Stepwise
<1>4. \A e \in Seq(A) : \A x \in A : g[x][Folded(e, 0, g)] = Folded(e, 0, g) + V[x]
  BY <1>1, <1>3
<1> QED BY <1>3, <1>4 DEF ListSum, g

LEMMA ProdSteps ==
  ASSUME NEW A, NEW V \in [A -> Int]
  PROVE  /\ ListProd(<<>>, V) = 1
         /\ \A e \in Seq(A) : ListProd(e, V) \in Int
         /\ \A e \in Seq(A) : \A x \in A : ListProd(Append(e, x), V) = ListProd(e, V) * V[x]
<1> DEFINE g == Multiplying(V)
<1>1. g \in [A -> [Int -> Int]] /\ \A x \in A : \A s \in Int : g[x][s] = s * V[x]
  BY RoundsOfSums
<1> HIDE DEF g
<1>2. 1 \in Int
  OBVIOUS
<1>3. /\ Folded(<<>>, 1, g) = 1
      /\ \A e \in Seq(A) : Folded(e, 1, g) \in Int
      /\ \A e \in Seq(A) : \A x \in A : Folded(Append(e, x), 1, g) = g[x][Folded(e, 1, g)]
  <2>1. Stepwise(A, Int, 1, g)
    BY <1>1, <1>2, FoldSteps
  <2> QED BY <2>1 DEF Stepwise
<1>4. \A e \in Seq(A) : \A x \in A : g[x][Folded(e, 1, g)] = Folded(e, 1, g) * V[x]
  BY <1>1, <1>3
<1> QED BY <1>3, <1>4 DEF ListProd, g

\* The loops of the model begin with a constant or a coefficient.
LEMMA SumFrom ==
  ASSUME NEW A, NEW V \in [A -> Int], NEW c \in Int, NEW e \in Seq(A)
  PROVE  Folded(e, c, Adding(V)) = c + ListSum(e, V)
<1> DEFINE g == Adding(V)
           S == {d \in Seq(A) : Folded(d, c, g) = c + ListSum(d, V)}
<1>1. g \in [A -> [Int -> Int]] /\ \A x \in A : \A s \in Int : g[x][s] = s + V[x]
  BY RoundsOfSums
<1>2. /\ ListSum(<<>>, V) = 0 /\ (\A d \in Seq(A) : ListSum(d, V) \in Int)
      /\ \A d \in Seq(A) : \A x \in A : ListSum(Append(d, x), V) = ListSum(d, V) + V[x]
  BY SumSteps
<1> HIDE DEF g
<1>3. /\ Folded(<<>>, c, g) = c
      /\ \A d \in Seq(A) : Folded(d, c, g) \in Int
      /\ \A d \in Seq(A) : \A x \in A : Folded(Append(d, x), c, g) = g[x][Folded(d, c, g)]
  <2>1. Stepwise(A, Int, c, g)
    BY <1>1, FoldSteps
  <2> QED BY <2>1 DEF Stepwise
<1>4. <<>> \in S
  BY <1>2, <1>3
<1>5. ASSUME NEW d \in S, NEW x \in A PROVE Append(d, x) \in S
  <2>1. d \in Seq(A) /\ Append(d, x) \in Seq(A) /\ V[x] \in Int
    OBVIOUS
  <2>2. Folded(Append(d, x), c, g) = Folded(d, c, g) + V[x]
    BY <1>1, <1>3, <2>1
  <2>3. ListSum(Append(d, x), V) = ListSum(d, V) + V[x] /\ ListSum(d, V) \in Int
    BY <1>2, <2>1
  <2>4. Folded(d, c, g) = c + ListSum(d, V)
    BY <1>5
  <2>5. Folded(Append(d, x), c, g) = c + ListSum(Append(d, x), V)
    BY ONLY <2>1, <2>2, <2>3, <2>4, c \in Int
  <2> QED BY <2>1, <2>5
<1>6. S \in SUBSET Seq(A)
  OBVIOUS
<1>7. S = Seq(A)
  <2> HIDE DEF S
  <2> QED BY <1>4, <1>5, <1>6, ListInduction
<1> QED BY <1>7 DEF g

LEMMA TimesThree == \A x, y, z \in Int : (x * y) * z = x * (y * z)
OBVIOUS

LEMMA ProdFrom ==
  ASSUME NEW A, NEW V \in [A -> Int], NEW c \in Int, NEW e \in Seq(A)
  PROVE  Folded(e, c, Multiplying(V)) = c * ListProd(e, V)
<1> DEFINE g == Multiplying(V)
           S == {d \in Seq(A) : Folded(d, c, g) = c * ListProd(d, V)}
<1>1. g \in [A -> [Int -> Int]] /\ \A x \in A : \A s \in Int : g[x][s] = s * V[x]
  BY RoundsOfSums
<1>2. /\ ListProd(<<>>, V) = 1 /\ (\A d \in Seq(A) : ListProd(d, V) \in Int)
      /\ \A d \in Seq(A) : \A x \in A : ListProd(Append(d, x), V) = ListProd(d, V) * V[x]
  BY ProdSteps
<1> HIDE DEF g
<1>3. /\ Folded(<<>>, c, g) = c
      /\ \A d \in Seq(A) : Folded(d, c, g) \in Int
      /\ \A d \in Seq(A) : \A x \in A : Folded(Append(d, x), c, g) = g[x][Folded(d, c, g)]
  <2>1. Stepwise(A, Int, c, g)
    BY <1>1, FoldSteps
  <2> QED BY <2>1 DEF Stepwise
<1>4. <<>> \in S
  BY <1>2, <1>3
<1>5. ASSUME NEW d \in S, NEW x \in A PROVE Append(d, x) \in S
  <2>1. d \in Seq(A) /\ Append(d, x) \in Seq(A) /\ V[x] \in Int
    OBVIOUS
  <2>2. Folded(Append(d, x), c, g) = Folded(d, c, g) * V[x]
    BY <1>1, <1>3, <2>1
  <2>3. ListProd(Append(d, x), V) = ListProd(d, V) * V[x] /\ ListProd(d, V) \in Int
    BY <1>2, <2>1
  <2>4. Folded(d, c, g) = c * ListProd(d, V)
    BY <1>5
  <2>5. Folded(Append(d, x), c, g) = c * ListProd(Append(d, x), V)
    BY ONLY <2>1, <2>2, <2>3, <2>4, c \in Int, TimesThree
  <2> QED BY <2>1, <2>5
<1>6. S \in SUBSET Seq(A)
  OBVIOUS
<1>7. S = Seq(A)
  <2> HIDE DEF S
  <2> QED BY <1>4, <1>5, <1>6, ListInduction
<1> QED BY <1>7 DEF g

\* The sum of two lists.
LEMMA SumConcat ==
  ASSUME NEW A, NEW V \in [A -> Int], NEW a \in Seq(A), NEW b \in Seq(A)
  PROVE  ListSum(a \o b, V) = ListSum(a, V) + ListSum(b, V)
<1> DEFINE S == {d \in Seq(A) : ListSum(a \o d, V) = ListSum(a, V) + ListSum(d, V)}
<1>1. /\ ListSum(<<>>, V) = 0 /\ (\A d \in Seq(A) : ListSum(d, V) \in Int)
      /\ \A d \in Seq(A) : \A x \in A : ListSum(Append(d, x), V) = ListSum(d, V) + V[x]
  BY SumSteps
<1>2. <<>> \in S
  <2>1. a \o <<>> = a /\ ListSum(a, V) \in Int
    BY <1>1, ConcatEmptySeq
  <2> QED BY <1>1, <2>1
<1>3. ASSUME NEW d \in S, NEW x \in A PROVE Append(d, x) \in S
  <2>1. d \in Seq(A) /\ Append(d, x) \in Seq(A) /\ V[x] \in Int
    OBVIOUS
  <2>2. a \o Append(d, x) = Append(a \o d, x) /\ a \o d \in Seq(A)
    <3>1. Append(d, x) = d \o <<x>> /\ <<x>> \in Seq(A) /\ a \o d \in Seq(A)
      BY <2>1, AppendIsConcat
    <3>2. Append(a \o d, x) = (a \o d) \o <<x>>
      BY <3>1, AppendIsConcat
    <3>3. (a \o d) \o <<x>> = a \o (d \o <<x>>)
      BY SMTT(30), <2>1, <3>1, ConcatAssociative
    <3> QED BY ONLY <3>1, <3>2, <3>3
  <2>3. /\ ListSum(Append(a \o d, x), V) = ListSum(a \o d, V) + V[x]
        /\ ListSum(Append(d, x), V) = ListSum(d, V) + V[x]
        /\ ListSum(d, V) \in Int /\ ListSum(a, V) \in Int
    BY <1>1, <2>1, <2>2
  <2>4. ListSum(a \o d, V) = ListSum(a, V) + ListSum(d, V)
    BY <1>3
  <2>5. ListSum(a \o Append(d, x), V) = ListSum(a, V) + ListSum(Append(d, x), V)
    BY ONLY <2>1, <2>2, <2>3, <2>4
  <2> QED BY <2>1, <2>5
<1>4. S \in SUBSET Seq(A)
  OBVIOUS
<1>5. S = Seq(A)
  <2> HIDE DEF S
  <2> QED BY <1>2, <1>3, <1>4, ListInduction
<1> QED BY <1>5

\* A list that is not empty, by its last element.
LEMMA LastOff ==
  ASSUME NEW A, NEW e \in Seq(A), NEW n \in Nat, Len(e) = n + 1
  PROVE  \E t \in Seq(A), x \in A :
           /\ e = Append(t, x) /\ Len(t) = n /\ e[n + 1] = x
           /\ \A i \in 1 .. n : e[i] = t[i]
<1>1. e # <<>>
  OBVIOUS
<1>2. PICK t \in Seq(A), x \in A : e = Append(t, x)
  BY <1>1, SequenceEmptyOrAppend
<1>3. Len(e) = Len(t) + 1 /\ Len(t) \in Nat
  BY <1>2
<1>4. Len(t) = n
  BY ONLY <1>3, Len(e) = n + 1, n \in Nat
<1>5. e[n + 1] = x /\ \A i \in 1 .. n : e[i] = t[i]
  BY <1>2, <1>4, AppendProperties
<1> QED BY <1>2, <1>4, <1>5

\* One element is replaced.
LEMMA SumChanged ==
  ASSUME NEW A, NEW V \in [A -> Int], NEW a \in Seq(A), NEW k \in 1 .. Len(a), NEW y \in A
  PROVE  ListSum([a EXCEPT ![k] = y], V) = (ListSum(a, V) - V[a[k]]) + V[y]
<1> DEFINE P(d) == \A i \in 1 .. Len(d) :
                     ListSum([d EXCEPT ![i] = y], V) = (ListSum(d, V) - V[d[i]]) + V[y]
           S == {d \in Seq(A) : P(d)}
<1>1. /\ (\A d \in Seq(A) : ListSum(d, V) \in Int) /\ \A x \in A : V[x] \in Int
      /\ \A d \in Seq(A) : \A x \in A : ListSum(Append(d, x), V) = ListSum(d, V) + V[x]
  BY SumSteps
<1>2. <<>> \in S
  <2>1. 1 .. Len(<<>>) = {}
    OBVIOUS
  <2> QED BY <2>1
<1>3. ASSUME NEW d \in S, NEW x \in A PROVE Append(d, x) \in S
  <2> DEFINE e == Append(d, x)
             n == Len(d)
  <2>1. /\ d \in Seq(A) /\ e \in Seq(A) /\ Len(e) = n + 1 /\ n \in Nat /\ e[n + 1] = x
        /\ \A i \in 1 .. n : e[i] = d[i]
    BY AppendProperties
  <2>2. ListSum(e, V) = ListSum(d, V) + V[x] /\ ListSum(d, V) \in Int /\ V[x] \in Int /\ V[y] \in Int
    BY <1>1, <2>1
  <2>3. ASSUME NEW i \in 1 .. n + 1
        PROVE  ListSum([e EXCEPT ![i] = y], V) = (ListSum(e, V) - V[e[i]]) + V[y]
    <3> DEFINE w == [e EXCEPT ![i] = y]
    <3>1. /\ w \in Seq(A) /\ Len(w) = n + 1
          /\ \A j \in 1 .. n + 1 : w[j] = IF j = i THEN y ELSE e[j]
      <4> HIDE DEF e
      <4> QED BY <2>1, ExceptSeq
    <3> HIDE DEF w, e
    <3>2. CASE i = n + 1
      <4> DEFINE u == Append(d, y)
      <4>1. /\ u \in Seq(A) /\ Len(u) = n + 1 /\ u[n + 1] = y /\ \A j \in 1 .. n : u[j] = d[j]
        BY <2>1, AppendProperties
      <4> HIDE DEF u
      <4>2. \A j \in 1 .. n + 1 : w[j] = u[j]
        <5>1. \A j \in 1 .. n + 1 : j = n + 1 \/ (j \in 1 .. n /\ j # n + 1)
          BY <2>1
        <5> QED BY <2>1, <3>1, <3>2, <4>1, <5>1
      <4>3. w = u
        BY <3>1, <4>1, <4>2, SeqEqual
      <4>4. ListSum(w, V) = ListSum(d, V) + V[y]
        BY <1>1, <2>1, <4>3 DEF u
      <4>5. V[e[i]] = V[x]
        BY <2>1, <3>2
      <4>6. ListSum(w, V) = (ListSum(e, V) - V[e[i]]) + V[y]
        BY ONLY <2>2, <4>4, <4>5
      <4> QED BY <4>6 DEF w
    <3>3. CASE i # n + 1
      <4>0. i \in 1 .. n
        BY <2>1, <3>3
      <4> DEFINE r == [d EXCEPT ![i] = y]
                 u == Append(r, x)
      <4>1. /\ r \in Seq(A) /\ Len(r) = n /\ \A j \in 1 .. n : r[j] = IF j = i THEN y ELSE d[j]
        BY <2>1, <4>0, ExceptSeq
      <4>2. ListSum(r, V) = (ListSum(d, V) - V[d[i]]) + V[y]
        BY <4>0
      <4> HIDE DEF r
      <4>3. /\ u \in Seq(A) /\ Len(u) = n + 1 /\ u[n + 1] = x /\ \A j \in 1 .. n : u[j] = r[j]
        BY <4>1, AppendProperties
      <4> HIDE DEF u
      <4>4. \A j \in 1 .. n + 1 : w[j] = u[j]
        <5>1. \A j \in 1 .. n + 1 : j = n + 1 \/ (j \in 1 .. n /\ j # n + 1)
          BY <2>1
        <5> QED BY <2>1, <3>1, <3>3, <4>1, <4>3, <5>1
      <4>5. w = u
        BY <3>1, <4>3, <4>4, SeqEqual
      <4>6. ListSum(w, V) = ListSum(r, V) + V[x]
        BY <1>1, <4>1, <4>5 DEF u
      <4>7. e[i] = d[i] /\ V[d[i]] \in Int
        <5>1. d[i] \in A
          BY <2>1, <4>0
        <5> QED BY <1>1, <2>1, <4>0, <5>1
      <4>8. ListSum(w, V) = (ListSum(e, V) - V[e[i]]) + V[y]
        BY ONLY <2>2, <4>2, <4>6, <4>7
      <4> QED BY <4>8 DEF w
    <3> QED BY <3>2, <3>3
  <2> QED BY <2>1, <2>3
<1>4. S \in SUBSET Seq(A)
  OBVIOUS
<1>5. S = Seq(A)
  <2> HIDE DEF S
  <2> QED BY <1>2, <1>3, <1>4, ListInduction
<1>6. a \in S
  BY <1>5
<1> QED BY <1>6

\* Every element stands for one that is worth c times as much.
ScaledTo(b, W, c, a, V) ==
  Len(b) = Len(a) /\ \A i \in 1 .. Len(a) : W[b[i]] = c * V[a[i]]

SumsScale(A, V, B, W, c) ==
  \A a \in Seq(A) : \A b \in Seq(B) : ScaledTo(b, W, c, a, V) => ListSum(b, W) = c * ListSum(a, V)

LEMMA SumMapped ==
  ASSUME NEW A, NEW V \in [A -> Int], NEW B, NEW W \in [B -> Int], NEW c \in Int
  PROVE  SumsScale(A, V, B, W, c)
<1> DEFINE P(e) == \A d \in Seq(B) :
                     (Len(d) = Len(e) /\ \A i \in 1 .. Len(e) : W[d[i]] = c * V[e[i]])
                       => ListSum(d, W) = c * ListSum(e, V)
           S == {e \in Seq(A) : P(e)}
<1>1. /\ ListSum(<<>>, V) = 0 /\ (\A d \in Seq(A) : ListSum(d, V) \in Int) /\ \A x \in A : V[x] \in Int
      /\ \A d \in Seq(A) : \A x \in A : ListSum(Append(d, x), V) = ListSum(d, V) + V[x]
  BY SumSteps
<1>2. /\ ListSum(<<>>, W) = 0 /\ (\A d \in Seq(B) : ListSum(d, W) \in Int) /\ \A x \in B : W[x] \in Int
      /\ \A d \in Seq(B) : \A x \in B : ListSum(Append(d, x), W) = ListSum(d, W) + W[x]
  BY SumSteps
<1>3. <<>> \in S
  <2>1. \A d \in Seq(B) : Len(d) = Len(<<>>) => d = <<>>
    OBVIOUS
  <2>2. c * 0 = 0
    OBVIOUS
  <2>3. P(<<>>)
    BY <1>1, <1>2, <2>1, <2>2
  <2>4. <<>> \in Seq(A)
    OBVIOUS
  <2> HIDE DEF P
  <2> QED BY <2>3, <2>4
<1>4. ASSUME NEW e \in S, NEW x \in A PROVE Append(e, x) \in S
  <2> DEFINE h == Append(e, x)
             n == Len(e)
  <2>1. /\ e \in Seq(A) /\ h \in Seq(A) /\ Len(h) = n + 1 /\ n \in Nat /\ h[n + 1] = x
        /\ \A i \in 1 .. n : h[i] = e[i]
    BY AppendProperties
  <2>2. ListSum(h, V) = ListSum(e, V) + V[x] /\ ListSum(e, V) \in Int /\ V[x] \in Int
    BY <1>1, <2>1
  <2>3. ASSUME NEW d \in Seq(B), Len(d) = n + 1, \A i \in 1 .. n + 1 : W[d[i]] = c * V[h[i]]
        PROVE  ListSum(d, W) = c * ListSum(h, V)
    <3>1. PICK t \in Seq(B), z \in B : /\ d = Append(t, z) /\ Len(t) = n /\ d[n + 1] = z
                                       /\ \A i \in 1 .. n : d[i] = t[i]
      <4> HIDE DEF n
      <4> QED BY <2>1, <2>3, LastOff
    <3>2. ListSum(d, W) = ListSum(t, W) + W[z]
      BY <1>2, <3>1
    <3>3. W[z] = c * V[x]
      <4>1. n + 1 \in 1 .. n + 1
        BY <2>1
      <4> HIDE DEF h
      <4> QED BY <2>1, <2>3, <3>1, <4>1
    <3>4. \A i \in 1 .. n : W[t[i]] = c * V[e[i]]
      <4>1. \A i \in 1 .. n : i \in 1 .. n + 1
        BY <2>1
      <4> HIDE DEF h
      <4> QED BY <2>1, <2>3, <3>1, <4>1
    <3>5. ListSum(t, W) = c * ListSum(e, V)
      BY <3>1, <3>4
    <3>6. c * (ListSum(e, V) + V[x]) = c * ListSum(e, V) + c * V[x]
      BY ONLY <2>2, c \in Int
    <3> QED BY ONLY <2>2, <3>2, <3>3, <3>5, <3>6
  <2> QED BY <2>1, <2>3
<1>5. S \in SUBSET Seq(A)
  OBVIOUS
<1>6. S = Seq(A)
  <2> HIDE DEF S
  <2> QED BY <1>3, <1>4, <1>5, ListInduction
<1>7. \A e \in Seq(A) : P(e)
  BY <1>6
<1> QED BY <1>7 DEF ScaledTo, SumsScale

LEMMA IndexOfPair ==
  ASSUME NEW n \in Nat, NEW k \in Nat, NEW q \in 1 .. n, NEW r \in 1 .. k
  PROVE  (q - 1) * k + r \in 1 .. n * k
<1>1. q - 1 \in Nat /\ (q - 1) * k \in Nat /\ n - q \in Nat /\ (n - q) * k \in Nat
  OBVIOUS
<1>2. n * k = (q - 1) * k + k + (n - q) * k
  OBVIOUS
<1>3. n * k \in Nat
  OBVIOUS
<1> DEFINE x == (q - 1) * k
           y == (n - q) * k
           z == n * k
<1>4. x \in Nat /\ y \in Nat /\ z \in Nat /\ z = x + k + y
  BY <1>1, <1>2, <1>3
<1> HIDE DEF x, y, z
<1>5. x + r \in 1 .. z
  BY <1>4
<1> QED BY <1>5 DEF x, z

\* The products of all pairs.
PairsOf(d, W, a, V, b, X) ==
  /\ Len(d) = Len(a) * Len(b)
  /\ \A q \in 1 .. Len(a) : \A r \in 1 .. Len(b) :
       W[d[(q - 1) * Len(b) + r]] = V[a[q]] * X[b[r]]

PairsMultiply(A, V, X, W) ==
  \A a \in Seq(A) : \A b \in Seq(A) : \A d \in Seq(A) :
    PairsOf(d, W, a, V, b, X) => ListSum(d, W) = ListSum(a, V) * ListSum(b, X)

LEMMA SumPairs ==
  ASSUME NEW A, NEW V \in [A -> Int], NEW X \in [A -> Int], NEW W \in [A -> Int]
  PROVE  PairsMultiply(A, V, X, W)
<1> SUFFICES ASSUME NEW a \in Seq(A), NEW b \in Seq(A), NEW d \in Seq(A), PairsOf(d, W, a, V, b, X)
             PROVE  ListSum(d, W) = ListSum(a, V) * ListSum(b, X)
  BY DEF PairsMultiply
<1> DEFINE k == Len(b)
           B == ListSum(b, X)
           P(e) == \A w \in Seq(A) :
                     (/\ Len(w) = Len(e) * k
                      /\ \A q \in 1 .. Len(e) : \A r \in 1 .. k :
                           W[w[(q - 1) * k + r]] = V[e[q]] * X[b[r]])
                     => ListSum(w, W) = ListSum(e, V) * B
           S == {e \in Seq(A) : P(e)}
<1>0. k \in Nat /\ B \in Int
  <2>1. \A e \in Seq(A) : ListSum(e, X) \in Int
    BY SumSteps
  <2> QED BY <2>1
<1>1. /\ ListSum(<<>>, V) = 0 /\ (\A e \in Seq(A) : ListSum(e, V) \in Int) /\ \A x \in A : V[x] \in Int
      /\ \A e \in Seq(A) : \A x \in A : ListSum(Append(e, x), V) = ListSum(e, V) + V[x]
  BY SumSteps
<1>2. ListSum(<<>>, W) = 0
  BY SumSteps
<1> HIDE DEF B, k
<1>3. <<>> \in S
  <2>1. \A w \in Seq(A) : Len(w) = 0 => w = <<>>
    OBVIOUS
  <2>2. 0 * B = 0 /\ 0 * k = 0 /\ Len(<<>>) = 0
    BY <1>0
  <2>3. P(<<>>)
    BY <1>1, <1>2, <2>1, <2>2
  <2>4. <<>> \in Seq(A)
    OBVIOUS
  <2> HIDE DEF P
  <2> QED BY <2>3, <2>4
<1>4. ASSUME NEW e \in S, NEW x \in A PROVE Append(e, x) \in S
  <2> DEFINE h == Append(e, x)
             n == Len(e)
  <2>1. /\ e \in Seq(A) /\ h \in Seq(A) /\ Len(h) = n + 1 /\ n \in Nat /\ h[n + 1] = x
        /\ \A i \in 1 .. n : h[i] = e[i]
    BY AppendProperties
  <2>2. ListSum(h, V) = ListSum(e, V) + V[x] /\ ListSum(e, V) \in Int /\ V[x] \in Int
    BY <1>1, <2>1
  <2> HIDE DEF h
  <2>3. ASSUME NEW w \in Seq(A), Len(w) = (n + 1) * k,
               \A q \in 1 .. n + 1 : \A r \in 1 .. k : W[w[(q - 1) * k + r]] = V[h[q]] * X[b[r]]
        PROVE  ListSum(w, W) = ListSum(h, V) * B
    <3> DEFINE l == n * k
               m == (n + 1) * k
               u == SubSeq(w, 1, l)
               t == SubSeq(w, l + 1, m)
    <3>1. l \in Nat /\ m \in Nat /\ m = l + k
      <4>1. k \in Nat /\ n \in Nat
        BY <1>0, <2>1
      <4> HIDE DEF n
      <4> QED BY SMTT(30), <4>1
    <3>2. Len(w) = m /\ \A i \in 1 .. m : w[i] \in A
      BY <2>3
    <3> HIDE DEF l, m
    <3>3. u \in Seq(A) /\ Len(u) = l /\ \A i \in 1 .. l : u[i] = w[i]
      <4>1. \A i \in 1 .. l : w[i] \in A
        BY <1>0, <3>1, <3>2
      <4>2. /\ u \in Seq(A) /\ Len(u) = IF 1 <= l THEN l - 1 + 1 ELSE 0
            /\ \A i \in 1 .. l - 1 + 1 : u[i] = w[1 + i - 1]
        BY <3>1, <4>1, SubSeqProperties
      <4> HIDE DEF u
      <4> QED BY <3>1, <4>2
    <3>4. t \in Seq(A) /\ Len(t) = k /\ \A i \in 1 .. k : t[i] = w[l + i]
      <4>1. \A i \in l + 1 .. m : w[i] \in A
        BY <3>1, <3>2
      <4>2. /\ t \in Seq(A) /\ Len(t) = IF l + 1 <= m THEN m - (l + 1) + 1 ELSE 0
            /\ \A i \in 1 .. m - (l + 1) + 1 : t[i] = w[(l + 1) + i - 1]
        <5> DEFINE j == l + 1
        <5>1. j \in Int /\ m \in Int /\ \A i \in j .. m : w[i] \in A
          BY <3>1, <4>1
        <5> HIDE DEF j
        <5>2. /\ SubSeq(w, j, m) \in Seq(A) /\ Len(SubSeq(w, j, m)) = IF j <= m THEN m - j + 1 ELSE 0
              /\ \A i \in 1 .. m - j + 1 : SubSeq(w, j, m)[i] = w[j + i - 1]
          BY <5>1, SubSeqProperties
        <5> QED BY <5>2 DEF j
      <4> HIDE DEF t
      <4>3. Len(t) = k
        BY <1>0, <3>1, <4>2
      <4>4. \A i \in 1 .. k : i \in 1 .. m - (l + 1) + 1 /\ (l + 1) + i - 1 = l + i
        BY <1>0, <3>1
      <4> QED BY <4>2, <4>3, <4>4
    <3>5. w = u \o t
      <4>1. l + 1 \in 1 .. m + 1 /\ 1 \in 1 .. m + 1 /\ l \in 1 - 1 .. m /\ m \in l .. m
        BY <1>0, <3>1
      <4>2. SubSeq(w, 1, l) \o SubSeq(w, l + 1, m) = SubSeq(w, 1, m)
        BY <3>2, <4>1, ConcatAdjacentSubSeq
      <4>3. SubSeq(w, 1, m) = w
        BY <3>2, SubSeqFull
      <4> QED BY <4>2, <4>3
    <3> HIDE DEF u, t
    <3>6. ListSum(u, W) = ListSum(e, V) * B
      <4>1. \A q \in 1 .. n : \A r \in 1 .. k : W[u[(q - 1) * k + r]] = V[e[q]] * X[b[r]]
        <5> SUFFICES ASSUME NEW q \in 1 .. n, NEW r \in 1 .. k
                     PROVE  W[u[(q - 1) * k + r]] = V[e[q]] * X[b[r]]
          OBVIOUS
        <5>1. (q - 1) * k + r \in 1 .. l
          BY <1>0, <2>1, IndexOfPair DEF l
        <5>2. q \in 1 .. n + 1 /\ h[q] = e[q]
          <6>1. h[q] = e[q]
            BY <2>1
          <6> HIDE DEF n
          <6> QED BY <2>1, <6>1
        <5>3. W[w[(q - 1) * k + r]] = V[h[q]] * X[b[r]]
          BY <2>3, <5>2
        <5> DEFINE j == (q - 1) * k + r
        <5>4. u[j] = w[j]
          BY <3>3, <5>1
        <5> HIDE DEF n
        <5> QED BY <5>2, <5>3, <5>4
      <4>2. P(e)
        OBVIOUS
      <4> QED BY <3>3, <4>1, <4>2 DEF l
    <3>7. ListSum(t, W) = V[x] * B
      <4>1. \A r \in 1 .. k : W[t[r]] = V[x] * X[b[r]]
        <5> SUFFICES ASSUME NEW r \in 1 .. k PROVE W[t[r]] = V[x] * X[b[r]]
          OBVIOUS
        <5>1. n + 1 \in 1 .. n + 1 /\ (n + 1) - 1 = n
          BY <2>1
        <5>2. W[w[((n + 1) - 1) * k + r]] = V[h[n + 1]] * X[b[r]]
          BY <2>3, <5>1
        <5>3. W[w[l + r]] = V[x] * X[b[r]]
          BY <2>1, <5>1, <5>2 DEF l
        <5> QED BY <3>4, <5>3
      <4>2. Len(t) = Len(b) /\ \A i \in 1 .. Len(b) : W[t[i]] = V[x] * X[b[i]]
        BY <3>4, <4>1 DEF k
      <4> DEFINE c == V[x]
      <4>3. c \in Int /\ t \in Seq(A) /\ Len(t) = Len(b) /\ \A i \in 1 .. Len(b) : W[t[i]] = c * X[b[i]]
        BY <2>2, <3>4, <4>2
      <4> HIDE DEF c
      <4>4. ListSum(t, W) = c * ListSum(b, X)
        <5>1. ScaledTo(t, W, c, b, X)
          BY <4>3 DEF ScaledTo
        <5>2. c \in Int /\ t \in Seq(A)
          BY <4>3
        <5>3. SumsScale(A, X, A, W, c)
          BY ONLY <5>2, SumMapped, X \in [A -> Int], W \in [A -> Int]
        <5> QED BY ONLY <5>1, <5>2, <5>3, b \in Seq(A) DEF SumsScale
      <4> QED BY <4>4 DEF B, c
    <3>8. ListSum(w, W) = ListSum(u, W) + ListSum(t, W)
      <4>1. ListSum(u \o t, W) = ListSum(u, W) + ListSum(t, W)
        BY ONLY ZenonT(60), <3>3, <3>4, SumConcat, W \in [A -> Int]
      <4> QED BY <3>5, <4>1
    <3>9. (ListSum(e, V) + V[x]) * B = ListSum(e, V) * B + V[x] * B
      BY ONLY <1>0, <2>2
    <3> QED BY ONLY <2>2, <3>6, <3>7, <3>8, <3>9
  <2>4. P(h)
    BY <2>1, <2>3
  <2> HIDE DEF P
  <2> QED BY <2>1, <2>4 DEF h
<1>5. S \in SUBSET Seq(A)
  OBVIOUS
<1>6. S = Seq(A)
  <2> HIDE DEF S
  <2> QED BY <1>3, <1>4, <1>5, ListInduction
<1>7. P(a)
  BY <1>6
<1> QED BY <1>7 DEF B, k, PairsOf
============================================================================
