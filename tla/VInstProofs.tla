---------------------------- MODULE VInstProofs ----------------------------
(***************************************************************************)
(* What the rows of vinst.c admit, for every program, all bounds and all   *)
(* values: exactly the points at which the conditions hold, each completed *)
(* by the one value of every result variable that the condition has there. *)
(*                                                                         *)
(* The row systems are exact by themselves (first part) as long as the     *)
(* term is whole and within the bounds they were built from; the invariant *)
(* says that it is.                                                        *)
(***************************************************************************)
EXTENDS VInst, Iteration, SequenceTheorems, TLAPS

(***************************************************************************)
(* The rows of one operator.                                               *)
(***************************************************************************)
\* A multiple of One that is not zero is at least One away from it.
LEMMA Multiple ==
  ASSUME NEW k \in Int, NEW t, t = One * k
  PROVE  /\ t \in Int /\ (t > 0 => t >= One) /\ (t < 0 => -t >= One)
         /\ t >= 0 => t % One = 0
         /\ t <= 0 => (-t) % One = 0
<1> USE LinRowsAssumption
<1>1. t \in Int
  OBVIOUS
<1>2. k >= 1 => One * k >= One
  OBVIOUS
<1>3. k <= -1 => One * k <= -One
  OBVIOUS
<1>4. k = 0 => t = 0
  OBVIOUS
<1>5. k > 0 \/ k = 0 \/ k < 0
  OBVIOUS
<1>6. \A m \in Int : (One * m) % One = 0
  OBVIOUS
<1>7. -t = One * (-k)
  OBVIOUS
<1> QED
  BY <1>1, <1>2, <1>3, <1>4, <1>5, <1>6, <1>7

LEMMA BoundsType ==
  ASSUME NEW low \in Int, NEW up \in Int
  PROVE  /\ MinusBound(low) \in Nat /\ PlusBound(up) \in Nat
         /\ AbsBound(low, up) \in Nat
         /\ \A t \in Int : low <= t /\ t <= up =>
               t <= PlusBound(up) /\ -t <= MinusBound(low)
BY DEF MinusBound, PlusBound, AbsBound

\* Rows _a to _e leave b^+ and b^- no choice but the sign of the term, once
\* not both of them are 1.
LEMMA SplitSign ==
  ASSUME NEW t \in Int, NEW L \in Nat, NEW U \in Nat,
         NEW xp \in Int, NEW xm \in Int, NEW bp \in Binary, NEW bm \in Binary,
         SplitRows(t, L, U, xp, xm, bp, bm), bp + bm <= 1
  PROVE  (bp = 1 <=> t > 0) /\ (bm = 1 <=> t < 0)
<1> USE LinRowsAssumption DEF Binary, SplitRows
<1>1. bp * U = IF bp = 1 THEN U ELSE 0
  OBVIOUS
<1>2. bm * L = IF bm = 1 THEN L ELSE 0
  OBVIOUS
<1>3. (One * bp = IF bp = 1 THEN One ELSE 0) /\ (One * bm = IF bm = 1 THEN One ELSE 0)
  OBVIOUS
<1>4. CASE bp = 1
  <2>1. bm = 0
    BY <1>4
  <2> QED
    BY <1>2, <1>3, <1>4, <2>1
<1>5. CASE bp = 0
  BY <1>1, <1>2, <1>3, <1>5
<1> QED
  BY <1>4, <1>5

\* Every value within the bounds has a split.
LEMMA SplitExists ==
  ASSUME NEW low \in Int, NEW up \in Int, NEW k \in Int, NEW t, t = One * k,
         low <= t, t <= up
  PROVE  \E xp \in IntVar(PlusBound(up)), xm \in IntVar(MinusBound(low)) :
           SplitRows(t, MinusBound(low), PlusBound(up), xp, xm,
                     IF t > 0 THEN 1 ELSE 0, IF t < 0 THEN 1 ELSE 0)
<1> DEFINE U == PlusBound(up)
           L == MinusBound(low)
           xp == IF t > 0 THEN t ELSE 0
           xm == IF t < 0 THEN -t ELSE 0
<1> USE LinRowsAssumption
<1>1. /\ t \in Int /\ (t > 0 => t >= One) /\ (t < 0 => -t >= One)
      /\ (t >= 0 => t % One = 0) /\ (t <= 0 => (-t) % One = 0)
  BY Multiple
<1>2. L \in Nat /\ U \in Nat /\ t <= U /\ -t <= L
  BY <1>1, BoundsType
<1>3. 0 % One = 0
  OBVIOUS
<1>4. xp \in IntVar(U) /\ xm \in IntVar(L)
  BY <1>1, <1>2, <1>3 DEF IntVar
<1>5. SplitRows(t, L, U, xp, xm, IF t > 0 THEN 1 ELSE 0, IF t < 0 THEN 1 ELSE 0)
  <2> HIDE DEF L, U
  <2>1. CASE t > 0
    BY <1>1, <1>2, <2>1 DEF SplitRows
  <2>2. CASE t < 0
    BY <1>1, <1>2, <2>2 DEF SplitRows
  <2>3. CASE t = 0
    BY <1>1, <1>2, <2>3 DEF SplitRows
  <2> QED
    BY <1>1, <2>1, <2>2, <2>3
<1> QED
  BY <1>4, <1>5

\* The rows of handle_vbool_cmp: for a term that takes a multiple of One (a
\* whole number) within its bounds, they can be satisfied by exactly one value
\* of the result, 1 if the comparison holds and 0 if it does not.
THEOREM CmpExact ==
  ASSUME NEW op \in CmpOps, NEW low \in Int, NEW up \in Int,
         NEW k \in Int, NEW t, t = One * k, low <= t, t <= up,
         NEW re \in Binary
  PROVE  CmpSystem(op, t, low, up, re) <=> (re = 1 <=> Holds(op, t))
<1> DEFINE U == PlusBound(up)
           L == MinusBound(low)
           plus == IF t > 0 THEN 1 ELSE 0
           minus == IF t < 0 THEN 1 ELSE 0
<1>1. t \in Int
  BY Multiple
<1>2. L \in Nat /\ U \in Nat
  BY BoundsType
<1>3. plus \in Binary /\ minus \in Binary
  BY DEF Binary
<1>4. ResultRows(op, plus, minus, re) <=> (re = 1 <=> Holds(op, t))
  <2> HIDE DEF plus, minus
  <2>0. plus = (IF t > 0 THEN 1 ELSE 0) /\ minus = (IF t < 0 THEN 1 ELSE 0)
    BY DEF plus, minus
  <2>1. CASE op = "EQ"
    BY <1>1, <2>0, <2>1 DEF ResultRows, Holds, Binary
  <2>2. CASE op = "NE"
    BY <1>1, <2>0, <2>2 DEF ResultRows, Holds, Binary
  <2>3. CASE op = "LT"
    BY <1>1, <2>0, <2>3 DEF ResultRows, Holds, Binary
  <2>4. CASE op = "LE"
    BY <1>1, <2>0, <2>4 DEF ResultRows, Holds, Binary
  <2>5. CASE op = "GE"
    BY <1>1, <2>0, <2>5 DEF ResultRows, Holds, Binary
  <2>6. CASE op = "GT"
    BY <1>1, <2>0, <2>6 DEF ResultRows, Holds, Binary
  <2> QED
    BY <2>1, <2>2, <2>3, <2>4, <2>5, <2>6 DEF CmpOps
<1>5. ASSUME NEW bp \in Binary, NEW bm \in Binary, ResultRows(op, bp, bm, re)
      PROVE  bp + bm <= 1
  <2>1. CASE op = "EQ"
    BY <1>5, <2>1 DEF ResultRows, Binary
  <2>2. CASE op = "NE"
    BY <1>5, <2>2 DEF ResultRows, Binary
  <2>3. CASE op = "LT"
    BY <1>5, <2>3 DEF ResultRows, Binary
  <2>4. CASE op = "LE"
    BY <1>5, <2>4 DEF ResultRows, Binary
  <2>5. CASE op = "GE"
    BY <1>5, <2>5 DEF ResultRows, Binary
  <2>6. CASE op = "GT"
    BY <1>5, <2>6 DEF ResultRows, Binary
  <2> QED
    BY <2>1, <2>2, <2>3, <2>4, <2>5, <2>6 DEF CmpOps
<1>6. ASSUME CmpSystem(op, t, low, up, re) PROVE re = 1 <=> Holds(op, t)
  <2>1. PICK xp \in IntVar(U), xm \in IntVar(L), bp \in Binary, bm \in Binary :
               SplitRows(t, L, U, xp, xm, bp, bm) /\ ResultRows(op, bp, bm, re)
    BY <1>6 DEF CmpSystem
  <2>2. xp \in Int /\ xm \in Int
    BY DEF IntVar
  <2>3. bp + bm <= 1
    BY <2>1, <1>5
  <2>4. (bp = 1 <=> t > 0) /\ (bm = 1 <=> t < 0)
    BY <2>1, <2>2, <2>3, <1>1, <1>2, SplitSign
  <2>5. bp = plus /\ bm = minus
    BY <2>4 DEF Binary
  <2> QED
    BY <2>1, <2>5, <1>4
<1>7. ASSUME re = 1 <=> Holds(op, t) PROVE CmpSystem(op, t, low, up, re)
  <2>1. PICK xp \in IntVar(U), xm \in IntVar(L) :
               SplitRows(t, L, U, xp, xm, plus, minus)
    BY SplitExists
  <2> QED
    BY <2>1, <1>3, <1>4, <1>7 DEF CmpSystem
<1> QED
  BY <1>6, <1>7

\* check_if_fixed answers only what every value within the bounds agrees on.
THEOREM FixedSound ==
  ASSUME NEW op \in CmpOps, NEW low \in Int, NEW up \in Int,
         NEW t \in Int, low <= t, t <= up
  PROVE  /\ check_if_fixed(op, low, up) = "TRUE" => Holds(op, t)
         /\ check_if_fixed(op, low, up) = "FALSE" => ~Holds(op, t)
<1>1. CASE op = "EQ"
  BY <1>1 DEF check_if_fixed, Holds
<1>2. CASE op = "NE"
  BY <1>2 DEF check_if_fixed, Holds
<1>3. CASE op = "LT"
  BY <1>3 DEF check_if_fixed, Holds
<1>4. CASE op = "LE"
  BY <1>4 DEF check_if_fixed, Holds
<1>5. CASE op = "GE"
  BY <1>5 DEF check_if_fixed, Holds
<1>6. CASE op = "GT"
  BY <1>6 DEF check_if_fixed, Holds
<1> QED
  BY <1>1, <1>2, <1>3, <1>4, <1>5, <1>6 DEF CmpOps

\* The rows of and, or and xor fix the result to the value of the operator.
THEOREM BoolExact ==
  ASSUME NEW op \in BoolOps, NEW a \in Binary, NEW b \in Binary, NEW re \in Binary
  PROVE  BoolRows(op, a, b, re) <=> re = BoolMeaning(op, a, b)
<1>1. CASE op = "AND"
  BY <1>1 DEF Binary, BoolRows, BoolMeaning
<1>2. CASE op = "OR"
  BY <1>2 DEF Binary, BoolRows, BoolMeaning
<1>3. CASE op = "XOR"
  BY <1>3 DEF Binary, BoolRows, BoolMeaning
<1> QED
  BY <1>1, <1>2, <1>3 DEF BoolOps

\* The rows of vabs fix the result to the absolute value of a whole term, and
\* that value respects the bound of the result variable.
THEOREM AbsExact ==
  ASSUME NEW low \in Int, NEW up \in Int, NEW k \in Int, NEW t, t = One * k,
         low <= t, t <= up, NEW re \in Int
  PROVE  /\ AbsSystem(t, low, up, re) <=> re = IF t < 0 THEN -t ELSE t
         /\ (IF t < 0 THEN -t ELSE t) <= AbsBound(low, up)
<1> DEFINE U == PlusBound(up)
           L == MinusBound(low)
<1>1. /\ t \in Int /\ (t >= 0 => t % One = 0) /\ (t <= 0 => (-t) % One = 0)
  BY Multiple
<1>2. L \in Nat /\ U \in Nat /\ t <= U /\ -t <= L
  BY <1>1, BoundsType
<1>3. (IF t < 0 THEN -t ELSE t) <= AbsBound(low, up)
  BY <1>1, <1>2 DEF AbsBound
<1>4. ASSUME AbsSystem(t, low, up, re) PROVE re = IF t < 0 THEN -t ELSE t
  <2>1. PICK xp \in IntVar(U), xm \in IntVar(L), bp \in Binary :
               AbsRows(t, L, U, xp, xm, bp, re)
    BY <1>4 DEF AbsSystem
  <2>2. xp \in Nat /\ xm \in Nat
    BY <1>2 DEF IntVar
  <2>3. bp = 1 => xm = 0
    BY <2>1, <2>2, <1>2 DEF AbsRows
  <2>4. bp # 1 => xp = 0
    BY <2>1, <2>2, <1>2 DEF AbsRows, Binary
  <2>5. /\ re \in Int /\ xp \in Int /\ xm \in Int
        /\ t = xp - xm /\ re = xp + xm /\ xp >= 0 /\ xm >= 0 /\ (xm = 0 \/ xp = 0)
    BY <2>1, <2>2, <2>3, <2>4 DEF AbsRows
  <2>6. CASE xm = 0
    <3>1. ~ (t < 0) /\ re = t
      BY ONLY <2>5, <2>6
    <3> QED
      BY <3>1
  <2>7. CASE xp = 0
    <3>1. re = -t /\ (t < 0 \/ t = 0)
      BY ONLY <2>5, <2>7
    <3>2. re = t \/ t < 0
      BY ONLY <2>5, <2>7
    <3> QED
      BY <3>1, <3>2
  <2> QED
    BY <2>5, <2>6, <2>7
<1>5. ASSUME re = IF t < 0 THEN -t ELSE t PROVE AbsSystem(t, low, up, re)
  <2> DEFINE xp == IF t > 0 THEN t ELSE 0
             xm == IF t < 0 THEN -t ELSE 0
             bp == IF t > 0 THEN 1 ELSE 0
  <2>1. 0 % One = 0
    BY LinRowsAssumption
  <2>2. xp \in IntVar(U) /\ xm \in IntVar(L) /\ bp \in Binary
    BY <2>1, <1>1, <1>2 DEF IntVar, Binary
  <2>3. AbsRows(t, L, U, xp, xm, bp, re)
    <3> HIDE DEF L, U
    <3>1. CASE t > 0
      BY <3>1, <1>1, <1>2, <1>5 DEF AbsRows
    <3>2. CASE t <= 0
      BY <3>2, <1>1, <1>2, <1>5 DEF AbsRows
    <3> QED
      BY <3>1, <3>2, <1>1
  <2> QED
    BY <2>2, <2>3 DEF AbsSystem
<1> QED
  BY <1>3, <1>4, <1>5

\* The big-M row of a conditional constraint, or its absence, says what the
\* constraint asks for, whenever the bound it is built from is a bound.
THEOREM CondExact ==
  ASSUME NEW type \in {"RHS", "LHS"}, NEW then \in BOOLEAN, NEW vif \in Binary,
         NEW t \in Int, NEW bound \in Int, NEW rhs \in Int, Sided(type, t, bound)
  PROVE  CondRow(type, then, vif, t, bound, rhs)
           <=> CondMeaning(type, then, vif, t, rhs)
<1>1. \A z \in Int : z * vif = IF vif = 1 THEN z ELSE 0
  BY DEF Binary
<1>2. vif = 1 \/ vif = 0
  BY DEF Binary
<1> QED
  BY <1>1, <1>2 DEF CondRow, CondMeaning, Sided
----------------------------------------------------------------------------
(***************************************************************************)
(* Whole programs.                                                         *)
(***************************************************************************)

\* The multiples of One, and comparisons without fractions: the code tests the
\* variables of a comparison and not its constant.
Multiples == {One * k : k \in Int}
WholeConstants ==
  \A s \in Sources : \A c \in s.cmp : c[1].const % One = 0 /\ c[2].const % One = 0

\* The variables a term may name: those of the user and the results of vabs.
Nameable == Var \cup {k \in DOMAIN results : results[k].kind = "abs"}
Terms == [mono : Seq(Int \X Nameable), const : Int]

Result == {r \in [kind : {"bool", "abs"}, lo : Int, up : Int] :
             /\ 0 <= r.lo /\ r.lo <= r.up
             /\ r.kind = "bool" => r.up <= 1
             /\ r.kind = "abs" => r.lo = 0}

Errors == {0, 106, 177, 179, 181, 182, 183, 184, 185}
----------------------------------------------------------------------------
(* Sums of terms.                                                          *)

LEMMA Divisible ==
  ASSUME NEW x \in Int, x % One = 0
  PROVE  x \in Multiples
<1>1. x \div One \in Int /\ x = One * (x \div One)
  BY LinRowsAssumption
<1> QED
  BY <1>1 DEF Multiples

LEMMA SumIs ==
  ASSUME NEW n \in Nat, NEW a \in [1 .. n -> Int]
  PROVE  \E s : IsSum(s, a, n) /\ Sum(a) = s[n]
<1> DEFINE sum[i \in 0 .. Len(a)] == IF i = 0 THEN 0 ELSE sum[i - 1] + a[i]
<1>1. a \in Seq(Int) /\ Len(a) = n
  OBVIOUS
<1>2. Sum(a) = sum[n]
  BY <1>1 DEF Sum
<1>3. sum = [i \in 0 .. Len(a) |-> IF i = 0 THEN 0 ELSE sum[i - 1] + a[i]]
  <2>1. \E s : s = [i \in 0 .. Len(a) |-> IF i = 0 THEN 0 ELSE s[i - 1] + a[i]]
    <3>1. PICK s : IsSum(s, a, n)
      BY Summed
    <3> QED
      BY <1>1, <3>1 DEF IsSum
  <2> QED
    BY <2>1
<1> HIDE DEF sum
<1> QED
  BY <1>1, <1>2, <1>3 DEF IsSum

\* A sum is whole if its parts are, and grows with them.
LEMMA SumWhole ==
  ASSUME NEW n \in Nat, NEW a \in [1 .. n -> Int]
  PROVE  /\ Sum(a) \in Int
         /\ (\A i \in 1 .. n : a[i] \in Multiples) => Sum(a) \in Multiples
<1>1. PICK s : IsSum(s, a, n) /\ Sum(a) = s[n]
  BY SumIs
<1>2. n \in 0 .. n
  OBVIOUS
<1>3. s[n] \in Int
  <2>1. Int \in SUBSET Int /\ 0 \in Int /\ \A x, y \in Int : x + y \in Int
    OBVIOUS
  <2> QED
    BY <1>1, <1>2, <2>1, SumIn
<1>4. ASSUME \A i \in 1 .. n : a[i] \in Multiples PROVE s[n] \in Multiples
  <2>1. Multiples \in SUBSET Int /\ 0 \in Multiples
    BY LinRowsAssumption DEF Multiples
  <2>2. ASSUME NEW x \in Multiples, NEW y \in Multiples PROVE x + y \in Multiples
    <3>1. PICK k \in Int : x = One * k
      BY DEF Multiples
    <3>2. PICK l \in Int : y = One * l
      BY DEF Multiples
    <3>3. x + y = One * (k + l)
      BY <3>1, <3>2, LinRowsAssumption
    <3> QED
      BY <3>3 DEF Multiples
  <2>3. a \in [1 .. n -> Multiples]
    BY <1>4
  <2>4. \A x, y \in Multiples : x + y \in Multiples
    BY <2>2
  <2> QED
    BY <1>1, <1>2, <2>1, <2>3, <2>4, SumIn
<1> QED
  BY <1>1, <1>3, <1>4

LEMMA SumLess ==
  ASSUME NEW n \in Nat, NEW a \in [1 .. n -> Int], NEW b \in [1 .. n -> Int],
         \A i \in 1 .. n : a[i] <= b[i]
  PROVE  Sum(a) <= Sum(b)
<1>1. PICK s : IsSum(s, a, n) /\ Sum(a) = s[n]
  BY SumIs
<1>2. PICK t : IsSum(t, b, n) /\ Sum(b) = t[n]
  BY SumIs
<1>3. n \in 0 .. n /\ n <= n
  OBVIOUS
<1>4. s[n] <= t[n]
  BY ONLY <1>1, <1>2, <1>3, SumMonotone, n \in Nat, a \in [1 .. n -> Int], b \in [1 .. n -> Int],
          \A i \in 1 .. n : a[i] <= b[i], ZenonT(30)
<1> QED
  BY <1>1, <1>2, <1>4

\* A product lies between those with the bounds that the sign selects.
LEMMA ProductBounds ==
  ASSUME NEW c \in Int, NEW x \in Int, NEW y \in Int, x <= y
  PROVE  (c > 0 => c * x <= c * y) /\ (~(c > 0) => c * y <= c * x)
<1>1. c * y - c * x = c * (y - x) /\ y - x \in Nat
  OBVIOUS
<1>2. c > 0 => c * (y - x) >= 0
  BY <1>1
<1>3. ~(c > 0) => c * (y - x) <= 0
  <2>1. ~(c > 0) => (-c) * (y - x) >= 0
    BY <1>1
  <2>2. (-c) * (y - x) = -(c * (y - x))
    OBVIOUS
  <2> QED
    BY <1>1, <2>1, <2>2
<1>4. c * x \in Int /\ c * y \in Int
  OBVIOUS
<1> QED
  BY <1>1, <1>2, <1>3, <1>4

----------------------------------------------------------------------------
(* Values and bounds of terms.                                             *)

At(u, r, v) == IF v \in Var THEN u[v] ELSE r[v]

\* low and high enclose the values of the variables of N, if they are finite.
Encloses(N, low, high, u, r) ==
  \A v \in N : /\ At(u, r, v) \in Int
               /\ low[v] # Infty => low[v] \in Int /\ low[v] <= At(u, r, v)
               /\ high[v] # Infty => high[v] \in Int /\ At(u, r, v) <= high[v]

\* The value of a term is a number, and whole if its constant and the values
\* of its variables are.
LEMMA ValueWhole ==
  ASSUME NEW N, NEW t \in [mono : Seq(Int \X N), const : Int], NEW u, NEW r,
         \A v \in Named(t) : At(u, r, v) \in Int
  PROVE  /\ Value(t, u, r) \in Int
         /\ (t.const \in Multiples /\ \A v \in Named(t) : At(u, r, v) \in Multiples)
            => Value(t, u, r) \in Multiples
<1> DEFINE n == Len(t.mono)
           a == [i \in DOMAIN t.mono |-> t.mono[i][1] * At(u, r, t.mono[i][2])]
<1>1. /\ n \in Nat /\ DOMAIN t.mono = 1 .. n /\ t.const \in Int
      /\ \A i \in 1 .. n : t.mono[i] \in Int \X N /\ t.mono[i][1] \in Int
                           /\ t.mono[i][2] \in Named(t)
  BY DEF Named
<1>2. Value(t, u, r) = Sum(a) + t.const
  BY DEF Value, At
<1>3. a \in [1 .. n -> Int]
  BY <1>1
<1>4. Sum(a) \in Int
  BY <1>1, <1>3, SumWhole
<1>5. ASSUME t.const \in Multiples, \A v \in Named(t) : At(u, r, v) \in Multiples
      PROVE  Value(t, u, r) \in Multiples
  <2>1. \A i \in 1 .. n : a[i] \in Multiples
    <3> SUFFICES ASSUME NEW i \in 1 .. n PROVE a[i] \in Multiples
      OBVIOUS
    <3>1. PICK k \in Int : At(u, r, t.mono[i][2]) = One * k
      BY <1>1, <1>5 DEF Multiples
    <3> DEFINE c == t.mono[i][1]
    <3>3. c \in Int /\ a[i] = c * (One * k)
      BY <1>1, <3>1
    <3> HIDE DEF c, a
    <3>4. c * (One * k) = One * (c * k) /\ c * k \in Int
      BY <3>3, LinRowsAssumption
    <3>2. a[i] = One * (c * k) /\ c * k \in Int
      BY <3>3, <3>4
    <3> QED
      BY <3>2 DEF Multiples
  <2>2. Sum(a) \in Multiples
    BY <1>1, <1>3, <2>1, SumWhole
  <2>3. PICK k \in Int : Sum(a) = One * k
    BY <2>2 DEF Multiples
  <2>4. PICK l \in Int : t.const = One * l
    BY <1>5 DEF Multiples
  <2>5. Sum(a) + t.const = One * (k + l)
    BY <2>3, <2>4, LinRowsAssumption
  <2> QED
    BY <1>2, <2>5 DEF Multiples
<1> QED
  BY <1>1, <1>2, <1>4, <1>5

\* The bounds of a term enclose its value (term_get_lower_bound and
\* term_get_upper_bound select the bounds with the right sign).
LEMMA BoundsEnclose ==
  ASSUME NEW N, NEW t \in [mono : Seq(Int \X N), const : Int], NEW u, NEW r,
         NEW low, NEW high, Encloses(Named(t), low, high, u, r)
  PROVE  /\ BoundOf(t, low, high) # Infty
            => BoundOf(t, low, high) \in Int /\ BoundOf(t, low, high) <= Value(t, u, r)
         /\ BoundOf(t, high, low) # Infty
            => BoundOf(t, high, low) \in Int /\ Value(t, u, r) <= BoundOf(t, high, low)
<1> DEFINE n == Len(t.mono)
           a == [i \in DOMAIN t.mono |-> t.mono[i][1] * At(u, r, t.mono[i][2])]
           bound(f, g, m) == IF m[1] > 0 THEN f[m[2]] ELSE g[m[2]]
           b(f, g) == [i \in DOMAIN t.mono |-> t.mono[i][1] * bound(f, g, t.mono[i])]
<1>1. /\ n \in Nat /\ DOMAIN t.mono = 1 .. n /\ t.const \in Int
      /\ \A i \in 1 .. n : t.mono[i] \in Int \X N /\ t.mono[i][1] \in Int
                           /\ t.mono[i][2] \in Named(t)
  BY DEF Named
<1>2. Value(t, u, r) = Sum(a) + t.const
  BY DEF Value, At
<1>3. a \in [1 .. n -> Int]
  BY <1>1 DEF Encloses
<1>4. ASSUME NEW f, NEW g, BoundOf(t, f, g) # Infty
      PROVE  /\ BoundOf(t, f, g) = Sum(b(f, g)) + t.const
             /\ \A i \in 1 .. n : bound(f, g, t.mono[i]) # Infty
  BY <1>1, <1>4 DEF BoundOf
<1>5. Sum(a) \in Int
  BY <1>1, <1>3, SumWhole
<1>6. ASSUME BoundOf(t, low, high) # Infty
      PROVE  BoundOf(t, low, high) \in Int /\ BoundOf(t, low, high) <= Value(t, u, r)
  <2> DEFINE c == b(low, high)
  <2>1. \A i \in 1 .. n : c[i] \in Int /\ c[i] <= a[i]
    <3> SUFFICES ASSUME NEW i \in 1 .. n PROVE c[i] \in Int /\ c[i] <= a[i]
      OBVIOUS
    <3> DEFINE k == t.mono[i][1]
               v == t.mono[i][2]
    <3>1. k \in Int /\ v \in Named(t) /\ a[i] = k * At(u, r, v)
          /\ c[i] = k * (IF k > 0 THEN low[v] ELSE high[v])
      BY <1>1
    <3>2. (IF k > 0 THEN low[v] ELSE high[v]) # Infty
      BY <1>4, <1>6
    <3> HIDE DEF k, v, a, c
    <3>5. At(u, r, v) \in Int
      BY <3>1 DEF Encloses
    <3>3. CASE k > 0
      <4>1. low[v] \in Int /\ low[v] <= At(u, r, v)
        BY <3>1, <3>2, <3>3 DEF Encloses
      <4>2. k * low[v] <= k * At(u, r, v)
        BY <3>1, <3>3, <3>5, <4>1, ProductBounds
      <4> QED
        BY <3>1, <3>3, <3>5, <4>1, <4>2
    <3>4. CASE ~(k > 0)
      <4>1. high[v] \in Int /\ At(u, r, v) <= high[v]
        BY <3>1, <3>2, <3>4 DEF Encloses
      <4>2. k * high[v] <= k * At(u, r, v)
        BY <3>1, <3>4, <3>5, <4>1, ProductBounds
      <4> QED
        BY <3>1, <3>4, <3>5, <4>1, <4>2
    <3> QED
      BY <3>3, <3>4
  <2>2. c \in [1 .. n -> Int]
    BY <1>1, <2>1
  <2>3. BoundOf(t, low, high) = Sum(c) + t.const
    BY <1>4, <1>6
  <2> HIDE DEF a, c, n
  <2>4. Sum(c) <= Sum(a) /\ Sum(c) \in Int
    BY <1>1, <1>3, <2>1, <2>2, SumLess, SumWhole
  <2> QED
    BY <1>1, <1>2, <1>5, <2>3, <2>4
<1>7. ASSUME BoundOf(t, high, low) # Infty
      PROVE  BoundOf(t, high, low) \in Int /\ Value(t, u, r) <= BoundOf(t, high, low)
  <2> DEFINE c == b(high, low)
  <2>1. \A i \in 1 .. n : c[i] \in Int /\ a[i] <= c[i]
    <3> SUFFICES ASSUME NEW i \in 1 .. n PROVE c[i] \in Int /\ a[i] <= c[i]
      OBVIOUS
    <3> DEFINE k == t.mono[i][1]
               v == t.mono[i][2]
    <3>1. k \in Int /\ v \in Named(t) /\ a[i] = k * At(u, r, v)
          /\ c[i] = k * (IF k > 0 THEN high[v] ELSE low[v])
      BY <1>1
    <3>2. (IF k > 0 THEN high[v] ELSE low[v]) # Infty
      BY <1>4, <1>7
    <3> HIDE DEF k, v, a, c
    <3>5. At(u, r, v) \in Int
      BY <3>1 DEF Encloses
    <3>3. CASE k > 0
      <4>1. high[v] \in Int /\ At(u, r, v) <= high[v]
        BY <3>1, <3>2, <3>3 DEF Encloses
      <4>2. k * At(u, r, v) <= k * high[v]
        BY <3>1, <3>3, <3>5, <4>1, ProductBounds
      <4> QED
        BY <3>1, <3>3, <3>5, <4>1, <4>2
    <3>4. CASE ~(k > 0)
      <4>1. low[v] \in Int /\ low[v] <= At(u, r, v)
        BY <3>1, <3>2, <3>4 DEF Encloses
      <4>2. k * At(u, r, v) <= k * low[v]
        BY <3>1, <3>4, <3>5, <4>1, ProductBounds
      <4> QED
        BY <3>1, <3>4, <3>5, <4>1, <4>2
    <3> QED
      BY <3>3, <3>4
  <2>2. c \in [1 .. n -> Int]
    BY <1>1, <2>1
  <2>3. BoundOf(t, high, low) = Sum(c) + t.const
    BY <1>4, <1>7
  <2> HIDE DEF a, c, n
  <2>4. Sum(a) <= Sum(c) /\ Sum(c) \in Int
    BY <1>1, <1>3, <2>1, <2>2, SumLess, SumWhole
  <2> QED
    BY <1>1, <1>2, <1>5, <2>3, <2>4
<1> QED
  BY <1>6, <1>7

----------------------------------------------------------------------------
(* The invariant.                                                          *)

\* Types, and every result has a value of its domain at every point.
TypeInv ==
  /\ prog \in Sources
  /\ results \in Seq(Result) /\ Len(results) <= MaxResult
  /\ stack \in Seq(DOMAIN results) /\ Len(stack) <= Len(results)
  /\ phase \in {"expr", "bigM", "indicator"} /\ error \in Errors
  /\ feasible \subseteq UserPoint
  /\ meant \in [UserPoint -> Seq(Int)]
  /\ \A u \in UserPoint :
        /\ Len(meant[u]) = Len(results)
        /\ \A k \in DOMAIN results :
              meant[u][k] \in Domain(results[k].kind, results[k].lo, results[k].up)

\* The rows admit the points of the model, each with the values that are meant.
Exactly == points = {<<u, meant[u]>> : u \in feasible}

LEMMA DomainType ==
  ASSUME NEW r \in Result, NEW x \in Domain(r.kind, r.lo, r.up)
  PROVE  /\ x \in Int /\ r.lo <= x /\ x <= r.up
         /\ r.kind = "bool" => x \in Binary
         /\ r.kind = "abs" => x \in Multiples
<1>0. r.lo \in Int /\ r.up \in Int /\ 0 <= r.lo /\ r.kind \in {"bool", "abs"}
      /\ (r.kind = "bool" => r.up <= 1)
  BY DEF Result
<1>1. CASE r.kind = "bool"
  BY <1>0, <1>1 DEF Domain, Binary
<1>2. CASE r.kind = "abs"
  <2>1. x \in 0 .. r.up /\ x % One = 0
    BY <1>2 DEF Domain, IntVar
  <2>2. x \in Multiples
    BY <1>0, <2>1, Divisible
  <2> QED
    BY <1>0, <1>2, <2>1, <2>2 DEF Result
<1> QED
  BY <1>0, <1>1, <1>2

\* The bounds a term is built from enclose the values of its variables.
LEMMA Enclosed ==
  ASSUME TypeInv, NEW t \in Terms, NEW u \in UserPoint
  PROVE  /\ Encloses(Named(t), LowerOf(t), UpperOf(t), u, meant[u])
         /\ term_is_all_integer(t) => \A v \in Named(t) : At(u, meant[u], v) \in Multiples
<1>1. Named(t) \subseteq Nameable
  BY DEF Terms, Named
<1>2. ASSUME NEW v \in Named(t)
      PROVE  /\ At(u, meant[u], v) \in Int
             /\ LowerOf(t)[v] # Infty => LowerOf(t)[v] \in Int /\ LowerOf(t)[v] <= At(u, meant[u], v)
             /\ UpperOf(t)[v] # Infty => UpperOf(t)[v] \in Int /\ At(u, meant[u], v) <= UpperOf(t)[v]
             /\ term_is_all_integer(t) => At(u, meant[u], v) \in Multiples
  <2>1. LowerOf(t)[v] = lower(v) /\ UpperOf(t)[v] = upper(v)
    BY DEF LowerOf, UpperOf
  <2>2. CASE v \in Var
    <3>1. u[v] \in Values[v]
      BY <2>2 DEF UserPoint
    <3>2. /\ u[v] \in Int /\ (v \in IntClass => u[v] % One = 0)
          /\ Lower[v] # Infty => Lower[v] <= u[v]
          /\ Upper[v] # Infty => u[v] <= Upper[v]
      BY <2>2, <3>1, VInstAssumption
    <3>3. Lower[v] \in Int \cup {Infty} /\ Upper[v] \in Int \cup {Infty}
      BY <2>2, SourcesAssumption
    <3>4. term_is_all_integer(t) => u[v] \in Multiples
      BY <1>2, <2>2, <3>2, Divisible DEF term_is_all_integer
    <3> QED
      BY <2>1, <2>2, <3>2, <3>3, <3>4 DEF At, lower, upper
  <2>3. CASE v \notin Var
    <3> DEFINE x == results[v]
    <3>1. v \in DOMAIN results /\ x.kind = "abs" /\ x \in Result
      BY <1>1, <2>3 DEF Nameable, TypeInv
    <3>2. meant[u][v] \in Domain(x.kind, x.lo, x.up)
      BY <3>1 DEF TypeInv
    <3>3. x.lo \in Int /\ x.up \in Int
      BY <3>1 DEF Result
    <3> HIDE DEF x
    <3>4. /\ meant[u][v] \in Int /\ x.lo <= meant[u][v] /\ meant[u][v] <= x.up
          /\ meant[u][v] \in Multiples
      BY <3>1, <3>2, DomainType
    <3> QED
      BY <2>1, <2>3, <3>3, <3>4 DEF At, lower, upper, x
  <2> QED
    BY <2>2, <2>3
<1> QED
  BY <1>2 DEF Encloses

\* So the value of a term is a number within its bounds, and whole if all its
\* variables and its constant are.
LEMMA TermValue ==
  ASSUME TypeInv, NEW t \in Terms, NEW u \in UserPoint
  PROVE  LET x == Value(t, u, meant[u])
         IN  /\ x \in Int
             /\ term_get_lower_bound(t) # Infty
                => term_get_lower_bound(t) \in Int /\ term_get_lower_bound(t) <= x
             /\ term_get_upper_bound(t) # Infty
                => term_get_upper_bound(t) \in Int /\ x <= term_get_upper_bound(t)
             /\ term_is_all_integer(t) /\ t.const \in Multiples => x \in Multiples
<1>1. t \in [mono : Seq(Int \X Nameable), const : Int]
  BY DEF Terms
<1>2. Encloses(Named(t), LowerOf(t), UpperOf(t), u, meant[u])
  BY Enclosed
<1>3. \A v \in Named(t) : At(u, meant[u], v) \in Int
  BY <1>2 DEF Encloses
<1>4. term_is_all_integer(t) => \A v \in Named(t) : At(u, meant[u], v) \in Multiples
  BY Enclosed
<1> QED
  BY <1>1, <1>2, <1>3, <1>4, ValueWhole, BoundsEnclose
     DEF term_get_lower_bound, term_get_upper_bound

\* Differences of terms are terms.
LEMMA Difference ==
  ASSUME NEW a \in Terms, NEW b \in Terms
  PROVE  /\ term_sub_term(a, b) \in Terms
         /\ [term_sub_term(a, b) EXCEPT !.const = 0] \in Terms
         /\ term_sub_term(a, b).const = a.const - b.const
<1> DEFINE M == Int \X Nameable
           neg == [i \in DOMAIN b.mono |-> <<-b.mono[i][1], b.mono[i][2]>>]
<1>1. a.mono \in Seq(M) /\ b.mono \in Seq(M) /\ a.const - b.const \in Int
  BY DEF Terms
<1>2. neg \in Seq(M)
  <2>1. DOMAIN b.mono = 1 .. Len(b.mono) /\ Len(b.mono) \in Nat
    BY <1>1
  <2>2. ASSUME NEW i \in 1 .. Len(b.mono) PROVE neg[i] \in M
    <3>1. b.mono[i] \in M
      BY <1>1, <2>1
    <3> QED
      BY <2>1, <3>1
  <2> HIDE DEF M
  <2>3. neg \in [1 .. Len(b.mono) -> M]
    BY <2>1, <2>2
  <2> QED
    BY <2>1, <2>3
<1>3. a.mono \o neg \in Seq(M)
  <2> HIDE DEF M, neg
  <2> QED
    BY <1>1, <1>2, ConcatProperties
<1>4. term_sub_term(a, b) = [mono |-> a.mono \o neg, const |-> a.const - b.const]
  BY DEF term_sub_term
<1> DEFINE x == a.mono \o neg
           y == a.const - b.const
<1>5. x \in Seq(M) /\ y \in Int /\ term_sub_term(a, b) = [mono |-> x, const |-> y]
  BY <1>1, <1>3, <1>4
<1>6. Terms = [mono : Seq(M), const : Int]
  BY DEF Terms
<1> HIDE DEF x, M
<1>7. [term_sub_term(a, b) EXCEPT !.const = 0] = [mono |-> x, const |-> 0]
  BY <1>5
<1> QED
  BY <1>5, <1>6, <1>7

\* The terms on both sides of a comparison, and the stack below them.
LEMMA OperandTerms ==
  ASSUME TypeInv, NEW S \in {CmpSides, ConSides}, NEW o \in Operands(S)
  PROVE  /\ o.lhs \in Terms /\ o.rhs \in Terms
         /\ WholeConstants /\ S = CmpSides => o.lhs.const \in Multiples /\ o.rhs.const \in Multiples
<1>1. PICK s \in S :
         o = [lhs |-> IF AbsWaiting THEN term_add_elem(s[1], 1, stack[Len(stack)]) ELSE s[1],
              rhs |-> s[2]]
  BY DEF Operands
<1> DEFINE T == [mono : Seq(Int \X Var), const : Int]
<1>2. s \in T \X T
  <2>1. CmpSides \cup ConSides \subseteq T \X T
    BY SourcesAssumption DEF CmpSides, ConSides, TypeInv
  <2> HIDE DEF T
  <2> QED
    BY <2>1
<1>3. s[1] \in T /\ s[2] \in T
  <2> HIDE DEF T
  <2> QED
    BY <1>2
<1>4. T \subseteq Terms
  <2>1. Int \X Var \subseteq Int \X Nameable
    BY DEF Nameable
  <2>2. Seq(Int \X Var) \subseteq Seq(Int \X Nameable)
    BY <2>1
  <2> QED
    BY <2>2 DEF Terms
<1>5. ASSUME AbsWaiting
      PROVE  /\ term_add_elem(s[1], 1, stack[Len(stack)]) \in Terms
             /\ term_add_elem(s[1], 1, stack[Len(stack)]).const = s[1].const
  <2> DEFINE v == stack[Len(stack)]
             M == Int \X Nameable
  <2>1. v \in Nameable
    <3>1. stack \in Seq(DOMAIN results) /\ stack # <<>>
      BY <1>5 DEF TypeInv, AbsWaiting
    <3>2. Len(stack) \in 1 .. Len(stack)
      BY <3>1
    <3>3. v \in DOMAIN results /\ results[v].kind = "abs"
      BY <1>5, <3>1, <3>2 DEF AbsWaiting, Kind
    <3> QED
      BY <3>3 DEF Nameable
  <2>8. s[1] \in [mono : Seq(M), const : Int]
    <3> HIDE DEF T
    <3> QED
      BY <1>3, <1>4 DEF Terms
  <2>9. <<1, v>> \in M
    BY <2>1
  <2>2. s[1].mono \in Seq(M) /\ <<1, v>> \in M /\ s[1].const \in Int
    <3> HIDE DEF v, M
    <3> QED
      BY <2>8, <2>9
  <2>3. Append(s[1].mono, <<1, v>>) \in Seq(M)
    <3> HIDE DEF v, M
    <3> QED
      BY <2>2, AppendProperties
  <2>4. term_add_elem(s[1], 1, v) = [mono |-> Append(s[1].mono, <<1, v>>), const |-> s[1].const]
    <3> HIDE DEF v, M
    <3>1. ASSUME NEW e PROVE [s[1] EXCEPT !.mono = e] = [mono |-> e, const |-> s[1].const]
      BY <2>8
    <3>2. term_add_elem(s[1], 1, v) = [s[1] EXCEPT !.mono = Append(s[1].mono, <<1, v>>)]
      BY DEF term_add_elem
    <3> QED
      BY <3>1, <3>2
  <2> DEFINE x == Append(s[1].mono, <<1, v>>)
  <2>5. Terms = [mono : Seq(M), const : Int]
    BY DEF Terms
  <2>6. x \in Seq(M) /\ term_add_elem(s[1], 1, v) = [mono |-> x, const |-> s[1].const]
    BY <2>3, <2>4
  <2> HIDE DEF x, v, M
  <2>7. term_add_elem(s[1], 1, v) \in Terms /\ term_add_elem(s[1], 1, v).const = s[1].const
    BY <2>2, <2>5, <2>6
  <2> QED
    BY <2>7 DEF v
<1>6. /\ o.lhs \in Terms /\ o.rhs \in Terms
      /\ o.lhs.const = s[1].const /\ o.rhs.const = s[2].const
  <2> HIDE DEF T
  <2> QED
    BY <1>1, <1>3, <1>4, <1>5
<1>7. ASSUME WholeConstants, S = CmpSides
      PROVE  s[1].const \in Multiples /\ s[2].const \in Multiples
  <2>1. s[1].const % One = 0 /\ s[2].const % One = 0
    BY <1>7 DEF WholeConstants, CmpSides, TypeInv
  <2> QED
    BY <1>3, <2>1, Divisible
<1> QED
  BY <1>6, <1>7

\* What is below the waiting result of a vabs is a stack, too.
LEMMA BelowStack ==
  ASSUME TypeInv
  PROVE  /\ Below \in Seq(DOMAIN results) /\ Len(Below) <= Len(results)
         /\ \A i \in 1 .. Len(Below) : Below[i] = stack[i] /\ i \in 1 .. Len(stack)
<1>1. stack \in Seq(DOMAIN results) /\ Len(stack) \in Nat /\ Len(results) \in Nat
      /\ Len(stack) <= Len(results)
  BY DEF TypeInv
<1>2. CASE ~AbsWaiting
  BY <1>1, <1>2 DEF Below
<1>3. CASE AbsWaiting
  <2>1. Below = SubSeq(stack, 1, Len(stack) - 1) /\ stack # <<>>
    BY <1>3 DEF Below, AbsWaiting
  <2>2. Len(stack) - 1 \in Nat /\ Len(stack) - 1 <= Len(stack)
    BY <1>1, <2>1
  <2> DEFINE D == DOMAIN results
             m == Len(stack) - 1
  <2>4. m \in Int /\ 1 \in Int /\ (\A i \in 1 .. m : stack[i] \in D)
    BY <1>1, <2>2
  <2> HIDE DEF D
  <2>3. /\ SubSeq(stack, 1, m) \in Seq(D) /\ Len(SubSeq(stack, 1, m)) = m
        /\ \A i \in 1 .. m : SubSeq(stack, 1, m)[i] = stack[i]
    <3> HIDE DEF m
    <3>1. /\ SubSeq(stack, 1, m) \in Seq(D)
          /\ Len(SubSeq(stack, 1, m)) = IF 1 <= m THEN m - 1 + 1 ELSE 0
          /\ \A i \in 1 .. m - 1 + 1 : SubSeq(stack, 1, m)[i] = stack[1 + i - 1]
      BY <2>4, SubSeqProperties
    <3>2. m \in Nat /\ m - 1 + 1 = m
      BY <2>2 DEF m
    <3>3. \A i \in 1 .. m : 1 + i - 1 = i
      OBVIOUS
    <3> QED
      BY <3>1, <3>2, <3>3
  <2> QED
    BY <1>1, <2>1, <2>2, <2>3 DEF D
<1> QED
  BY <1>2, <1>3

----------------------------------------------------------------------------
(* The steps.                                                              *)

\* A new result with the values of V: it is entered where the rows admit that
\* value and no other.
Entered(kind, lo, up, V, under) ==
  /\ results' = Append(results, [kind |-> kind, lo |-> lo, up |-> up])
  /\ Len(results) < MaxResult
  /\ stack' = Append(under, Len(results) + 1)
  /\ points' = {<<q[1][1], Append(q[1][2], q[2])>> :
                  q \in {q \in points \X Domain(kind, lo, up) : q[2] = V[q[1][1]]}}
  /\ meant' = [u \in UserPoint |-> Append(meant[u], V[u])]
  /\ phase' = phase /\ feasible' = feasible /\ error' = error /\ prog' = prog

LEMMA EnteredKeeps ==
  ASSUME TypeInv, Exactly,
         NEW kind, NEW lo, NEW up, [kind |-> kind, lo |-> lo, up |-> up] \in Result,
         NEW V, \A u \in UserPoint : V[u] \in Domain(kind, lo, up),
         NEW under \in Seq(DOMAIN results), Len(under) <= Len(results),
         Entered(kind, lo, up, V, under)
  PROVE  TypeInv' /\ Exactly'
<1> DEFINE new == [kind |-> kind, lo |-> lo, up |-> up]
           n == Len(results)
           D == Domain(kind, lo, up)
<1>1. /\ results \in Seq(Result) /\ n \in Nat /\ n <= MaxResult /\ n < MaxResult
      /\ results' = Append(results, new) /\ new \in Result
      /\ prog' = prog /\ MaxResult' = MaxResult /\ MaxResult \in Nat
  BY SourcesAssumption DEF TypeInv, Entered, MaxResult
<1> HIDE DEF new
<1>2. /\ results' \in Seq(Result) /\ Len(results') = n + 1 /\ results'[n + 1] = new
      /\ \A k \in 1 .. n : results'[k] = results[k]
      /\ DOMAIN results = 1 .. n /\ DOMAIN results' = 1 .. n + 1
  <2>1. results' \in Seq(Result) /\ Len(results') = n + 1 /\ results'[n + 1] = new
        /\ \A k \in 1 .. n : results'[k] = results[k]
    BY <1>1, AppendProperties
  <2> QED
    BY <1>1, <2>1
<1>3. stack' \in Seq(DOMAIN results') /\ Len(stack') <= Len(results')
  <2>1. under \in Seq(DOMAIN results') /\ n + 1 \in DOMAIN results'
    BY <1>1, <1>2
  <2>2. stack' = Append(under, n + 1)
    BY DEF Entered
  <2> HIDE DEF n
  <2>3. stack' \in Seq(DOMAIN results') /\ Len(stack') = Len(under) + 1
    BY <2>1, <2>2, AppendProperties
  <2> QED
    BY <1>1, <1>2, <2>3 DEF n
<1>4. new.kind = kind /\ new.lo = lo /\ new.up = up
  BY DEF new
<1>5. \A u \in UserPoint : V[u] \in Int /\ V[u] \in Domain(new.kind, new.lo, new.up)
  BY <1>1, <1>4, DomainType
<1>6. ASSUME NEW u \in UserPoint
      PROVE  /\ meant'[u] = Append(meant[u], V[u])
             /\ meant'[u] \in Seq(Int) /\ Len(meant'[u]) = n + 1
             /\ meant'[u][n + 1] = V[u] /\ \A k \in 1 .. n : meant'[u][k] = meant[u][k]
  <2>1. meant[u] \in Seq(Int) /\ Len(meant[u]) = n
    BY DEF TypeInv
  <2>2. meant'[u] = Append(meant[u], V[u])
    BY DEF Entered
  <2> QED
    BY <1>5, <2>1, <2>2, AppendProperties
<1>7. \A u \in UserPoint : \A k \in DOMAIN results' :
         meant'[u][k] \in Domain(results'[k].kind, results'[k].lo, results'[k].up)
  <2> SUFFICES ASSUME NEW u \in UserPoint, NEW k \in 1 .. n + 1
               PROVE  meant'[u][k] \in Domain(results'[k].kind, results'[k].lo, results'[k].up)
    BY <1>2
  <2>1. CASE k = n + 1
    BY <1>2, <1>5, <1>6, <2>1
  <2>2. CASE k # n + 1
    <3>1. k \in 1 .. n
      BY <1>1, <2>2
    <3> QED
      BY <1>2, <1>6, <3>1 DEF TypeInv
  <2> QED
    BY <2>1, <2>2
<1>8. meant' \in [UserPoint -> Seq(Int)]
  <2>1. meant' = [u \in UserPoint |-> Append(meant[u], V[u])]
    BY DEF Entered
  <2> QED
    BY <1>6, <2>1
<1>9. TypeInv'
  <2>1. phase' = phase /\ feasible' = feasible /\ error' = error
    BY DEF Entered
  <2>2. Len(results') <= MaxResult'
    BY <1>1, <1>2
  <2>3. \A u \in UserPoint : Len(meant'[u]) = Len(results')
    BY <1>2, <1>6
  <2> QED
    BY <1>1, <1>2, <1>3, <1>7, <1>8, <2>1, <2>2, <2>3 DEF TypeInv
<1>10. points' = {<<u, meant'[u]>> : u \in feasible}
  <2> DEFINE R == {q \in points \X D : q[2] = V[q[1][1]]}
             e(q) == <<q[1][1], Append(q[1][2], q[2])>>
  <2>1. feasible \subseteq UserPoint /\ points = {<<u, meant[u]>> : u \in feasible}
    BY DEF TypeInv, Exactly
  <2>2. ASSUME NEW q \in R PROVE \E u \in feasible : e(q) = <<u, meant'[u]>>
    <3>1. PICK u \in feasible : q[1] = <<u, meant[u]>>
      BY <2>1
    <3>2. q[1][1] = u /\ q[1][2] = meant[u] /\ q[2] = V[u] /\ u \in UserPoint
      BY <2>1, <3>1
    <3> QED
      BY <1>6, <3>2
  <2>3. ASSUME NEW u \in feasible PROVE \E q \in R : e(q) = <<u, meant'[u]>>
    <3>1. u \in UserPoint /\ <<u, meant[u]>> \in points /\ V[u] \in D
      BY <2>1
    <3> DEFINE q == <<<<u, meant[u]>>, V[u]>>
    <3>2. q \in R
      BY <3>1
    <3>3. e(q) = <<u, meant'[u]>>
      BY <1>6, <3>1
    <3> HIDE DEF q, e, R
    <3> QED
      BY <3>2, <3>3
  <2>4. points' = {e(q) : q \in R}
    BY DEF Entered
  <2> HIDE DEF e, R
  <2> QED
    BY <2>2, <2>3, <2>4
<1>11. Exactly'
  <2>1. feasible' = feasible
    BY DEF Entered
  <2> QED
    BY <1>10, <2>1 DEF Exactly
<1> QED
  BY <1>9, <1>11

\* An error ends the program and changes nothing else.
LEMMA ExitKeeps ==
  ASSUME TypeInv, Exactly, NEW no \in Errors, Exit(no), prog' = prog
  PROVE  TypeInv' /\ Exactly'
BY DEF Exit, TypeInv, Exactly, MaxResult

\* The same where the rows that hold are given by R.
Created(kind, lo, up, V, under, R) ==
  /\ Len(results) < MaxResult
  /\ results' = Append(results, [kind |-> kind, lo |-> lo, up |-> up])
  /\ stack' = Append(under, Len(results) + 1)
  /\ points' = {<<q[1][1], Append(q[1][2], q[2])>> : q \in R}
  /\ meant' = [u \in UserPoint |-> Append(meant[u], V[u])]
  /\ UNCHANGED <<prog, phase, feasible, error>>

LEMMA CreatedKeeps ==
  ASSUME TypeInv, Exactly,
         NEW kind, NEW lo, NEW up, [kind |-> kind, lo |-> lo, up |-> up] \in Result,
         NEW V, \A u \in UserPoint : V[u] \in Domain(kind, lo, up),
         NEW under \in Seq(DOMAIN results), Len(under) <= Len(results),
         NEW R \in SUBSET (points \X Domain(kind, lo, up)),
         \A u \in feasible : \A x \in Domain(kind, lo, up) :
            <<<<u, meant[u]>>, x>> \in R <=> x = V[u],
         Created(kind, lo, up, V, under, R)
  PROVE  TypeInv' /\ Exactly'
<1> DEFINE D == Domain(kind, lo, up)
           S == {q \in points \X D : q[2] = V[q[1][1]]}
<1>1. ASSUME NEW q \in points \X D PROVE q \in R <=> q \in S
  <2>1. PICK u \in feasible : q[1] = <<u, meant[u]>>
    BY DEF Exactly
  <2>2. q = <<<<u, meant[u]>>, q[2]>> /\ q[2] \in D /\ q[1][1] = u
    BY <2>1
  <2> QED
    BY <2>2
<1>2. R = S
  BY <1>1
<1>3. points' = {<<q[1][1], Append(q[1][2], q[2])>> : q \in S}
  BY <1>2 DEF Created
<1>4. Entered(kind, lo, up, V, under)
  BY <1>3 DEF Entered, Created
<1> QED
  BY <1>4, EnteredKeeps

\* Comparisons: the term is within its bounds, and whole if its constants are.
LEMMA CmpKeeps ==
  ASSUME WholeConstants, TypeInv, Exactly, NEW op \in CmpOps,
         handle_vbool_cmp(op), prog' = prog
  PROVE  TypeInv' /\ Exactly'
<1> DEFINE T(o) == term_sub_term(o.lhs, o.rhs)
           Lo(o) == term_get_lower_bound(T(o))
           Up(o) == term_get_upper_bound(T(o))
           Fixed(o) == IF T(o).mono = <<>> THEN check_how_fixed(op, o.rhs.const - o.lhs.const)
                       ELSE check_if_fixed(op, Lo(o), Up(o))
           Means(o) == [u \in UserPoint |-> IF Holds(op, Value(T(o), u, meant[u])) THEN 1 ELSE 0]
           Rows(o, lo, up) ==
             {q \in points \X Domain("bool", lo, up) :
                lo = up \/ CmpSystem(op, Value(T(o), q[1][1], q[1][2]), Lo(o), Up(o), q[2])}
           New(lo, up, V, R) == Created("bool", lo, up, V, Below, R)
<1>1. PICK o \in Operands(CmpSides) :
         \/ Exit(177) \/ Exit(185)
         \/ /\ term_is_all_integer(T(o)) /\ Infty \notin {Lo(o), Up(o)}
            /\ \/ Fixed(o) = "TRUE" /\ New(1, 1, Means(o), Rows(o, 1, 1))
               \/ Fixed(o) = "FALSE" /\ New(0, 0, Means(o), Rows(o, 0, 0))
               \/ Fixed(o) = "OPEN" /\ New(0, 1, Means(o), Rows(o, 0, 1))
  <2> DEFINE Norows(u, r, re) == TRUE
             System(o, u, r, re) == CmpSystem(op, Value(T(o), u, r), Lo(o), Up(o), re)
             Meaning(o, u, r) == IF Holds(op, Value(T(o), u, r)) THEN 1 ELSE 0
  <2>1. PICK o \in Operands(CmpSides) :
          LET norows(u, r, re) == TRUE
              rows(u, r, re) == System(o, u, r, re)
              means(u, r) == Meaning(o, u, r)
          IN  IF ~term_is_all_integer(T(o)) THEN Exit(177)
              ELSE IF Infty \in {Lo(o), Up(o)} THEN Exit(185)
              ELSE CASE Fixed(o) = "TRUE"  -> NewResult("bool", 1, 1, norows, means, Below)
                     [] Fixed(o) = "FALSE" -> NewResult("bool", 0, 0, norows, means, Below)
                     [] Fixed(o) = "OPEN"  -> NewResult("bool", 0, 1, rows, means, Below)
    BY DEF handle_vbool_cmp
  <2>2. Fixed(o) \in {"TRUE", "FALSE", "OPEN"}
    BY DEF check_if_fixed, check_how_fixed, CmpOps
  <2> DEFINE D(lo, up) == Domain("bool", lo, up)
             All(lo, up) == {q \in points \X D(lo, up) : TRUE}
             Some == {q \in points \X D(0, 1) : System(o, q[1][1], q[1][2], q[2])}
  <2>3. ~term_is_all_integer(T(o)) => Exit(177)
    BY <2>1
  <2>4. term_is_all_integer(T(o)) /\ Infty \in {Lo(o), Up(o)} => Exit(185)
    BY <2>1
  <2>5. ASSUME term_is_all_integer(T(o)), Infty \notin {Lo(o), Up(o)}
        PROVE  \/ Fixed(o) = "TRUE" /\ New(1, 1, Means(o), All(1, 1))
               \/ Fixed(o) = "FALSE" /\ New(0, 0, Means(o), All(0, 0))
               \/ Fixed(o) = "OPEN" /\ New(0, 1, Means(o), Some)
    <3> HIDE DEF Fixed
    <3>1. CASE Fixed(o) = "TRUE"
      BY <2>1, <2>5, <3>1 DEF NewResult, Created
    <3>2. CASE Fixed(o) = "FALSE"
      BY <2>1, <2>5, <3>2 DEF NewResult, Created
    <3>3. CASE Fixed(o) = "OPEN"
      BY <2>1, <2>5, <3>3 DEF NewResult, Created
    <3> QED
      BY <2>2, <3>1, <3>2, <3>3
  <2>6. All(1, 1) = Rows(o, 1, 1) /\ All(0, 0) = Rows(o, 0, 0) /\ Some = Rows(o, 0, 1)
    OBVIOUS
  <2> HIDE DEF Fixed, New, Some, All, Rows, Means, T, Lo, Up
  <2> QED
    BY <2>3, <2>4, <2>5, <2>6
<1>2. /\ T(o) \in Terms /\ T(o).const \in Multiples
      /\ T(o).const = o.lhs.const - o.rhs.const /\ o.lhs.const \in Int /\ o.rhs.const \in Int
  <2>1. /\ o.lhs \in Terms /\ o.rhs \in Terms
        /\ o.lhs.const \in Multiples /\ o.rhs.const \in Multiples
    BY OperandTerms
  <2>2. o.lhs.const - o.rhs.const \in Multiples
    <3>1. PICK k \in Int : o.lhs.const = One * k
      BY <2>1 DEF Multiples
    <3>2. PICK l \in Int : o.rhs.const = One * l
      BY <2>1 DEF Multiples
    <3>3. o.lhs.const - o.rhs.const = One * (k - l)
      BY <3>1, <3>2, LinRowsAssumption
    <3> QED
      BY <3>3 DEF Multiples
  <2>3. o.lhs.const \in Int /\ o.rhs.const \in Int
    BY <2>1 DEF Terms
  <2> QED
    BY <2>1, <2>2, <2>3, Difference
<1>3. /\ \A u \in UserPoint : Means(o)[u] \in 0 .. 1 /\ Value(T(o), u, meant[u]) \in Int
                              /\ (Means(o)[u] = 1 <=> Holds(op, Value(T(o), u, meant[u])))
      /\ feasible \subseteq UserPoint
      /\ Below \in Seq(DOMAIN results) /\ Len(Below) <= Len(results)
  <2>1. \A u \in UserPoint : Value(T(o), u, meant[u]) \in Int
    BY <1>2, TermValue
  <2> QED
    BY <2>1, BelowStack DEF TypeInv
<1>4. ASSUME NEW lo \in 0 .. 1, NEW up \in 0 .. 1, lo <= up,
             \A u \in UserPoint : Means(o)[u] \in lo .. up,
             \A u \in feasible : \A x \in lo .. up :
               lo = up \/ CmpSystem(op, Value(T(o), u, meant[u]), Lo(o), Up(o), x)
               <=> x = Means(o)[u],
             New(lo, up, Means(o), Rows(o, lo, up))
      PROVE  TypeInv' /\ Exactly'
  <2> DEFINE D == Domain("bool", lo, up)
  <2>1. D = lo .. up
    BY DEF Domain
  <2>2. [kind |-> "bool", lo |-> lo, up |-> up] \in Result
    BY <1>4 DEF Result
  <2>3. Rows(o, lo, up) \in SUBSET (points \X D)
    OBVIOUS
  <2>4. \A u \in feasible : \A x \in D : <<<<u, meant[u]>>, x>> \in Rows(o, lo, up) <=> x = Means(o)[u]
    <3> SUFFICES ASSUME NEW u \in feasible, NEW x \in D
                 PROVE  <<<<u, meant[u]>>, x>> \in Rows(o, lo, up) <=> x = Means(o)[u]
      OBVIOUS
    <3>1. <<u, meant[u]>> \in points
      BY DEF Exactly
    <3>2. <<<<u, meant[u]>>, x>> \in Rows(o, lo, up)
          <=> lo = up \/ CmpSystem(op, Value(T(o), u, meant[u]), Lo(o), Up(o), x)
      BY <3>1
    <3> HIDE DEF Rows, Means, T, Lo, Up, D
    <3> QED
      BY <1>4, <2>1, <3>2
  <2>5. \A u \in UserPoint : Means(o)[u] \in D
    <3> HIDE DEF Means
    <3> QED
      BY <1>4, <2>1
  <2> DEFINE V == Means(o)
             R == Rows(o, lo, up)
  <2>6. Created("bool", lo, up, V, Below, R)
    BY <1>4
  <2> HIDE DEF Rows, Means, T, Lo, Up, New, Fixed
  <2>7. R \in SUBSET (points \X D)
        /\ (\A u \in feasible : \A x \in D : <<<<u, meant[u]>>, x>> \in R <=> x = V[u])
        /\ \A u \in UserPoint : V[u] \in D
    BY <2>3, <2>4, <2>5
  <2> HIDE DEF V, R, D
  <2>8. PICK W, Q : W = V /\ Q = R
    OBVIOUS
  <2>9. /\ [kind |-> "bool", lo |-> lo, up |-> up] \in Result
        /\ \A u \in UserPoint : W[u] \in Domain("bool", lo, up)
        /\ Below \in Seq(DOMAIN results) /\ Len(Below) <= Len(results)
        /\ Q \in SUBSET (points \X Domain("bool", lo, up))
        /\ \A u \in feasible : \A x \in Domain("bool", lo, up) :
             <<<<u, meant[u]>>, x>> \in Q <=> x = W[u]
        /\ Created("bool", lo, up, W, Below, Q)
    BY <1>3, <2>2, <2>6, <2>7, <2>8 DEF D
  <2> QED
    BY ONLY TypeInv, Exactly, <2>9, CreatedKeeps
<1> HIDE DEF Rows, New, Means, Lo, Up
<1>5. CASE Exit(177) \/ Exit(185)
  <2>1. 177 \in Errors /\ 185 \in Errors
    BY DEF Errors
  <2> QED
    BY <1>5, <2>1, ExitKeeps
<1>6. ASSUME term_is_all_integer(T(o)), Infty \notin {Lo(o), Up(o)}
      PROVE  \A u \in UserPoint :
               /\ Lo(o) \in Int /\ Up(o) \in Int
               /\ Lo(o) <= Value(T(o), u, meant[u]) /\ Value(T(o), u, meant[u]) <= Up(o)
               /\ Value(T(o), u, meant[u]) \in Multiples
  <2> SUFFICES ASSUME NEW u \in UserPoint
               PROVE  /\ Lo(o) \in Int /\ Up(o) \in Int
                      /\ Lo(o) <= Value(T(o), u, meant[u]) /\ Value(T(o), u, meant[u]) <= Up(o)
                      /\ Value(T(o), u, meant[u]) \in Multiples
    OBVIOUS
  <2>1. term_get_lower_bound(T(o)) # Infty /\ term_get_upper_bound(T(o)) # Infty
    BY <1>6 DEF Lo, Up
  <2> HIDE DEF T
  <2> QED
    BY <1>2, <1>6, <2>1, TermValue DEF Lo, Up
<1>7. ASSUME term_is_all_integer(T(o)), Infty \notin {Lo(o), Up(o)}, NEW u \in UserPoint
      PROVE  /\ Fixed(o) = "TRUE" => Means(o)[u] = 1
             /\ Fixed(o) = "FALSE" => Means(o)[u] = 0
             /\ Fixed(o) = "OPEN" =>
                  \A x \in 0 .. 1 :
                    CmpSystem(op, Value(T(o), u, meant[u]), Lo(o), Up(o), x) <=> x = Means(o)[u]
  <2> DEFINE z == Value(T(o), u, meant[u])
  <2>1. /\ Lo(o) \in Int /\ Up(o) \in Int /\ Lo(o) <= z /\ z <= Up(o)
        /\ z \in Multiples /\ z \in Int
        /\ Means(o)[u] \in 0 .. 1 /\ (Means(o)[u] = 1 <=> Holds(op, z))
    BY <1>3, <1>6, <1>7
  <2>2. CASE T(o).mono = <<>>
    <3>1. z = T(o).const
      <4> HIDE DEF T
      <4>1. z = Sum(<<>>) + T(o).const
        BY <2>2 DEF Value
      <4>2. Sum(<<>>) = 0
        <5>1. <<>> \in [1 .. 0 -> Int]
          OBVIOUS
        <5>2. \E s : IsSum(s, <<>>, 0) /\ Sum(<<>>) = s[0]
          BY ONLY <5>1, SumIs
        <5> QED
          BY ONLY <5>2 DEF IsSum
      <4> QED
        BY <1>2, <4>1, <4>2
    <3>2. z = 0 - (o.rhs.const - o.lhs.const)
      BY <1>2, <3>1
    <3>3. Fixed(o) = IF Holds(op, z) THEN "TRUE" ELSE "FALSE"
      BY <2>2, <3>2 DEF check_how_fixed
    <3> QED
      BY <2>1, <3>3
  <2>3. CASE T(o).mono # <<>>
    <3>1. Fixed(o) = check_if_fixed(op, Lo(o), Up(o))
      BY <2>3
    <3>2. /\ Fixed(o) = "TRUE" => Holds(op, z)
          /\ Fixed(o) = "FALSE" => ~Holds(op, z)
      <4> HIDE DEF z, Fixed
      <4> QED
        BY <2>1, <3>1, FixedSound
    <3>3. ASSUME NEW x \in 0 .. 1
          PROVE  CmpSystem(op, z, Lo(o), Up(o), x) <=> x = Means(o)[u]
      <4>1. PICK k \in Int : z = One * k
        BY <2>1 DEF Multiples
      <4> HIDE DEF z
      <4>2. CmpSystem(op, z, Lo(o), Up(o), x) <=> (x = 1 <=> Holds(op, z))
        BY <2>1, <4>1, CmpExact DEF Binary
      <4> QED
        BY <2>1, <4>2
    <3> HIDE DEF z, Fixed
    <3> QED
      BY <2>1, <3>2, <3>3 DEF z
  <2> QED
    BY <2>2, <2>3
<1> HIDE DEF Fixed, T
<1>8. CASE Fixed(o) = "TRUE" /\ New(1, 1, Means(o), Rows(o, 1, 1))
           /\ term_is_all_integer(T(o)) /\ Infty \notin {Lo(o), Up(o)}
  <2>1. \A u \in UserPoint : Means(o)[u] = 1
    BY <1>7, <1>8
  <2>2. 1 \in 0 .. 1 /\ 1 <= 1 /\ 1 .. 1 = {1}
    OBVIOUS
  <2> QED
    BY <1>3, <1>4, <1>8, <2>1, <2>2
<1>9. CASE Fixed(o) = "FALSE" /\ New(0, 0, Means(o), Rows(o, 0, 0))
           /\ term_is_all_integer(T(o)) /\ Infty \notin {Lo(o), Up(o)}
  <2>1. \A u \in UserPoint : Means(o)[u] = 0
    BY <1>7, <1>9
  <2>2. 0 \in 0 .. 1 /\ 0 <= 0 /\ 0 .. 0 = {0}
    OBVIOUS
  <2> QED
    BY <1>3, <1>4, <1>9, <2>1, <2>2
<1>10. CASE Fixed(o) = "OPEN" /\ New(0, 1, Means(o), Rows(o, 0, 1))
            /\ term_is_all_integer(T(o)) /\ Infty \notin {Lo(o), Up(o)}
  <2>1. \A u \in feasible : \A x \in 0 .. 1 :
           CmpSystem(op, Value(T(o), u, meant[u]), Lo(o), Up(o), x) <=> x = Means(o)[u]
    BY <1>3, <1>7, <1>10
  <2>2. 0 \in 0 .. 1 /\ 1 \in 0 .. 1 /\ 0 <= 1 /\ 0 # 1
    OBVIOUS
  <2> QED
    BY <1>3, <1>4, <1>10, <2>1, <2>2
<1> QED
  BY <1>1, <1>5, <1>8, <1>9, <1>10

\* The values of a stacked boolean result, and the stack below some results.
LEMMA StackedBool ==
  ASSUME TypeInv, NEW i \in 1 .. Len(stack), Kind(i) = "bool", NEW u \in UserPoint
  PROVE  meant[u][stack[i]] \in Binary
<1> DEFINE k == stack[i]
<1>1. k \in DOMAIN results /\ results[k] \in Result /\ results[k].kind = "bool"
  BY DEF TypeInv, Kind
<1>2. meant[u][k] \in Domain(results[k].kind, results[k].lo, results[k].up)
  BY <1>1 DEF TypeInv
<1> HIDE DEF k
<1>3. meant[u][k] \in Binary
  BY <1>1, <1>2, DomainType
<1> QED
  BY <1>3 DEF k

LEMMA StackPrefix ==
  ASSUME TypeInv, NEW m \in 0 .. Len(stack)
  PROVE  SubSeq(stack, 1, m) \in Seq(DOMAIN results) /\ Len(SubSeq(stack, 1, m)) <= Len(results)
<1> DEFINE D == DOMAIN results
<1>1. /\ stack \in Seq(D) /\ Len(stack) <= Len(results) /\ Len(stack) \in Nat
      /\ Len(results) \in Nat /\ m \in Int /\ 1 \in Int
      /\ \A i \in 1 .. m : stack[i] \in D
  BY DEF TypeInv
<1> HIDE DEF D
<1>2. /\ SubSeq(stack, 1, m) \in Seq(D)
      /\ Len(SubSeq(stack, 1, m)) = IF 1 <= m THEN m - 1 + 1 ELSE 0
  BY <1>1, SubSeqProperties
<1> QED
  BY <1>1, <1>2 DEF D

\* Boolean operators: and, or, xor.
LEMMA BinaryKeeps ==
  ASSUME TypeInv, Exactly, NEW op \in BoolOps, i_vbool_binary(op), prog' = prog
  PROVE  TypeInv' /\ Exactly'
<1> DEFINE n == Len(stack)
           a == stack[n - 1]
           b == stack[n]
           V == [u \in UserPoint |-> BoolMeaning(op, meant[u][a], meant[u][b])]
           R == {q \in points \X Domain("bool", 0, 1) : BoolRows(op, q[1][2][a], q[1][2][b], q[2])}
           under == SubSeq(stack, 1, n - 2)
<1>1. /\ n >= 2 /\ n \in Nat /\ Kind(n - 1) = "bool" /\ Kind(n) = "bool"
      /\ Created("bool", 0, 1, V, under, R)
  <2>1. n \in Nat
    BY DEF TypeInv
  <2>2. n >= 2 /\ Kind(n - 1) = "bool" /\ Kind(n) = "bool"
    BY DEF i_vbool_binary
  <2>3. Created("bool", 0, 1, V, under, R)
    BY DEF i_vbool_binary, NewResult, Created
  <2> QED
    BY <2>1, <2>2, <2>3
<1>2. \A u \in UserPoint : meant[u][a] \in Binary /\ meant[u][b] \in Binary
  BY <1>1, StackedBool
<1>3. \A u \in UserPoint : V[u] \in 0 .. 1
  BY <1>2 DEF BoolMeaning, BoolOps, Binary
<1>4. ASSUME NEW u \in feasible, NEW x \in 0 .. 1
      PROVE  <<<<u, meant[u]>>, x>> \in R <=> x = V[u]
  <2>1. u \in UserPoint /\ <<u, meant[u]>> \in points
    BY DEF Exactly, TypeInv
  <2>2. BoolRows(op, meant[u][a], meant[u][b], x) <=> x = BoolMeaning(op, meant[u][a], meant[u][b])
    <3> HIDE DEF a, b
    <3>1. meant[u][a] \in Binary /\ meant[u][b] \in Binary /\ x \in Binary
      BY <1>2, <2>1 DEF Binary
    <3> QED
      BY <3>1, BoolExact
  <2>3. <<<<u, meant[u]>>, x>> \in R <=> BoolRows(op, meant[u][a], meant[u][b], x)
    BY <2>1 DEF Domain
  <2> QED
    BY <2>1, <2>2, <2>3
<1>5. under \in Seq(DOMAIN results) /\ Len(under) <= Len(results)
  <2>1. n - 2 \in 0 .. Len(stack)
    BY <1>1
  <2> QED
    BY <2>1, StackPrefix
<1>6. R \in SUBSET (points \X Domain("bool", 0, 1))
  OBVIOUS
<1>7. [kind |-> "bool", lo |-> 0, up |-> 1] \in Result /\ Domain("bool", 0, 1) = 0 .. 1
  BY DEF Result, Domain
<1> HIDE DEF V, R, under
<1>8. PICK W, Q, s : W = V /\ Q = R /\ s = under
  OBVIOUS
<1>9. /\ [kind |-> "bool", lo |-> 0, up |-> 1] \in Result
      /\ \A u \in UserPoint : W[u] \in Domain("bool", 0, 1)
      /\ s \in Seq(DOMAIN results) /\ Len(s) <= Len(results)
      /\ Q \in SUBSET (points \X Domain("bool", 0, 1))
      /\ \A u \in feasible : \A x \in Domain("bool", 0, 1) :
           <<<<u, meant[u]>>, x>> \in Q <=> x = W[u]
      /\ Created("bool", 0, 1, W, s, Q)
  BY <1>1, <1>3, <1>4, <1>5, <1>6, <1>7, <1>8
<1> QED
  BY ONLY TypeInv, Exactly, <1>9, CreatedKeeps

\* The negation.
LEMMA NotKeeps ==
  ASSUME TypeInv, Exactly, i_vbool_not, prog' = prog
  PROVE  TypeInv' /\ Exactly'
<1> DEFINE n == Len(stack)
           a == stack[n]
           V == [u \in UserPoint |-> 1 - meant[u][a]]
           R == {q \in points \X Domain("bool", 0, 1) : NotRow(q[1][2][a], q[2])}
           under == SubSeq(stack, 1, n - 1)
<1>1. /\ n >= 1 /\ n \in Nat /\ Kind(n) = "bool"
      /\ Created("bool", 0, 1, V, under, R)
  <2>1. n \in Nat
    BY DEF TypeInv
  <2>2. n >= 1 /\ Kind(n) = "bool"
    BY DEF i_vbool_not
  <2>3. Created("bool", 0, 1, V, under, R)
    BY DEF i_vbool_not, NewResult, Created
  <2> QED
    BY <2>1, <2>2, <2>3
<1>2. \A u \in UserPoint : meant[u][a] \in 0 .. 1
  BY <1>1, StackedBool DEF Binary
<1>3. \A u \in UserPoint : V[u] \in 0 .. 1
  BY <1>2
<1>4. ASSUME NEW u \in feasible, NEW x \in 0 .. 1
      PROVE  <<<<u, meant[u]>>, x>> \in R <=> x = V[u]
  <2>1. u \in UserPoint /\ <<u, meant[u]>> \in points
    BY DEF Exactly, TypeInv
  <2>2. <<<<u, meant[u]>>, x>> \in R <=> NotRow(meant[u][a], x)
    BY <2>1 DEF Domain
  <2>3. meant[u][a] \in 0 .. 1 /\ V[u] = 1 - meant[u][a]
    BY <1>2, <2>1
  <2> QED
    BY <2>2, <2>3 DEF NotRow
<1>5. under \in Seq(DOMAIN results) /\ Len(under) <= Len(results)
  <2>1. n - 1 \in 0 .. Len(stack)
    BY <1>1
  <2> QED
    BY <2>1, StackPrefix
<1>6. R \in SUBSET (points \X Domain("bool", 0, 1))
  OBVIOUS
<1>7. [kind |-> "bool", lo |-> 0, up |-> 1] \in Result /\ Domain("bool", 0, 1) = 0 .. 1
  BY DEF Result, Domain
<1> HIDE DEF V, R, under
<1>8. PICK W, Q, s : W = V /\ Q = R /\ s = under
  OBVIOUS
<1>9. /\ [kind |-> "bool", lo |-> 0, up |-> 1] \in Result
      /\ \A u \in UserPoint : W[u] \in Domain("bool", 0, 1)
      /\ s \in Seq(DOMAIN results) /\ Len(s) <= Len(results)
      /\ Q \in SUBSET (points \X Domain("bool", 0, 1))
      /\ \A u \in feasible : \A x \in Domain("bool", 0, 1) :
           <<<<u, meant[u]>>, x>> \in Q <=> x = W[u]
      /\ Created("bool", 0, 1, W, s, Q)
  BY <1>1, <1>3, <1>4, <1>5, <1>6, <1>7, <1>8
<1> QED
  BY ONLY TypeInv, Exactly, <1>9, CreatedKeeps

\* The bounds of a term are numbers or infinite, whatever the points are.
LEMMA BoundIn ==
  ASSUME NEW N, NEW t \in [mono : Seq(Int \X N), const : Int], NEW low, NEW high,
         \A v \in Named(t) : low[v] \in Int \cup {Infty} /\ high[v] \in Int \cup {Infty}
  PROVE  BoundOf(t, low, high) \in Int \cup {Infty}
<1> DEFINE n == Len(t.mono)
           bound(m) == IF m[1] > 0 THEN low[m[2]] ELSE high[m[2]]
           b == [i \in DOMAIN t.mono |-> t.mono[i][1] * bound(t.mono[i])]
<1>1. /\ n \in Nat /\ DOMAIN t.mono = 1 .. n /\ t.const \in Int
      /\ \A i \in 1 .. n : t.mono[i][1] \in Int /\ t.mono[i][2] \in Named(t)
  BY DEF Named
<1>2. CASE \E i \in DOMAIN t.mono : bound(t.mono[i]) = Infty
  BY <1>2 DEF BoundOf
<1>3. CASE ~\E i \in DOMAIN t.mono : bound(t.mono[i]) = Infty
  <2>1. BoundOf(t, low, high) = Sum(b) + t.const
    BY <1>3 DEF BoundOf
  <2>2. ASSUME NEW i \in 1 .. n PROVE b[i] \in Int
    <3> DEFINE c == t.mono[i][1]
               v == t.mono[i][2]
    <3>1. c \in Int /\ v \in Named(t) /\ b[i] = c * bound(t.mono[i])
      BY <1>1
    <3>2. bound(t.mono[i]) \in Int
      BY <1>1, <1>3
    <3> HIDE DEF c, b, bound
    <3> QED
      BY <3>1, <3>2
  <2>3. b \in [1 .. n -> Int]
    BY <1>1, <2>2
  <2> HIDE DEF b, n
  <2>4. Sum(b) \in Int
    BY <1>1, <2>3, SumWhole
  <2> QED
    BY <1>1, <2>1, <2>4
<1> QED
  BY <1>2, <1>3

LEMMA BoundType ==
  ASSUME TypeInv, NEW t \in Terms
  PROVE  /\ term_get_lower_bound(t) \in Int \cup {Infty}
         /\ term_get_upper_bound(t) \in Int \cup {Infty}
<1>1. ASSUME NEW v \in Named(t)
      PROVE  LowerOf(t)[v] \in Int \cup {Infty} /\ UpperOf(t)[v] \in Int \cup {Infty}
  <2>1. v \in Nameable
    BY DEF Terms, Named
  <2>2. CASE v \in Var
    BY <2>2, SourcesAssumption DEF LowerOf, UpperOf, lower, upper
  <2>3. CASE v \notin Var
    <3>1. v \in DOMAIN results /\ results[v] \in Result
      BY <2>1, <2>3 DEF Nameable, TypeInv
    <3> QED
      BY <2>3, <3>1 DEF LowerOf, UpperOf, lower, upper, Result
  <2> QED
    BY <2>2, <2>3
<1>2. t \in [mono : Seq(Int \X Nameable), const : Int]
  BY DEF Terms
<1> QED
  BY <1>1, <1>2, BoundIn DEF term_get_lower_bound, term_get_upper_bound

\* The absolute value: its bound is the larger one of the two parts.
LEMMA AbsKeeps ==
  ASSUME WholeConstants, TypeInv, Exactly, i_vabs, prog' = prog
  PROVE  TypeInv' /\ Exactly'
<1> DEFINE T(o) == o.lhs
           Lo(o) == term_get_lower_bound(T(o))
           Up(o) == term_get_upper_bound(T(o))
           Abs(z) == IF z < 0 THEN -z ELSE z
           Means(o) == [u \in UserPoint |-> Abs(Value(T(o), u, meant[u]))]
           Bound(o) == AbsBound(Lo(o), Up(o))
           Rows(o) ==
             {q \in points \X Domain("abs", 0, Bound(o)) :
                AbsSystem(Value(T(o), q[1][1], q[1][2]), Lo(o), Up(o), q[2])}
<1>1. PICK o \in Operands(CmpSides) :
         \/ Exit(182) \/ Exit(183) \/ Exit(184)
         \/ /\ term_is_all_integer(T(o)) /\ Infty \notin {Lo(o), Up(o)}
            /\ Created("abs", 0, Bound(o), Means(o), Below, Rows(o))
  BY DEF i_vabs, NewResult, Created
<1>2. CASE Exit(182) \/ Exit(183) \/ Exit(184)
  <2>1. {182, 183, 184} \subseteq Errors
    BY DEF Errors
  <2> QED
    BY <1>2, <2>1, ExitKeeps
<1>3. CASE /\ term_is_all_integer(T(o)) /\ Infty \notin {Lo(o), Up(o)}
           /\ Created("abs", 0, Bound(o), Means(o), Below, Rows(o))
  <2>1. T(o) \in Terms /\ T(o).const \in Multiples
    BY OperandTerms
  <2>2. Lo(o) \in Int /\ Up(o) \in Int
    BY <1>3, <2>1, BoundType
  <2>3. ASSUME NEW u \in UserPoint
        PROVE  /\ Lo(o) <= Value(T(o), u, meant[u]) /\ Value(T(o), u, meant[u]) <= Up(o)
               /\ Value(T(o), u, meant[u]) \in Multiples
               /\ Means(o)[u] = Abs(Value(T(o), u, meant[u]))
    <3>1. term_get_lower_bound(T(o)) # Infty /\ term_get_upper_bound(T(o)) # Infty
      BY <1>3
    <3> DEFINE x == Value(T(o), u, meant[u])
    <3>2. Means(o)[u] = Abs(x)
      OBVIOUS
    <3> HIDE DEF T, Means, Abs
    <3>3. /\ term_get_lower_bound(T(o)) <= x /\ x <= term_get_upper_bound(T(o))
          /\ x \in Multiples
      BY <1>3, <2>1, <3>1, TermValue
    <3> QED
      BY <3>2, <3>3
  <2> HIDE DEF T, Lo, Up
  <2>4. Bound(o) \in Nat
    BY <2>2, BoundsType
  <2>5. ASSUME NEW u \in UserPoint
        PROVE  /\ Means(o)[u] \in IntVar(Bound(o))
               /\ \A x \in Int : AbsSystem(Value(T(o), u, meant[u]), Lo(o), Up(o), x) <=> x = Means(o)[u]
    <3> DEFINE z == Value(T(o), u, meant[u])
               lo == Lo(o)
               up == Up(o)
    <3>1. PICK k \in Int : z = One * k
      BY <2>3 DEF Multiples
    <3>2. lo \in Int /\ up \in Int /\ lo <= z /\ z <= up /\ Means(o)[u] = Abs(z)
          /\ Bound(o) = AbsBound(lo, up)
      BY <2>2, <2>3
    <3> HIDE DEF z, lo, up, Means, Bound
    <3>3. AbsBound(lo, up) \in Nat
      BY <3>2, BoundsType
    <3>4. z \in Int /\ (z >= 0 => z % One = 0) /\ (z <= 0 => (-z) % One = 0)
      BY <3>1, Multiple
    <3>5. /\ \A x \in Int : AbsSystem(z, lo, up, x) <=> x = Abs(z)
          /\ Abs(z) <= AbsBound(lo, up)
      <4>1. ASSUME NEW x \in Int
            PROVE  /\ AbsSystem(z, lo, up, x) <=> x = IF z < 0 THEN -z ELSE z
                   /\ (IF z < 0 THEN -z ELSE z) <= AbsBound(lo, up)
        BY <3>1, <3>2, AbsExact
      <4> QED
        BY <4>1
    <3>6. Abs(z) \in IntVar(AbsBound(lo, up))
      <4>1. Abs(z) \in Int /\ 0 <= Abs(z) /\ Abs(z) % One = 0
        BY <3>4
      <4> HIDE DEF Abs
      <4> QED
        BY <3>3, <3>5, <4>1 DEF IntVar
    <3>7. /\ Means(o)[u] \in IntVar(Bound(o))
          /\ \A x \in Int : AbsSystem(z, lo, up, x) <=> x = Means(o)[u]
      BY <3>2, <3>3, <3>5, <3>6
    <3> QED
      BY <3>7 DEF z, lo, up
  <2> DEFINE D == Domain("abs", 0, Bound(o))
  <2>6. D = IntVar(Bound(o)) /\ D \subseteq Int
    BY DEF Domain, IntVar
  <2>7. \A u \in UserPoint : Means(o)[u] \in D
    <3> HIDE DEF Means
    <3> QED
      BY <2>5, <2>6
  <2>8. \A u \in feasible : \A x \in D : <<<<u, meant[u]>>, x>> \in Rows(o) <=> x = Means(o)[u]
    <3> SUFFICES ASSUME NEW u \in feasible, NEW x \in D
                 PROVE  <<<<u, meant[u]>>, x>> \in Rows(o) <=> x = Means(o)[u]
      OBVIOUS
    <3>1. <<u, meant[u]>> \in points /\ u \in UserPoint
      BY DEF Exactly, TypeInv
    <3>2. <<<<u, meant[u]>>, x>> \in Rows(o) <=> AbsSystem(Value(T(o), u, meant[u]), Lo(o), Up(o), x)
      <4> HIDE DEF Bound
      <4> QED
        BY <3>1
    <3>3. x \in Int
      BY <2>6
    <3> HIDE DEF Rows, Means, Bound, D
    <3> QED
      BY <2>5, <3>1, <3>2, <3>3
  <2>9. Rows(o) \in SUBSET (points \X D)
    <3> HIDE DEF Bound
    <3> QED
      OBVIOUS
  <2>10. Created("abs", 0, Bound(o), Means(o), Below, Rows(o))
    BY <1>3
  <2>11. [kind |-> "abs", lo |-> 0, up |-> Bound(o)] \in Result
    <3> HIDE DEF Bound
    <3> QED
      BY <2>4 DEF Result
  <2> HIDE DEF Rows, Means, Bound, D
  <2>12. PICK W, Q, k, z, b :
            W = Means(o) /\ Q = Rows(o) /\ k = "abs" /\ z = 0 /\ b = Bound(o)
    OBVIOUS
  <2>13. /\ [kind |-> k, lo |-> z, up |-> b] \in Result
         /\ \A u \in UserPoint : W[u] \in Domain(k, z, b)
         /\ Below \in Seq(DOMAIN results) /\ Len(Below) <= Len(results)
         /\ Q \in SUBSET (points \X Domain(k, z, b))
         /\ \A u \in feasible : \A x \in Domain(k, z, b) :
              <<<<u, meant[u]>>, x>> \in Q <=> x = W[u]
         /\ Created(k, z, b, W, Below, Q)
    BY <2>7, <2>8, <2>9, <2>10, <2>11, <2>12, BelowStack DEF D
  <2> QED
    BY ONLY TypeInv, Exactly, <2>13, CreatedKeeps
<1> QED
  BY <1>1, <1>2, <1>3

\* A constraint keeps the points G and is meant to keep the points H.
LEMMA RestrictedKeeps ==
  ASSUME TypeInv, Exactly, NEW G \in SUBSET points, NEW H \in SUBSET feasible,
         \A u \in feasible : <<u, meant[u]>> \in G <=> u \in H,
         points' = G, feasible' = H, UNCHANGED <<prog, results, meant, error>>,
         stack' \in Seq(DOMAIN results), Len(stack') <= Len(results),
         phase' \in {"expr", "bigM", "indicator"}
  PROVE  TypeInv' /\ Exactly'
<1>1. TypeInv'
  BY DEF TypeInv, MaxResult
<1>2. G = {<<u, meant[u]>> : u \in H}
  BY DEF Exactly
<1> QED
  BY <1>1, <1>2 DEF Exactly

\* A conditional constraint, in its then or its else part.
LEMMA CondKeeps ==
  ASSUME TypeInv, Exactly, ConditionReady, NEW type \in ConTypes,
         NEW o \in Operands(ConSides), NEW then \in BOOLEAN, NEW indicator \in BOOLEAN,
         handle_vif_then_else(type, o, then, indicator), prog' = prog
  PROVE  TypeInv' /\ Exactly'
<1> DEFINE vif == stack[1]
           t == [term_sub_term(o.lhs, o.rhs) EXCEPT !.const = 0]
           rhs == o.rhs.const - o.lhs.const
           bound == [s \in SidesOf(type) |-> IF s = "RHS" THEN term_get_upper_bound(t)
                                                          ELSE term_get_lower_bound(t)]
           wanted(side, u, r) == CondMeaning(side, then, r[vif], Value(t, u, r), rhs)
           row(side, u, r) ==
             IF indicator THEN wanted(side, u, r)
             ELSE CondRow(side, then, r[vif], Value(t, u, r), bound[side], rhs)
           G == {p \in points : \A s \in SidesOf(type) : row(s, p[1], p[2])}
           H == {u \in feasible : \A s \in SidesOf(type) : wanted(s, u, meant[u])}
<1>1. \/ Exit(181) \/ Exit(179)
      \/ /\ indicator \/ \A s \in SidesOf(type) : bound[s] # Infty
         /\ points' = G /\ feasible' = H
         /\ stack' = IF then THEN <<vif>> ELSE <<>>
         /\ phase' = IF ~then THEN "expr" ELSE IF indicator THEN "indicator" ELSE "bigM"
         /\ UNCHANGED <<results, meant, error>>
  BY DEF handle_vif_then_else
<1>2. CASE Exit(181) \/ Exit(179)
  <2>1. {181, 179} \subseteq Errors
    BY DEF Errors
  <2> QED
    BY <1>2, <2>1, ExitKeeps
<1>3. CASE /\ indicator \/ \A s \in SidesOf(type) : bound[s] # Infty
           /\ points' = G /\ feasible' = H
           /\ stack' = IF then THEN <<vif>> ELSE <<>>
           /\ phase' = IF ~then THEN "expr" ELSE IF indicator THEN "indicator" ELSE "bigM"
           /\ UNCHANGED <<results, meant, error>>
  <2>1. /\ t \in Terms /\ rhs \in Int /\ SidesOf(type) \subseteq {"RHS", "LHS"}
    <3>1. o.lhs \in Terms /\ o.rhs \in Terms
      BY OperandTerms
    <3>2. rhs \in Int
      BY <3>1 DEF Terms
    <3> QED
      BY <3>1, <3>2, Difference DEF SidesOf, ConTypes
  <2>2. /\ 1 \in 1 .. Len(stack) /\ Kind(1) = "bool"
        /\ vif \in DOMAIN results /\ 1 <= Len(results)
    <3>1. Len(Below) = 1 /\ Kind(1) = "bool" /\ 1 \in 1 .. Len(Below)
      BY DEF ConditionReady
    <3>2. 1 \in 1 .. Len(stack) /\ 1 <= Len(results)
      BY <3>1, BelowStack
    <3> QED
      BY <3>1, <3>2 DEF TypeInv
  <2>3. ASSUME NEW u \in feasible, NEW s \in SidesOf(type)
        PROVE  row(s, u, meant[u]) <=> wanted(s, u, meant[u])
    <3> DEFINE z == Value(t, u, meant[u])
               b == bound[s]
               v == meant[u][vif]
    <3>1. u \in UserPoint /\ s \in {"RHS", "LHS"}
      BY <2>1 DEF TypeInv
    <3>2. v \in Binary
      BY <2>2, <3>1, StackedBool
    <3>3. b = IF s = "RHS" THEN term_get_upper_bound(t) ELSE term_get_lower_bound(t)
      OBVIOUS
    <3>4. z \in Int /\ (b # Infty => b \in Int /\ Sided(s, z, b))
      <4> HIDE DEF t, b
      <4> QED
        BY <2>1, <3>1, <3>3, TermValue DEF Sided
    <3>5. CASE indicator
      BY <3>5
    <3>6. CASE ~indicator
      <4>1. b # Infty
        BY <1>3, <3>6
      <4> HIDE DEF z, b, v, rhs
      <4>2. CondRow(s, then, v, z, b, rhs) <=> CondMeaning(s, then, v, z, rhs)
        BY <2>1, <3>1, <3>2, <3>4, <4>1, CondExact
      <4> QED
        BY <3>6, <4>2 DEF z, b, v
    <3> QED
      BY <3>5, <3>6
  <2>4. G \in SUBSET points /\ H \in SUBSET feasible
    OBVIOUS
  <2>5. \A u \in feasible : <<u, meant[u]>> \in G <=> u \in H
    <3> SUFFICES ASSUME NEW u \in feasible PROVE <<u, meant[u]>> \in G <=> u \in H
      OBVIOUS
    <3>1. <<u, meant[u]>> \in points
      BY DEF Exactly
    <3>2. <<u, meant[u]>> \in G <=> \A s \in SidesOf(type) : row(s, u, meant[u])
      <4> HIDE DEF row
      <4> QED
        BY <3>1
    <3>3. u \in H <=> \A s \in SidesOf(type) : wanted(s, u, meant[u])
      <4> HIDE DEF wanted
      <4> QED
        OBVIOUS
    <3> HIDE DEF G, H, row, wanted
    <3> QED
      BY <2>3, <3>2, <3>3
  <2>6. /\ stack' \in Seq(DOMAIN results) /\ Len(stack') <= Len(results)
        /\ phase' \in {"expr", "bigM", "indicator"}
    <3> HIDE DEF vif
    <3>1. <<vif>> \in Seq(DOMAIN results) /\ Len(<<vif>>) = 1
      BY <2>2
    <3>2. <<>> \in Seq(DOMAIN results) /\ Len(<<>>) = 0 /\ Len(results) \in Nat
      BY DEF TypeInv
    <3> QED
      <4>1. phase' \in {"expr", "bigM", "indicator"}
        BY <1>3
      <4>2. stack' = <<vif>> \/ stack' = <<>>
        BY <1>3
      <4>3. stack' \in Seq(DOMAIN results) /\ Len(stack') \in {0, 1}
        BY <3>1, <3>2, <4>2
      <4>4. \A k \in {0, 1} : k <= Len(results)
        BY <2>2, <3>2
      <4> QED
        BY <4>1, <4>3, <4>4
  <2> HIDE DEF G, H
  <2>7. PICK g, h : g = G /\ h = H
    OBVIOUS
  <2>8. /\ g \in SUBSET points /\ h \in SUBSET feasible
        /\ \A u \in feasible : <<u, meant[u]>> \in g <=> u \in h
        /\ points' = g /\ feasible' = h
        /\ UNCHANGED <<prog, results, meant, error>>
    BY <1>3, <2>4, <2>5, <2>7
  <2> QED
    BY ONLY TypeInv, Exactly, <2>6, <2>8, RestrictedKeeps
<1> QED
  BY <1>1, <1>2, <1>3

\* A constraint of its own.
LEMMA ConstraintKeeps ==
  ASSUME TypeInv, Exactly, NEW type \in ConTypes, i_constraint(type), prog' = prog
  PROVE  TypeInv' /\ Exactly'
<1> DEFINE T(o) == term_sub_term(o.lhs, o.rhs)
           Hold(o, u, r) == \A s \in SidesOf(type) : Sided(s, Value(T(o), u, r), 0)
           G(o) == {p \in points : Hold(o, p[1], p[2])}
           H(o) == {u \in feasible : Hold(o, u, meant[u])}
<1>1. PICK o \in Operands(ConSides) :
         \/ Exit(106)
         \/ /\ points' = G(o) /\ feasible' = H(o) /\ stack' = <<>>
            /\ UNCHANGED <<results, phase, meant, error>>
  BY DEF i_constraint
<1>2. CASE Exit(106)
  <2>1. 106 \in Errors
    BY DEF Errors
  <2> QED
    BY <1>2, <2>1, ExitKeeps
<1>3. CASE /\ points' = G(o) /\ feasible' = H(o) /\ stack' = <<>>
           /\ UNCHANGED <<results, phase, meant, error>>
  <2>1. /\ stack' \in Seq(DOMAIN results) /\ Len(stack') <= Len(results)
        /\ phase' \in {"expr", "bigM", "indicator"}
    <3>1. <<>> \in Seq(DOMAIN results) /\ Len(<<>>) = 0 /\ Len(results) \in Nat
      BY DEF TypeInv
    <3> QED
      BY <1>3, <3>1 DEF TypeInv
  <2>2. \A u \in feasible : <<u, meant[u]>> \in G(o) <=> u \in H(o)
    <3> HIDE DEF Hold
    <3> QED
      BY DEF Exactly
  <2>3. G(o) \in SUBSET points /\ H(o) \in SUBSET feasible
    <3> HIDE DEF Hold
    <3> QED
      OBVIOUS
  <2> HIDE DEF G, H
  <2>4. PICK g, h : g = G(o) /\ h = H(o)
    OBVIOUS
  <2>5. /\ g \in SUBSET points /\ h \in SUBSET feasible
        /\ \A u \in feasible : <<u, meant[u]>> \in g <=> u \in h
        /\ points' = g /\ feasible' = h
        /\ UNCHANGED <<prog, results, meant, error>>
    BY <1>3, <2>2, <2>3, <2>4
  <2> QED
    BY ONLY TypeInv, Exactly, <2>1, <2>5, RestrictedKeeps
<1> QED
  BY <1>1, <1>2, <1>3
----------------------------------------------------------------------------
(* The theorems.                                                           *)

LEMMA InitExactly == Init => TypeInv /\ Exactly
<1> SUFFICES ASSUME Init PROVE TypeInv /\ Exactly
  OBVIOUS
<1>1. results = <<>> /\ results \in Seq(Result) /\ Len(results) = 0 /\ DOMAIN results = {}
  BY DEF Init
<1>2. stack = <<>> /\ stack \in Seq(DOMAIN results) /\ Len(stack) = 0
  BY DEF Init
<1>3. prog \in Sources /\ MaxResult \in Nat
  BY SourcesAssumption DEF Init, MaxResult
<1>4. meant \in [UserPoint -> Seq(Int)] /\ \A u \in UserPoint : meant[u] = <<>>
  BY DEF Init
<1>5. TypeInv
  BY <1>1, <1>2, <1>3, <1>4 DEF Init, TypeInv, Errors
<1>6. Exactly
  BY <1>4 DEF Init, Exactly
<1> QED
  BY <1>5, <1>6

LEMMA NextExactly ==
  ASSUME WholeConstants, TypeInv, Exactly, [Next]_vars
  PROVE  TypeInv' /\ Exactly'
<1>1. CASE UNCHANGED vars
  BY <1>1 DEF vars, TypeInv, Exactly, MaxResult
<1>2. CASE Next
  <2>0. prog' = prog
    BY <1>2 DEF Next
  <2>1. CASE \E op \in CmpOps : handle_vbool_cmp(op)
    BY <2>0, <2>1, CmpKeeps
  <2>2. CASE \E op \in BoolOps : i_vbool_binary(op)
    BY <2>0, <2>2, BinaryKeeps
  <2>3. CASE i_vbool_not
    BY <2>0, <2>3, NotKeeps
  <2>4. CASE i_vabs
    BY <2>0, <2>4, AbsKeeps
  <2>5. CASE \E type \in ConTypes : \E indicator \in BOOLEAN : vif_then(type, indicator)
    BY <2>0, <2>5, CondKeeps DEF vif_then
  <2>6. CASE \E type \in ConTypes : vif_else(type)
    <3>1. (phase = "indicator") \in BOOLEAN /\ FALSE \in BOOLEAN
      OBVIOUS
    <3> QED
      BY <2>0, <2>6, <3>1, CondKeeps DEF vif_else
  <2>7. CASE \E type \in ConTypes : i_constraint(type)
    BY <2>0, <2>7, ConstraintKeeps
  <2>8. CASE vif_end
    <3>1. <<>> \in Seq(DOMAIN results) /\ Len(<<>>) = 0 /\ Len(results) \in Nat
      BY DEF TypeInv
    <3> QED
      BY <2>0, <2>8, <3>1 DEF vif_end, TypeInv, Exactly, MaxResult
  <2> QED
    BY <1>2, <2>1, <2>2, <2>3, <2>4, <2>5, <2>6, <2>7, <2>8 DEF Next
<1> QED
  BY <1>1, <1>2

LEMMA ExactlyAlways == ASSUME WholeConstants PROVE Spec => [](TypeInv /\ Exactly)
<1>1. Init => TypeInv /\ Exactly
  BY InitExactly
<1>2. TypeInv /\ Exactly /\ [Next]_vars => (TypeInv /\ Exactly)'
  BY NextExactly
<1> QED
  BY <1>1, <1>2, PTL DEF Spec

\* Every variable and every set of vinst.c's translation has its type; above
\* all the bounds of a result variable are a range and its values are numbers.
THEOREM TranslationTyped == ASSUME WholeConstants PROVE Spec => []TypeOK
<1>1. ASSUME TypeInv, Exactly PROVE TypeOK
  <2>1. /\ prog \in Sources /\ stack \in Seq(DOMAIN results)
        /\ phase \in {"expr", "bigM", "indicator"} /\ feasible \subseteq UserPoint
        /\ error \in {0, 106, 177, 179, 181, 182, 183, 184, 185}
    BY <1>1 DEF TypeInv, Errors
  <2>2. Len(stack) <= MaxResult
    <3>1. /\ Len(stack) \in Nat /\ Len(results) \in Nat /\ MaxResult \in Nat
          /\ Len(stack) <= Len(results) /\ Len(results) <= MaxResult
      BY <1>1, SourcesAssumption DEF TypeInv, MaxResult
    <3> QED
      BY <3>1
  <2>3. \A k \in DOMAIN results :
           /\ results[k] \in Result /\ results[k].kind \in {"bool", "abs"}
           /\ 0 <= results[k].lo /\ results[k].lo <= results[k].up
    BY <1>1 DEF TypeInv, Result
  <2>4. ASSUME NEW u \in UserPoint PROVE meant[u] \in [DOMAIN results -> Int]
    <3>1. meant[u] \in Seq(Int) /\ Len(meant[u]) = Len(results) /\ results \in Seq(Result)
      BY <1>1 DEF TypeInv
    <3> QED
      BY <3>1
  <2>5. meant \in [UserPoint -> [DOMAIN results -> Int]]
    <3>1. meant \in [UserPoint -> Seq(Int)]
      BY <1>1 DEF TypeInv
    <3> QED
      BY <2>4, <3>1
  <2>6. points \subseteq UserPoint \X [DOMAIN results -> Int]
    BY <1>1, <2>1, <2>4 DEF Exactly
  <2> QED
    BY <2>1, <2>2, <2>3, <2>5, <2>6 DEF TypeOK
<1>2. TypeInv /\ Exactly => TypeOK
  BY <1>1
<1>3. Spec => [](TypeInv /\ Exactly)
  BY ExactlyAlways
<1> QED
  BY <1>2, <1>3, PTL

\* No point of the model is cut off: every big M, every bound of an internal
\* variable and every row of handle_vbool_cmp, i_vbool_and, i_vbool_or,
\* i_vbool_xor, i_vbool_not, i_vabs and generate_conditional_constraint admits
\* it, for any program whose comparisons have whole constants.
THEOREM NoPointLost == ASSUME WholeConstants PROVE Spec => []NothingCut
<1>1. TypeInv /\ Exactly => NothingCut
  BY DEF Exactly, NothingCut
<1>2. Spec => [](TypeInv /\ Exactly)
  BY ExactlyAlways
<1> QED
  BY <1>1, <1>2, PTL

\* No other point is admitted, and no result variable is left a choice: a
\* condition that holds is triggered, one that does not is not.
THEOREM NoPointGained == ASSUME WholeConstants PROVE Spec => []NothingAdded
<1>1. TypeInv /\ Exactly => NothingAdded
  BY DEF Exactly, NothingAdded
<1>2. Spec => [](TypeInv /\ Exactly)
  BY ExactlyAlways
<1> QED
  BY <1>1, <1>2, PTL
============================================================================
