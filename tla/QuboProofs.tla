----------------------------- MODULE QuboProofs ----------------------------
(***************************************************************************)
(* The decomposition of the slack by addcon_as_qubo, for every constraint  *)
(* and every limit: the slack variables take all values from 0 to the      *)
(* largest one needed, and the squared term vanishes exactly where the     *)
(* constraint holds.  Then the objective that several statements and       *)
(* penalties add up to.                                                    *)
(***************************************************************************)
EXTENDS Qubo, Iteration, SequenceTheorems, TLAPS

\* The values taken so far, from 0 without a gap.
Upto(n) == reach = 0 .. n

\* The digits of the rest below bit are covered.
Digitwise == \E q, r \in Nat : sval = bit * q + r /\ r < bit /\ Upto(p2 - 1 + r)

\* In the first loop p2 - 1 of the slack is covered and sval is the rest.  In
\* the second one the rest is smaller than p2, and the digits of the rest that
\* were looked at, rest % bit, are covered in addition.
SlackInv ==
  /\ TypeOK
  /\ pc = "double" =>
       /\ con.type \in {"RHS", "LHS"} /\ Slack(con) <= Limit
       /\ sval + p2 - 1 = Slack(con) /\ bit = 1 /\ Upto(p2 - 1)
  /\ pc = "bits" =>
       /\ con.type \in {"RHS", "LHS"} /\ Slack(con) <= Limit
       /\ sval + p2 - 1 = Slack(con) /\ sval < p2
       /\ Digitwise
  /\ pc = "square" =>
       /\ con.type \in {"EQUAL", "RHS", "LHS"}
       /\ reach = IF con.type = "EQUAL" THEN {0} ELSE 0 .. Slack(con)
----------------------------------------------------------------------------
\* A slack variable with coefficient k extends the values 0 .. n by k, if k is
\* not larger than the next value.
LEMMA Extend ==
  ASSUME NEW n \in Nat, NEW k \in Nat, k <= n + 1, Upto(n)
  PROVE  With(k) = 0 .. (n + k)
<1>1. ASSUME NEW v \in 0 .. (n + k) PROVE v \in With(k)
  <2>1. CASE v <= n  BY <2>1 DEF With, Upto
  <2>2. CASE v > n
    <3>1. v - k \in 0 .. n /\ v = (v - k) + k  BY <2>2
    <3> QED  BY <3>1 DEF With, Upto
  <2> QED  BY <2>1, <2>2
<1>2. ASSUME NEW v \in With(k) PROVE v \in 0 .. (n + k)
  BY <1>2 DEF With, Upto
<1> QED  BY <1>1, <1>2

\* An even part and the last digit.
LEMMA Halves ==
  ASSUME NEW q \in Int, q >= 0
  PROVE  q = (q % 2) + 2 * (q \div 2) /\ q \div 2 \in Nat /\ q % 2 \in {0, 1}
OBVIOUS

\* The digit looked at and the rest above it.
LEMMA Digits ==
  ASSUME NEW q \in Int, NEW r \in Nat, NEW b \in Nat \ {0}, r < b, q >= 0
  PROVE  /\ (b * q + r) \div b = q
         /\ q = (q % 2) + 2 * (q \div 2) /\ q \div 2 \in Nat /\ q % 2 \in {0, 1}
         /\ b * q + r = (b * 2) * (q \div 2) + ((q % 2) * b + r)
<1>1. (b * q + r) \div b = q
  <2> DEFINE d == (b * q + r) \div b
  <2>1. d \in Int /\ b * d <= b * q + r /\ b * q + r < b * d + b
    OBVIOUS
  <2> HIDE DEF d
  <2>2. CASE d < q
    <3>1. b * (q - d - 1) >= 0
      BY <2>1, <2>2
    <3>2. b * (q - d - 1) = b * q - b * d - b
      BY <2>1
    <3> QED  BY <2>1, <3>1, <3>2
  <2>3. CASE d > q
    <3>1. b * (d - q - 1) >= 0
      BY <2>1, <2>3
    <3>2. b * (d - q - 1) = b * d - b * q - b
      BY <2>1
    <3> QED  BY <2>1, <3>1, <3>2
  <2>4. d = q
    BY <2>1, <2>2, <2>3
  <2> QED  BY <2>4 DEF d
<1>2. ASSUME NEW h \in Nat, NEW e \in {0, 1}, q = 2 * h + e
      PROVE  b * q + r = (b * 2) * h + (e * b + r)
  BY <1>2
<1> QED  BY <1>1, <1>2, Halves

\* The slack of an inequality is a natural number.
LEMMA SlackNat ==
  ASSUME NEW c \in Constraint
  PROVE  Slack(c) \in Nat /\ c.rhs \in Int /\ c.type \in Types
BY QuboAssumption DEF Slack, Bound, Abs
----------------------------------------------------------------------------
\* The strengthened invariant holds initially and every step preserves it.
THEOREM SlackInduction == Spec => []SlackInv
<1> USE QuboAssumption
<1>1. Init => SlackInv
  BY DEF Init, SlackInv, TypeOK
<1>2. SlackInv /\ [Next]_vars => SlackInv'
  <2> SUFFICES ASSUME SlackInv, [Next]_vars PROVE SlackInv'
    OBVIOUS
  <2> USE DEF TypeOK
  <2>1. ASSUME NEW o \in Objective, NEW m \in BOOLEAN, objective(o, m) PROVE SlackInv'
    BY <2>1 DEF objective, slack, SlackInv
  <2>2. ASSUME NEW c \in Constraint, qubo_error(c) PROVE SlackInv'
    BY <2>2 DEF qubo_error, slack, SlackInv
  <2>3. ASSUME NEW c \in Constraint, NEW w \in Weight, qubo_start(c, w) PROVE SlackInv'
    <3>1. c.type \in {"EQUAL", "RHS", "LHS"} /\ Slack(c) \in Nat
      BY <2>3, SlackNat DEF qubo_start, Convertible, Types
    <3>2. TypeOK'
      BY <2>3, <3>1 DEF qubo_start
    <3>3. CASE c.type = "EQUAL"
      BY <2>3, <3>1, <3>2, <3>3 DEF qubo_start, SlackInv
    <3>4. CASE c.type # "EQUAL"
      BY <2>3, <3>1, <3>2, <3>4 DEF qubo_start, SlackInv, Convertible, Upto
    <3> QED  BY <3>3, <3>4
  <2>4. ASSUME qubo_double PROVE SlackInv'
    <3> USE <2>4 DEF qubo_double, Fits
    <3>1. Slack(con) \in Nat
      BY SlackNat DEF SlackInv
    <3>2. With(p2) = 0 .. (p2 - 1 + p2)
      BY Extend DEF SlackInv
    <3>3. TypeOK'
      BY <3>2 DEF SlackInv
    <3> QED  BY <3>1, <3>2, <3>3 DEF SlackInv, Upto
  <2>5. ASSUME qubo_double_end PROVE SlackInv'
    <3> USE <2>5 DEF qubo_double_end, Fits, slack
    <3>1. sval = bit * sval + 0 /\ 0 < bit /\ Upto(p2 - 1 + 0)
      BY DEF SlackInv, Upto
    <3>2. Digitwise'
      BY <3>1 DEF SlackInv, Digitwise, Upto
    <3> QED  BY <3>2 DEF SlackInv
  <2>6. ASSUME qubo_bits PROVE SlackInv'
    <3> USE <2>6 DEF qubo_bits
    <3>1. PICK q \in Nat, r \in Nat :
             sval = bit * q + r /\ r < bit /\ Upto(p2 - 1 + r)
      BY DEF SlackInv, Digitwise
    <3> DEFINE h == q \div 2
               e == q % 2
               n == e * bit + r
    <3>2. (bit * q + r) \div bit = q /\ q = e + 2 * h /\ h \in Nat /\ e \in {0, 1}
          /\ sval = (bit * 2) * h + n
      <4>1. bit \in Nat \ {0} /\ q \in Int /\ q >= 0 /\ r \in Nat /\ r < bit
        BY <3>1 DEF SlackInv
      <4>2. sval = bit * q + r
        BY <3>1
      <4>3. /\ (bit * q + r) \div bit = q
            /\ q = e + 2 * h /\ h \in Nat /\ e \in {0, 1}
            /\ bit * q + r = (bit * 2) * h + n
        BY ONLY <4>1, Digits
      <4> HIDE DEF h, e, n
      <4> QED  BY ONLY <4>2, <4>3
    <3>7. Digit = e
      BY <3>1, <3>2 DEF Digit
    <3> HIDE DEF h, e
    <3>3. n \in Nat /\ n < bit * 2
      <4>1. e * bit = IF e = 0 THEN 0 ELSE bit
        BY <3>2, <3>7 DEF SlackInv
      <4> QED  BY <3>1, <3>2, <3>7, <4>1 DEF SlackInv
    <3>4. reach' = 0 .. (p2 - 1 + n)
      <4>1. CASE e = 0
        BY <3>1, <3>2, <3>7, <4>1 DEF Upto, SlackInv
      <4>2. CASE e = 1
        <5>1. q >= 1 /\ bit <= sval
          <6>1. bit * q = bit + bit * (q - 1) /\ bit * (q - 1) >= 0
            BY <3>2, <3>7, <4>2 DEF SlackInv
          <6> QED  BY <3>1, <3>2, <3>7, <4>2, <6>1 DEF SlackInv
        <5>2. bit <= p2 - 1 + r + 1 /\ p2 - 1 + r \in Nat
          BY <5>1 DEF SlackInv
        <5>3. With(bit) = 0 .. (p2 - 1 + r + bit)
          BY <3>1, <5>2, Extend DEF SlackInv
        <5>4. reach' = With(bit) /\ n = bit + r
          BY <3>1, <3>2, <3>7, <4>2 DEF SlackInv
        <5> QED  BY <3>1, <5>3, <5>4 DEF SlackInv
      <4> QED  BY <3>2, <3>7, <4>1, <4>2
    <3> HIDE DEF n
    <3>5. Digitwise'
      BY <3>2, <3>7, <3>3, <3>4 DEF Digitwise, Upto, SlackInv
    <3>6. TypeOK'
      BY <3>4, <3>3 DEF SlackInv
    <3> QED  BY <3>2, <3>7, <3>3, <3>5, <3>6 DEF SlackInv
  <2>7. ASSUME qubo_bits_end PROVE SlackInv'
    <3> USE <2>7 DEF qubo_bits_end, slack
    <3>1. PICK q \in Nat, r \in Nat :
             sval = bit * q + r /\ r < bit /\ Upto(p2 - 1 + r)
      BY DEF SlackInv, Digitwise
    <3>2. sval < bit
      BY SlackNat DEF SlackInv
    <3>3. q = 0
      <4>1. q >= 1 => bit * (q - 1) >= 0 /\ bit * q = bit + bit * (q - 1)
        BY DEF SlackInv
      <4> QED  BY <3>1, <3>2, <4>1 DEF SlackInv
    <3>4. r = sval
      BY <3>1, <3>3 DEF SlackInv
    <3>5. reach = 0 .. Slack(con)
      BY <3>1, <3>4 DEF SlackInv, Upto
    <3> QED  BY <3>5 DEF SlackInv
  <2>8. ASSUME qubo_square PROVE SlackInv'
    BY <2>8 DEF qubo_square, slack, SlackInv
  <2>9. ASSUME UNCHANGED vars PROVE SlackInv'
    BY <2>9 DEF vars, slack, SlackInv, Upto, Digitwise
  <2> QED
    BY <2>1, <2>2, <2>3, <2>4, <2>5, <2>6, <2>7, <2>8, <2>9 DEF Next
<1> QED
  BY <1>1, <1>2, PTL DEF Spec

\* The loop variables of addcon_as_qubo have their types.
THEOREM LoopsTyped == Spec => []TypeOK
<1>1. SlackInv => TypeOK
  BY DEF SlackInv
<1> QED
  BY <1>1, SlackInduction, PTL

\* For every constraint, right hand side and limit, the slack variables of
\* addcon_as_qubo take all values from 0 to the largest slack and no other.
THEOREM Covered == Spec => []SlackCovered
<1>1. SlackInv => SlackCovered
  BY DEF SlackInv, SlackCovered
<1> QED
  BY <1>1, SlackInduction, PTL

\* A point makes the squared term zero for some value of the slack variables
\* exactly if it satisfies the constraint.
THEOREM Exact == Spec => []PenaltyExact
<1>1. SlackInv => PenaltyExact
  <2> SUFFICES ASSUME SlackInv, pc = "square", NEW u \in Point
               PROVE  Admits(con, u) <=> \E s \in reach : Squared(con, u, s) = 0
    BY DEF PenaltyExact
  <2> DEFINE v == con.value[u]
             d(s) == v + Sign(con) * s - con.rhs
  <2>1. con \in Constraint /\ con.type \in {"EQUAL", "RHS", "LHS"}
        /\ v \in Int /\ con.rhs \in Int /\ con.lower \in Int /\ con.upper \in Int
        /\ con.lower <= v /\ v <= con.upper
    BY QuboAssumption DEF SlackInv, TypeOK
  <2>2. Sign(con) \in {1, -1} /\ Slack(con) \in Nat
    BY <2>1, SlackNat DEF Sign
  <2>3. \A x \in Int : x * x = 0 <=> x = 0
    OBVIOUS
  <2>4. \A s \in reach : s \in Int /\ (Squared(con, u, s) = 0 <=> d(s) = 0)
    <3> SUFFICES ASSUME NEW s \in reach
                 PROVE  s \in Int /\ (Squared(con, u, s) = 0 <=> d(s) = 0)
      OBVIOUS
    <3>1. s \in Int /\ d(s) \in Int
      BY <2>1, <2>2 DEF SlackInv, TypeOK
    <3>2. Squared(con, u, s) = d(s) * d(s)
      BY DEF Squared
    <3> QED  BY <2>3, <3>1, <3>2
  <2>5. CASE con.type = "EQUAL"
    <3>1. reach = {0} /\ d(0) = v - con.rhs
      BY <2>1, <2>2, <2>5 DEF SlackInv
    <3> QED  BY <2>1, <2>4, <2>5, <3>1 DEF Admits
  <2>6. CASE con.type = "RHS"
    <3>1. reach = 0 .. Slack(con) /\ \A s \in reach : d(s) = v + s - con.rhs
      BY <2>1, <2>4, <2>6 DEF SlackInv, Sign
    <3>2. v <= con.rhs => con.rhs - v \in 0 .. Slack(con)
      BY <2>1, <2>6 DEF Slack, Bound, Abs
    <3> QED  BY <2>1, <2>4, <2>6, <3>1, <3>2 DEF Admits
  <2>7. CASE con.type = "LHS"
    <3>1. reach = 0 .. Slack(con) /\ \A s \in reach : d(s) = v - s - con.rhs
      BY <2>1, <2>4, <2>7 DEF SlackInv, Sign
    <3>2. v >= con.rhs => v - con.rhs \in 0 .. Slack(con)
      BY <2>1, <2>7 DEF Slack, Bound, Abs
    <3> QED  BY <2>1, <2>4, <2>7, <3>1, <3>2 DEF Admits
  <2> QED
    BY <2>1, <2>5, <2>6, <2>7
<1> QED
  BY <1>1, SlackInduction, PTL
----------------------------------------------------------------------------
(* The value of the objective.                                             *)

\* What a term of obj_term adds where the slack variables minimise.
Lowest(t, u) ==
  IF t.kind = "declared" THEN t.value[u]
  ELSE Min({t.weight * (Squared(t.con, u, s) - t.con.rhs * t.con.rhs) : s \in t.slack})

SlackOf(c) == IF c.type = "EQUAL" THEN {0} ELSE 0 .. Slack(c)

DeclaredTerm == [kind : {"declared"}, value : [Point -> Int]]
PenaltyTerm == {t \in [kind : {"penalty"}, con : Constraint, weight : Weight, slack : SUBSET Int] :
                  t.con.type \in {"EQUAL", "RHS", "LHS"} /\ t.slack = SlackOf(t.con)}

ObjectiveInv ==
  /\ SlackInv
  /\ linear \in [Point -> Int] /\ offset \in Int
  /\ obj_term \in Seq(DeclaredTerm \cup PenaltyTerm)
  /\ asked \in Seq(Constraint)
  /\ declared.constant \in Int
  /\ declared.linear \in [Point -> Int] /\ declared.higher \in [Point -> Int]

\* The cost of a point is the sum of its parts.
AddsUp(u) ==
  \E s : /\ IsSum(s, [i \in 1 .. Len(obj_term) |-> Lowest(obj_term[i], u)], Len(obj_term))
         /\ Cost(u) = linear[u] + offset + s[Len(obj_term)]
CostSummed == direct = "MIN" => \A u \in Point : AddsUp(u)

\* As long as nothing was declared twice or late, the objective is what the
\* program means.
CostInv ==
  /\ ~objname /\ asked = <<>> =>
       /\ obj_term = <<>> /\ linear = Zero /\ offset = 0
       /\ declared = [constant |-> 0, linear |-> Zero, higher |-> Zero]
  /\ PenaltyCounts
----------------------------------------------------------------------------
\* The lowest value of a penalty, with the constant that goes to the offset,
\* is zero where some value of the slack makes the squared term zero, and
\* positive elsewhere.
LEMMA LowestPenalty ==
  ASSUME NEW t \in PenaltyTerm, NEW u \in Point
  PROVE  LET x == Lowest(t, u) + t.weight * t.con.rhs * t.con.rhs
         IN  /\ Lowest(t, u) \in Int /\ x >= 0
             /\ x = 0 <=> \E s \in t.slack : Squared(t.con, u, s) = 0
<1> DEFINE c == t.con
           w == t.weight
           q(s) == Squared(c, u, s)
           r == c.rhs * c.rhs
           K == {w * q(s) : s \in t.slack}
           C == {w * (q(s) - r) : s \in t.slack}
<1>1. /\ c \in Constraint /\ w \in Nat /\ w > 0 /\ t.slack = SlackOf(c) /\ t.kind = "penalty"
      /\ c.rhs \in Int /\ c.value[u] \in Int
  <2>1. t.con \in Constraint /\ t.weight \in Weight /\ t.kind = "penalty"
        /\ t.slack = SlackOf(t.con)
    BY DEF PenaltyTerm
  <2>2. \A d \in Constraint : d.rhs \in Int /\ d.value[u] \in Int
    BY QuboAssumption
  <2>3. \A d \in Weight : d \in Nat /\ d > 0
    BY QuboAssumption
  <2> QED
    BY <2>1, <2>2, <2>3
<1>2. r \in Int /\ w * r = w * c.rhs * c.rhs
  BY <1>1
<1>3. \A s \in t.slack : q(s) \in Nat
  <2> SUFFICES ASSUME NEW s \in t.slack PROVE q(s) \in Nat
    OBVIOUS
  <2>1. s \in Int /\ Sign(c) \in {1, -1}
    BY <1>1, SlackNat DEF SlackOf, Sign
  <2> DEFINE z == c.value[u] + Sign(c) * s - c.rhs
  <2>2. z \in Int
    BY <1>1, <2>1
  <2> HIDE DEF z
  <2>3. z * z \in Nat
    BY <2>2
  <2> QED
    BY <2>3 DEF z, Squared
<1>4. t.slack # {}
  BY <1>1, SlackNat DEF SlackOf
<1> HIDE DEF q, r
<1>5. PICK s0 \in t.slack : \A s \in t.slack : w * q(s0) <= w * q(s)
  <2>1. K \in SUBSET Nat /\ K # {}
    BY <1>1, <1>3, <1>4
  <2>2. \E m \in K : \A k \in K : m <= k
    <3> HIDE DEF K
    <3> QED
      BY <2>1, Least
  <2> QED
    BY <2>2
<1>6. \A s \in t.slack : w * (q(s) - r) = w * q(s) - w * r /\ w * q(s) \in Nat
  BY <1>1, <1>2, <1>3
<1> DEFINE x0 == w * (q(s0) - r)
<1>7. x0 \in C /\ (\A y \in C : x0 <= y) /\ C \subseteq Int /\ w * r \in Int
  BY <1>1, <1>2, <1>5, <1>6
<1>8. Min(C) = x0
  <2> HIDE DEF C, x0
  <2>1. Min(C) \in C /\ \A y \in C : Min(C) <= y
    BY <1>7 DEF Min
  <2>2. Min(C) <= x0 /\ x0 <= Min(C) /\ Min(C) \in Int /\ x0 \in Int
    BY <1>7, <2>1
  <2> QED
    BY <2>2
<1>9. Lowest(t, u) = x0
  BY <1>1, <1>8 DEF Lowest, q, r
<1>10. x0 + w * r = w * q(s0)
  BY <1>1, <1>2, <1>3, <1>6
<1>11. w * q(s0) = 0 <=> \E s \in t.slack : q(s) = 0
  <2>1. \A n \in Nat : w * n = 0 <=> n = 0
    BY <1>1
  <2> QED
    BY <1>3, <1>5, <1>6, <2>1
<1>12. x0 \in Int /\ w * q(s0) >= 0
  BY <1>6, <1>7
<1> HIDE DEF x0, c, w
<1>13. /\ Lowest(t, u) \in Int /\ Lowest(t, u) + w * c.rhs * c.rhs >= 0
       /\ Lowest(t, u) + w * c.rhs * c.rhs = 0 <=> \E s \in t.slack : q(s) = 0
  BY <1>2, <1>9, <1>10, <1>11, <1>12
<1> QED
  BY <1>13 DEF q, c, w

\* Every term of the objective has a value at every point.
LEMMA LowestType ==
  ASSUME NEW t \in DeclaredTerm \cup PenaltyTerm, NEW u \in Point
  PROVE  Lowest(t, u) \in Int
<1>1. CASE t \in DeclaredTerm
  BY <1>1 DEF DeclaredTerm, Lowest
<1>2. CASE t \in PenaltyTerm
  BY <1>2, LowestPenalty
<1> QED
  BY <1>1, <1>2

LEMMA ObjectiveInitially == Init => ObjectiveInv /\ CostInv
<1> SUFFICES ASSUME Init PROVE ObjectiveInv /\ CostInv
  OBVIOUS
<1>1. SlackInv
  BY QuboAssumption DEF Init, SlackInv, TypeOK
<1>2. Zero \in [Point -> Int]
  BY DEF Zero
<1>3. ObjectiveInv
  BY <1>1, <1>2 DEF Init, ObjectiveInv
<1>4. ASSUME NEW u \in Point PROVE Cost(u) = 0 /\ Intended(u) = 0
  <2>1. Zero[u] = 0 /\ linear = Zero /\ offset = 0 /\ obj_term = <<>> /\ Len(obj_term) = 0
    BY DEF Init, Zero
  <2>2. Intended(u) = 0
    BY <2>1 DEF Init, Intended
  <2>3. Total(LAMBDA t : Part(t, u)) = 0
    <3> DEFINE sum[i \in 0 .. Len(obj_term)] ==
                 IF i = 0 THEN 0 ELSE sum[i - 1] + Part(obj_term[i], u)
    <3>1. \E s : s = [i \in 0 .. Len(obj_term) |->
                        IF i = 0 THEN 0 ELSE s[i - 1] + Part(obj_term[i], u)]
      <4> DEFINE z == [i \in 0 .. 0 |-> 0]
      <4>1. z = [i \in 0 .. Len(obj_term) |->
                   IF i = 0 THEN 0 ELSE z[i - 1] + Part(obj_term[i], u)]
        BY <2>1
      <4> QED
        BY <4>1
    <3>2. sum = [i \in 0 .. Len(obj_term) |->
                   IF i = 0 THEN 0 ELSE sum[i - 1] + Part(obj_term[i], u)]
      BY <3>1
    <3> HIDE DEF sum
    <3>3. sum[0] = 0
      BY <2>1, <3>2
    <3> QED
      BY <2>1, <3>3 DEF Total, sum
  <2> QED
    BY <2>1, <2>2, <2>3 DEF Cost
<1> QED
  BY <1>3, <1>4 DEF Init, CostInv, PenaltyCounts, Deterred

\* The terms of the objective keep their types.
LEMMA ObjectiveTyped == Spec => []ObjectiveInv
<1> USE QuboAssumption
<1>1. Init => ObjectiveInv
  BY ObjectiveInitially
<1>2. ObjectiveInv /\ SlackInv' /\ [Next]_vars => ObjectiveInv'
  <2> SUFFICES ASSUME ObjectiveInv, SlackInv', [Next]_vars PROVE ObjectiveInv'
    OBVIOUS
  <2>0. Zero \in [Point -> Int]
    BY DEF Zero
  <2> DEFINE T == DeclaredTerm \cup PenaltyTerm
  <2>1. ASSUME NEW o \in Objective, NEW m \in BOOLEAN, objective(o, m) PROVE ObjectiveInv'
    <3>1. Declared(o) \in DeclaredTerm
      BY DEF Declared, DeclaredTerm, Plus
    <3>2. obj_term' \in Seq(T)
      <4> HIDE DEF T
      <4>1. obj_term \in Seq(T) /\ Declared(o) \in T
        BY <3>1 DEF ObjectiveInv, T
      <4>2. Append(obj_term, Declared(o)) \in Seq(T)
        BY <4>1, AppendProperties
      <4> QED
        BY <2>1, <4>1, <4>2 DEF objective
    <3>3. linear' \in [Point -> Int] /\ offset' \in Int /\ declared' = o /\ asked' = asked
      BY <2>0, <2>1 DEF objective
    <3> HIDE DEF T
    <3> QED
      BY <3>2, <3>3 DEF ObjectiveInv, T
  <2>2. ASSUME qubo_square PROVE ObjectiveInv'
    <3> DEFINE t == [kind |-> "penalty", con |-> con, weight |-> penalty, slack |-> reach]
    <3>1. t \in PenaltyTerm
      BY <2>2 DEF ObjectiveInv, SlackInv, TypeOK, PenaltyTerm, SlackOf, qubo_square
    <3>2. obj_term' \in Seq(T)
      <4>1. obj_term' = Append(obj_term, t)
        BY <2>2 DEF qubo_square
      <4>2. obj_term \in Seq(T) /\ t \in T
        BY <3>1 DEF ObjectiveInv
      <4> HIDE DEF T, t
      <4> QED
        BY <4>1, <4>2, AppendProperties
    <3>3. asked' \in Seq(Constraint)
      <4>1. asked' = Append(asked, con) /\ asked \in Seq(Constraint) /\ con \in Constraint
        BY <2>2 DEF qubo_square, ObjectiveInv, SlackInv, TypeOK
      <4> QED
        BY <4>1, AppendProperties
    <3>4. SquareConstant \in Int
      <4>1. con \in Constraint /\ penalty \in Weight
        BY DEF ObjectiveInv, SlackInv, TypeOK
      <4>2. con.rhs \in Int /\ penalty \in Int
        <5>1. (\A c \in Constraint : c.rhs \in Int) /\ (\A w \in Weight : w \in Int)
          BY ONLY QuboAssumption DEF QuboAssumption
        <5> QED
          BY ONLY <4>1, <5>1
      <4> QED
        BY <4>2 DEF SquareConstant
    <3>5. offset' \in Int /\ linear' = linear /\ declared' = declared
      BY <2>2, <3>4 DEF qubo_square, ObjectiveInv
    <3> HIDE DEF t, T
    <3> QED
      BY <3>2, <3>3, <3>5 DEF ObjectiveInv, T
  <2>3. CASE UNCHANGED obj
    BY <2>3 DEF obj, ObjectiveInv
  <2> QED
    BY <2>1, <2>2, <2>3 DEF Next, vars, qubo_error, qubo_start, qubo_double, qubo_double_end,
                            qubo_bits, qubo_bits_end
<1> QED
  BY <1>1, <1>2, SlackInduction, PTL DEF Spec

\* Adding up the objective as Cost does.
LEMMA CostIsSum == ObjectiveInv => CostSummed
<1> SUFFICES ASSUME ObjectiveInv, direct = "MIN", NEW u \in Point PROVE AddsUp(u)
  BY DEF CostSummed
<1> DEFINE n == Len(obj_term)
           a == [i \in 1 .. n |-> Lowest(obj_term[i], u)]
           sum[i \in 0 .. n] == IF i = 0 THEN 0 ELSE sum[i - 1] + Part(obj_term[i], u)
<1>1. \A i \in 1 .. n : Part(obj_term[i], u) = Lowest(obj_term[i], u)
  BY DEF Part, Lowest
<1>2. n \in Nat /\ a \in [1 .. n -> Int]
  <2>1. n \in Nat /\ \A i \in 1 .. n : obj_term[i] \in DeclaredTerm \cup PenaltyTerm
    BY DEF ObjectiveInv
  <2> QED
    BY <2>1, LowestType
<1>3. ASSUME NEW s
      PROVE  [i \in 0 .. n |-> IF i = 0 THEN 0 ELSE s[i - 1] + a[i]]
             = [i \in 0 .. n |-> IF i = 0 THEN 0 ELSE s[i - 1] + Part(obj_term[i], u)]
  <2>1. ASSUME NEW i \in 0 .. n, i # 0 PROVE a[i] = Part(obj_term[i], u)
    <3>1. i \in 1 .. n
      BY <1>2, <2>1
    <3> QED
      BY <1>1, <3>1
  <2> HIDE DEF a, n
  <2> QED
    BY <2>1
<1> HIDE DEF a, n
<1>4. \E s : s = [i \in 0 .. n |-> IF i = 0 THEN 0 ELSE s[i - 1] + Part(obj_term[i], u)]
  <2>1. PICK s : IsSum(s, a, n)
    BY <1>2, Summed
  <2>2. s = [i \in 0 .. n |-> IF i = 0 THEN 0 ELSE s[i - 1] + a[i]]
    BY <2>1 DEF IsSum
  <2>3. s = [i \in 0 .. n |-> IF i = 0 THEN 0 ELSE s[i - 1] + Part(obj_term[i], u)]
    BY ONLY <1>3, <2>2
  <2> QED
    BY <2>3
<1>5. sum = [i \in 0 .. n |-> IF i = 0 THEN 0 ELSE sum[i - 1] + Part(obj_term[i], u)]
  BY <1>4
<1>6. Total(LAMBDA t : Part(t, u)) = sum[n]
  BY DEF Total, n
<1> HIDE DEF sum
<1>7. IsSum(sum, a, n)
  BY <1>3, <1>5 DEF IsSum
<1>8. Cost(u) = linear[u] + offset + sum[n]
  BY <1>6 DEF Cost
<1> QED
  BY <1>7, <1>8 DEF AddsUp, a, n

\* A first objective is what it says.
LEMMA DeclaredCost ==
  ASSUME ObjectiveInv, CostInv, CostSummed', ObjectiveInv',
         NEW o \in Objective, NEW m \in BOOLEAN, objective(o, m),
         ~replaced', ~late', direct' = "MIN", NEW u \in Point
  PROVE  Cost(u)' = Intended(u)' /\ asked' = <<>>
<1>1. /\ obj_term = <<>> /\ asked = <<>> /\ asked' = <<>>
  BY DEF objective, CostInv
<1>2. PICK s : /\ IsSum(s, [i \in 1 .. Len(obj_term') |-> Lowest(obj_term'[i], u)], Len(obj_term'))
               /\ Cost(u)' = linear'[u] + offset' + s[Len(obj_term')]
  BY DEF CostSummed, AddsUp
<1>3. o.constant \in Int /\ o.linear[u] \in Int /\ o.higher[u] \in Int
  BY QuboAssumption
<1>4. Intended(u)' = o.constant + o.linear[u] + o.higher[u] /\ offset' = o.constant
  BY DEF Intended, objective
<1>5. CASE o.higher = Zero
  <2>1. linear' = o.linear /\ Len(obj_term') = 0 /\ o.higher[u] = 0
    BY <1>1, <1>5 DEF objective, Zero
  <2>2. s[0] = 0
    BY <1>2, <2>1 DEF IsSum
  <2> QED
    BY <1>1, <1>2, <1>3, <1>4, <2>1, <2>2
<1>6. CASE o.higher # Zero
  <2>1. linear'[u] = 0 /\ obj_term' = <<Declared(o)>> /\ Len(obj_term') = 1
    BY <1>1, <1>6 DEF objective, Zero
  <2>2. Lowest(Declared(o), u) = o.linear[u] + o.higher[u]
    BY DEF Lowest, Declared, Plus
  <2>3. s[0] = 0 /\ s[1] = s[0] + Lowest(Declared(o), u)
    <3> DEFINE a == [i \in 1 .. Len(obj_term') |-> Lowest(obj_term'[i], u)]
    <3>1. a[1] = Lowest(Declared(o), u)
      BY <2>1
    <3>2. IsSum(s, a, 1)
      BY <1>2, <2>1
    <3> HIDE DEF a
    <3> QED
      BY <3>1, <3>2 DEF IsSum
  <2> QED
    BY <1>1, <1>2, <1>3, <1>4, <2>1, <2>2, <2>3
<1> QED
  BY <1>5, <1>6

\* A penalty adds nothing where its constraint holds, and something elsewhere.
LEMMA SquareCost ==
  ASSUME ObjectiveInv, CostSummed, CostSummed', PenaltyExact, qubo_square,
         direct = "MIN", NEW u \in Point
  PROVE  /\ Cost(u) \in Int /\ Cost(u)' \in Int
         /\ Admits(con, u) => Cost(u)' = Cost(u)
         /\ ~Admits(con, u) => Cost(u)' > Cost(u)
<1> DEFINE t == [kind |-> "penalty", con |-> con, weight |-> penalty, slack |-> reach]
           T == DeclaredTerm \cup PenaltyTerm
           n == Len(obj_term)
           a == [i \in 1 .. n |-> Lowest(obj_term[i], u)]
           b == [i \in 1 .. n + 1 |-> Lowest(obj_term'[i], u)]
<1>1. /\ t \in PenaltyTerm /\ t.con = con /\ t.weight = penalty /\ t.slack = reach
      /\ con \in Constraint /\ penalty \in Weight
  BY DEF ObjectiveInv, SlackInv, TypeOK, PenaltyTerm, SlackOf, qubo_square
<1>2. obj_term \in Seq(T) /\ obj_term' = Append(obj_term, t) /\ t \in T
  BY <1>1 DEF ObjectiveInv, qubo_square
<1>3. /\ n \in Nat /\ Len(obj_term') = n + 1 /\ obj_term'[n + 1] = t
      /\ \A i \in 1 .. n : obj_term'[i] = obj_term[i] /\ obj_term[i] \in T
  <2> HIDE DEF T, t
  <2> QED
    BY <1>2, AppendProperties
<1>4. /\ linear' = linear /\ offset' = offset + SquareConstant /\ direct' = "MIN"
      /\ SquareConstant = penalty * con.rhs * con.rhs
  BY DEF qubo_square, SquareConstant
<1>5. PICK s : IsSum(s, a, n) /\ Cost(u) = linear[u] + offset + s[n]
  BY DEF CostSummed, AddsUp
<1>6. PICK z : IsSum(z, b, n + 1) /\ Cost(u)' = linear'[u] + offset' + z[n + 1]
  BY <1>3, <1>4 DEF CostSummed, AddsUp
<1>7. a \in [1 .. n -> Int] /\ b \in [1 .. n + 1 -> Int]
  <2>1. \A i \in 1 .. n + 1 : obj_term'[i] \in T
    <3> HIDE DEF T, t
    <3>1. ASSUME NEW i \in 1 .. n + 1 PROVE obj_term'[i] \in T
      <4>1. i \in 1 .. n \/ i = n + 1
        BY <1>3
      <4> QED
        BY <1>2, <1>3, <4>1
    <3> QED
      BY <3>1
  <2> QED
    BY <1>3, <2>1, LowestType
<1>8. (\A i \in 1 .. n : a[i] = b[i]) /\ b[n + 1] = Lowest(t, u)
  <2>1. n + 1 \in 1 .. n + 1 /\ \A i \in 1 .. n : i \in 1 .. n + 1
    BY <1>3
  <2> HIDE DEF t
  <2> QED
    BY <1>3, <2>1
<1> HIDE DEF a, b, T, t, n
<1>9. s[n] \in Int /\ z[n] = s[n] /\ z[n + 1] = z[n] + b[n + 1]
  <2>1. Int \in SUBSET Int /\ 0 \in Int /\ \A x, y \in Int : x + y \in Int
    OBVIOUS
  <2>2. n \in 0 .. n /\ n \in 0 .. n + 1 /\ n <= n + 1 /\ n <= n /\ n + 1 \in Nat
        /\ n + 1 \in 0 .. n + 1 /\ (n + 1) - 1 = n /\ n + 1 # 0
    BY <1>3
  <2>3. s[n] \in Int
    BY <1>3, <1>5, <1>7, <2>1, <2>2, SumIn
  <2>4. z[n] \in Int
    BY <1>6, <1>7, <2>1, <2>2, SumIn
  <2>5. (\A i \in 1 .. n : a[i] <= b[i]) /\ (\A i \in 1 .. n : b[i] <= a[i])
    BY <1>7, <1>8
  <2> DEFINE k == n + 1
  <2>9. /\ n \in Nat /\ k \in Nat /\ n \in 0 .. n /\ n \in 0 .. k /\ n <= n /\ n <= k
        /\ a \in [1 .. n -> Int] /\ b \in [1 .. k -> Int] /\ IsSum(s, a, n) /\ IsSum(z, b, k)
    BY <1>3, <1>5, <1>6, <1>7, <2>2
  <2> HIDE DEF k
  <2>6. s[n] <= z[n]
    BY ONLY <2>9, <2>5, SumMonotone, ZenonT(30)
  <2>7. z[n] <= s[n]
    BY ONLY <2>9, <2>5, SumMonotone
  <2>8. z[n + 1] = z[(n + 1) - 1] + b[n + 1]
    BY <1>6, <2>2 DEF IsSum
  <2> QED
    BY <2>2, <2>3, <2>4, <2>6, <2>7, <2>8
<1> DEFINE x == Lowest(t, u) + penalty * con.rhs * con.rhs
<1>10. /\ Lowest(t, u) \in Int /\ x >= 0
       /\ x = 0 <=> \E r \in reach : Squared(con, u, r) = 0
  BY <1>1, LowestPenalty
<1>11. Admits(con, u) <=> x = 0
  BY <1>10 DEF PenaltyExact, qubo_square
<1>12. con.rhs \in Int /\ penalty \in Int /\ linear[u] \in Int /\ offset \in Int
       /\ penalty * con.rhs * con.rhs \in Int
  <2>1. con.rhs \in Int /\ penalty \in Int
    BY <1>1, QuboAssumption
  <2> QED
    BY <2>1 DEF ObjectiveInv
<1>13. Cost(u)' = Cost(u) + x /\ Cost(u) \in Int
  <2> DEFINE q == penalty * con.rhs * con.rhs
  <2>1. linear'[u] = linear[u] /\ offset' = offset + q
    BY <1>4
  <2>2. linear[u] \in Int /\ offset \in Int /\ q \in Int
    BY <1>12
  <2> HIDE DEF q
  <2> QED
    BY <1>5, <1>6, <1>8, <1>9, <1>10, <2>1, <2>2 DEF q
<1>14. x \in Int
  BY <1>10, <1>12
<1> HIDE DEF x
<1> QED
  BY <1>10, <1>11, <1>13, <1>14

LEMMA SquareCounts ==
  ASSUME ObjectiveInv, CostInv, CostSummed, CostSummed', PenaltyExact, qubo_square
  PROVE  CostInv'
<1>1. /\ asked' = Append(asked, con) /\ asked \in Seq(Constraint) /\ con \in Constraint
      /\ replaced' = replaced /\ late' = late /\ direct' = direct /\ declared' = declared
  BY DEF qubo_square, ObjectiveInv, SlackInv, TypeOK
<1>2. /\ asked' # <<>> /\ Len(asked') = Len(asked) + 1 /\ Len(asked) \in Nat
      /\ asked'[Len(asked) + 1] = con /\ \A i \in 1 .. Len(asked) : asked'[i] = asked[i]
      /\ DOMAIN asked = 1 .. Len(asked) /\ DOMAIN asked' = 1 .. Len(asked')
  <2>1. /\ Append(asked, con) \in Seq(Constraint) /\ Len(Append(asked, con)) = Len(asked) + 1
        /\ Append(asked, con)[Len(asked) + 1] = con
        /\ \A i \in 1 .. Len(asked) : Append(asked, con)[i] = asked[i]
    BY <1>1, AppendProperties
  <2> QED
    BY <1>1, <2>1
<1>3. ASSUME ~replaced, ~late, direct = "MIN", NEW u \in Point
      PROVE  IF \A i \in DOMAIN asked' : Admits(asked'[i], u) THEN Cost(u)' = Intended(u)'
             ELSE Cost(u)' > Intended(u)'
  <2>1. IF \A i \in DOMAIN asked : Admits(asked[i], u) THEN Cost(u) = Intended(u)
        ELSE Cost(u) > Intended(u)
    BY <1>3 DEF CostInv, PenaltyCounts, Deterred
  <2>2. /\ Cost(u) \in Int /\ Cost(u)' \in Int
        /\ Admits(con, u) => Cost(u)' = Cost(u)
        /\ ~Admits(con, u) => Cost(u)' > Cost(u)
    BY <1>3, SquareCost
  <2>3. Intended(u)' = Intended(u) /\ Intended(u) \in Int
    BY <1>1 DEF Intended, ObjectiveInv
  <2>4. (\A i \in DOMAIN asked' : Admits(asked'[i], u))
        <=> (\A i \in DOMAIN asked : Admits(asked[i], u)) /\ Admits(con, u)
    <3>1. \A i \in DOMAIN asked' : i \in DOMAIN asked \/ i = Len(asked) + 1
      BY <1>2
    <3>2. Len(asked) + 1 \in DOMAIN asked' /\ \A i \in DOMAIN asked : i \in DOMAIN asked'
      BY <1>2
    <3> QED
      BY <1>2, <3>1, <3>2
  <2> QED
    BY <2>1, <2>2, <2>3, <2>4
<1> QED
  BY <1>1, <1>2, <1>3 DEF CostInv, PenaltyCounts, Deterred

LEMMA CostCounts ==
  ASSUME ObjectiveInv, ObjectiveInv', CostInv, CostSummed, CostSummed', PenaltyExact,
         [Next]_vars
  PROVE  CostInv'
<1>1. ASSUME NEW o \in Objective, NEW m \in BOOLEAN, objective(o, m) PROVE CostInv'
  <2>1. ASSUME ~replaced', ~late', direct' = "MIN", NEW u \in Point
        PROVE  Cost(u)' = Intended(u)' /\ asked' = <<>>
    BY <1>1, <2>1, DeclaredCost
  <2>2. objname'
    BY <1>1 DEF objective
  <2>3. ASSUME asked' = <<>>, NEW u PROVE \A i \in DOMAIN asked' : Admits(asked'[i], u)
    BY <2>3
  <2> QED
    BY <2>1, <2>2, <2>3 DEF CostInv, PenaltyCounts, Deterred
<1>2. CASE UNCHANGED obj
  <2>1. /\ linear' = linear /\ offset' = offset /\ obj_term' = obj_term /\ direct' = direct
        /\ objname' = objname /\ declared' = declared /\ asked' = asked
        /\ replaced' = replaced /\ late' = late
    BY <1>2 DEF obj
  <2>2. \A u \in Point : Cost(u)' = Cost(u) /\ Intended(u)' = Intended(u)
    BY <2>1 DEF Cost, Intended, Total, Part
  <2> QED
    BY <2>1, <2>2 DEF CostInv, PenaltyCounts, Deterred
<1> QED
  BY <1>1, <1>2, SquareCounts DEF Next, vars, qubo_error, qubo_start, qubo_double,
     qubo_double_end, qubo_bits, qubo_bits_end

\* The objective of a program that declares one to be minimised, and does so
\* once and before the first conversion: whatever constraints are converted,
\* with whatever penalty factors, points that satisfy all of them cost what was
\* declared, and every other point costs more, however the slack variables are
\* set (objective, addcon_as_qubo and xlp_addtoobj together).
THEOREM PenaltiesCount == Spec => []PenaltyCounts
<1>1. Init => CostInv
  BY ObjectiveInitially
<1>2. CostInv /\ [Next]_vars
        /\ (ObjectiveInv /\ ObjectiveInv' /\ CostSummed /\ CostSummed' /\ PenaltyExact)
      => CostInv'
  <2> SUFFICES ASSUME ObjectiveInv, ObjectiveInv', CostInv, CostSummed, CostSummed',
                      PenaltyExact, [Next]_vars
               PROVE  CostInv'
    OBVIOUS
  <2> QED
    BY CostCounts
<1>3. CostInv => PenaltyCounts
  BY DEF CostInv
<1>4. Spec => [](ObjectiveInv /\ CostSummed)
  BY ObjectiveTyped, CostIsSum, PTL
<1> QED
  BY <1>1, <1>2, <1>3, <1>4, ObjectiveTyped, Exact, PTL DEF Spec
============================================================================
