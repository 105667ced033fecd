------------------------------- MODULE LinRows ------------------------------
(***************************************************************************)
(* The systems of linear rows that src/src/zimpl/vinst.c generates for     *)
(* comparisons, boolean operators, vabs and conditional constraints, each  *)
(* as a predicate over the values of the variables it mentions.            *)
(*                                                                         *)
(* Numbers are counted in fractions of 1/One (ZIMPL computes with          *)
(* rationals): the integer 1 is One.  Variables declared VAR_INT take      *)
(* multiples of One, binary ones are written 0 and 1.                      *)
(***************************************************************************)
EXTENDS Integers

CONSTANT One

ASSUME LinRowsAssumption == One \in Nat \ {0}

CmpOps == {"EQ", "NE", "LT", "LE", "GE", "GT"}

\* "t op 0", what a comparison means.
Holds(op, t) ==
  CASE op = "EQ" -> t = 0   [] op = "NE" -> t # 0
    [] op = "LT" -> t < 0   [] op = "LE" -> t <= 0
    [] op = "GE" -> t >= 0  [] op = "GT" -> t > 0

\* The values of a variable VAR_INT with bounds 0 and hi.
IntVar(hi) == {i \in 0 .. hi : i % One = 0}
Binary == 0 .. 1

\* The upper bounds of x^- and x^+ for a term with bounds lower and upper.
MinusBound_Signed(lower) == \* mutant: numb_abs is missing
  IF lower < 0 THEN lower ELSE 0
MinusBound(lower) == IF lower < 0 THEN -lower ELSE 0
PlusBound(upper)  == IF upper < 0 THEN 0 ELSE upper
----------------------------------------------------------------------------
(***************************************************************************)
(* handle_vbool_cmp                                                        *)
(***************************************************************************)
\* check_if_fixed: what the bounds of the term alone decide.
check_if_fixed(op, lower, upper) ==
  LET fixed(yes, no) == IF yes THEN "TRUE" ELSE IF no THEN "FALSE" ELSE "OPEN"
      apart == lower > 0 \/ upper < 0
  IN  CASE op = "EQ" -> fixed(~apart /\ lower = upper, apart)
        [] op = "NE" -> fixed(apart, lower = upper)
        [] op = "LE" -> fixed(upper <= 0, lower > 0)
        [] op = "GE" -> fixed(lower >= 0, upper < 0)
        [] op = "LT" -> fixed(upper < 0, lower >= 0)
        [] op = "GT" -> fixed(lower > 0, upper <= 0)

\* Rows _a to _e: t = x^+ - x^-, and b^+, b^- tell which part is not zero.
SplitRows(t, L, U, xp, xm, bp, bm) ==
  /\ t = xp - xm
  /\ One * bp <= xp
  /\ One * bm <= xm
  /\ bp * U >= xp
  /\ bm * L >= xm

\* Rows _f and _g: the result from b^+ and b^-.
ResultRows(op, bp, bm, re) ==
  CASE op = "EQ" -> re + bp + bm = 1
    [] op = "NE" -> re - bp - bm = 0
    [] op = "LE" -> bp + bm <= 1 /\ re + bp = 1
    [] op = "GE" -> bp + bm <= 1 /\ re + bm = 1
    [] op = "LT" -> bp + bm <= 1 /\ re - bm = 0
    [] op = "GT" -> bp + bm <= 1 /\ re - bp = 0

\* The whole system for "t op 0", seen from the term and the result.
CmpSystem(op, t, lower, upper, re) ==
  LET L == MinusBound(lower)
      U == PlusBound(upper)
  IN  \E xp \in IntVar(U), xm \in IntVar(L), bp \in Binary, bm \in Binary :
         /\ SplitRows(t, L, U, xp, xm, bp, bm)
         /\ ResultRows(op, bp, bm, re)
----------------------------------------------------------------------------
(***************************************************************************)
(* i_vbool_and, i_vbool_or, i_vbool_xor, i_vbool_not                       *)
(***************************************************************************)
BoolOps == {"AND", "OR", "XOR"}

BoolRows_NoUpper(op, a, b, re) == \* mutant: row _c of and, or is missing
  CASE op = "AND" -> a - re >= 0 /\ b - re >= 0
    [] op = "OR"  -> a - re <= 0 /\ b - re <= 0
    [] op = "XOR" -> /\ a + b - re >= 0 /\ a - b - re <= 0
                     /\ a - b + re >= 0 /\ a + b + re <= 2
BoolRows(op, a, b, re) ==
  CASE op = "AND" -> a - re >= 0 /\ b - re >= 0 /\ a + b - re <= 1
    [] op = "OR"  -> a - re <= 0 /\ b - re <= 0 /\ a + b - re >= 0
    [] op = "XOR" -> /\ a + b - re >= 0 /\ a - b - re <= 0
                     /\ a - b + re >= 0 /\ a + b + re <= 2

NotRow(a, re) == a + re = 1

\* What the operators mean on 0 and 1.
BoolMeaning(op, a, b) ==
  CASE op = "AND" -> IF a = 1 /\ b = 1 THEN 1 ELSE 0
    [] op = "OR"  -> IF a = 1 \/ b = 1 THEN 1 ELSE 0
    [] op = "XOR" -> IF a # b THEN 1 ELSE 0
----------------------------------------------------------------------------
(***************************************************************************)
(* i_vabs                                                                  *)
(***************************************************************************)
AbsBound_Upper(lower, upper) == \* mutant: the upper bound of the term
  upper
AbsBound(lower, upper) ==
  IF MinusBound(lower) > PlusBound(upper) THEN MinusBound(lower) ELSE PlusBound(upper)

AbsRows(t, L, U, xp, xm, bp, re) ==
  /\ t = xp - xm
  /\ bp * U >= xp
  /\ xm + bp * L <= L
  /\ re - xp - xm = 0

AbsSystem(t, lower, upper, re) ==
  LET L == MinusBound(lower)
      U == PlusBound(upper)
  IN  \E xp \in IntVar(U), xm \in IntVar(L), bp \in Binary :
         AbsRows(t, L, U, xp, xm, bp, re)
----------------------------------------------------------------------------
(***************************************************************************)
(* generate_conditional_constraint: "vif = 1 implies t type rhs" for the   *)
(* then part, "vif = 0 implies ..." for the else part.  CON_RHS is <=,     *)
(* CON_LHS is >=; bound is the upper bound of t for CON_RHS, the lower for *)
(* CON_LHS.                                                                *)
(***************************************************************************)
Sided(type, a, b) == IF type = "RHS" THEN a <= b ELSE a >= b

CondRow(type, then, vif, t, bound, rhs) ==
  \/ Sided(type, bound, rhs)         \* no row: always true due to the bounds
  \/ IF then THEN Sided(type, (bound - rhs) * vif + t, bound)
             ELSE Sided(type, (rhs - bound) * vif + t, rhs)

\* What a conditional constraint asks for.
CondMeaning(type, then, vif, t, rhs) ==
  vif = (IF then THEN 1 ELSE 0) => Sided(type, t, rhs)
============================================================================
