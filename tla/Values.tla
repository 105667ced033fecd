------------------------------- MODULE Values -------------------------------
(***************************************************************************)
(* The values of expressions, what an instruction of inst.c makes of the   *)
(* values of its children, and code_prune_tree, which puts such values in  *)
(* the place of constant expressions.                                      *)
(*                                                                         *)
(* An expression is a tree of records [op, kids, ...]: "numb" and "strg"   *)
(* have a value v, "local" a name, a loop the name of its index and the    *)
(* set it goes through, "call" the name def of a define.  A string is a    *)
(* sequence of character codes.                                            *)
(*                                                                         *)
(* A number (numbgmp.c) is a fraction in lowest terms, a pair of numerator *)
(* and positive denominator, as GMP keeps it.  Integers of the model fit   *)
(* into an int, so that numb_is_int looks at the denominator only.         *)
(***************************************************************************)
EXTENDS Integers, Sequences, SequencesExt, FiniteSetsExt, TLC

Gcd[a \in Nat, b \in Nat] == IF b = 0 THEN a ELSE Gcd[b, a % b]
Magnitude(n) == IF n < 0 THEN -n ELSE n
Sign(n) == IF n < 0 THEN -1 ELSE IF n = 0 THEN 0 ELSE 1

\* The fraction n / d, and an integer as a number.
Fraction(n, d) ==
  LET g == Gcd[Magnitude(n), Magnitude(d)]
  IN  <<Sign(d) * Sign(n) * (Magnitude(n) \div g), Magnitude(d) \div g>>
numb_new_integer(n) == <<n, 1>>
Zero == numb_new_integer(0)
One == numb_new_integer(1)
Half == <<1, 2>>

\* mpz_tdiv_q: the quotient is cut off towards zero.
TruncQuotient(n, d) == Sign(n) * (Magnitude(n) \div d)

numb_new_add(a, b) == Fraction(a[1] * b[2] + b[1] * a[2], a[2] * b[2])
numb_neg(a) == <<-a[1], a[2]>>
numb_new_sub(a, b) == numb_new_add(a, numb_neg(b))
numb_new_mul(a, b) == Fraction(a[1] * b[1], a[2] * b[2])
numb_new_div(a, b) == Fraction(a[1] * b[2], a[2] * b[1])
numb_cmp(a, b) == Sign(a[1] * b[2] - b[1] * a[2])
numb_equal(a, b) == a = b

numb_new_intdiv(a, b) ==
  LET q == numb_new_div(a, b) IN numb_new_integer(TruncQuotient(q[1], q[2]))

\* mpz_mod of the operands times both denominators, never negative; the
\* product of the denominators is not divided out again.
numb_new_mod(a, b) ==
  numb_new_integer((a[1] * b[2]) % Magnitude(b[1] * a[2]))

\* The loop multiplies "expo" times; a negative exponent inverts the result.
Power(a, expo) ==
  LET p[k \in Nat] == IF k = 0 THEN One ELSE numb_new_mul(p[k - 1], a) IN p[expo]
numb_new_pow(a, expo) ==
  IF expo < 0 THEN numb_new_div(One, Power(a, -expo)) ELSE Power(a, expo)
numb_new_fac(n) ==
  LET f[k \in Nat] == IF k = 0 THEN 1 ELSE k * f[k - 1] IN numb_new_integer(f[n])

numb_abs(a) == <<Magnitude(a[1]), a[2]>>
numb_sgn(a) == numb_new_integer(Sign(a[1]))
numb_floor(a) == numb_new_integer(a[1] \div a[2])
numb_ceil(a) == numb_new_integer(-((-a[1]) \div a[2]))
numb_round(a) ==
  LET moved == IF a[1] >= 0 THEN numb_new_add(a, Half) ELSE numb_new_sub(a, Half)
  IN  numb_new_integer(TruncQuotient(moved[1], moved[2]))

numb_is_int(a) == a[2] = 1
numb_toint(a) == a[1]
----------------------------------------------------------------------------

Numb(v) == [t |-> "NUMB", v |-> v]
Strg(s) == [t |-> "STRG", v |-> s]
Bool(b) == [t |-> "BOOL", v |-> b]
Name(s) == [t |-> "NAME", v |-> s]
Void == [t |-> "VOID", v |-> 0]
Wrong == [t |-> "WRONG", v |-> 0]  \* no value: zpl_exit
Abort == [t |-> "ABORT", v |-> 0]  \* no value: division by zero in GMP

\* What instructions make of the values of their children.

BinaryOps == {"add", "sub", "mul", "div", "mod", "intdiv", "pow"}
UnaryOps == {"neg", "abs", "sgn", "floor", "ceil", "round", "fac"}
CompareOps == {"gt", "ge", "eq", "le", "lt", "ne"}
BoolOps == {"and", "or", "xor"}
ListOps == {"min2", "max2"}
MemberOps == {"sglmin", "sglmax"}   \* min and max of the members of a set
LoopOps == {"sum", "prod", "min", "max", "forall", "exists"} \cup MemberOps

NumberOp(op, a, b) ==
  CASE op = "add" -> Numb(numb_new_add(a, b))
    [] op = "sub" -> Numb(numb_new_sub(a, b))
    [] op = "mul" -> Numb(numb_new_mul(a, b))
    [] op = "div" -> IF numb_equal(b, Zero) THEN Wrong ELSE Numb(numb_new_div(a, b))
    [] op = "mod" -> IF numb_equal(b, Zero) THEN Wrong ELSE Numb(numb_new_mod(a, b))
    [] op = "intdiv" -> IF numb_equal(b, Zero) THEN Wrong ELSE Numb(numb_new_intdiv(a, b))
    [] op = "pow" -> IF ~ numb_is_int(b) THEN Wrong
                     ELSE IF a = Zero /\ numb_toint(b) < 0 THEN Abort
                     ELSE Numb(numb_new_pow(a, numb_toint(b)))

\* Errors 113 and 114.
Factorial(a) ==
  IF ~ numb_is_int(a) \/ numb_toint(a) < 0 THEN Wrong ELSE Numb(numb_new_fac(numb_toint(a)))
NumberFunction(op, a) ==
  CASE op = "neg" -> Numb(numb_neg(a))
    [] op = "abs" -> Numb(numb_abs(a))
    [] op = "sgn" -> Numb(numb_sgn(a))
    [] op = "floor" -> Numb(numb_floor(a))
    [] op = "ceil" -> Numb(numb_ceil(a))
    [] op = "round" -> Numb(numb_round(a))
    [] op = "fac" -> Factorial(a)

\* i_expr_substr: a negative begin counts from the end, what lies outside of
\* the string is cut off.
Substring(s, beg, len) ==
  LET from == IF beg < 0 THEN Max({0, Len(s) + beg}) ELSE beg
  IN  SubSeq(s, from + 1, from + Min({len, Len(s) - from}))

\* Are all of a type?
All(t, x) == \A k \in DOMAIN x : x[k].t = t
Apply(op, x) ==
  CASE op \in BinaryOps /\ All("NUMB", x) -> NumberOp(op, x[1].v, x[2].v)
    [] op = "add" /\ All("STRG", x) -> Strg(x[1].v \o x[2].v)
    [] op \in UnaryOps /\ All("NUMB", x) -> NumberFunction(op, x[1].v)
    [] op = "length" /\ All("STRG", x) -> Numb(numb_new_integer(Len(x[1].v)))
    [] op = "substr" /\ x[1].t = "STRG" /\ All("NUMB", Tail(x)) ->
         IF (\E k \in {2, 3} : ~ numb_is_int(x[k].v)) \/ numb_toint(x[3].v) < 0 THEN Wrong
         ELSE Strg(Substring(x[1].v, numb_toint(x[2].v), numb_toint(x[3].v)))
    [] OTHER -> Wrong

strcmp(s, t) ==
  LET differ == {k \in DOMAIN s \cap DOMAIN t : s[k] # t[k]}
  IN  IF differ = {} THEN Len(s) - Len(t) ELSE s[Min(differ)] - t[Min(differ)]
\* Two numbers or two strings; anything else is error 118 or 133.
Compare(op, a, b) ==
  IF a.t # b.t \/ a.t \notin {"NUMB", "STRG"} THEN Wrong
  ELSE LET c == IF a.t = "NUMB" THEN numb_cmp(a.v, b.v) ELSE strcmp(a.v, b.v)
       IN  Bool(CASE op = "gt" -> c > 0
                  [] op = "ge" -> c >= 0
                  [] op = "eq" -> c = 0
                  [] op = "le" -> ~ (c > 0)
                  [] op = "lt" -> ~ (c >= 0)
                  [] op = "ne" -> ~ (c = 0))

\* min and max of a list: errors 116 and 117 for anything but numbers.
Extreme(op, x) ==
  IF ~ All("NUMB", x) THEN Wrong
  ELSE Numb(FoldLeft(LAMBDA m, e : IF numb_cmp(m, e.v) = (IF op = "min2" THEN 1 ELSE -1)
                                   THEN e.v ELSE m,
                     x[1].v, x))
----------------------------------------------------------------------------
\* code_prune_tree: an operator with constant operands only is evaluated once,
\* its node becomes i_nop and keeps the value.  Operators on sets, lists and
\* conditions are in the list of the code too, but their operands never are
\* constants there.  The list has no i_bool_* and no i_expr_rand.

Constants == {"numb", "strg"}
prunable == BinaryOps \cup UnaryOps \cup {"length", "substr"}
ConstantNode(x) ==
  [op |-> CASE x.t = "NUMB" -> "numb" [] x.t = "STRG" -> "strg" [] OTHER -> x.t,
   v |-> x.v, kids |-> <<>>]
ConstantValue(e) == IF e.op = "numb" THEN Numb(e.v) ELSE Strg(e.v)

RECURSIVE Prune(_)
Prune(e) ==
  LET kids == [k \in DOMAIN e.kids |-> Prune(e.kids[k])]
  IN  IF e.op \in prunable /\ \A k \in DOMAIN kids : kids[k].op \in Constants
      THEN ConstantNode(Apply(e.op, [k \in DOMAIN kids |-> ConstantValue(kids[k])]))
      ELSE [e EXCEPT !.kids = kids]

\* The instructions of a tree.
RECURSIVE Ops(_)
Ops(e) == {e.op} \cup UNION {Ops(k) : k \in Range(e.kids)}
============================================================================
