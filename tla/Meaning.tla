------------------------------- MODULE Meaning ------------------------------
(***************************************************************************)
(* What the expressions and statements of a program mean, without terms:   *)
(* an expression in variables is a function of the points, a constraint is *)
(* the set of points that satisfy it, the objective is a function again.   *)
(* TermEval, where the program computes with arrays of monos and fills     *)
(* rows and costs, is checked to implement this specification.             *)
(***************************************************************************)
EXTENDS Integers, Sequences

CONSTANTS Point,      \* a set of functions from the variables to numbers
          Start       \* what values may be at the beginning

VARIABLES node,       \* the instruction executed last, <<name, arguments>>
          values,     \* the functions computed for the expressions at work
          admits,     \* the points that satisfy the constraints so far
          cost,       \* the objective
          ended       \* "no", "infeasible" or "refused"

vars == <<node, values, admits, cost, ended>>

Init == /\ node = <<>> /\ values \in Start
        /\ admits = Point /\ cost = [p \in Point |-> 0] /\ ended = "no"

\* The k-th power of x, and what the functions a are worth together.
Power(x, k) ==
  LET power[i \in 0 .. k] == IF i = 0 THEN 1 ELSE power[i - 1] * x IN power[k]
Total(a, p) ==
  LET sum[i \in 0 .. Len(a)] == IF i = 0 THEN 0 ELSE sum[i - 1] + a[i][p] IN sum[Len(a)]

\* The function w at the point p, computed by instruction n from functions a.
At(n, a, p) ==
  CASE n[1] = "i_symbol_deref" -> p[n[2]]
    [] n[1] = "i_term_expr"    -> n[2]
    [] n[1] = "i_term_coeff"   -> n[2] * a[1][p]
    [] n[1] = "i_term_const"   -> n[2] + a[1][p]
    [] n[1] = "i_term_power"   -> Power(a[1][p], n[2])
    [] n[1] = "i_term_add"     -> a[1][p] + a[2][p]
    [] n[1] = "i_term_sub"     -> a[1][p] - a[2][p]
    [] n[1] = "i_term_mul"     -> a[1][p] * a[2][p]
    [] n[1] = "i_term_sum"     -> Total(a, p)

\* From the values f to the values g: the last functions are replaced by one.
Combined(n, f, g, kept) ==
  /\ SubSeq(g, 1, kept) = SubSeq(f, 1, kept)
  /\ \A p \in Point : g[kept + 1][p] = At(n, SubSeq(f, kept + 1, Len(f)), p)
Expression(n, f, g) ==
  g # <<>> /\ Combined(n, f, g, Len(g) - 1) /\ UNCHANGED <<admits, cost, ended>>

\* A constraint that no point satisfies may be reported at once.
Require(good) ==
  /\ cost' = cost
  /\ \/ admits' = admits \cap good /\ ended' = ended
     \/ good = {} /\ admits' = admits /\ ended' = "infeasible"

Holds(type, a, b) == CASE type = "RHS" -> a <= b [] type = "LHS" -> a >= b
                       [] type = "EQUAL" -> a = b

\* The points that satisfy the constraint n between the functions a.
Good(n, a) ==
  CASE n[1] = "i_constraint" -> {p \in Point : Holds(n[2], a[1][p], a[2][p])}
    [] n[1] = "i_rangeconst" -> {p \in Point : n[2] <= a[1][p] /\ a[1][p] <= n[3]}
    [] n[1] = "handle_vif_then_else" ->
         {p \in Point : (p[n[2]] = 1) = n[3] => Holds(n[4], a[1][p], a[2][p])}
    [] OTHER -> Point

\* An objective replaces the costs; a set of variables for branching takes no
\* point away.
Statement(n, f) ==
  IF n[1] = "objective"
  THEN (\A p \in Point : cost'[p] = f[1][p]) /\ UNCHANGED <<admits, ended>>
  ELSE Require(Good(n, f))

\* Exponents that are no natural numbers, and the limits of the translation.
Refuse == ended' = "refused" /\ UNCHANGED <<admits, cost>>

Next ==
  /\ ended = "no"
  /\ \/ Expression(node', values, values')
     \/ values' = <<>> /\ (Statement(node', values) \/ Refuse)

Spec == Init /\ [][Next]_vars
=============================================================================
