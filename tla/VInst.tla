-------------------------------- MODULE VInst -------------------------------
(***************************************************************************)
(* Conditions on variables, src/src/zimpl/vinst.c: boolean constraints,    *)
(* vabs and vif ... then ... else, translated into linear rows and         *)
(* internal variables while the expression tree is evaluated.              *)
(*                                                                         *)
(* The evaluation is a stack machine: an operator takes the result terms   *)
(* of its children and leaves its own, a single internal variable "re".    *)
(* The other internal variables of an operator occur in its own rows only  *)
(* (module LinRows); the program built so far is represented by what it    *)
(* admits: "points" is the set of pairs of a point of the user's variables *)
(* and values of the result variables that satisfy every row.              *)
(*                                                                         *)
(* Numbers are counted in fractions of 1/One, see LinRows.                 *)
(***************************************************************************)
EXTENDS LinRows, Sequences, FiniteSets

CONSTANTS Var,           \* the user's variables
          IntClass,      \* those of class VAR_INT or VAR_IMP
          Lower, Upper,  \* [Var -> number or Infty]
          Values,        \* [Var -> set of numbers], the values looked at
          Infty,
          Sources        \* the terms a program may contain, see prog

ASSUME VInstAssumption ==
  \A v \in Var : \A i \in Values[v] :
     /\ i \in Int
     /\ v \in IntClass => i % One = 0
     /\ Lower[v] # Infty => Lower[v] <= i
     /\ Upper[v] # Infty => i <= Upper[v]

\* A variable is told from a number, which stands for a result; terms name the
\* user's variables.
ASSUME SourcesAssumption ==
  /\ Infty \notin Int /\ Var \cap Nat = {}
  /\ \A v \in Var : {Lower[v], Upper[v]} \subseteq Int \cup {Infty}
  /\ \A s \in Sources :
       /\ s.max \in Nat
       /\ s.cmp \cup s.con \subseteq [mono : Seq(Int \X Var), const : Int]
                                     \X [mono : Seq(Int \X Var), const : Int]

UserPoint == {u \in [Var -> UNION {Values[v] : v \in Var}] :
                 \A v \in Var : u[v] \in Values[v]}

VARIABLES
  prog,      \* a member of Sources: cmp and con are the pairs of terms left and
             \* right of a comparison and of a conditional or plain constraint,
             \* max bounds the result variables created
  results,   \* sequence of result variables: kind "bool" or "abs", lo, up
  stack,     \* sequence of result variables waiting for their parent
  phase,     \* "expr", or what the else part will use: "bigM", "indicator"
  points,    \* what the rows so far admit
  meant,     \* [UserPoint -> the values the results are meant to have]
  feasible,  \* the user's points the conditional constraints are meant to admit
  error      \* 0, or the number of the error that ended the program

vars == <<prog, results, stack, phase, points, meant, feasible, error>>

CmpSides  == prog.cmp
ConSides  == prog.con
MaxResult == prog.max
----------------------------------------------------------------------------
(***************************************************************************)
(* Terms: a sequence of monos <<coefficient, variable>>, not simplified,   *)
(* and a constant (term2.c).  A result variable is named by its number.    *)
(***************************************************************************)
term_sub_term(a, b) ==
  [mono |-> a.mono \o [i \in DOMAIN b.mono |-> <<-b.mono[i][1], b.mono[i][2]>>],
   const |-> a.const - b.const]

term_add_elem(t, c, v) == [t EXCEPT !.mono = Append(@, <<c, v>>)]

Sum(s) == LET sum[i \in 0 .. Len(s)] == IF i = 0 THEN 0 ELSE sum[i - 1] + s[i]
          IN sum[Len(s)]

\* The value of a term where the user's variables are u and the results r.
Value(t, u, r) ==
  Sum([i \in DOMAIN t.mono |->
         t.mono[i][1] * (IF t.mono[i][2] \in Var THEN u[t.mono[i][2]]
                         ELSE r[t.mono[i][2]])]) + t.const

lower(v) == IF v \in Var THEN Lower[v] ELSE results[v].lo
upper(v) == IF v \in Var THEN Upper[v] ELSE results[v].up

\* term_get_lower_bound, term_get_upper_bound: the bound of each variable
\* that the sign of its coefficient selects.
BoundOf(t, low, high) ==
  LET bound(m) == IF m[1] > 0 THEN low[m[2]] ELSE high[m[2]]
      s == t.mono
  IN  IF \E i \in DOMAIN s : bound(s[i]) = Infty THEN Infty
      ELSE Sum([i \in DOMAIN s |-> s[i][1] * bound(s[i])]) + t.const

Named(t) == {t.mono[i][2] : i \in DOMAIN t.mono}
LowerOf(t) == [v \in Named(t) |-> lower(v)]
UpperOf(t) == [v \in Named(t) |-> upper(v)]

term_get_lower_bound(t) == BoundOf(t, LowerOf(t), UpperOf(t))
term_get_upper_bound(t) == BoundOf(t, UpperOf(t), LowerOf(t))

term_is_all_integer(t) == Named(t) \cap Var \subseteq IntClass
----------------------------------------------------------------------------
Init ==
  /\ prog \in Sources /\ results = <<>> /\ stack = <<>> /\ phase = "expr"
  /\ points = {<<u, <<>>>> : u \in UserPoint}
  /\ meant = [u \in UserPoint |-> <<>>]
  /\ feasible = UserPoint
  /\ error = 0

\* zpl_exit after an error message.
Exit(no) == error' = no /\ UNCHANGED <<results, stack, phase, points, meant, feasible>>

Kind(i) == results[stack[i]].kind
AbsWaiting == stack # <<>> /\ Kind(Len(stack)) = "abs"

\* The left and right terms of a comparison: the result of a vabs that was
\* evaluated last is added to the left one.
Operands(sides) ==
  {[lhs |-> IF AbsWaiting THEN term_add_elem(s[1], 1, stack[Len(stack)]) ELSE s[1],
    rhs |-> s[2]] : s \in sides}
Below == IF AbsWaiting THEN SubSeq(stack, 1, Len(stack) - 1) ELSE stack

Domain(kind, lo, up) == IF kind = "abs" THEN IntVar(up) ELSE lo .. up

\* create_new_var_entry for the result and create_new_constraint for the rows:
\* Rows(u, r, re) are the rows and Means(u, r) the value the result shall have.
NewResult(kind, lo, up, Rows(_, _, _), Means(_, _), under) ==
  /\ Len(results) < MaxResult
  /\ results' = Append(results, [kind |-> kind, lo |-> lo, up |-> up])
  /\ stack' = Append(under, Len(results) + 1)
  /\ points' = {<<q[1][1], Append(q[1][2], q[2])>> :
                  q \in {q \in points \X Domain(kind, lo, up) :
                           Rows(q[1][1], q[1][2], q[2])}}
  /\ meant' = [u \in UserPoint |-> Append(meant[u], Means(u, meant[u]))]
  /\ UNCHANGED <<phase, feasible, error>>

\* check_how_fixed: the comparison of an empty left hand side.
check_how_fixed(op, rhs) == IF Holds(op, 0 - rhs) THEN "TRUE" ELSE "FALSE"

\* handle_vbool_cmp (i_vbool_eq, i_vbool_ne, i_vbool_lt, ...)
handle_vbool_cmp(op) ==
  \E o \in Operands(CmpSides) :
    LET t  == term_sub_term(o.lhs, o.rhs)
        lo == term_get_lower_bound(t)
        up == term_get_upper_bound(t)
        fixed == IF t.mono = <<>> THEN check_how_fixed(op, o.rhs.const - o.lhs.const)
                 ELSE check_if_fixed(op, lo, up)
        value(u, r) == Value(t, u, r)
        means(u, r) == IF Holds(op, value(u, r)) THEN 1 ELSE 0
        norows(u, r, re) == TRUE
        rows(u, r, re) == CmpSystem(op, value(u, r), lo, up, re)
    IN  /\ phase = "expr"
        /\ IF ~term_is_all_integer(t) THEN Exit(177)
           ELSE IF Infty \in {lo, up} THEN Exit(185)
           ELSE CASE fixed = "TRUE"  -> NewResult("bool", 1, 1, norows, means, Below)
                  [] fixed = "FALSE" -> NewResult("bool", 0, 0, norows, means, Below)
                  [] fixed = "OPEN"  -> NewResult("bool", 0, 1, rows, means, Below)

\* i_vbool_and, i_vbool_or, i_vbool_xor
i_vbool_binary(op) ==
  LET n == Len(stack)
      a == stack[n - 1]
      b == stack[n]
      rows(u, r, re) == BoolRows(op, r[a], r[b], re)
      means(u, r) == BoolMeaning(op, r[a], r[b])
  IN  /\ phase = "expr" /\ n >= 2
      /\ Kind(n - 1) = "bool" /\ Kind(n) = "bool"
      /\ NewResult("bool", 0, 1, rows, means, SubSeq(stack, 1, n - 2))

i_vbool_not ==
  LET n == Len(stack)
      rows(u, r, re) == NotRow(r[stack[n]], re)
      means(u, r) == 1 - r[stack[n]]
  IN  /\ phase = "expr" /\ n >= 1 /\ Kind(n) = "bool"
      /\ NewResult("bool", 0, 1, rows, means, SubSeq(stack, 1, n - 1))

\* i_vabs
i_vabs ==
  \E o \in Operands(CmpSides) :
    LET t  == o.lhs
        lo == term_get_lower_bound(t)
        up == term_get_upper_bound(t)
        rows(u, r, re) == AbsSystem(Value(t, u, r), lo, up, re)
        means(u, r) == LET d == Value(t, u, r) IN IF d < 0 THEN -d ELSE d
    IN  IF t.mono = <<>> THEN Exit(182)
        ELSE IF ~term_is_all_integer(t) THEN Exit(183)
        ELSE IF Infty \in {lo, up} THEN Exit(184)
        ELSE NewResult("abs", 0, AbsBound(lo, up), rows, means, Below)

\* An equation is split into its two sides.
SidesOf(type) == IF type = "EQUAL" THEN {"RHS", "LHS"} ELSE {type}

\* handle_vif_then_else with generate_conditional_constraint (big M) or
\* generate_indicator_constraint.  Terms are linear here; Error 222, for one that
\* is not, is in module TermEval.
handle_vif_then_else(type, o, then, indicator) ==
  LET vif == stack[1]
      t == [term_sub_term(o.lhs, o.rhs) EXCEPT !.const = 0]
      rhs == o.rhs.const - o.lhs.const
      bound == [s \in SidesOf(type) |-> IF s = "RHS" THEN term_get_upper_bound(t)
                                                     ELSE term_get_lower_bound(t)]
      wanted(side, u, r) == CondMeaning(side, then, r[vif], Value(t, u, r), rhs)
      row(side, u, r) ==
        IF indicator THEN wanted(side, u, r)
        ELSE CondRow(side, then, r[vif], Value(t, u, r), bound[side], rhs)
  IN  IF t.mono = <<>> THEN Exit(181)
      ELSE IF ~indicator /\ \E s \in SidesOf(type) : bound[s] = Infty THEN Exit(179)
      ELSE /\ points' = {p \in points : \A s \in SidesOf(type) : row(s, p[1], p[2])}
           /\ feasible' = {u \in feasible : \A s \in SidesOf(type) : wanted(s, u, meant[u])}
           /\ stack' = IF then THEN <<vif>> ELSE <<>>
           /\ phase' = IF ~then THEN "expr" ELSE IF indicator THEN "indicator" ELSE "bigM"
           /\ UNCHANGED <<results, meant, error>>

ConditionReady == Len(Below) = 1 /\ Kind(1) = "bool"

\* The then part of i_vif and i_vif_else.
vif_then(type, indicator) ==
  /\ phase = "expr" /\ ConditionReady
  /\ \E o \in Operands(ConSides) : handle_vif_then_else(type, o, TRUE, indicator)

\* The else part of i_vif_else.
vif_else(type) ==
  /\ phase # "expr" /\ ConditionReady
  /\ \E o \in Operands(ConSides) : handle_vif_then_else(type, o, FALSE, phase = "indicator")

\* i_vif ends after the then part.
vif_end ==
  /\ phase # "expr" /\ ~AbsWaiting
  /\ stack' = <<>> /\ phase' = "expr"
  /\ UNCHANGED <<results, points, meant, feasible, error>>

\* i_constraint: a constraint of its own (inst.c).
i_constraint(type) ==
  /\ phase = "expr" /\ Below = <<>>
  /\ \E o \in Operands(ConSides) :
       LET t == term_sub_term(o.lhs, o.rhs)
           holds(u, r) == \A s \in SidesOf(type) : Sided(s, Value(t, u, r), 0)
       IN  IF t.mono = <<>> /\ \E s \in SidesOf(type) : ~Sided(s, t.const, 0)
           THEN Exit(106)
           ELSE /\ points' = {p \in points : holds(p[1], p[2])}
                /\ feasible' = {u \in feasible : holds(u, meant[u])}
                /\ stack' = <<>>
                /\ UNCHANGED <<results, phase, meant, error>>

ConTypes == {"RHS", "LHS", "EQUAL"}

Next ==
  /\ error = 0 /\ UNCHANGED prog
  /\ \/ \E op \in CmpOps : handle_vbool_cmp(op)
     \/ \E op \in BoolOps : i_vbool_binary(op)
     \/ i_vbool_not
     \/ i_vabs
     \/ \E type \in ConTypes :
           \/ \E indicator \in BOOLEAN : vif_then(type, indicator)
           \/ vif_else(type)
           \/ i_constraint(type)
     \/ vif_end

Spec == Init /\ [][Next]_vars
----------------------------------------------------------------------------
\* The bounds of a result variable are a range, the first one of each kind is
\* what its rows allow, and no value of it lies outside.
TypeOK ==
  /\ prog \in Sources
  /\ \A k \in DOMAIN results :
        /\ results[k].kind \in {"bool", "abs"}
        /\ 0 <= results[k].lo /\ results[k].lo <= results[k].up
  /\ stack \in Seq(DOMAIN results) /\ Len(stack) <= MaxResult
  /\ phase \in {"expr", "bigM", "indicator"}
  /\ points \subseteq UserPoint \X [DOMAIN results -> Int]
  /\ meant \in [UserPoint -> [DOMAIN results -> Int]]
  /\ feasible \subseteq UserPoint
  /\ error \in {0, 106, 177, 179, 181, 182, 183, 184, 185}

\* No row of a translated condition cuts off a point the model admits: it can
\* be completed by the values the conditions have there.  Every internal
\* variable, its bounds and every big M are large enough (handle_vbool_cmp,
\* i_vabs, generate_conditional_constraint with the bounds of term2.c).
NothingCut == \A u \in feasible : <<u, meant[u]>> \in points

\* The rows admit no other point, and leave no result variable a choice: its
\* value is the truth of the comparison, of the boolean expression, or the
\* absolute value, so that a condition cannot be "not triggered" by a solver.
NothingAdded == \A p \in points : p[1] \in feasible /\ p[2] = meant[p[1]]
============================================================================
