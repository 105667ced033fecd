------------------------------ MODULE TermEval ------------------------------
(***************************************************************************)
(* Expressions in variables and the statements that hand them over,        *)
(* src/src/zimpl/inst.c: i_term_*, i_constraint, i_rangeconst, i_soset,    *)
(* objective and the indicator constraints of vinst.c.                     *)
(*                                                                         *)
(* The tree is evaluated bottom up: an instruction takes the terms of its  *)
(* children from a stack and leaves its own.  A statement stands for one   *)
(* row.  A second objective statement is left to module Qubo.              *)
(***************************************************************************)
EXTENDS XlpGlue

CONSTANTS Decls,       \* the declarations, [Var -> arguments of xlp_addvar]
          Result,      \* variables of Var that conditions have made
          Number,      \* the numbers that occur as expressions and sides of ranges,
          Factor,      \* as factors
          Shift,       \* and as summands
          Exponent,    \* exponents, records of numerator and denominator
          Priorities,  \* priorities of sos sets, records of the same kind
          Sources,     \* what may have been computed before
          Point,       \* [Var -> Int], the points programs are compared at
          MaxOps, MaxStack, MaxDegree, MaxStatements

\* The terms an instruction may meet: they fit into their arrays, no
\* coefficient is zero, and the variables of every mono are in order.
Term == {t \in [const : Int, size : Nat, elem : Seq(Mono)] :
           term_is_valid(t) /\ \A i \in DOMAIN t.elem : InOrder(t.elem[i])}
\* Expressions name neither a function nor the result of a condition.
Plain == {t \in Term : \A i \in DOMAIN t.elem : /\ t.elem[i].fun = "NONE"
                                              /\ ToSet(t.elem[i].vars) \cap Result = {}}
Fraction == [num : Int, den : Int]

ASSUME TermEvalAssumption ==
  /\ IsFiniteSet(Var) /\ Result \subseteq Var
  /\ Number \subseteq Int /\ Factor \subseteq Int /\ Shift \subseteq Int
  /\ Exponent \subseteq Fraction /\ Priorities \subseteq Fraction
  /\ Sources \subseteq Seq(Plain) /\ Point \subseteq [Var -> Int]
  /\ ObjOffset \notin Var /\ Infty # 1
  /\ MaxOps \in Nat

VARIABLES
  node,     \* the instruction executed last, <<name, arguments>>
  stack,    \* the terms of the expressions at work
  lp,       \* the store of the linear program
  ops,      \* the number of instructions so far
  error     \* 0, or the number of the error that ended the program

vars == <<node, stack, lp, ops, error>>

Declared == [v \in Var |-> xlp_addvar(Decls[v].vclass, Decls[v].lower, Decls[v].upper,
                                      Decls[v].priority, Decls[v].startval)]

Init == /\ node = <<>> /\ stack \in Sources /\ lp = xlp_alloc(Declared)
        /\ ops = 0 /\ error = 0

Top1 == stack[Len(stack)]
Top2 == stack[Len(stack) - 1]

\* The terms of the last k children are replaced by the term of the node.
code_value_term(n, k, term) ==
  /\ node' = n
  /\ stack' = Append(SubSeq(stack, 1, Len(stack) - k), term)
  /\ ops' = ops + 1
  /\ UNCHANGED <<lp, error>>

Fail(n, number) ==
  error' = number /\ node' = n /\ stack' = <<>> /\ UNCHANGED <<lp, ops>>

Room     == error = 0 /\ ops < MaxOps /\ Len(stack) < MaxStack
Reduce(k) == error = 0 /\ ops < MaxOps /\ Len(stack) >= k
----------------------------------------------------------------------------
i_symbol_deref(v) == Room /\ code_value_term(<<"i_symbol_deref", v>>, 0, term_add_elem(term_new(1), v, 1, "NONE"))

i_term_expr(c) == Room /\ code_value_term(<<"i_term_expr", c>>, 0, term_add_constant(term_new(1), c))

i_term_coeff(c) == Reduce(1) /\ code_value_term(<<"i_term_coeff", c>>, 1, term_mul_coeff(term_copy(Top1), c))

i_term_const(c) == Reduce(1) /\ code_value_term(<<"i_term_const", c>>, 1, term_add_constant(term_copy(Top1), c))

\* A single mono is appended to the term of the left child, which is taken
\* over; otherwise a new term is made.
AddTerm(a, b) ==
  IF Len(b.elem) = 1 THEN term_append_term(a, b) ELSE term_add_term(a, b)
i_term_add == Reduce(2) /\ code_value_term(<<"i_term_add">>, 2, AddTerm(Top2, Top1))

i_term_sub == Reduce(2) /\ code_value_term(<<"i_term_sub">>, 2, term_sub_term(Top2, Top1))

i_term_mul ==
  /\ Reduce(2) /\ term_get_degree(Top2) + term_get_degree(Top1) <= MaxDegree
  /\ code_value_term(<<"i_term_mul">>, 2, term_mul_term(Top2, Top1))

SumTerm(terms) ==
  LET sum[i \in 0 .. Len(terms)] ==
        IF i = 0 THEN term_new(1) ELSE term_append_term(sum[i - 1], terms[i])
  IN  sum[Len(terms)]

\* The body of a sum was evaluated k times, the results are appended.
i_term_sum(k) ==
  /\ Reduce(k) /\ (k = 0 => Room)
  /\ code_value_term(<<"i_term_sum", k>>, k,
                     SumTerm(SubSeq(stack, Len(stack) - k + 1, Len(stack))))

PowerTerm(t, e) ==
  IF e = 0 THEN term_add_constant(term_new(1), 1)
  ELSE LET result[i \in 0 .. e - 1] ==
             IF i = 0 THEN term_copy(t) ELSE term_mul_term(result[i - 1], t)
       IN  result[e - 1]

\* Error 112: no integer; error 121: negative.
i_term_power(e) ==
  /\ Reduce(1) /\ e.num * term_get_degree(Top1) <= MaxDegree
  /\ IF e.den # 1 THEN Fail(<<"i_term_power", e>>, 112)
     ELSE IF e.num < 0 THEN Fail(<<"i_term_power", e>>, 121)
     ELSE code_value_term(<<"i_term_power", e.num>>, 1, PowerTerm(Top1, e.num))
----------------------------------------------------------------------------
\* The statement is done.  (xlp_addcon_term may still print warning 215 about
\* the start values, check_con_is_invalid; nothing else depends on it.)
AddRow(n, contype, lhs, rhs, term) ==
  /\ node' = n
  /\ lp' = xlp_addcon_term(lp, contype, lhs, rhs, term)
  /\ stack' = <<>> /\ UNCHANGED <<ops, error>>

Statements   == Len(lp.rows) + Len(lp.soss) + (IF lp.dir = "NONE" THEN 0 ELSE 1)
Statement(k) == error = 0 /\ Len(stack) = k /\ Statements < MaxStatements

\* A term without elements decides alone: error 106, or nothing to do.
Trivial(n, failed, number) ==
  IF failed THEN Fail(n, number)
  ELSE node' = n /\ stack' = <<>> /\ UNCHANGED <<lp, ops, error>>

\* term is lhs - rhs of the statement, rhs the constant that goes to the right.
Compared(n, contype, term, rhs) ==
  IF term.elem = <<>>
  THEN Trivial(n, (contype = "EQUAL" /\ rhs # 0) \/ (contype = "LHS" /\ rhs > 0)
                    \/ (contype = "RHS" /\ rhs < 0), 106)
  ELSE AddRow(n, contype, rhs, rhs, term_add_constant(term, rhs))
i_constraint(contype) ==
  Statement(2) /\ Compared(<<"i_constraint", contype>>, contype,
                           term_sub_term(Top2, Top1), Top1.const - Top2.const)

Between(n, lhs, rhs, term) ==
  IF term.elem = <<>> THEN Trivial(n, lhs > 0 \/ rhs < 0, 108)
  ELSE IF lhs > rhs THEN Fail(n, 109)
  ELSE AddRow(n, "RANGE", lhs, rhs, term_sub_constant(term, term.const))
\* Error 107: l <= x >= u.
i_rangeconst(lhs, rhs, same) ==
  /\ Statement(1)
  /\ IF ~ same THEN Fail(<<"i_rangeconst", lhs, rhs>>, 107)
     ELSE Between(<<"i_rangeconst", lhs, rhs>>, lhs - Top1.const, rhs - Top1.const, term_copy(Top1))

\* Error 199: a constant.  A term of higher degree fails the assertion on
\* mono_is_linear in xlp_addsos_term, -1.
i_soset(type, priority) ==
  /\ error = 0 /\ Len(stack) = 1 /\ Len(lp.soss) < MaxStatements
  /\ IF Top1.const # 0 THEN Fail(<<"i_soset">>, 199)
     ELSE IF ~ term_is_linear(Top1) THEN Fail(<<"i_soset">>, -1)
     ELSE /\ node' = <<"i_soset">> /\ lp' = xlp_addsos_term(lp, type, priority, Top1) /\ stack' = <<>>
          /\ UNCHANGED <<ops, error>>

objective(minimize) ==
  /\ Statement(1) /\ lp.dir = "NONE"
  /\ node' = <<"objective">>
  /\ lp' = xlp_addtoobj(xlp_setobj(lp, minimize), Top1)
  /\ stack' = <<>> /\ UNCHANGED <<ops, error>>

\* vif ... then ... else ..., indicator: errors 181 and 222; the condition is
\* a result variable no row has used.
Indicated(n, b, then, contype, term, rhs) ==
  IF term.elem = <<>> THEN Fail(n, 181)
  ELSE IF ~ term_is_linear(term) THEN Fail(n, 222)
  ELSE AddRow(n, contype, rhs, rhs,
              term_make_conditional(term_add_elem(term_new(1), b, 1, "NONE"),
                                    term_add_constant(term, rhs), then))
handle_vif_then_else(b, then, contype) ==
  /\ Statement(2)
  /\ ~ \E i \in DOMAIN lp.rows : lp.rows[i].ind # <<>> /\ lp.rows[i].ind[1] = b
  /\ Indicated(<<"handle_vif_then_else", b, then, contype>>, b, then, contype,
               term_sub_term(Top2, Top1), Top1.const - Top2.const)
----------------------------------------------------------------------------
ConType == {"RHS", "LHS", "EQUAL"}

Next ==
  \/ \E v \in Var \ Result : i_symbol_deref(v)
  \/ \E c \in Number : i_term_expr(c)
  \/ \E c \in Factor : i_term_coeff(c)
  \/ \E c \in Shift : i_term_const(c)
  \/ i_term_add \/ i_term_sub \/ i_term_mul
  \/ \E k \in 0 .. Len(stack) : i_term_sum(k)
  \/ \E e \in Exponent : i_term_power(e)
  \/ \E contype \in ConType : i_constraint(contype)
  \/ \E lhs, rhs \in Number, same \in BOOLEAN : i_rangeconst(lhs, rhs, same)
  \/ \E type \in {1, 2}, priority \in Priorities : i_soset(type, priority)
  \/ \E minimize \in BOOLEAN : objective(minimize)
  \/ \E b \in Result, then \in BOOLEAN, contype \in ConType :
        handle_vif_then_else(b, then, contype)

Spec == Init /\ [][Next]_vars
----------------------------------------------------------------------------
(***************************************************************************)
(* Properties                                                              *)
(***************************************************************************)
AllTerms ==
  ToSet(stack) \cup ToSet(lp.obj_term)
    \cup UNION {ToSet(lp.rows[i].term) : i \in DOMAIN lp.rows}

\* The type of a variable tells which of its bounds count: read back, they are
\* the declared ones.
BoundsKept ==
  \A v \in Var : /\ xlp_getlower(lp.vars[v]) = Decls[v].lower
                /\ xlp_getupper(lp.vars[v]) = Decls[v].upper

\* Every term fits into its array and has no zero coefficient, its monos are
\* in order; a row with a term has no nonzeros besides it, a row is never left
\* free, and the variables marked as used are those that terms of rows, the
\* objective's term and sets name: a writer leaves out the others if no
\* nonzero and no cost mentions them.
TypeOK ==
  /\ BoundsKept
  /\ AllTerms \subseteq Term
  /\ \A i \in DOMAIN lp.rows :
        /\ lp.rows[i].type # "FREE"
        /\ lp.rows[i].term = <<>> \/ (lp.rows[i].nzo = <<>> /\ lp.rows[i].ind = <<>>)
        /\ \A v \in DOMAIN lp.rows[i].nzo : lp.rows[i].nzo[v] # 0
  /\ DOMAIN lp.cost = DOMAIN lp.vars
  /\ UNION ({VarsOf(t) : t \in ToSet(lp.obj_term)}
             \cup {VarsOf(t) : t \in UNION {ToSet(lp.rows[i].term) : i \in DOMAIN lp.rows}}
             \cup {{s[1] : s \in ToSet(lp.soss[i].sses)} : i \in DOMAIN lp.soss}) = lp.used
  /\ ops \in 0 .. MaxOps

\* What the store keeps of a nonlinear row or objective has no two monos in
\* the same variables: products that can be joined or cancel are not left
\* over for a writer, whichever way the expression was computed.  (The
\* objective is not simplified again when terms are appended to it, module
\* Qubo; here there is one objective statement.)
Simplified ==
  \A t \in ToSet(lp.obj_term) \cup UNION {ToSet(lp.rows[i].term) : i \in DOMAIN lp.rows} :
     \A i, k \in DOMAIN t.elem :
        i # k => \E v \in Var : Cardinality({j \in DOMAIN t.elem[i].vars : t.elem[i].vars[j] = v})
                             # Cardinality({j \in DOMAIN t.elem[k].vars : t.elem[k].vars[j] = v})

SumOf(f) == MapThenSumSet(LAMBDA v : f[v], DOMAIN f)

\* A sum on the wrong side of a row, by the type of the row.
Violates(c, sum) ==
  CASE c.type = "RHS" -> sum > c.rhs [] c.type = "LHS" -> c.lhs > sum
    [] c.type = "EQUAL" -> c.lhs # sum \/ c.rhs # sum
    [] c.type = "RANGE" -> sum > c.rhs \/ c.lhs > sum

\* The sum of a row and whether the row is satisfied.
NzoSum(c, p) == SumOf([v \in DOMAIN c.nzo |-> c.nzo[v] * p[v]])
RowSum(c, p) ==
  IF c.term = <<>> THEN NzoSum(c, p) ELSE NzoSum(c, p) + TermValue(c.term[1], p)
RowHolds(c, p) ==
  IF c.ind # <<>> /\ (p[c.ind[1]] = 1) # c.ind[2] THEN TRUE ELSE ~ Violates(c, RowSum(c, p))

\* The objective at a point, ObjOffset being fixed by its bounds.
At(v, p) == IF v = ObjOffset THEN lp.vars[v].lower ELSE p[v]
ObjValue(p) ==
  SumOf([v \in DOMAIN lp.cost |-> lp.cost[v] * At(v, p)])
    + (IF lp.obj_term = <<>> THEN 0 ELSE TermValue(lp.obj_term[1], p))

Worth(terms) == [i \in DOMAIN terms |-> [p \in Point |-> TermValue(terms[i], p)]]

Promise == INSTANCE Meaning WITH
  Start  <- {Worth(terms) : terms \in Sources},
  values <- Worth(stack),
  admits <- {p \in Point : \A i \in DOMAIN lp.rows : RowHolds(lp.rows[i], p)},
  cost   <- [p \in Point |-> IF lp.dir = "NONE" THEN 0 ELSE ObjValue(p)],
  ended  <- IF error = 0 THEN "no"
              ELSE IF error \in {106, 108, 109} THEN "infeasible" ELSE "refused"

\* The terms, rows and costs have the values the expressions and statements
\* have: joining, cancelling, splitting off constants and moving them to the
\* right hand side, to ObjOffset or between the sides of a range never change
\* what a point is worth, and errors 106, 108 and 109 are only reported for a
\* constraint that no point satisfies.
Refines == Promise!Spec
=============================================================================
