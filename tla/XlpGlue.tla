------------------------------- MODULE XlpGlue ------------------------------
(***************************************************************************)
(* The interface to the store of the linear program, src/src/zimpl/        *)
(* xlpglue.c, with the setters of ratlpstore.c it calls.  The store is a   *)
(* record: the variables, the costs, the objective's term of higher        *)
(* degree, the rows and the sos sets.  A row has the coefficients of its   *)
(* nonzeros (the lists that hold them are module LpStore), or a term, and  *)
(* possibly the condition of an indicator constraint.                      *)
(***************************************************************************)
EXTENDS Terms

CONSTANTS Infty,         \* the type of a bound that is not a value
          ObjOffset,     \* the variable that stands for the constant
          Unknown        \* numb_unknown(), no start value

lps_addvar == [vclass |-> "CON", type |-> "FREE", lower |-> 0, upper |-> 0,
               startval |-> 0, priority |-> 0]
lps_addcon == [type |-> "FREE", lhs |-> 0, rhs |-> 0, nzo |-> <<>>, term |-> <<>>,
               ind |-> <<>>]

\* A side is set: it is the only one so far, or both are known and compared.
BothSides(type, alone, both, equal) ==
  IF type \in {"FREE", alone} THEN alone ELSE IF equal THEN both[1] ELSE both[2]

lps_setlower(v, lower) ==
  [v EXCEPT !.lower = lower,
            !.type  = BothSides(@, "LOWER", <<"FIXED", "BOXED">>, lower = v.upper)]
lps_setupper(v, upper) ==
  [v EXCEPT !.upper = upper,
            !.type  = BothSides(@, "UPPER", <<"FIXED", "BOXED">>, v.lower = upper)]
lps_setlhs(c, lhs) ==
  [c EXCEPT !.lhs = lhs, !.type = BothSides(@, "LHS", <<"EQUAL", "RANGE">>, lhs = c.rhs)]
lps_setrhs(c, rhs) ==
  [c EXCEPT !.rhs = rhs, !.type = BothSides(@, "RHS", <<"EQUAL", "RANGE">>, c.lhs = rhs)]

lps_haslower(v) == v.type \notin {"FREE", "UPPER"}
lps_hasupper(v) == v.type \notin {"FREE", "LOWER"}

\* xlp_addvar: only bounds that are values are set; the numerator of a
\* priority is taken, also if it is not integral (warning 301).
xlp_addvar(vclass, lower, upper, priority, startval) ==
  LET low  == IF lower = Infty THEN lps_addvar ELSE lps_setlower(lps_addvar, lower)
      both == IF upper = Infty THEN low ELSE lps_setupper(low, upper)
  IN  [both EXCEPT !.vclass = vclass, !.priority = priority.num,
                   !.startval = IF startval = Unknown THEN 0 ELSE startval]

xlp_getlower(v) == IF lps_haslower(v) THEN v.lower ELSE Infty
xlp_getupper(v) == IF lps_hasupper(v) THEN v.upper ELSE Infty

xlp_alloc(variables) ==
  [vars |-> variables, cost |-> [v \in DOMAIN variables |-> 0], obj_term |-> <<>>,
   dir |-> "NONE", rows |-> <<>>, soss |-> <<>>, used |-> {}]
----------------------------------------------------------------------------
VarsOf(t) == UNION {ToSet(t.elem[i].vars) : i \in DOMAIN t.elem}

\* f with the value y for one more x
With(f, x, y) == [z \in DOMAIN f \cup {x} |-> IF z = x THEN y ELSE f[z]]

\* Nonzeros: a coefficient is entered, added to the one that is there, or
\* deleted when the sum is zero.
AddNzo(nzo, v, val) ==
  IF v \notin DOMAIN nzo THEN With(nzo, v, val)
  ELSE IF nzo[v] + val = 0 THEN [w \in DOMAIN nzo \ {v} |-> nzo[w]]
  ELSE [nzo EXCEPT ![v] = @ + val]

AddMono(c, m) ==
  IF m.fun \in {"TRUE", "FALSE"}
  THEN [c EXCEPT !.ind = <<m.vars[1], m.fun = "TRUE">>]      \* lps_setindicator
  ELSE [c EXCEPT !.nzo = AddNzo(@, m.vars[1], m.coeff)]

AddMonos(c, elem) ==
  LET row[i \in 0 .. Len(elem)] == IF i = 0 THEN c ELSE AddMono(row[i - 1], elem[i])
  IN  row[Len(elem)]

SetSides(c, contype, lhs, rhs) ==
  CASE contype = "RHS" -> lps_setrhs(c, rhs)
    [] contype = "LHS" -> lps_setlhs(c, lhs)
    [] contype \in {"EQUAL", "RANGE"} -> lps_setrhs(lps_setlhs(c, lhs), rhs)

Filled(c, term) ==
  IF term_get_degree(term) >= 2 \/ term_has_realfunction(term)
  THEN [c EXCEPT !.term = <<term_copy(term)>>]               \* lps_addterm
  ELSE AddMonos(c, term.elem)

\* The store with the row for lhs <= term <= rhs; terms mark their variables.
xlp_addcon_term(lp, contype, lhs, rhs, term) ==
  LET row == Filled(SetSides(lps_addcon, contype, lhs, rhs), term_simplify(term))
  IN  [lp EXCEPT !.rows = Append(@, row),
                 !.used = @ \cup UNION {VarsOf(row.term[i]) : i \in DOMAIN row.term}]
----------------------------------------------------------------------------
\* The set is put together from the front; 1 says that two weights are equal,
\* 2 that the priority is not integral.
xlp_addsos_term(lp, type, priority, term) ==
  [lp EXCEPT
     !.soss = Append(@, [type |-> type, priority |-> priority.num,
                         sses |-> Reverse([i \in DOMAIN term.elem |->
                                    <<term.elem[i].vars[1], term.elem[i].coeff>>])]),
     !.used = @ \cup {term.elem[i].vars[1] : i \in DOMAIN term.elem}]

SosFlags(priority, term) ==
  (IF \E i, k \in DOMAIN term.elem : i < k /\ term.elem[i].coeff = term.elem[k].coeff
   THEN 1 ELSE 0) + (IF priority.den # 1 THEN 2 ELSE 0)

\* xlp_setobj: the costs are cleared, the direction is set.
xlp_setobj(lp, minimize) ==
  [lp EXCEPT !.cost = [v \in DOMAIN @ |-> 0], !.dir = IF minimize THEN "MIN" ELSE "MAX"]

\* A constant becomes the cost of a variable that is fixed to one.
WithOffset(lp, const) ==
  IF const = 0 THEN lp
  ELSE IF ObjOffset \in DOMAIN lp.vars THEN [lp EXCEPT !.cost[ObjOffset] = @ + const]
  ELSE [lp EXCEPT !.vars = With(@, ObjOffset, xlp_addvar("IMP", 1, 1, [num |-> 0, den |-> 1], 0)),
                  !.cost = With(@, ObjOffset, const)]

lps_addtoobjterm(lp, term) ==
  [lp EXCEPT !.obj_term =
      <<term_append_term(IF @ = <<>> THEN term_new(Cardinality(DOMAIN lp.vars)) ELSE @[1], term)>>,
             !.used = @ \cup VarsOf(term)]

AddCost(cost, m) == [cost EXCEPT ![m.vars[1]] = @ + m.coeff]
AddCosts(cost, elem) ==
  LET added[i \in 0 .. Len(elem)] == IF i = 0 THEN cost ELSE AddCost(added[i - 1], elem[i])
  IN  added[Len(elem)]

\* The term of higher degree is taken whole, a linear one adds to the costs.
AddObj(lp, term) ==
  IF term_get_degree(term) >= 2 \/ ~ term_is_polynomial(term)
  THEN lps_addtoobjterm(lp, term)
  ELSE [lp EXCEPT !.cost = AddCosts(@, term.elem)]

AddSimple(lp, term) ==
  AddObj(WithOffset(lp, term.const), term_sub_constant(term, term.const))
xlp_addtoobj(lp, term) == AddSimple(lp, term_simplify(term))
=============================================================================
