----------------------------- MODULE Denotation -----------------------------
(***************************************************************************)
(* What an expression means: the value its text has by the documentation,  *)
(* without nodes, pointers, frames or an order of evaluation.              *)
(***************************************************************************)
EXTENDS Values

\* The functions on numbers as the documentation's tables name them
\* (doc/zimplug.tex:425-460), by their properties.
Whole == {numb_new_integer(k) : k \in -30 .. 30}
Holds(x) == x.t = "BOOL" /\ x.v
Leq(a, b) == numb_cmp(a, b) <= 0
Distance(a, b) == numb_abs(numb_new_sub(a, b))
Function(op, x) ==
  LET a == x[1].v
      b == x[2].v
      below == {k \in Whole : Leq(k, a)}
      above == {k \in Whole : Leq(a, k)}
      near == {k \in Whole : \A m \in Whole : Leq(Distance(k, a), Distance(m, a))}
      remainder(q) == numb_new_sub(a, numb_new_mul(q, b))
      scale == numb_new_integer(a[2] * b[2])
      product(n) == FoldLeft(numb_new_mul, One, [k \in 1 .. n |-> a])
      string == x[1].v
  IN CASE op = "floor" -> Numb(CHOOSE k \in below : \A m \in below : Leq(m, k))
       [] op = "ceil" -> Numb(CHOOSE k \in above : \A m \in above : Leq(k, m))
       [] op = "round" -> Numb(CHOOSE k \in near : \A m \in near : Leq(numb_abs(m), numb_abs(k)))
       [] op = "neg" -> Numb(numb_new_sub(Zero, a))
       [] op = "abs" -> Numb(IF Leq(Zero, a) THEN a ELSE numb_neg(a))
       [] op = "sgn" -> Numb(CHOOSE s \in Whole : numb_new_mul(s, numb_abs(a)) = a
                                                  /\ (a = Zero => s = Zero))
       [] op = "fac" -> IF a \notin Whole \/ ~ Leq(Zero, a) THEN Wrong
                        ELSE Numb(FoldSet(numb_new_mul, One, {k \in Whole : Leq(One, k) /\ Leq(k, a)}))
       [] op = "add" -> Numb(numb_new_add(a, b))
       [] op = "sub" -> Numb(numb_new_add(a, numb_neg(b)))
       [] op = "mul" -> Numb(numb_new_mul(a, b))
       [] op \in {"div", "mod", "intdiv"} /\ b = Zero -> Wrong
       [] op = "div" -> Numb(CHOOSE q \in {numb_new_div(a, b)} : numb_new_mul(q, b) = a)
            \* towards zero: the largest multiple of b that is not larger than a
       [] op = "intdiv" ->
            Numb(CHOOSE q \in Whole : /\ Leq(numb_abs(numb_new_mul(q, b)), numb_abs(a))
                                      /\ Leq(Zero, numb_new_mul(remainder(q), a))
                                      /\ ~ Leq(numb_abs(b), numb_abs(remainder(q))))
            \* the remainder in units of the common denominator
       [] op = "mod" ->
            Numb(numb_new_mul(scale, remainder(CHOOSE q \in Whole :
                   Leq(Zero, remainder(q)) /\ ~ Leq(numb_abs(b), remainder(q)))))
       [] op = "pow" -> IF b \notin Whole \/ (a = Zero /\ ~ Leq(Zero, b)) THEN Wrong
                        ELSE LET p == product(Magnitude(numb_toint(b)))
                             IN  Numb(IF Leq(Zero, b) THEN p ELSE numb_new_div(One, p))
       [] op = "length" -> Numb(numb_new_integer(Cardinality(DOMAIN string)))
       [] op = "substr" ->
            LET beg == x[2].v[1]
                len == x[3].v[1]
                first == IF beg >= 0 THEN beg ELSE Max({Len(string) + beg, 0})
                char(k) == first < k /\ k <= first + len
            IN  IF x[2].v \notin Whole \/ x[3].v \notin Whole \/ len < 0 THEN Wrong
                ELSE Strg([k \in 1 .. Cardinality({k \in DOMAIN string : char(k)})
                             |-> string[first + k]])

\* What an expression is worth where the locals have the values "env": with
\* the locals of its callers visible in a define, or only its arguments.
RECURSIVE Worth(_, _, _, _)
Worth(defs, e, env, dynamic) ==
  LET kid(k) == Worth(defs, e.kids[k], env, dynamic)
      all == [k \in DOMAIN e.kids |-> kid(k)]
      numbers == All("NUMB", all)
      fits(m) == e.name \in DOMAIN env => Numb(m) = env[e.name]
      inner(m) == (e.name :> Numb(m)) @@ env
      test(m) == Worth(defs, e.kids[1], inner(m), dynamic)
      tuples == SelectSeq(e.set, fits)
      chosen == SelectSeq(tuples, LAMBDA m : Holds(test(m)))
      terms == [k \in DOMAIN chosen |-> IF e.op \in MemberOps THEN Numb(chosen[k])
                                       ELSE Worth(defs, e.kids[2], inner(chosen[k]), dynamic)]
      values == {terms[k].v : k \in DOMAIN terms}
      extreme(op) == CHOOSE a \in values :
                       \A b \in values : IF op \in {"min", "sglmin"} THEN Leq(a, b) ELSE Leq(b, a)
  IN CASE e.op = "numb" -> Numb(e.v)
       [] e.op = "strg" -> Strg(e.v)
       [] e.op = "true" -> Bool(TRUE)
       [] e.op = "local" -> IF e.name \in DOMAIN env THEN env[e.name] ELSE Name(e.name)
       [] e.op = "add" /\ All("STRG", all) -> Strg(FlattenSeq([k \in {1, 2} |-> all[k].v]))
       [] e.op \in BinaryOps \cup UnaryOps -> IF numbers THEN Function(e.op, all) ELSE Wrong
       [] e.op = "length" -> IF All("STRG", all) THEN Function(e.op, all) ELSE Wrong
       [] e.op = "substr" -> IF all[1].t = "STRG" /\ All("NUMB", Tail(all))
                             THEN Function(e.op, all) ELSE Wrong
       [] e.op \in CompareOps -> Compare(e.op, kid(1), kid(2))
       [] e.op = "not" -> IF kid(1).t = "WRONG" THEN Wrong ELSE Bool(~ kid(1).v)
       [] e.op \in {"and", "or"} ->
            IF kid(1).t = "WRONG" THEN Wrong
            ELSE IF kid(1).v = (e.op = "or") THEN kid(1) ELSE kid(2)
       [] e.op = "xor" -> IF \E k \in {1, 2} : kid(k).t = "WRONG" THEN Wrong
                          ELSE Bool(kid(1).v # kid(2).v)
       [] e.op = "if" -> IF kid(1).t = "WRONG" THEN Wrong
                         ELSE IF kid(1).v THEN kid(2) ELSE kid(3)
       [] e.op = "check" -> IF Holds(kid(1)) THEN Void ELSE Wrong
       [] e.op \in ListOps ->
            IF ~ numbers THEN Wrong
            ELSE Numb(CHOOSE a \in {x.v : x \in Range(all)} : \A x \in Range(all) :
                        IF e.op = "min2" THEN Leq(a, x.v) ELSE Leq(x.v, a))
       [] e.op \in LoopOps /\ e.name \in DOMAIN env /\ env[e.name].t = "STRG" -> Wrong
       [] e.op = "exists" ->
            LET bad == SelectInSeq(tuples, LAMBDA m : test(m).t = "WRONG")
                good == SelectInSeq(tuples, LAMBDA m : Holds(test(m)))
            IN  IF bad # 0 /\ (good = 0 \/ bad < good) THEN Wrong ELSE Bool(good # 0)
       [] e.op \in LoopOps ->
            IF \E k \in DOMAIN tuples : test(tuples[k]).t = "WRONG" THEN Wrong
            ELSE IF e.op = "forall"
                 THEN IF \E k \in DOMAIN terms : terms[k].t = "WRONG" THEN Wrong ELSE Void
            ELSE IF ~ All("NUMB", terms) THEN Wrong
            ELSE Numb(CASE e.op = "sum" -> FoldLeft(LAMBDA a, x : numb_new_add(a, x.v), Zero, terms)
                        [] e.op = "prod" -> FoldLeft(LAMBDA a, x : numb_new_mul(a, x.v), One, terms)
                        [] OTHER -> IF values = {} THEN Zero ELSE extreme(e.op))
       [] e.op = "call" ->
            LET def == defs[e.def]
                bound == Range(def.param)
                value(s) == all[SelectInSeq(def.param, LAMBDA p : p = s)]
            IN  IF Len(all) # Len(def.param) \/ \E k \in DOMAIN all : all[k].t \in {"NAME", "WRONG"}
                THEN Wrong
                ELSE Worth(defs, def.code,
                           [s \in bound |-> value(s)] @@ (IF dynamic THEN env ELSE <<>>),
                           dynamic)

\* An expression without names that has no value.
RECURSIVE Constant(_), HasWrongConstant(_)
Constant(e) == e.op \in Constants \/ (e.op \in prunable /\ \A k \in Range(e.kids) : Constant(k))
HasWrongConstant(e) ==
  \/ Constant(e) /\ Worth(<<>>, e, <<>>, TRUE).t = "WRONG"
  \/ \E k \in Range(e.kids) : HasWrongConstant(k)

\* The names an expression uses and those it binds.
RECURSIVE Uses(_), Binds(_)
Uses(e) == (IF e.op \in {"local"} \cup LoopOps THEN {e.name} ELSE {})
             \cup UNION {Uses(k) : k \in Range(e.kids)}
Binds(e) == (IF e.op \in LoopOps THEN {e.name} ELSE {}) \cup UNION {Binds(k) : k \in Range(e.kids)}
============================================================================
