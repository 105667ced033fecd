------------------------------- MODULE MCOutput -----------------------------
(***************************************************************************)
(* A small instance of Output.  Two of the variables and some of the rows  *)
(* have names that are too long for LP files and differ only at the end,   *)
(* one variable has a character that is not allowed.                       *)
(***************************************************************************)
EXTENDS Output

x == "x#-1"
y == "transport$north#1"
z == "transport$north#2"

MCObjOffset == "@@ObjOffset"
MCVar       == {x, y, z, MCObjOffset}
MCAddr      == (x :> 12) @@ (y :> 4) @@ (z :> 20) @@ (MCObjOffset :> 28)
MCForbidden == {"-", "@"}
MCExts      == {<<"a">>, <<"a", "b">>}
MCBranches  == {<<>>, <<"r", "l">>}
MCPlans     ==
  {<<<<"subto", "supply_of_c">>, <<"subto", "supply_of_c_1_t">>>>,
   <<<<"subto", "c_1_a">>, <<"subto", "c">>>>,
   <<<<"sos", "supply_of_c">>, <<"objective", "c">>, <<"subto", "c">>>>}
MCValues    == (x :> {-1, 0, 2}) @@ (y :> {-1, 0, 2}) @@ (z :> {0, 1}) @@ (MCObjOffset :> {0, 1})
----------------------------------------------------------------------------
\* Terms from pairs of a coefficient and the variables of a product.
FromMono(m) == mono_mul_entries(mono_new(m[1], m[2][1], "NONE"), Tail(m[2]))
Sum(const, monos) ==
  [const |-> const, size |-> Len(monos) + 1, elem |-> [i \in DOMAIN monos |-> FromMono(monos[i])]]

One == [num |-> 1, den |-> 1]
Row(type, lhs, rhs, term, flags) ==
  [type |-> type, lhs |-> lhs, rhs |-> rhs, term |-> term, flags |-> flags]
Boxed == xlp_addvar("INT", 0, 1, One, 1)
Numbers == (x :> 0) @@ (z :> 1) @@ (y :> 2)

\* A mixed integer program with ranges, cuts, a fixed variable and a constant.
Mixed ==
  [vars |-> (x :> xlp_addvar("INT", 0, 2, One, 1)) @@ (y :> xlp_addvar("CON", Infty, 1, One, Unknown))
            @@ (z :> xlp_addvar("IMP", 1, 1, One, 1)),
   number |-> Numbers,
   rows |-> <<Row("RANGE", 1, 3, Sum(0, <<<<2, <<x>>>>, <<1, <<y>>>>>>), {"SCALE"}),
              Row("EQUAL", 0, 0, Sum(0, <<<<1, <<x>>>>, <<-1, <<y>>>>>>), {"SEPAR"}),
              Row("RANGE", -1, 2, Sum(0, <<<<1, <<y>>>>, <<3, <<z>>>>, <<-2, <<z>>>>>>), {"SEPAR", "CHECK"})>>,
   soss |-> <<[type |-> 1, priority |-> One, term |-> Sum(0, <<<<1, <<x>>>>, <<2, <<y>>>>>>)],
              [type |-> 2, priority |-> One, term |-> Sum(0, <<<<1, <<z>>>>, <<2, <<y>>>>>>)]>>,
   minimize |-> FALSE, objective |-> Sum(3, <<<<2, <<x>>>>, <<-1, <<y>>>>>>)]

\* Products of two, an indicator, a row that vanishes, a variable that is only
\* in a set.
Quadratics ==
  [vars |-> (x :> xlp_addvar("CON", 1, 2, One, Unknown)) @@ (y :> xlp_addvar("INT", -1, Infty, One, 2))
            @@ (z :> Boxed),
   number |-> Numbers,
   rows |-> <<Row("RHS", 0, 2, Sum(0, <<<<1, <<x, y>>>>, <<-1, <<x>>>>>>), {}),
              Row("LHS", 0, 0, term_make_conditional(Sum(0, <<<<1, <<z>>>>>>),
                                  Sum(0, <<<<1, <<x>>>>, <<-2, <<y>>>>>>), FALSE), {"CHECK"}),
              Row("LHS", -1, 0, Sum(0, <<<<1, <<x>>>>, <<-1, <<x>>>>>>), {})>>,
   soss |-> <<[type |-> 2, priority |-> One, term |-> Sum(0, <<<<1, <<z>>>>>>)],
              [type |-> 1, priority |-> One, term |-> Sum(0, <<<<1, <<x>>>>>>)]>>,
   minimize |-> TRUE, objective |-> Sum(0, <<<<1, <<x, x>>>>, <<-3, <<y, x>>>>, <<1, <<y>>>>>>)]

\* Binary variables only, as in OPB files and QUBO matrices.
Binaries(minimize, constant) ==
  [vars |-> (x :> Boxed) @@ (y :> Boxed) @@ (z :> Boxed),
   number |-> Numbers,
   rows |-> <<Row("RHS", 0, 1, Sum(0, <<<<1, <<x>>>>, <<1, <<y>>>>, <<-2, <<z>>>>>>), {"SCALE"}),
              Row("RANGE", 0, 1, Sum(0, <<<<2, <<x, y, z>>>>, <<-1, <<z>>>>>>), {}),
              Row("LHS", 1, 0, Sum(0, <<<<1, <<x>>>>, <<1, <<z>>>>>>), {})>>,
   soss |-> <<[type |-> 1, priority |-> One, term |-> Sum(0, <<<<1, <<x>>>>>>)],
              [type |-> 1, priority |-> One, term |-> Sum(0, <<<<1, <<x>>>>>>)]>>,
   minimize |-> minimize,
   objective |-> Sum(constant, <<<<3, <<z, x>>>>, <<-1, <<y, y>>>>, <<2, <<x>>>>, <<1, <<x, y>>>>>>)]

\* A row without nonzeros is to be scaled.
Unscalable ==
  [Binaries(TRUE, 0) EXCEPT !.rows[1] = Row("RHS", 0, 1, Sum(0, <<<<1, <<x, y>>>>>>), {"SCALE"})]

Job(program, format, name_len, besides) ==
  [program |-> program,
   opts    |-> [format |-> format, name_len |-> name_len,
                write_order |-> besides, write_mst |-> besides]]
MCJobs ==
  {Job(Mixed, "LPF", 0, TRUE), Job(Mixed, "MPS", 0, TRUE), Job(Mixed, "MPS", 9, FALSE),
   Job(Mixed, "RLP", 17, FALSE), Job(Mixed, "HUM", 0, FALSE),
   Job(Quadratics, "LPF", 0, FALSE), Job(Quadratics, "PIP", 0, FALSE),
   [Job(Quadratics, "PIP", 0, FALSE) EXCEPT !.opts.write_mst = TRUE],
   Job(Binaries(FALSE, 0), "OPB", 0, FALSE), Job(Binaries(TRUE, 5), "QBO", 0, FALSE),
   Job(Unscalable, "RLP", 0, TRUE), Job(Unscalable, "LPF", 17, FALSE)}
============================================================================
