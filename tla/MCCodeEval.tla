----------------------------- MODULE MCCodeEval ------------------------------
(***************************************************************************)
(* Programs for CodeEval: a define f, called in several ways, or two that  *)
(* call each other; and every operator on constants, which are evaluated   *)
(* beforehand, and on arguments of a define, which are not.                *)
(***************************************************************************)
EXTENDS CodeEval

Q(n, d) == [op |-> "numb", v |-> Fraction(n, d), kids |-> <<>>]
N(n) == Q(n, 1)
S(s) == [op |-> "strg", v |-> s, kids |-> <<>>]
L(s) == [op |-> "local", name |-> s, kids |-> <<>>]
True == [op |-> "true", kids |-> <<>>]
Op(o, a, b) == [op |-> o, kids |-> <<a, b>>]
If(c, a, b) == [op |-> "if", kids |-> <<c, a, b>>]
CallOf(d, args) == [op |-> "call", def |-> d, kids |-> args]
Call(args) == CallOf("f", args)
Loop(o, s, set, kids) ==
  [op |-> o, name |-> s, set |-> [k \in DOMAIN set |-> numb_new_integer(set[k])], kids |-> kids]
Sum(s, c, e) == Loop("sum", s, <<1, 2>>, <<c, e>>)
Op1(o, a) == [op |-> o, kids |-> <<a>>]
Op3(o, a, b, c) == [op |-> o, kids |-> <<a, b, c>>]

i == L("i")
j == L("j")
Prev == Op("sub", i, N(1))
Arith == {"add", "sub"}

\* Bodies without a call: with the argument i, a name j of the caller, and
\* sums over <j>, whose index is fixed if the caller has a j.
Plain ==
  LET leaf == {N(1), i, j}
      flat == {Op(o, a, b) : o \in Arith, a \in {i, j}, b \in leaf}
      sums == {Sum("j", c, e) : c \in {True, Op("gt", j, i)}, e \in {N(1), j, Op("add", i, j)}}
  IN  {i, j} \cup flat \cup sums \cup {Op("sub", e, i) : e \in sums}
        \cup {Sum("k", True, e) : e \in sums}

\* Bodies that call f again for i > 0.
Recursive ==
  LET again == Call(<<Prev>>)
      steps == {again, Call(<<Op("sub", again, again)>>)}
        \cup {Op(o, a, again) : o \in Arith, a \in {N(1), i, again, Sum("j", True, j)}}
        \cup {Op(o, again, a) : o \in Arith, a \in {N(1), i, Sum("j", True, j)}}
        \cup {Sum("j", c, e) : c \in {True, Op("gt", j, i)}, e \in {again, Call(<<Prev>>), N(1)}}
        \cup {Sum("j", Op("gt", again, N(0)), j), If(Op("gt", again, i), i, again),
              If(Op("gt", i, N(1)), again, Op("add", again, i))}
  IN  {If(Op("gt", i, N(0)), s, N(1)) : s \in steps}

\* do print f(1), f(2), sum <j> in A : f(j), sum <j> in A : j + f(j), sum <k>
\* in A : f(k) - k, f(f(1)), f(1) + f(2), f(j) without a j, f(1, 2).
Mains ==
  {Call(<<N(1)>>), Call(<<N(2)>>), Sum("j", True, Call(<<j>>)),
   Sum("j", True, Op("add", j, Call(<<j>>))),
   Sum("k", True, Op("sub", Call(<<L("k")>>), L("k"))),
   Op("add", Call(<<N(1)>>), Call(<<N(2)>>)), Call(<<j>>), Call(<<N(1), N(2)>>)}

F(params, body) == [x \in {"f"} |-> [param |-> params, code |-> body]]

\* check/define.zpl: ack(i, j)
Ack ==
  LET less(s) == Op("sub", L(s), N(1))
      body == If(Op("gt", N(1), i), Op("add", j, N(1)),
                 If(Op("gt", N(1), j), Call(<<less("i"), N(1)>>),
                    Call(<<less("i"), Call(<<i, less("j")>>)>>)))
  IN  {[main |-> Call(<<N(m), N(n)>>), def |-> F(<<"i", "j">>, body)] : m \in 0 .. 2, n \in 0 .. 2}

\* doc/zimplfaq.tex:17-18: f(i) := i + sum <j> in A | j > i : f(j), and g.
Faq ==
  LET sum == Sum("j", Op("gt", j, i), Call(<<j>>))
  IN  {[main |-> Call(<<N(1)>>), def |-> F(<<"i">>, body)] :
          body \in {Op("add", i, sum), Op("add", sum, i)}}

\* An operator on values: of constants, and in a define of two arguments that
\* is called with them.
Applied(o, args) ==
  LET n == Len(args)
      formal == SubSeq(<<i, j, L("k")>>, 1, n)
      names == SubSeq(<<"i", "j", "k">>, 1, n)
      node(kids) == [op |-> o, kids |-> kids]
  IN  {[main |-> node(args), def |-> F(<<"i">>, i)],
       [main |-> Call(args), def |-> F(names, node(formal))]}

Sample == {Q(-7, 2), N(-3), N(0), Q(1, 2), N(2), Q(5, 3)}
Text == {S(<<>>), S(<<1>>), S(<<1, 2>>), S(<<2, 1, 3>>)}
Operators ==
  UNION ({Applied(o, <<a, b>>) : o \in BinaryOps, a \in Sample, b \in Sample}
    \cup {Applied(o, <<a, b, c>>) : o \in ListOps, a \in Sample, b \in {N(0), Q(5, 3)}, c \in {N(1), j, S(<<1>>)}}
    \cup {Applied(o, <<a>>) : o \in UnaryOps, a \in Sample \cup {Q(-1, 2), Q(3, 2), N(3)}}
    \cup {Applied(o, <<a, b>>) : o \in {"add", "mul", "gt", "le", "eq"}, a \in Text, b \in Text \cup {N(1)}}
    \cup {Applied(o, <<a, b>>) : o \in CompareOps, a \in {N(0), Q(1, 2)}, b \in {N(0), Q(1, 2), S(<<1>>)}}
    \cup {Applied("length", <<a>>) : a \in Text \cup {N(1)}}
    \cup {Applied("substr", <<a, b, c>>) : a \in Text, b \in {N(-4), N(-1), N(0), N(1), N(5), Q(1, 2)},
                                          c \in {N(-1), N(0), N(2), N(9)}})

\* Sub-expressions that are constant: in a branch that is not taken, below an
\* argument, next to a call.
Bad == Op("div", N(1), Op("sub", N(2), N(2)))
Folded ==
  {[main |-> Call(<<N(1)>>), def |-> F(<<"i">>, body)] :
     body \in {If(Op("gt", i, N(0)), i, Bad), If(Op("gt", N(0), i), Bad, Op("add", N(1), N(2))),
               Op("add", Op("mul", N(2), N(3)), i), Op("or", Op("gt", i, N(0)), Op("gt", Bad, N(0))),
               Op("add", Op("add", N(1), N(1)), If(Op("gt", i, N(3)), N(0), Call(<<Op("add", i, N(1))>>))),
               If(Op("gt", i, N(2)), Op("pow", N(0), N(-1)), i), Op1("neg", L("k"))}}

\* and, or, xor, not, with operands that have no value.
Conditions ==
  LET tests == {True, Op("gt", N(0), i), Op("gt", j, N(0)), Op1("not", Op("ge", i, N(1)))}
  IN  {Op(o, a, b) : o \in BoolOps, a \in tests, b \in tests} \cup {Op1("not", a) : a \in tests}

\* Loops over sets of none to three members, and what is around them.
Loops ==
  LET sets == {<<>>, <<2>>, <<2, -1, 1>>}
      tests == {True, Op("gt", j, i), Op("gt", N(0), j), Op("gt", Op("div", N(1), Op("sub", j, i)), N(0))}
      bodies == {j, Op("mul", i, j), L("k"), Op("add", j, Loop("min", "j", <<3, 4>>, <<True, j>>))}
      some(s, c) == Loop("exists", "j", s, <<c>>)
  IN  {Loop(o, "j", s, <<c, e>>) : o \in {"sum", "prod", "min", "max"}, s \in sets, c \in tests, e \in bodies}
        \cup {Op("sub", Loop(o, "j", s, <<c>>), i) : o \in MemberOps, s \in sets, c \in tests}
        \cup {If(some(s, c), i, N(7)) : s \in sets, c \in tests}
        \cup {If(some(s, Op("and", some(<<1>>, Op("gt", j, i)), c)), Op("add", i, j), j) : s \in sets, c \in tests}
Checks ==
  {Loop("forall", "j", s, <<c, Op1("check", Op("ne", Call(<<j>>), N(k)))>>) :
     s \in {<<>>, <<2, 3>>}, c \in {True, Op("gt", j, N(2))}, k \in {1, 4, 5}}

\* Recursion through the other operators: factorials and lists.
Deep ==
  LET again == Call(<<Prev>>)
      steps == {Op(o, i, again) : o \in {"mul", "div", "pow", "ge", "mod"}}
        \cup {Op(o, again, N(2)) : o \in {"mul", "div", "pow", "mod"}}
        \cup {Op("pow", again, If(Op("eq", i, N(1)), N(2), again)), Op("div", again, i),
               [op |-> "min2", kids |-> <<again, i, Op("sub", N(0), again)>>],
               [op |-> "max2", kids |-> <<N(0), again, L("k")>>],
               If(Op("and", Op("gt", i, N(1)), Op("gt", again, N(0))), again, i),
               If(Op("xor", Op("gt", again, N(0)), Op("gt", again, i)), i, again),
               Loop("max", "j", <<1, 2>>, <<True, Op("mul", j, again)>>),
               Loop("sglmax", "j", <<1, 2, 3>>, <<Op("ge", i, j)>>),
               Loop("sglmin", "j", <<1, 2>>, <<Op("gt", again, j)>>),
               If(Loop("exists", "j", <<1, 2>>, <<Op("gt", again, j)>>), i, N(0)),
               Op1("neg", again), Op1("length", again)}
  IN  {If(Op("gt", i, N(0)), s, N(1)) : s \in steps}
Strings ==
  LET again == Call(<<Op3("substr", i, N(1), Op1("length", i))>>)
      body == {If(Op("gt", Op1("length", i), N(0)), Op(o, a, b), S(<<>>)) :
                 o \in {"add"}, a \in {again, i}, b \in {again, Op3("substr", i, N(0), N(1))}}
  IN  {[main |-> Call(<<S(<<1, 2, 3>>)>>), def |-> F(<<"i">>, c)] : c \in body}

\* Two defines that call each other, with what they hold and without.
Mutual ==
  LET other(d) == CallOf(d, <<Prev>>)
      stop(e) == If(Op("gt", i, N(0)), e, N(0))
  IN  {[main |-> CallOf(d, <<N(n)>>),
        def |-> [x \in {"f", "g"} |->
                   [param |-> <<"i">>,
                    code |-> stop(IF x = "f" THEN Op(o, a, other("g")) ELSE Op("sub", other("f"), N(1)))]]] :
          d \in {"f", "g"}, n \in 2 .. 3, o \in {"add", "mul"}, a \in {N(2), i}}

AllPrograms ==
  {[main |-> m, def |-> F(<<"i">>, body)] : m \in Mains, body \in Plain \cup Recursive}
    \cup {[main |-> m, def |-> F(<<"i">>, body)] : m \in {Call(<<N(1)>>), Call(<<N(2)>>)},
                                                   body \in Deep \cup Loops}
    \cup {[main |-> Call(<<N(1)>>), def |-> F(<<"i">>, If(c, N(4), N(5)))] : c \in Conditions}
    \cup {[main |-> m, def |-> F(<<"i">>, Op("add", i, N(2)))] : m \in Checks}
    \cup Ack \cup Faq \cup Operators \cup Folded \cup Strings \cup Mutual
============================================================================
