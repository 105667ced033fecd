---------------------------- MODULE MCSymbolTable ----------------------------
(***************************************************************************)
(* Declarations for SymbolTable: keys written twice, values without keys,  *)
(* tables, files with and without literals behind them, defaults, types    *)
(* that do not match, illegal indices and bounds between integers.         *)
(***************************************************************************)
EXTENDS SymbolTable

N(i)   == <<"n", i>>
S(x)   == <<"s", x>>
I(k, t, v) == [key |-> k, type |-> t, val |-> v]
None   == [from |-> "none", items |-> <<>>]
File(items) == [from |-> "read", items |-> items]
One    == << <<N(1)>> >>
Two    == << <<N(1)>>, <<N(2)>> >>
Pseudo == << <<>> >>

List(name, kind, iset, head, items, deflt) ==
  [name |-> name, kind |-> kind, iset |-> iset, head |-> head, items |-> items, deflt |-> deflt]
Para(iset, head, items) == List("p", "para1", iset, head, items, <<>>)
Each(name, kind, iset, vals) == [name |-> name, kind |-> kind, iset |-> iset, vals |-> vals]
VarOf(iset, class, low, up) ==
  [name |-> "x", kind |-> "var", iset |-> iset, class |-> class, lower |-> low, upper |-> up]

MCDecls == {
  Para(Two, None, <<I(<<N(2)>>, "NUMB", 7), I(<<N(2)>>, "NUMB", 8), I(<<N(1)>>, "NUMB", 9)>>),
  Para(Two, None, <<I(<<>>, "NUMB", 7), I(<<>>, "NUMB", 8), I(<<>>, "NUMB", 9)>>),
  Para(Two, None, <<I(<<>>, "STRG", "a"), I(<<>>, "NUMB", 8)>>),
  Para(Two, None, <<I(<<N(1)>>, "NUMB", 7), I(<<N(2)>>, "STRG", "a")>>),
  Para(Pseudo, None, <<I(<<>>, "STRG", "a")>>),
  Para(One, None, <<I(<<N(2)>>, "NUMB", 8)>>),
  Para(Two, None, <<I(<<N(1), N(2)>>, "NUMB", 8)>>),
  Para(Two, None, <<I(<<S("b")>>, "NUMB", 8)>>),
  Para(<<>>, None, <<I(<<N(1)>>, "NUMB", 8)>>),
  Para(Two, None, <<I(<<N(1)>>, "NAME", "q"), I(<<N(2)>>, "NUMB", 8)>>),
  Para(Two, File(<<I(<<N(1)>>, "NUMB", 7), I(<<N(2)>>, "NUMB", 8)>>), <<>>),
  Para(Two, File(<<I(<<N(1)>>, "NUMB", 7), I(<<N(1)>>, "NUMB", 8)>>), <<I(<<N(2)>>, "NUMB", 9)>>),
  Para(Two, File(<<I(<<>>, "NUMB", 7), I(<<>>, "NUMB", 8)>>), <<I(<<>>, "NUMB", 9)>>),
  Para(Two, File(<<I(<<>>, "SET", {})>>), <<>>),
  Para(Two, [from |-> "tuples", items |-> <<>>], <<>>),
  Para(Two, [from |-> "tuples", items |-> <<>>], <<I(<<N(2)>>, "NUMB", 9)>>),
  Para(Two, [from |-> "matrix", cols |-> <<N(1)>>,
             lines |-> <<[idx |-> <<>>, vals |-> << <<"NUMB", 5>> >>],
                         [idx |-> <<>>, vals |-> << <<"NUMB", 6>>, <<"NUMB", 7>> >>]>>], <<>>),
  Para(Two, [from |-> "matrix", cols |-> <<N(1), N(2)>>,
             lines |-> <<[idx |-> <<>>, vals |-> << <<"NUMB", 5>>, <<"NUMB", 6>> >>]>>],
       <<I(<<N(1)>>, "NUMB", 4)>>),
  List("q", "para1", Two, None, <<I(<<N(1)>>, "NUMB", 7)>>, <<I(<<>>, "NUMB", 3)>>),
  List("q", "para1", Two, None, <<I(<<N(1)>>, "NUMB", 7)>>, <<I(<<>>, "STRG", "d")>>),
  List("q", "para1", Two, File(<<I(<<>>, "SET", {})>>), <<I(<<N(1)>>, "NUMB", 7)>>, <<I(<<>>, "NUMB", 3)>>),
  List("s", "set2", Two, None, <<I(<<N(2)>>, "SET", {1}), I(<<N(1)>>, "SET", {2}), I(<<N(2)>>, "SET", {3})>>, <<>>),
  List("s", "set2", Pseudo, None, <<I(<<N(2)>>, "SET", {1}), I(<<N(1)>>, "SET", {2})>>, <<>>),
  List("s", "set2", One, None, <<I(<<N(2)>>, "SET", {1})>>, <<>>),
  List("s", "set2", <<>>, None, <<I(<<N(2)>>, "SET", {1})>>, <<>>),
  Each("t", "set1", Two, <<{1}, {2}>>), Each("t", "set1", <<>>, <<>>),
  Each("p", "para2", Two, << <<"NUMB", 1>>, <<"NUMB", 2>> >>),
  Each("p", "para2", Two, << <<"NUMB", 1>>, <<"STRG", "c">> >>),
  Each("p", "para2", Two, << <<"NUMB", 1>>, <<"NAME", "u">> >>),
  Each("p", "para2", <<>>, <<>>),
  VarOf(Two, "int", <<"value", -3>>, <<"value", 3>>), VarOf(<<>>, "int", <<"value", 0>>, <<"infty", 0>>),
  VarOf(One, "con", <<"value", -3>>, <<"value", 3>>), VarOf(One, "int", <<"value", 1>>, <<"value", 1>>),
  VarOf(One, "imp", <<"minus", 0>>, <<"value", -1>>)}

MCParams == {[name |-> "p", type |-> "NUMB", val |-> 6], [name |-> "q", type |-> "STRG", val |-> "e"]}
=============================================================================
