----------------------------- MODULE MCTermEval -----------------------------
(***************************************************************************)
(* A small instance: x is integer with a start value, y is continuous and  *)
(* lies before x in memory, b is the result of a condition.                *)
(***************************************************************************)
EXTENDS TermEval

CONSTANTS x, y, b

MCVar    == {x, y, b}
MCResult == {b}
MCAddr   == (x :> 12) @@ (y :> 4) @@ (b :> 20)

One == [num |-> 1, den |-> 1]
Decl(vclass, lower, upper, startval) ==
  [vclass |-> vclass, lower |-> lower, upper |-> upper, priority |-> One,
   startval |-> startval]
MCDecls == (x :> Decl("INT", 0, 3, 2)) @@ (y :> Decl("CON", Infty, 2, Unknown))
        @@ (b :> Decl("INT", 0, 1, 0))

MCNumber     == {0, 2}
MCFactor     == {-1, 0}
MCShift      == {2}
MCExponent   == {[num |-> n, den |-> 1] : n \in {-1, 0, 2, 3}} \cup {[num |-> 1, den |-> 2]}
MCPriorities == {One, [num |-> 3, den |-> 2]}

\* Nothing, or x + y once or twice: monos that can be joined or cancel.
Both == term_add_term(term_add_elem(term_new(1), x, 1, "NONE"),
                      term_add_elem(term_new(1), y, 1, "NONE"))
MCSources == {<<>>, <<Both>>, <<Both, Both>>}

MCPoint == {(x :> t[1]) @@ (y :> t[2]) @@ (b :> t[3]) :
              t \in {<<0, 0, 0>>, <<1, 2, 1>>, <<2, -1, 0>>, <<2, 1, 1>>}}
=============================================================================
