------------------------------- MODULE MCQubo ------------------------------
(***************************************************************************)
(* Two variables x in 0 .. 1 and y in 0 .. YUp, constraints a x + b y <= r *)
(* and the like, three objectives: constant and linear, with a product,    *)
(* and another product.                                                    *)
(***************************************************************************)
EXTENDS Qubo

CONSTANTS YUp,           \* upper bound of y
          Factors, Rhs   \* coefficients and right hand sides

MixedFactors == {-2, 3}
ManyRhs == {-6, -1, 0, 4, 7}

MCPoint == [x : 0 .. 1, y : 0 .. YUp]
Linear(a, b) == [u \in MCPoint |-> a * u.x + b * u.y]
Product(a) == [u \in MCPoint |-> a * u.x * u.y]

MCObjective ==
  {[constant |-> 0, linear |-> Linear(1, 2), higher |-> Linear(0, 0)],
   [constant |-> 3, linear |-> Linear(1, 0), higher |-> Product(2)]}

MCConstraint ==
  {LET v == Linear(a, b)
   IN  [type |-> t, linear |-> l, rhs |-> r, value |-> v,
        lower |-> Min({v[u] : u \in MCPoint}), upper |-> Max({v[u] : u \in MCPoint})] :
     t \in Types, l \in {TRUE}, a \in Factors, b \in Factors, r \in Rhs}
  \cup {[type |-> "EQUAL", linear |-> FALSE, rhs |-> 1, value |-> Product(1),
         lower |-> 0, upper |-> YUp]}
============================================================================
