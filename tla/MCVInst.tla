------------------------------ MODULE MCVInst -------------------------------
(* Model checking of VInst: x in 0..1 and y in -1..2 whole, z continuous    *)
(* without upper bound; terms on both sides that are open, fixed by their   *)
(* bounds, empty or of several variables.                                   *)
EXTENDS VInst, TLC

CONSTANTS x, y, z, YUp

MCVar == {x, y, z}
MCInt == {x, y}
MCLower == (x :> 0) @@ (y :> -One) @@ (z :> 0)
MCUpper == (x :> One) @@ (y :> YUp * One) @@ (z :> Infty)
MCValues == (x :> {0, One}) @@ (y :> {i * One : i \in -1 .. YUp}) @@ (z :> {0, One})

Term(m, c) == [mono |-> m, const |-> c]
X == Term(<<<<1, x>>>>, 0)
Y == Term(<<<<1, y>>>>, 0)
Num(c) == Term(<<>>, c)

\* 2y - x ? y, 0 ? 1 (empty)
BoolCmp == {<<Term(<<<<2, y>>, <<-1, x>>>>, 0), Y>>, <<Num(0), Num(One)>>}
BoolCon == {<<X, Num(One)>>}

\* y - 3 ? -4 (for some comparisons fixed by the bounds), z ? x (not integer)
VifCmp == {<<Term(<<<<1, y>>>>, -3 * One), Num(-4 * One)>>, <<Term(<<<<1, z>>>>, 0), X>>}
\* y + 1 ? x, z ? x, 1 ? 0 (empty)
VifCon == {<<Term(<<<<1, y>>>>, One), X>>, <<Term(<<<<1, z>>>>, 0), X>>,
           <<Num(One), Num(0)>>}

MCSources == {[cmp |-> BoolCmp, con |-> BoolCon, max |-> 3],
              [cmp |-> VifCmp,  con |-> VifCon,  max |-> 2]}
============================================================================
