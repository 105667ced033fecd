----------------------------- MODULE MCSession -----------------------------
(* Model checking of Session: two names, one local, lists of options that   *)
(* set parameters, a pipe and the format and that end early or not.         *)
EXTENDS Session

CONSTANTS a, b

D(n) == [opt |-> "D", name |-> n]
O(o) == [opt |-> o, name |-> None]
MCOption == {<<>>, <<D(a)>>, <<D(b), D(a)>>, <<O("P")>>, <<O("nm")>>, <<O("nn")>>,
             <<O("bad")>>, <<D(a), O("bad")>>, <<O("P"), O("bad")>>}
============================================================================
