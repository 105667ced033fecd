----------------------------- MODULE SetAlgebra -----------------------------
(***************************************************************************)
(* What the set expressions of the language mean: stack holds the values   *)
(* of the subexpressions as sets of tuples, and every operation is the one *)
(* of mathematics on the topmost ones.  Sets.tla is shown to implement it. *)
(* op is the operation done last, with its arguments and its answer.       *)
(***************************************************************************)
EXTENDS Integers, Sequences, FiniteSets

CONSTANTS Fits(_, _),     \* a tuple agrees with the fixed components of a pattern
          Cond(_, _),     \* the condition after "with"
          Val(_),         \* the value argmin and argmax compare
          Image(_),       \* the expression after "do"
          BodyMem(_)      \* the members of the set under "union/inter ... do"

VARIABLES stack, op

\* The sets at the start are the named ones, whatever their members
Init == op = <<"start">>

Top(k)     == stack[Len(stack) + 1 - k]
Put(k, S)  == stack' = Append(SubSeq(stack, 1, Len(stack) - k), S)   \* for the k topmost
Keep       == UNCHANGED stack

Binary(name, A, B) ==
  CASE name = "union" -> A \union B
    [] name = "inter" -> A \intersect B
    [] name = "minus" -> A \ B
    [] name = "sdiff" -> (A \ B) \union (B \ A)
    [] name = "cross" -> {t \o u : t \in A, u \in B}

Relation(name, A, B) ==
  CASE name = "eq" -> A = B [] name = "subset" -> A \subseteq B /\ A # B
    [] name = "subseteq" -> A \subseteq B

RangeOf(from, upto, step) ==
  {<< <<"n", from + k * step>> >> : k \in {j \in 0 .. (upto - from) * (upto - from) :
        IF step > 0 THEN from + j * step <= upto ELSE from + j * step >= upto}}

Selected(pat, c) == {t \in Top(1) : Fits(pat, t) /\ Cond(c, t)}

\* An index set without an index tuple: what it is taken from has no dimension,
\* like the set {}, and stands for "once", the index set of what has no index.
Once == {<<>>}

\* A set of at most size tuples none of which is beaten by one left out
Best(K, sel, size, sign) ==
  /\ K \subseteq sel
  /\ Cardinality(K) = IF size < Cardinality(sel) THEN size ELSE Cardinality(sel)
  /\ \A t \in K, u \in sel \ K : sign * Val(t) <= sign * Val(u)

Perms(S) == {f \in [1 .. Cardinality(S) -> S] : \A t \in S : \E i \in DOMAIN f : f[i] = t}

Literal == op'[1] = "literal" /\ Put(0, {op'[2][i] : i \in DOMAIN op'[2]})
Range   == op'[1] = "range" /\ Put(0, RangeOf(op'[2], op'[3], op'[4]))
Proj    == /\ op'[1] = "proj"
           /\ Put(1, {[i \in DOMAIN op'[2] |-> t[op'[2][i]]] : t \in Top(1)})
BinOp   == /\ Len(stack) >= 2
           /\ op'[1] \in {"union", "inter", "minus", "sdiff", "cross"}
           /\ Put(2, Binary(op'[1], Top(2), Top(1)))
Compare == /\ Len(stack) >= 2 /\ op'[1] \in {"eq", "subset", "subseteq"} /\ Keep
           /\ op'[2] <=> Relation(op'[1], Top(2), Top(1))
IsElem  == op'[1] = "in" /\ (op'[3] <=> op'[2] \in Top(1)) /\ Keep
Card    == op'[1] = "card" /\ op'[2] = Cardinality(Top(1)) /\ Keep
Ord     == op'[1] = "ord" /\ op'[3] \in Top(1) /\ Keep
Permute == /\ op'[1] = "permute" /\ \A t \in Top(1) : Len(t) = 1
           /\ Put(1, {[i \in DOMAIN p |-> p[i][1]] : p \in Perms(Top(1))})
Subsets == /\ op'[1] = "subsets" /\ Keep
           /\ LET list == op'[4]
                  want == {S \in SUBSET Top(1) : Cardinality(S) \in op'[2] .. op'[3]}
              IN /\ Len(list) = Cardinality(want)
                 /\ {list[i] : i \in DOMAIN list} = want
Loop    ==
  LET kind == op'[1]
      sel  == Selected(op'[2], op'[3])
  IN \/ kind = "idxset" /\ Put(1, IF op'[2] = <<>> THEN Once ELSE sel)
     \/ kind = "expr"   /\ Put(1, {Image(t) : t \in sel})
     \/ kind = "argmin" /\ \E K \in SUBSET sel : Best(K, sel, op'[4], 1) /\ Put(1, K)
     \/ kind = "argmax" /\ \E K \in SUBSET sel : Best(K, sel, op'[4], -1) /\ Put(1, K)
     \/ kind = "union2" /\ Put(1, UNION {BodyMem(t) : t \in sel})
     \/ kind = "inter2" /\ Put(1, {x \in UNION {BodyMem(t) : t \in sel} : \A t \in sel : x \in BodyMem(t)})
     \/ kind = "exists" /\ (op'[5] <=> sel # {}) /\ Keep
     \/ kind = "forall" /\ Keep /\ Len(op'[5]) = Cardinality(sel)      \* each of them once
                        /\ {op'[5][i] : i \in DOMAIN op'[5]} = sel
Stop    == op' = <<"exit">> /\ Keep

Next == Literal \/ Range \/ Proj \/ BinOp \/ Compare \/ IsElem \/ Card \/ Ord \/ Permute \/ Subsets \/ Loop \/ Stop
Spec == Init /\ [][Next]_<<stack, op>>
=============================================================================
