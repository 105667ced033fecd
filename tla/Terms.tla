-------------------------------- MODULE Terms -------------------------------
(***************************************************************************)
(* Monomials and terms, src/src/zimpl/mono.c and term2.c.                  *)
(*                                                                         *)
(* A mono is a coefficient, a function of the variable (MFUN_NONE, or      *)
(* MFUN_TRUE and MFUN_FALSE for the condition of an indicator constraint)  *)
(* and a list of variables that is kept in the order of their addresses,   *)
(* so that equal variables stand together.  A term is a constant and an    *)
(* array of monos with the number of places it has ("size"); the places in *)
(* use are the length of the sequence elem.  Equal monos are only joined   *)
(* by term_simplify.                                                       *)
(***************************************************************************)
EXTENDS Integers, Sequences, FiniteSets, SequencesExt

CONSTANTS Var,
          Addr,       \* [Var -> Nat], where the structs of the variables lie
          HASH_SIZE   \* the number of buckets of a small table of monos

ASSUME MonosAssumption ==
  /\ Addr \in [Var -> Nat] /\ IsInjective(Addr)
  /\ HASH_SIZE \in Nat \ {0}

MFun == {"NONE", "TRUE", "FALSE"}
Mono == [coeff : Int, fun : MFun, vars : Seq(Var) \ {<<>>}]

mono_new(coeff, v, fun) == [coeff |-> coeff, fun |-> fun, vars |-> <<v>>]

\* The variable goes in front of the first one that does not lie before it.
mono_mul_entry_Append(m, v) == \* mutant: the variable goes to the end
  [m EXCEPT !.vars = Append(@, v)]
mono_mul_entry(m, v) ==
  LET place == SelectInSeq(m.vars, LAMBDA w : Addr[w] >= Addr[v])
  IN  [m EXCEPT !.vars = IF place = 0 THEN Append(@, v) ELSE InsertAt(@, place, v)]

mono_mul_entries(m, vars) ==
  LET mono[i \in 0 .. Len(vars)] == IF i = 0 THEN m ELSE mono_mul_entry(mono[i - 1], vars[i])
  IN  mono[Len(vars)]

mono_copy(m) == mono_mul_entries(mono_new(m.coeff, Head(m.vars), m.fun), Tail(m.vars))

mono_mul_coeff(m, value) == [m EXCEPT !.coeff = @ * value]
mono_add_coeff(m, value) == [m EXCEPT !.coeff = @ + value]
mono_neg(m)              == [m EXCEPT !.coeff = -@]
mono_set_function(m, f)  == [m EXCEPT !.fun = f]

mono_mul(ma, mb) ==
  mono_mul_entries([mono_copy(ma) EXCEPT !.coeff = @ * mb.coeff], mb.vars)

HashOf(vars) ==
  LET sum[i \in 0 .. Len(vars)] == IF i = 0 THEN 0 ELSE sum[i - 1] + Addr[vars[i]]
  IN  sum[Len(vars)]
mono_hash(m) == HashOf(m.vars)

\* How often the first v of the list is followed by itself, plus one; 0
\* without a v.
RunOf(vars, v) ==
  LET first == SelectInSeq(vars, LAMBDA w : w = v)
      ends  == {i \in first .. Len(vars) : \A k \in first .. i : vars[k] = v}
  IN  IF first = 0 THEN 0 ELSE Cardinality(ends)

\* The variables are compared, neither the coefficient nor the function.
mono_equal(ma, mb) ==
  /\ Len(ma.vars) = Len(mb.vars)
  /\ \A v \in ToSet(ma.vars) :
        v \in ToSet(mb.vars) /\ RunOf(ma.vars, v) <= RunOf(mb.vars, v)

mono_get_degree(m) == Len(m.vars)
mono_is_linear(m)  == Len(m.vars) = 1 /\ m.fun \in MFun

\* The assertion of mono_is_valid on the order of the variables.
InOrder(m) == \A i \in 1 .. Len(m.vars) - 1 : Addr[m.vars[i]] <= Addr[m.vars[i + 1]]
-----------------------------------------------------------------------------
CONSTANT TERM_EXTEND_SIZE

ASSUME TermsAssumption == TERM_EXTEND_SIZE \in Nat \ {0}

term_new(size) == [const |-> 0, size |-> size, elem |-> <<>>]

\* The assertions on the array, and term_is_valid: no coefficient is zero.
Fits(t) == t.size > 0 /\ Len(t.elem) <= t.size
term_is_valid(t) == Fits(t) /\ \A i \in DOMAIN t.elem : t.elem[i].coeff # 0

term_add_elem(t, v, coeff, fun) ==
  [t EXCEPT !.size = IF Len(t.elem) = @ THEN @ + TERM_EXTEND_SIZE ELSE @,
            !.elem = Append(@, mono_new(coeff, v, fun))]

Copies(t) == [i \in DOMAIN t.elem |-> mono_copy(t.elem[i])]

term_copy(t) ==
  [const |-> t.const, size |-> Len(t.elem) + TERM_EXTEND_SIZE, elem |-> Copies(t)]

\* The array grows to exactly what is needed, also if just one place is free.
term_append_term(t, b) ==
  LET used == Len(t.elem) + Len(b.elem)
  IN  [const |-> t.const + b.const,
       size  |-> IF used >= t.size THEN used ELSE t.size,
       elem  |-> t.elem \o Copies(b)]

Joined(a, b, elemb, const) ==
  [const |-> const, size |-> Len(a.elem) + Len(b.elem) + TERM_EXTEND_SIZE,
   elem  |-> Copies(a) \o elemb]

term_add_term(a, b) == Joined(a, b, Copies(b), a.const + b.const)
term_sub_term(a, b) ==
  Joined(a, b, [i \in DOMAIN b.elem |-> mono_neg(mono_copy(b.elem[i]))], a.const - b.const)
----------------------------------------------------------------------------
(***************************************************************************)
(* term_simplify: equal monos are found by a hash table and joined, then   *)
(* those that cancelled are replaced by the last one.                      *)
(***************************************************************************)
hash_lookup_mono(elem, m) ==
  SelectInSeq(elem, LAMBDA e : /\ mono_hash(e) % HASH_SIZE = mono_hash(m) % HASH_SIZE
                               /\ mono_equal(e, m))

JoinAt(elem, m, place) ==
  IF place = 0 THEN Append(elem, mono_copy(m))
  ELSE [elem EXCEPT ![place] = mono_add_coeff(@, m.coeff)]
Join(elem, m) == JoinAt(elem, m, hash_lookup_mono(elem, m))

\* One round of the loop while there is a place to look at: place "at" is left,
\* or filled with the last mono and looked at again.
Cancel_Once(s) == \* mutant: the mono put into the free place is not looked at
  IF s.at > Len(s.elem) THEN s
  ELSE IF s.elem[s.at].coeff # 0 THEN [s EXCEPT !.at = @ + 1]
  ELSE [elem |-> IF s.at = Len(s.elem) THEN Front(s.elem)
                 ELSE Front([s.elem EXCEPT ![s.at] = Last(s.elem)]),
        at   |-> s.at + 1]
Cancel(s) ==
  IF s.at > Len(s.elem) THEN s
  ELSE IF s.elem[s.at].coeff # 0 THEN [s EXCEPT !.at = @ + 1]
  ELSE [s EXCEPT !.elem = IF s.at = Len(@) THEN Front(@)
                          ELSE Front([@ EXCEPT ![s.at] = Last(s.elem)])]

Cancelled(elem) ==
  LET round[i \in 0 .. Len(elem)] ==
        IF i = 0 THEN [elem |-> elem, at |-> 1] ELSE Cancel(round[i - 1])
  IN  round[Len(elem)].elem

AllJoined(elem) ==
  LET joined[i \in 0 .. Len(elem)] == IF i = 0 THEN <<>> ELSE Join(joined[i - 1], elem[i])
  IN  joined[Len(elem)]

term_simplify(t) ==
  [const |-> t.const, size |-> Len(t.elem) + TERM_EXTEND_SIZE,
   elem  |-> Cancelled(AllJoined(t.elem))]
----------------------------------------------------------------------------
Scaled(elem, value) == [i \in DOMAIN elem |-> mono_mul_coeff(mono_copy(elem[i]), value)]

Products(a, b) ==
  [i \in 1 .. Len(a.elem) * Len(b.elem) |->
     mono_mul(a.elem[((i - 1) \div Len(b.elem)) + 1], b.elem[((i - 1) % Len(b.elem)) + 1])]

\* Every mono with every mono, then with the other constant unless it is zero.
MulTerm_OneSide(a, b) == \* mutant: the constant on the left is forgotten
  [const |-> a.const * b.const, size |-> (Len(a.elem) + 1) * (Len(b.elem) + 1),
   elem  |-> Products(a, b) \o (IF b.const = 0 THEN <<>> ELSE Scaled(a.elem, b.const))]
MulTerm(a, b) ==
  [const |-> a.const * b.const, size |-> (Len(a.elem) + 1) * (Len(b.elem) + 1),
   elem  |-> Products(a, b) \o (IF b.const = 0 THEN <<>> ELSE Scaled(a.elem, b.const))
                            \o (IF a.const = 0 THEN <<>> ELSE Scaled(b.elem, a.const))]

term_mul_term(a, b) == term_simplify(MulTerm(a, b))

term_add_constant(t, value) == [t EXCEPT !.const = @ + value]
term_sub_constant(t, value) == [t EXCEPT !.const = @ - value]

\* Zero empties the term: no mono may have the coefficient zero.
term_mul_coeff(t, value) ==
  [t EXCEPT !.const = @ * value,
            !.elem  = IF value = 0 THEN <<>>
                      ELSE [i \in DOMAIN @ |-> mono_mul_coeff(@[i], value)]]

term_get_degree(t) ==
  LET degrees == {mono_get_degree(t.elem[i]) : i \in DOMAIN t.elem}
  IN  CHOOSE d \in degrees \cup {0} : \A e \in degrees : e <= d

term_is_linear(t)     == \A i \in DOMAIN t.elem : mono_is_linear(t.elem[i])
term_is_polynomial(t) == \A i \in DOMAIN t.elem : t.elem[i].fun = "NONE"
term_has_realfunction(t) ==
  \E i \in DOMAIN t.elem : t.elem[i].fun \notin {"NONE", "TRUE", "FALSE"}

\* The condition of an indicator constraint is marked and put in front.
term_make_conditional(ind, cond, is_true) ==
  term_append_term(
    [term_copy(ind) EXCEPT !.elem[1] =
        mono_set_function(@, IF is_true THEN "TRUE" ELSE "FALSE")], cond)
----------------------------------------------------------------------------
\* What a term is worth at a point; the condition of an indicator constraint
\* is not part of the sum.
MonoValue(m, p) ==
  LET prod[i \in 0 .. Len(m.vars)] == IF i = 0 THEN m.coeff ELSE prod[i - 1] * p[m.vars[i]]
  IN  IF m.fun = "NONE" THEN prod[Len(m.vars)] ELSE 0
TermValue(t, p) ==
  LET sum[i \in 0 .. Len(t.elem)] ==
        IF i = 0 THEN t.const ELSE sum[i - 1] + MonoValue(t.elem[i], p)
  IN  sum[Len(t.elem)]
=============================================================================
