------------------------------- MODULE SetReps -------------------------------
(***************************************************************************)
(* The representations of a set (set4.c and the six set*.c files behind    *)
(* its table of functions): an element is <<type, value>> with type "n"    *)
(* (number), "s" (string) or "v" (name, in patterns only), a tuple is a    *)
(* sequence of elements.  Members have numbers from 0, -1 is "not found"   *)
(* and Died stands for the exit with Error 160 (elements of different      *)
(* types compared).  A NULL pattern is the pattern of names only.          *)
(***************************************************************************)
EXTENDS Integers, Sequences, FiniteSets, SequencesExt, SetRange

CONSTANTS HashThreshold,   \* HASH_THRESHOLD: longer list sets have a hash
          Bucket(_)        \* elem_hash % size of an element

Died    == -160
Trap(n) == [type |-> "TRAP", code |-> n]   \* the program ends with Error n
Aborted  == 0                              \* ... or in abort()
Asserted == -1                             \* ... or in a failed assertion

AllNames(dim) == [i \in 1 .. dim |-> <<"v", i>>]

\* elem_cmp met a different type / tuple_cmp: 0 equal, 1 different
ElemDies(e, f) == e[1] # f[1]
TupleCmp(t, u) ==
  LET diff == {i \in 1 .. Len(t) : t[i] # u[i]}
      k    == CHOOSE i \in diff : \A j \in diff : i <= j
  IN IF diff = {} THEN 0 ELSE IF ElemDies(t[k], u[k]) THEN Died ELSE 1

set_empty_new(dim) == [type |-> "EMPTY", dim |-> dim]
set_pseudo_new     == [type |-> "PSEUDO", dim |-> 0]
set_list_new(size) == [type |-> "LIST", dim |-> 1, member |-> <<>>,
                       hashed |-> size > HashThreshold]
set_range_new(begin, end, step) ==
  [type |-> "RANGE", dim |-> 1, begin |-> begin, end |-> end, step |-> step]
set_prod_new(a, b) ==
  IF "PSEUDO" \in {a.type, b.type} THEN Trap(Asserted)
  ELSE IF a.type = "EMPTY" \/ b.type = "EMPTY" THEN set_empty_new(a.dim + b.dim)
  ELSE [type |-> "PROD", dim |-> a.dim + b.dim, a |-> a, b |-> b]

\* The members a lookup of e compares with: all in order, or those in the
\* bucket of e, the newest first.  The first one equal or of another type
\* ends it.

\* mutant: elements of different types are just different
lookup_elem_idx_Mixed(set, e) == SelectInSeq(set.member, LAMBDA m : m = e) - 1
lookup_elem_idx(set, e) ==
  LET all  == [i \in 1 .. Len(set.member) |-> i]
      seen == IF set.hashed
              THEN Reverse(SelectSeq(all, LAMBDA i : Bucket(set.member[i]) = Bucket(e)))
              ELSE all
      stop == SelectInSeq(seen, LAMBDA i : set.member[i] = e \/ ElemDies(set.member[i], e))
  IN CASE stop = 0                     -> -1
       [] stop # 0 /\ set.member[seen[stop]] = e -> seen[stop] - 1
       [] OTHER                        -> Died

\* set_list_add_elem: the new list and the number of the element in it
ListAdd(set, e, check) ==
  LET old == IF check = "none" THEN -1 ELSE lookup_elem_idx(set, e)
  IN IF old = -1
     THEN [set |-> [set EXCEPT !.member = Append(@, e)], idx |-> Len(set.member)]
     ELSE [set |-> set, idx |-> old]

set_list_new_from(elems, check) ==
  FoldLeft(LAMBDA s, e : IF s.type = "TRAP" THEN s
                         ELSE LET r == ListAdd(s, e, check)
                              IN IF r.idx = Died THEN Trap(160) ELSE r.set,
           set_list_new(Len(elems)), elems)

LexLess(r, q) == \E i \in DOMAIN r : r[i] < q[i] /\ \A j \in 1 .. i - 1 : r[j] = q[j]

\* One more tuple of the list given to set_multi_new_from_list: a duplicate
\* (found in the hash of the tuples so far) is left out, else every component
\* is added to the list of its dimension and the tuple becomes a row of the
\* numbers found.
MultiAdd(acc, t, check) ==
  LET meets == Reverse(SelectSeq(acc.seen, LAMBDA u : \A i \in DOMAIN t : Bucket(u[i]) = Bucket(t[i])))
      stop  == IF check = "none" THEN 0 ELSE SelectInSeq(meets, LAMBDA u : TupleCmp(u, t) # 1)
      adds  == [k \in DOMAIN t |-> ListAdd(acc.set[k], t[k], "quiet")]
  IN CASE acc.died -> acc
       [] ~ acc.died /\ stop # 0 ->
            [acc EXCEPT !.died = TupleCmp(meets[stop], t) = Died]
       [] OTHER ->
            [died |-> \E k \in DOMAIN t : adds[k].idx = Died,
             seen |-> Append(acc.seen, t),
             set  |-> [k \in DOMAIN t |-> adds[k].set],
             rows |-> Append(acc.rows, [k \in DOMAIN t |-> adds[k].idx])]

set_multi_new_from_list(list, check) ==
  LET dim == Len(list[1])
      acc == FoldLeft(LAMBDA a, t : MultiAdd(a, t, check),
                      [died |-> FALSE, seen |-> <<>>, rows |-> <<>>,
                       set |-> [k \in 1 .. dim |-> set_list_new(Len(list))]], list)
  IN IF dim < 2 THEN Trap(Asserted)
     ELSE IF acc.died THEN Trap(160)
     ELSE [type |-> "MULTI", dim |-> dim, set |-> acc.set,
           subset |-> SortSeq(acc.rows, LexLess)]

\* order[k]: the rows sorted by component k alone.  qsort leaves the order of
\* equal ones open; here they stay in the order of the rows.
Order(set, k) ==
  SortSeq([i \in 1 .. Len(set.subset) |-> i],
          LAMBDA i, j : LexLess(<<set.subset[i][k], i>>, <<set.subset[j][k], j>>))

set_new_from_list(list, check) ==
  IF Len(list[1]) = 1
  THEN set_list_new_from([i \in DOMAIN list |-> list[i][1]], check)
  ELSE set_multi_new_from_list(list, check)

RECURSIVE set_get_members(_)
set_get_members(s) ==
  CASE s.type = "EMPTY"  -> 0
    [] s.type = "PSEUDO" -> 1
    [] s.type = "LIST"   -> Len(s.member)
    [] s.type = "RANGE"  -> RangeMembers(s.begin, s.end, s.step)
    [] s.type = "PROD"   -> set_get_members(s.a) * set_get_members(s.b)
    [] s.type = "MULTI"  -> Len(s.subset)

RECURSIVE set_lookup_idx(_, _, _)
list_lookup_idx(s, t, off)  == lookup_elem_idx(s, t[off + 1])
range_lookup_idx(s, t, off) == IF t[off + 1][1] # "n" THEN -1
                               ELSE RangeLookup(s.begin, s.end, s.step, t[off + 1][2])
prod_lookup_idx(s, t, off) ==
  LET ia == set_lookup_idx(s.a, t, off)
      ib == set_lookup_idx(s.b, t, off + s.a.dim)
  IN IF ia < 0 THEN ia ELSE IF ib < 0 THEN ib ELSE ia * set_get_members(s.b) + ib
\* the rows are searched for the numbers of the components
multi_lookup_idx(s, t, off) ==
  LET idx == [i \in 1 .. s.dim |-> lookup_elem_idx(s.set[i], t[off + i])]
      bad == SelectInSeq(idx, LAMBDA i : i < 0)
  IN IF bad # 0 THEN idx[bad] ELSE SelectInSeq(s.subset, LAMBDA r : r = idx) - 1
set_lookup_idx(s, t, off) ==
  CASE s.type = "EMPTY"  -> -1
    [] s.type = "PSEUDO" -> 0
    [] s.type = "LIST"   -> list_lookup_idx(s, t, off)
    [] s.type = "RANGE"  -> range_lookup_idx(s, t, off)
    [] s.type = "PROD"   -> prod_lookup_idx(s, t, off)
    [] s.type = "MULTI"  -> multi_lookup_idx(s, t, off)

\* set_lookup, with Died passed on: 1 member, 0 not
set_lookup(s, t) ==
  IF s.dim # Len(t) THEN 0
  ELSE LET i == set_lookup_idx(s, t, 0) IN IF i >= 0 THEN 1 ELSE IF i = Died THEN Died ELSE 0

RECURSIVE set_get_tuple(_, _)
list_get_tuple(s, idx)  == <<s.member[idx + 1]>>
range_get_tuple(s, idx) == << <<"n", idx_to_val(s.begin, s.step, idx)>> >>
prod_get_tuple(s, idx)  == LET n == set_get_members(s.b)
                           IN set_get_tuple(s.a, idx \div n) \o set_get_tuple(s.b, idx % n)
Row(s, row)             == [i \in 1 .. s.dim |-> s.set[i].member[row[i] + 1]]
multi_get_tuple(s, idx) == Row(s, s.subset[idx + 1])
set_get_tuple(s, idx) ==
  CASE s.type = "PSEUDO" -> <<>>
    [] s.type = "LIST"   -> list_get_tuple(s, idx)
    [] s.type = "RANGE"  -> range_get_tuple(s, idx)
    [] s.type = "PROD"   -> prod_get_tuple(s, idx)
    [] s.type = "MULTI"  -> multi_get_tuple(s, idx)

(***************************************************************************)
(* Iterators.  For a pattern only the members that agree with its fixed    *)
(* components are delivered: a list or a range narrows [first, last], a    *)
(* multi set copies the matching rows out of the order of the last fixed   *)
(* component, a product runs two iterators and keeps the fore part.        *)
(***************************************************************************)
Span(first, last) == [type |-> "SPAN", first |-> first, last |-> last, now |-> first]
Found(idx)        == IF idx = Died THEN Trap(160)
                     ELSE IF idx >= 0 THEN Span(idx, idx) ELSE Span(1, 0)

\* mutant: only one fixed component is looked at
MultiRows_One(s, idx) ==
  LET fixed == {i \in 1 .. s.dim : idx[i] >= 0}
      last  == CHOOSE i \in fixed : \A j \in fixed : j <= i
  IN SelectSeq(s.subset, LAMBDA r : fixed = {} \/ r[last] = idx[last])
MultiRows(s, idx) ==
  LET fixed == {i \in 1 .. s.dim : idx[i] >= 0}
      last  == CHOOSE i \in fixed : \A j \in fixed : j <= i
      order == Order(s, last)
      run   == SelectSeq(order, LAMBDA j : s.subset[j][last] = idx[last])
  IN IF fixed = {} THEN s.subset
     ELSE [m \in 1 .. Len(SelectSeq(run, LAMBDA j : \A i \in fixed : s.subset[j][i] = idx[i]))
           |-> s.subset[SelectSeq(run, LAMBDA j : \A i \in fixed : s.subset[j][i] = idx[i])[m]]]

multi_iter_init(s, pat, off) ==
  LET name(i) == pat[off + i][1] = "v"
      idx     == [i \in 1 .. s.dim |-> IF name(i) THEN -1 ELSE lookup_elem_idx(s.set[i], pat[off + i])]
      bad     == SelectInSeq([i \in 1 .. s.dim |-> ~ name(i) /\ idx[i] < 0], LAMBDA b : b)
  IN IF bad # 0 /\ idx[bad] = Died THEN Trap(160)
     ELSE [type |-> "ROWS", now |-> 0, rows |-> IF bad # 0 THEN <<>> ELSE MultiRows(s, idx)]

RECURSIVE set_iter_init(_, _, _)
list_iter_init(s, e)  == IF e[1] = "v" THEN Span(0, Len(s.member) - 1) ELSE Found(lookup_elem_idx(s, e))

\* mutant: the last number is the number of members
range_iter_init_Past(s, e) == CASE e[1] = "v" -> Span(0, RangeMembers(s.begin, s.end, s.step))
                                [] e[1] = "n" -> Found(range_lookup_idx(s, <<e>>, 0))
                                [] OTHER      -> Trap(Aborted)
range_iter_init(s, e) == CASE e[1] = "v" -> Span(0, val_to_idx(s.begin, s.step, s.end))
                           [] e[1] = "n" -> Found(range_lookup_idx(s, <<e>>, 0))
                           [] OTHER      -> Trap(Aborted)
prod_iter_init(s, pat, off) ==
  LET a == set_iter_init(s.a, pat, off)
      b == set_iter_init(s.b, pat, off + s.a.dim)
  IN IF a.type = "TRAP" THEN a ELSE IF b.type = "TRAP" THEN b
     ELSE [type |-> "PAIR", first |-> TRUE, a |-> a, b |-> b, elem |-> <<>>]
empty_iter_init  == [type |-> "NONE"]
pseudo_iter_init == [type |-> "ONCE", first |-> TRUE]
set_iter_init(s, pat, off) ==
  CASE s.type = "EMPTY"  -> empty_iter_init
    [] s.type = "PSEUDO" -> pseudo_iter_init
    [] s.type = "LIST"   -> list_iter_init(s, pat[off + 1])
    [] s.type = "RANGE"  -> range_iter_init(s, pat[off + 1])
    [] s.type = "PROD"   -> prod_iter_init(s, pat, off)
    [] s.type = "MULTI"  -> multi_iter_init(s, pat, off)

RECURSIVE set_iter_reset(_)
prod_iter_reset(it) == [it EXCEPT !.first = TRUE, !.a = set_iter_reset(it.a), !.b = set_iter_reset(it.b)]
set_iter_reset(it) ==
  CASE it.type = "SPAN" -> [it EXCEPT !.now = it.first]
    [] it.type = "ROWS" -> [it EXCEPT !.now = 0]
    [] it.type = "ONCE" -> [it EXCEPT !.first = TRUE]
    [] it.type = "PAIR" -> prod_iter_reset(it)
    [] OTHER            -> it

\* set_iter_next: whether there is a further member, the iterator after it
\* and the components written.
None(it) == [ok |-> FALSE, iter |-> it, part |-> <<>>]

RECURSIVE set_iter_next(_, _)
get_both_parts(it, s) ==
  LET na == set_iter_next(it.a, s.a)
      nb == set_iter_next(it.b, s.b)
  IN IF ~ na.ok THEN None([it EXCEPT !.a = na.iter])
     ELSE [ok |-> nb.ok, part |-> na.part \o nb.part,
           iter |-> [it EXCEPT !.a = na.iter, !.b = nb.iter, !.elem = na.part]]


prod_iter_next(it, s) ==
  LET nb == set_iter_next(it.b, s.b)
  IN CASE it.first           -> get_both_parts([it EXCEPT !.first = FALSE], s)
       [] ~ it.first /\ nb.ok  -> [ok |-> TRUE, part |-> it.elem \o nb.part, iter |-> [it EXCEPT !.b = nb.iter]]
       [] OTHER              -> get_both_parts([it EXCEPT !.b = set_iter_reset(nb.iter), !.elem = <<>>], s)

Advance(it, part) == [ok |-> TRUE, iter |-> [it EXCEPT !.now = @ + 1], part |-> part]
pseudo_iter_next(it)   == [ok |-> it.first, iter |-> [it EXCEPT !.first = FALSE], part |-> <<>>]
span_iter_next(it, s)  == IF it.now > it.last THEN None(it) ELSE Advance(it, set_get_tuple(s, it.now))
multi_iter_next(it, s) == IF it.now >= Len(it.rows) THEN None(it) ELSE Advance(it, Row(s, it.rows[it.now + 1]))
set_iter_next(it, s) ==
  CASE it.type = "NONE" -> None(it)
    [] it.type = "ONCE" -> pseudo_iter_next(it)
    [] it.type = "SPAN" -> span_iter_next(it, s)
    [] it.type = "ROWS" -> multi_iter_next(it, s)
    [] it.type = "PAIR" -> prod_iter_next(it, s)

RECURSIVE Drain(_, _)
Drain(it, s) == LET n == set_iter_next(it, s)
                IN IF n.ok THEN <<n.part>> \o Drain(n.iter, s) ELSE <<>>
Tuples(s) == Drain(set_iter_init(s, AllNames(s.dim), 0), s)
=============================================================================
