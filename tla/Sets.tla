-------------------------------- MODULE Sets --------------------------------
(***************************************************************************)
(* Evaluation of set expressions and of loops over index sets (the set     *)
(* functions of inst.c on top of set4.c, idxset.c and heap.c).  stack holds *)
(* the values of the subexpressions evaluated so far.  An operation that   *)
(* is not a loop is one step; a loop gets its iterator, takes one member   *)
(* at a time and finishes.  stat is Running until the program ends with an *)
(* error number, in abort() or in a failed assertion.                      *)
(***************************************************************************)
EXTENDS SetReps, Heap

CONSTANTS MaxOps, MaxStack, MaxMembers,
          Given,        \* stacks of sets the program has built and named before
          Literals, Ranges, Projections, Patterns, Probes, Conds, Sizes,
          Holds(_, _), Val(_), Image(_), Body(_)

VARIABLES stack, stat, op, loop, ops, big

vars == <<stack, stat, op, loop, ops, big>>

Running == 1
NoLoop  == <<>>

Idle == stat = Running /\ loop = NoLoop /\ ops < MaxOps

Top(k) == stack[Len(stack) + 1 - k]

\* An operation is over: a set in place of the k topmost ones, or the end of
\* the program; Answer leaves the sets alone, so that nothing new could come
\* after it and the run ends.
Result(k, s, done) ==
  /\ IF s.type = "TRAP"
     THEN stat' = s.code /\ op' = <<"exit">> /\ UNCHANGED stack
     ELSE stack' = Append(SubSeq(stack, 1, Len(stack) - k), s) /\ op' = done /\ UNCHANGED stat
  /\ ops' = ops + 1
Answer(code, done) == /\ stat' = code /\ op' = (IF code = Running THEN done ELSE <<"exit">>)
                      /\ ops' = MaxOps /\ UNCHANGED stack

(********************************* literals ********************************)
\* i_set_new_tuple, i_set_new_elem: all tuples have the dimension of the first
\* (Error 193), no name is left (Error 133, not modelled: the lists given
\* here hold values).  A list of one empty tuple is the empty set.
i_set_new_tuple(list) ==
  /\ Idle /\ Len(stack) < MaxStack /\ UNCHANGED loop
  /\ big' = (big \/ Len(list) > HashThreshold)
  /\ Result(0, IF list = << <<>> >> THEN set_empty_new(0)
               ELSE IF \E i \in DOMAIN list : Len(list[i]) # Len(list[1]) THEN Trap(193)
               ELSE set_new_from_list(list, "warn"),
            <<"literal", IF list = << <<>> >> THEN <<>> ELSE list>>)

\* {from .. upto by step}: towards upto whatever the sign of step
i_set_range(from, upto, step) ==
  LET directed == DirectedStep(from, upto, step) IN
  /\ Idle /\ Len(stack) < MaxStack /\ UNCHANGED <<loop, big>>
  /\ Result(0, IF directed = 0 THEN Trap(126) ELSE set_range_new(from, upto, directed),
            <<"range", from, upto, directed>>)

\* {from to upto by step}: empty when step leads away from upto
i_set_range2(from, upto, step) ==
  /\ Idle /\ Len(stack) < MaxStack /\ UNCHANGED <<loop, big>>
  /\ Result(0, IF step = 0 THEN Trap(126)
               ELSE IF Sgn(step) * (upto - from) < 0 THEN set_empty_new(1)
               ELSE set_range_new(from, upto, step),
            <<"range", from, upto, step>>)

(******************************** operators ********************************)
\* Error 119 and 120 of check_sets_compatible: only the first members are
\* compared
check_sets_compatible(a, b) ==
  IF set_get_members(a) = 0 \/ set_get_members(b) = 0 THEN Running
  ELSE IF a.dim # b.dim THEN 119
  ELSE IF \E i \in 1 .. a.dim : ElemDies(set_get_tuple(a, 0)[i], set_get_tuple(b, 0)[i]) THEN 120
  ELSE Running

\* set_union, set_inter, set_minus, set_sdiff: the members of a in the order
\* of its iterator, then those of b, each looked up in the other set
Kept(ts, other, want) ==
  [dies |-> \E i \in DOMAIN ts : set_lookup(other, ts[i]) = Died,
   list |-> SelectSeq(ts, LAMBDA t : set_lookup(other, t) = want)]
All(ts) == [dies |-> FALSE, list |-> ts]
Joined(r, q, dim) == IF r.dies \/ q.dies THEN Trap(160)
                     ELSE IF r.list \o q.list = <<>> THEN set_empty_new(dim)
                     ELSE set_new_from_list(r.list \o q.list, "none")

\* ta and tb: the members of a and b in the order of their iterators
set_union(ta, a, tb, dim)    == Joined(All(ta), Kept(tb, a, 0), dim)
set_inter(ta, b, dim)        == Joined(Kept(ta, b, 1), All(<<>>), dim)
set_minus(ta, b, dim)        == Joined(Kept(ta, b, 0), All(<<>>), dim)
set_sdiff(ta, a, tb, b, dim) == Joined(Kept(ta, b, 0), Kept(tb, a, 0), dim)
set_binary(name, ta, a, tb, b, dim) ==
  CASE name = "union" -> set_union(ta, a, tb, dim) [] name = "inter" -> set_inter(ta, b, dim)
    [] name = "minus" -> set_minus(ta, b, dim)     [] name = "sdiff" -> set_sdiff(ta, a, tb, b, dim)

Combine(name, a, b) ==
  LET code == check_sets_compatible(a, b)
  IN IF code # Running THEN Trap(code)
     ELSE set_binary(name, Tuples(a), a, Tuples(b), b, IF a.type = "EMPTY" THEN b.dim ELSE a.dim)

SetOp(name) ==
  /\ Idle /\ Len(stack) >= 2 /\ UNCHANGED <<loop, big>>
  /\ set_get_members(Top(2)) + set_get_members(Top(1)) <= MaxMembers
  /\ Result(2, Combine(name, Top(2), Top(1)), <<name>>)
i_set_union == SetOp("union")
i_set_inter == SetOp("inter")
i_set_minus == SetOp("minus")
i_set_sdiff == SetOp("sdiff")

i_set_cross ==
  /\ Idle /\ Len(stack) >= 2 /\ UNCHANGED <<loop, big>>
  /\ Top(2).dim + Top(1).dim <= 3 /\ set_get_members(Top(2)) * set_get_members(Top(1)) <= MaxMembers
  /\ Result(2, set_prod_new(Top(2), Top(1)), <<"cross">>)

\* i_set_proj with set_proj: the components asked for must exist (Error 129),
\* duplicates are dropped quietly
i_set_proj(idx) ==
  /\ Idle /\ stack # <<>> /\ UNCHANGED <<loop, big>>
  /\ LET ts   == Tuples(Top(1))
         list == [k \in DOMAIN ts |-> [i \in DOMAIN idx |-> ts[k][idx[i]]]]
     IN Result(1, IF \E i \in DOMAIN idx : idx[i] \notin 1 .. Top(1).dim THEN Trap(129)
                  ELSE IF ts = <<>> THEN set_empty_new(Len(idx))
                  ELSE set_new_from_list(list, "quiet"),
               <<"proj", idx>>)

\* set_is_subseteq looks the members of a up in b until one is not there;
\* set_is_subset and set_is_equal compare the numbers of members before.
FirstNot1(answers) == LET odd == SelectSeq(answers, LAMBDA c : c # 1) IN IF odd = <<>> THEN 1 ELSE Head(odd)
Lookups(ts, b)     == [i \in DOMAIN ts |-> set_lookup(b, ts[i])]
set_is_subseteq(a, b) ==
  IF set_get_members(a) = 0 THEN 1
  ELSE IF a.dim # b.dim \/ set_get_members(a) > set_get_members(b) THEN 0
  ELSE FirstNot1(Lookups(Tuples(a), b))
set_is_subset(na, nb) == na < nb
set_is_equal(na, nb)  == na = nb
set_compare(name, a, b) ==
  IF \/ name = "eq" /\ ~ set_is_equal(set_get_members(a), set_get_members(b))
     \/ name = "subset" /\ ~ set_is_subset(set_get_members(a), set_get_members(b))
  THEN 0 ELSE set_is_subseteq(a, b)

\* i_bool_seq, i_bool_sneq, i_bool_subs, i_bool_sseq; a sneq is a seq denied
Compared(name, c) == Answer(IF c = Died THEN 160 ELSE Running, <<name, c = 1>>)
Compare(name) ==
  /\ Idle /\ Len(stack) >= 2 /\ UNCHANGED <<loop, big>>
  /\ Compared(name, set_compare(name, Top(2), Top(1)))

\* check_tuple_set_compatible: against the first member (Errors 188, 198)
check_tuple_set_compatible(t, s) ==
  IF set_get_members(s) = 0 THEN Running
  ELSE IF Len(t) # s.dim THEN 188
  ELSE IF \E i \in 1 .. s.dim : ElemDies(t[i], set_get_tuple(s, 0)[i]) THEN 198 ELSE Running

i_bool_is_elem(t) ==
  /\ Idle /\ stack # <<>> /\ UNCHANGED <<loop, big>>
  /\ LET code == check_tuple_set_compatible(t, Top(1))
         c    == set_lookup(Top(1), t)
     IN Answer(IF code # Running THEN code ELSE IF c = Died THEN 160 ELSE Running, <<"in", t, c = 1>>)

i_expr_card ==
  /\ Idle /\ stack # <<>> /\ UNCHANGED <<loop, big>>
  /\ Answer(Running, <<"card", set_get_members(Top(1))>>)

\* i_expr_ord: the tuple with number tno (Error 191), of which the first
\* component is wanted (Error 192, the empty tuple has none)
i_expr_ord(tno) ==
  /\ Idle /\ stack # <<>> /\ UNCHANGED <<loop, big>>
  /\ LET ok == tno \in 1 .. set_get_members(Top(1))
     IN Answer(IF ~ ok THEN 191 ELSE IF Top(1).dim = 0 THEN 192 ELSE Running, <<"ord", tno, IF ok THEN set_get_tuple(Top(1), tno - 1) ELSE <<>> >>)

\* i_set_permute: Heap's algorithm on the numbers of the members.  A set of
\* one member does not get past assert(set_size > 1).
RECURSIVE PermRun(_, _, _)
PermRun(perm, call, sp) ==
  LET n == Len(perm)
      i == IF sp % 2 = 0 THEN 1 ELSE call[sp] + 1
      p == [perm EXCEPT ![i] = perm[sp + 1], ![sp + 1] = perm[i]]
  IN IF sp >= n THEN <<>>
     ELSE IF call[sp] < sp THEN <<p>> \o PermRun(p, [call EXCEPT ![sp] = @ + 1], 1)
          ELSE PermRun(perm, [call EXCEPT ![sp] = 0], sp + 1)

i_set_permute ==
  /\ Idle /\ stack # <<>> /\ set_get_members(Top(1)) <= 3 /\ UNCHANGED <<loop, big>>
  /\ LET s     == Top(1)
         n     == set_get_members(s)
         start == [i \in 1 .. n |-> i]
         perms == <<start>> \o PermRun(start, [i \in 1 .. n |-> 0], 1)
     IN Result(1, IF s.dim # 1 THEN Trap(136) ELSE IF n = 0 THEN Trap(137)
                  ELSE IF n = 1 THEN Trap(Asserted)
                  ELSE set_new_from_list([k \in DOMAIN perms |->
                          [i \in 1 .. n |-> set_get_tuple(s, perms[k][i] - 1)[1]]], "warn"),
               <<"permute">>)

\* set_subsets_list: counter holds k member numbers, descending; counter_inc
\* moves to the next such choice and says when there is none
RECURSIVE counter_inc(_, _, _, _)
counter_inc(counter, n, k, i) ==
  LET up   == [counter EXCEPT ![i] = @ + 1]
      rest == counter_inc(up, n, k, i + 1)
  IN IF up[i] # n - (i - 1) THEN [end |-> FALSE, counter |-> up]
     ELSE IF i = k THEN [end |-> TRUE, counter |-> up]
     ELSE [end |-> rest.end, counter |-> [rest.counter EXCEPT ![i] = rest.counter[i + 1] + 1]]

RECURSIVE SubsetRun(_, _, _)
SubsetRun(s, k, counter) ==
  LET next == counter_inc(counter, set_get_members(s), k, 1)
  IN <<set_new_from_list([i \in 1 .. k |-> set_get_tuple(s, counter[i])], "none")>>
     \o IF next.end THEN <<>> ELSE SubsetRun(s, k, next.counter)

\* k = 0 starts a new list, whatever was in the one given
set_subsets_list(s, k, list) ==
  IF k = 0 THEN <<set_empty_new(s.dim)>>
  ELSE list \o SubsetRun(s, k, [i \in 1 .. k |-> k - i])

Mem(s) == {set_get_tuple(s, i) : i \in 0 .. set_get_members(s) - 1}

SubsetsOf(s, from, upto) ==
  LET list == FoldLeft(LAMBDA l, k : set_subsets_list(s, k, l), <<>>,
                       [i \in 1 .. upto - from + 1 |-> from + i - 1])
  IN <<"subsets", from, upto, [i \in DOMAIN list |-> Mem(list[i])]>>

\* subsets(set, from, to); without to it is -1
SubsetsError(used, from, upto) ==
  IF used < 1 THEN 144 ELSE IF Top(1).dim = 0 THEN Asserted ELSE IF from < 1 \/ from > upto THEN 145 ELSE IF upto > used THEN 220 ELSE Running
i_entry_list_subsets(from, to) ==
  /\ Idle /\ stack # <<>> /\ set_get_members(Top(1)) <= 3 /\ UNCHANGED <<loop, big>>
  /\ LET used == set_get_members(Top(1))
         upto == IF to # -1 THEN to ELSE IF from < used THEN from ELSE used
     IN Answer(SubsetsError(used, from, upto), SubsetsOf(Top(1), from, upto))

i_entry_list_powerset ==
  /\ Idle /\ stack # <<>> /\ set_get_members(Top(1)) <= 3 /\ UNCHANGED <<loop, big>>
  /\ LET used == set_get_members(Top(1))
     IN Answer(IF used < 1 THEN 146 ELSE IF Top(1).dim = 0 THEN Asserted ELSE Running, SubsetsOf(Top(1), 0, used))

(********************************** loops **********************************)
\* i_idxset_new: a set of dimension 0 must be empty (an assertion).  Without
\* an index tuple names are made up; a given one must have the dimension of
\* the set unless that is 0 (Error 188) and, in its fixed components, the types
\* of the first member (Error 198).
Pattern(s, pat) == IF pat = <<>> THEN AllNames(s.dim) ELSE pat

IdxsetError(s, pat) ==
  IF s.dim = 0 /\ set_get_members(s) # 0 THEN Asserted
  ELSE IF pat # <<>> /\ s.dim > 0 /\ Len(pat) # s.dim THEN 188
  ELSE IF /\ pat # <<>> /\ set_get_members(s) > 0
          /\ \E i \in 1 .. s.dim : pat[i][1] # "v" /\ ElemDies(pat[i], set_get_tuple(s, 0)[i])
       THEN 198 ELSE Running
is_unrestricted(s, pat, c) ==
  c = "true" /\ \A i \in DOMAIN pat : pat[i][1] = "v" \/ set_get_members(s) = 0

\* The index sets set_from_idxset makes a set of without a loop.  Whatever
\* has dimension 0 becomes the set of the empty tuple, if there is no index
\* tuple and the condition holds (assertions); what is unrestricted is taken
\* as it is.
FromWhole(s, p, c) ==
  IF s.dim # 0 THEN s ELSE IF p = <<>> /\ Holds(c, <<>>) THEN set_pseudo_new ELSE Trap(Asserted)

\* The loop over {pat in s with c}: the iterator is made, for argmin and
\* argmax the heap too, no larger than the set.
StartLoop(kind, pat, c, size) ==
  /\ Idle /\ stack # <<>> /\ UNCHANGED big
  /\ LET s    == Top(1)
         p    == Pattern(s, pat)
         all  == kind = "idxset" /\ (s.dim = 0 \/ is_unrestricted(s, pat, c))
         it   == set_iter_init(s, p, 0)
         arg  == kind \in {"argmin", "argmax"}
         cap  == IF size > set_get_members(s) THEN set_get_members(s) ELSE size
         done == <<kind, p, c, size>>
         bad  == IF IdxsetError(s, pat) # Running THEN IdxsetError(s, pat)
                 ELSE IF it.type = "TRAP" THEN it.code
                 ELSE IF arg /\ size < 1 THEN 208 ELSE IF arg /\ cap = 0 THEN Asserted ELSE Running
     IN \/ bad = Running /\ all /\ Result(1, FromWhole(s, p, c), done) /\ UNCHANGED loop
        \/ /\ bad = Running /\ ~ all
           /\ loop' = [done |-> done, set |-> s, it |-> it, cap |-> cap, out |-> <<>>,
                        acc |-> <<>>, last |-> <<>>, taken |-> 0]
           /\ UNCHANGED <<stack, stat, op, ops>>
        \/ bad # Running /\ Answer(bad, <<>>) /\ UNCHANGED loop

Order2(kind) == IF kind = "argmin" THEN -1 ELSE 1

\* mutant: a full heap gives up its top entry for any other
Offer_Any(kind, heap, cap, t) ==
  LET o == Order2(kind)
  IN heap_push_entry(o, IF Len(heap) = cap THEN heap_pop_entry(o, heap) ELSE heap,
                       [numb |-> Val(t), tuple |-> t])
\* do_set_argminmax: a full heap gives up its worst entry for a better one
Offer(kind, heap, cap, t) ==
  Offered(Order2(kind), heap, cap, [numb |-> Val(t), tuple |-> t])

i_set_union2(acc, t) == IF acc = <<>> THEN <<Body(t)>> ELSE <<Combine("union", acc[1], Body(t))>>
i_set_inter2(acc, t) == IF acc = <<>> THEN <<Body(t)>> ELSE <<Combine("inter", acc[1], Body(t))>>
i_set_expr(acc, t)   == Append(acc, Image(t))
i_bool_exists(acc, t)   == Append(acc, t)
i_forall(acc, t)        == Append(acc, t)
set_from_idxset(acc, t) == Append(acc, t)

\* What one member for which the condition holds does to the loop's result
Consume(l, t) ==
  CASE l.done[1] \in {"argmin", "argmax"} -> Offer(l.done[1], l.acc, l.cap, t)
    [] l.done[1] = "union2" -> i_set_union2(l.acc, t)
    [] l.done[1] = "inter2" -> i_set_inter2(l.acc, t)
    [] l.done[1] = "expr"   -> i_set_expr(l.acc, t)
    [] l.done[1] = "exists" -> i_bool_exists(l.acc, t)
    [] l.done[1] = "forall" -> i_forall(l.acc, t)
    [] l.done[1] = "idxset" -> set_from_idxset(l.acc, t)

Deliver(n, ok, acc) ==
  IF ok /\ loop.done[1] \in {"union2", "inter2"} /\ acc[1].type = "TRAP"
  THEN Answer(acc[1].code, <<>>) /\ UNCHANGED <<loop, big>>
  ELSE /\ loop' = [loop EXCEPT !.it = n.iter, !.last = n.part, !.taken = @ + 1, !.acc = acc,
                               !.out = IF ok THEN Append(@, n.part) ELSE @]
       /\ UNCHANGED <<stack, stat, op, ops, big>>
Visit(n, ok) == n.ok /\ Deliver(n, ok, IF ok THEN Consume(loop, n.part) ELSE loop.acc)
Member(n)    == Visit(n, n.ok /\ Holds(loop.done[3], n.part))

Step ==
  /\ stat = Running /\ loop # NoLoop
  /\ loop.done[1] = "exists" => loop.acc = <<>>
  /\ Member(set_iter_next(loop.it, loop.set))

LoopSet(l) ==
  LET dim  == Len(l.done[2])
      list == IF l.done[1] \in {"argmin", "argmax"} THEN heap_to_set(Order2(l.done[1]), l.acc) ELSE l.acc
  IN IF list = <<>> THEN set_empty_new(IF l.done[1] = "expr" THEN 1 ELSE dim)
     ELSE IF l.done[1] \in {"union2", "inter2"} THEN l.acc[1]
     ELSE set_new_from_list(list, "warn")

Finish ==
  /\ stat = Running /\ loop # NoLoop
  /\ \/ ~ set_iter_next(loop.it, loop.set).ok
     \/ loop.done[1] = "exists" /\ loop.acc # <<>>
  /\ loop' = NoLoop /\ UNCHANGED big
  /\ \/ loop.done[1] = "exists" /\ Answer(Running, Append(loop.done, loop.acc # <<>>))
     \/ loop.done[1] = "forall" /\ Answer(Running, Append(loop.done, loop.acc))
     \/ loop.done[1] \notin {"exists", "forall"} /\ Result(1, LoopSet(loop), loop.done)

(***************************************************************************)
Init == stack \in Given /\ stat = Running /\ op = <<"start">> /\ loop = NoLoop /\ ops = 0 /\ big = FALSE

Next ==
  \/ \E list \in Literals : i_set_new_tuple(list)
  \/ \E g \in Ranges : i_set_range(g[1], g[2], g[3]) \/ i_set_range2(g[1], g[2], g[3])
  \/ i_set_union \/ i_set_inter \/ i_set_minus \/ i_set_sdiff
  \/ i_set_cross
  \/ \E idx \in Projections : i_set_proj(idx)
  \/ \E name \in {"eq", "subset", "subseteq"} : Compare(name)
  \/ i_expr_card
  \/ \E t \in Probes : i_bool_is_elem(t)
  \/ \E tno \in 1 .. 2 : i_expr_ord(tno)
  \/ i_set_permute
  \/ i_entry_list_powerset
  \/ \E z \in Sizes : i_entry_list_subsets(z[1], z[2])
  \/ \E kind \in {"idxset", "expr", "exists", "forall", "union2", "inter2"}, pat \in Patterns, c \in Conds :
        StartLoop(kind, pat, c, 1)
  \/ \E kind \in {"argmin", "argmax"}, pat \in Patterns, c \in Conds, size \in 0 .. 2 :
        StartLoop(kind, pat, c, size)
  \/ Step
  \/ Finish

Spec == Init /\ [][Next]_vars

-----------------------------------------------------------------------------
Fits(pat, t) == Len(pat) = Len(t) /\ \A i \in DOMAIN pat : pat[i][1] = "v" \/ pat[i] = t[i]
Alg == INSTANCE SetAlgebra WITH
         stack <- [i \in DOMAIN stack |-> Mem(stack[i])], op <- op, Fits <- Fits, Cond <- Holds,
         BodyMem <- LAMBDA t : Mem(Body(t))

\* Every set on the stack has tuples of its dimension; a loop works on the
\* topmost set and visits no more members than that has, so it ends.
TypeOK ==
  /\ stat \in Int /\ ops \in 0 .. MaxOps /\ big \in BOOLEAN
  /\ \A i \in DOMAIN stack : \A t \in Mem(stack[i]) : Len(t) = stack[i].dim
  /\ loop # NoLoop => loop.set = Top(1) /\ loop.taken <= set_get_members(Top(1))

\* Every operation and every loop does what the set expression means,
\* whatever the representations: union, difference and the others, the
\* selection by a pattern, argmin and argmax with ties, each member of a
\* forall once, the entries of subsets() and powerset().
Refines == Alg!Spec

\* The number a lookup finds for the tuple with number i is i: ord(), the
\* subsets and the products, which all work with numbers, agree with lookup.
NumbersMatch ==
  ~ big => \A k \in DOMAIN stack : \A i \in 0 .. set_get_members(stack[k]) - 1 :
             set_lookup_idx(stack[k], set_get_tuple(stack[k], i), 0) = i

\* A loop without fixed components meets the members in the order of their
\* numbers, so the n-th member of a loop is the one ord(set, n, ..) names.
LoopInOrder ==
  (loop # NoLoop /\ loop.taken > 0 /\ \A i \in DOMAIN loop.done[2] : loop.done[2][i][1] = "v")
     => loop.last = set_get_tuple(loop.set, loop.taken - 1)

\* The fore part a product iterator keeps is the one of the member delivered
\* last, also in a product of products and after the back part was reset.
RECURSIVE CacheOf(_, _)
CacheOf(it, t) ==
  it.type = "PAIR" => /\ ~ it.first /\ it.elem = SubSeq(t, 1, Len(it.elem)) /\ it.elem # <<>>
                      /\ CacheOf(it.a, SubSeq(t, 1, Len(it.elem)))
                      /\ CacheOf(it.b, SubSeq(t, Len(it.elem) + 1, Len(t)))
CacheFollows == (loop # NoLoop /\ loop.taken > 0) => CacheOf(loop.it, loop.last)

\* Lookup, loops and the iterators of products count the members in one order.
OneOrder == NumbersMatch /\ LoopInOrder /\ CacheFollows

\* While argmin or argmax runs, the heap is a heap (the assertion of
\* heap_is_valid), never holds more than asked for, and holds a best choice
\* among the members met so far.
HeapBest ==
  (loop # NoLoop /\ loop.done[1] \in {"argmin", "argmax"}) =>
    /\ heap_is_valid(Order2(loop.done[1]), loop.acc) /\ Len(loop.acc) <= loop.cap
    /\ Alg!Best({loop.acc[i].tuple : i \in DOMAIN loop.acc}, {loop.out[i] : i \in DOMAIN loop.out},
                loop.cap, -Order2(loop.done[1]))

\* No index tuple gets a string to the iterator of a range, which aborts on
\* it: the check against the first member catches it before.
NoAbort == stat # Aborted

\* Unless a literal of more than HashThreshold elements was read, the
\* members of a set have the same type in each component: mixed literals
\* end with Error 160.  (A longer literal is looked up by hash and mixed
\* elements in different buckets are never compared.)
Homogeneous ==
  ~ big => \A k \in DOMAIN stack : \A t, u \in Mem(stack[k]) : \A i \in DOMAIN t : t[i][1] = u[i][1]

\* Numbers and strings are not mixed, and none meets a representation that
\* cannot have it.
KindsKept == NoAbort /\ Homogeneous
=============================================================================
