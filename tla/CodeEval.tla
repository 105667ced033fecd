------------------------------ MODULE CodeEval ------------------------------
(***************************************************************************)
(* The evaluation of an expression (code.c, inst.c, local.c, define.c).    *)
(*                                                                         *)
(* A value lives in the node that computed it: the next evaluation of the  *)
(* node frees it.  An instruction evaluates its children one after the     *)
(* other and may hold, meanwhile, a pointer to the value of the first.  A  *)
(* define that calls itself evaluates its own nodes again while an outer   *)
(* call is still in one of them.  Names are looked up in a stack of frames *)
(* that is shared by all of them.  Before a statement is evaluated its     *)
(* constant parts are, and replaced by their values (code_prune_tree).     *)
(*                                                                         *)
(* A node is the path to it from the root of its tree, so that two calls   *)
(* of a define are in the same nodes.  The tuple and list nodes of an      *)
(* index set and of an argument list are part of the node above them:      *)
(* nothing is evaluated between the moment they have their value and the   *)
(* one it is copied.  An index tuple has one component.  Strings live in   *)
(* the string store until the program ends, so that a pointer to one is as *)
(* good as the string.                                                     *)
(***************************************************************************)
EXTENDS Denotation

CONSTANTS
  Programs,   \* what is evaluated: [main: tree, def: name -> [param, code]]
  NoFrame     \* the element of the entry that begins a frame

VARIABLES
  prog,    \* the program as it was parsed
  code,    \* the program that is evaluated
  stack,   \* the instructions that run, the innermost last
  val,     \* node -> [t: type, v: value, n: how often it was set]
  locals,  \* the list of local.c, the innermost entry first
  status   \* "parsed", "run", "done", "error" (zpl_exit), "abort" (GMP stops
           \* the process) or "undefined" (a freed value was read)

vars == <<prog, code, stack, val, locals, status>>

Top == Last(stack)
Kid(k) == Append(Top.id, k)
\* An instruction at its start.  "held" is the child a pointer to the value of
\* which is kept, "stamp" the state of that value, "acc" a value in a local
\* variable of the instruction, "first" the flag of that name, "todo" the
\* tuples an iterator has not delivered or the arguments already collected,
\* "bind" what the instruction installed.
Start(id, tree) ==
  [id |-> id, tree |-> tree, pc |-> "start", held |-> 0, stamp |-> 0, acc |-> Void,
   first |-> TRUE, todo |-> <<>>, bind |-> <<>>]

\* code_eval of a node by the innermost instruction, which goes on as "me".
code_eval(me, id, tree) ==
  /\ stack' = Append(Append(Front(stack), me), Start(id, tree))
  /\ UNCHANGED <<prog, code, val, status>>
Child(me, k) == code_eval(me, Kid(k), Top.tree.kids[k]) /\ UNCHANGED locals
Going(pc) == [Top EXCEPT !.pc = pc]

\* code_value_*: the old value of the node is freed.
Stamp(id) == IF id \in DOMAIN val THEN val[id].n ELSE 0
Return(x) ==
  /\ val' = (Top.id :> [t |-> x.t, v |-> x.v, n |-> Stamp(Top.id) + 1]) @@ val
  /\ stack' = Front(stack)
  /\ status' = IF Len(stack) = 1 THEN "done" ELSE "run"
  /\ UNCHANGED <<prog, code>>

Abandon(how) == status' = how /\ UNCHANGED <<prog, code, stack, val, locals>>
Give(x) ==
  \/ x.t = "WRONG" /\ Abandon("error")
  \/ x.t = "ABORT" /\ Abandon("abort")
  \/ x.t \notin {"WRONG", "ABORT"} /\ Return(x) /\ UNCHANGED locals

\* The pointer kept in "held" is still the value of the node.
Alive == Top.stamp = val[Kid(Top.held)].n
Holding(k) == [Top EXCEPT !.held = k, !.stamp = val[Kid(k)].n]

At(ops, pc) == status = "run" /\ Top.tree.op \in ops /\ Top.pc = pc

----------------------------------------------------------------------------
\* Locals

IsFrame(e) == e.elem = NoFrame
local_install_tuple(b) ==
  locals' = Append(Reverse(b), [name |-> "", elem |-> NoFrame]) \o locals

local_drop_frame_Entry(l) == \* mutant: one entry is dropped
  Tail(l)
local_drop_frame(l) ==
  LET first == SelectInSeq(l, IsFrame) IN SubSeq(l, first + 1, Len(l))

local_lookup_Frame(l, s) == \* mutant: only the innermost frame is searched
  LET n == SelectInSeq(l, IsFrame)
      i == SelectInSeq(SubSeq(l, 1, n), LAMBDA e : e.name = s)
  IN  IF i = 0 THEN Name(s) ELSE l[i].elem
local_lookup(l, s) ==
  LET i == SelectInSeq(l, LAMBDA e : e.name = s)
  IN  IF i = 0 THEN Name(s) ELSE l[i].elem
----------------------------------------------------------------------------
\* stmt_execute of the statements that define and of the one that is watched:
\* each is pruned before it is executed.
code_prune_tree ==
  /\ status = "parsed"
  /\ LET def == [d \in DOMAIN prog.def |-> [prog.def[d] EXCEPT !.code = Prune(@)]]
         main == Prune(prog.main)
         ops == Ops(main) \cup UNION {Ops(def[d].code) : d \in DOMAIN def}
     IN  \/ "WRONG" \in ops /\ Abandon("error")
         \/ "ABORT" \in ops /\ Abandon("abort")
         \/ /\ {"WRONG", "ABORT"} \cap ops = {}
            /\ code' = [main |-> main, def |-> def]
            /\ stack' = <<Start(<<"main">>, main)>>
            /\ status' = "run"
            /\ UNCHANGED <<prog, val, locals>>
----------------------------------------------------------------------------
\* Instructions

\* i_nop: the value of a constant was set by the scanner or by pruning and is
\* never freed.
i_nop ==
  /\ At(Constants, "start")
  /\ LET x == ConstantValue(Top.tree)
     IN  val' = (Top.id :> [t |-> x.t, v |-> x.v, n |-> 0]) @@ val
  /\ stack' = Front(stack)
  /\ status' = IF Len(stack) = 1 THEN "done" ELSE "run"
  /\ UNCHANGED <<prog, code, locals>>

i_local_deref ==
  /\ At({"local"}, "start")
  /\ Return(local_lookup(locals, Top.tree.name))
  /\ UNCHANGED locals

i_bool_true ==
  /\ At({"true"}, "start")
  /\ Return(Bool(TRUE))
  /\ UNCHANGED locals

\* The last step of an operator on numbers: an operand that is held is read
\* through its pointer.
Operate(x) ==
  IF Top.held # 0 /\ ~ Alive THEN Abandon("undefined") ELSE Give(Apply(Top.tree.op, x))
Operands == [k \in DOMAIN Top.tree.kids |-> val[Kid(k)]]

\* i_expr_add: the node of child 0 is kept; its number is read before or after
\* child 1 is evaluated (C leaves the order of the arguments open), its string
\* before.
i_expr_add ==
  \/ At({"add"}, "start") /\ Child(Going("second"), 1)
  \/ /\ At({"add"}, "second")
     /\ \/ /\ val[Kid(1)].t = "NUMB"
           /\ \E me \in {Top, Holding(1)} : Child([me EXCEPT !.pc = "last"], 2)
        \/ /\ val[Kid(1)].t = "STRG"
           /\ Child([Going("joined") EXCEPT !.acc = val[Kid(1)]], 2)
        \/ val[Kid(1)].t \notin {"NUMB", "STRG"} /\ Abandon("error")
  \/ At({"add"}, "last") /\ Operate(Operands)
  \/ At({"add"}, "joined") /\ Give(Apply("add", <<Strg(Top.acc.v), val[Kid(2)]>>))

\* i_expr_sub, i_expr_mul: the children in either order, each read at once.
i_expr_sub ==
  \/ /\ At({"sub", "mul"}, "start")
     /\ \E k \in {1, 2} : Child([Going("second") EXCEPT !.held = k], k)
  \/ /\ At({"sub", "mul"}, "second")
     /\ IF val[Kid(Top.held)].t # "NUMB" THEN Abandon("error")
        ELSE Child([Holding(Top.held) EXCEPT !.pc = "last"], 3 - Top.held)
  \/ At({"sub", "mul"}, "last") /\ Operate(Operands)

\* i_expr_div, i_expr_mod, i_expr_intdiv: the divisor first, and it is held.
Divisions == {"div", "mod", "intdiv"}
i_expr_div ==
  \/ At(Divisions, "start") /\ Child(Going("second"), 2)
  \/ /\ At(Divisions, "second")
     /\ LET divisor == val[Kid(2)]
        IN  IF divisor.t # "NUMB" \/ divisor.v = Zero THEN Abandon("error")
            ELSE Child([Holding(2) EXCEPT !.pc = "last"], 1)
  \/ At(Divisions, "last") /\ Operate(Operands)

\* i_expr_pow: the exponent first, and it is copied into an int.
i_expr_pow ==
  \/ At({"pow"}, "start") /\ Child(Going("second"), 2)
  \/ /\ At({"pow"}, "second")
     /\ LET ex == val[Kid(2)]
        IN  IF ex.t # "NUMB" \/ ~ numb_is_int(ex.v) THEN Abandon("error")
            ELSE Child([Going("last") EXCEPT !.acc = ex], 1)
  \/ At({"pow"}, "last") /\ Operate(<<val[Kid(1)], Top.acc>>)

\* i_expr_neg, _abs, _sgn, _floor, _ceil, _round, _fac, _length.
Functions1 == UnaryOps \cup {"length"}
i_expr_neg ==
  \/ At(Functions1, "start") /\ Child(Going("last"), 1)
  \/ At(Functions1, "last") /\ Operate(Operands)

\* i_expr_substr: the string, the begin and the length, copied one by one.
i_expr_substr ==
  \/ At({"substr"}, "start") /\ Child(Going("begin"), 1)
  \/ /\ At({"substr"}, "begin")
     /\ IF val[Kid(1)].t # "STRG" THEN Abandon("error")
        ELSE Child([Going("length") EXCEPT !.acc = val[Kid(1)]], 2)
  \/ /\ At({"substr"}, "length")
     /\ LET beg == val[Kid(2)]
        IN  IF beg.t # "NUMB" \/ ~ numb_is_int(beg.v) THEN Abandon("error")
            ELSE Child([Going("last") EXCEPT !.todo = <<beg>>], 3)
  \/ At({"substr"}, "last") /\ Operate(<<Top.acc, Top.todo[1], val[Kid(3)]>>)

\* i_bool_eq, _ne, _ge, _gt, _le, _lt: both nodes are read after both were
\* evaluated.  Errors 118, 133.
i_bool_gt ==
  \/ At(CompareOps, "start") /\ Child(Going("second"), 1)
  \/ At(CompareOps, "second") /\ Child(Going("last"), 2)
  \/ At(CompareOps, "last") /\ Give(Compare(Top.tree.op, val[Kid(1)], val[Kid(2)]))

i_bool_not ==
  \/ At({"not"}, "start") /\ Child(Going("last"), 1)
  \/ At({"not"}, "last") /\ Return(Bool(~ val[Kid(1)].v)) /\ UNCHANGED locals

\* i_bool_and, i_bool_or, i_bool_xor: the first is copied; the second is not
\* evaluated if the first decides.
Decides(op, b) == (op = "and" /\ ~ b) \/ (op = "or" /\ b)
BoolOp(op, a, b) ==
  CASE op = "and" -> a /\ b [] op = "or" -> a \/ b [] op = "xor" -> (a /\ ~ b) \/ (b /\ ~ a)
i_bool_and ==
  \/ At(BoolOps, "start") /\ Child(Going("second"), 1)
  \/ /\ At(BoolOps, "second")
     /\ LET a == val[Kid(1)]
        IN  IF Decides(Top.tree.op, a.v) THEN Return(a) /\ UNCHANGED locals
            ELSE Child([Going("last") EXCEPT !.acc = a], 2)
  \/ /\ At(BoolOps, "last")
     /\ Return(Bool(BoolOp(Top.tree.op, Top.acc.v, val[Kid(2)].v))) /\ UNCHANGED locals

i_expr_if_else ==
  \/ At({"if"}, "start") /\ Child(Going("test"), 1)
  \/ /\ At({"if"}, "test")
     /\ LET k == IF val[Kid(1)].v THEN 2 ELSE 3
        IN  Child([Going("copy") EXCEPT !.held = k], k)
  \/ At({"if"}, "copy") /\ Return(val[Kid(Top.held)]) /\ UNCHANGED locals

\* i_check: error 900.
i_check ==
  \/ At({"check"}, "start") /\ Child(Going("last"), 1)
  \/ At({"check"}, "last") /\ Give(IF val[Kid(1)].v THEN Void ELSE Wrong)

\* i_idxset_new, child 0 of a loop: the index is a name, unless a local of
\* this name exists; then it is the value of that and selects one member.
\* The iterator is set up, the pattern is kept by pointer.  Error 198: the
\* members of the sets are numbers.
Pattern == Kid(0)
Initial(op) == IF op = "prod" THEN Numb(One) ELSE Numb(Zero)
i_idxset_new ==
  /\ At(LoopOps, "start")
  /\ LET p == local_lookup(locals, Top.tree.name)
     IN  IF p.t = "STRG" THEN Abandon("error")
         ELSE /\ val' = (Pattern :> [t |-> p.t, v |-> p.v, n |-> Stamp(Pattern) + 1]) @@ val
              /\ stack' = Append(Front(stack),
                    [Going("next") EXCEPT !.stamp = Stamp(Pattern) + 1,
                                          !.acc = Initial(Top.tree.op),
                                          !.todo = SelectSeq(Top.tree.set,
                                                     LAMBDA m : p.t = "NUMB" => m = p.v)])
              /\ UNCHANGED <<prog, code, status, locals>>

\* i_expr_sum, _prod, _min, _max, _sglmin, _sglmax, i_forall, i_bool_exists:
\* the loop.  The pattern is read for every tuple.
Deliver ==
  /\ At(LoopOps, "next") /\ Top.todo # <<>>
  /\ IF ~ Alive THEN Abandon("undefined")
     ELSE LET bind == IF val[Pattern].t = "NUMB" THEN <<>>
                      ELSE <<[name |-> val[Pattern].v, elem |-> Numb(Head(Top.todo))]>>
          IN  /\ local_install_tuple(bind)
              /\ code_eval([Going("test") EXCEPT !.bind = bind], Kid(1), Top.tree.kids[1])

\* The end of a round: the loop goes on as "me" with the next tuple.
Round(me) ==
  /\ stack' = Append(Front(stack), [me EXCEPT !.pc = "next", !.todo = Tail(@)])
  /\ locals' = local_drop_frame(locals)
  /\ UNCHANGED <<prog, code, val, status>>

Accumulate(op, first, acc, x) ==
  CASE op = "sum" -> numb_new_add(acc, x)
    [] op = "prod" -> numb_new_mul(acc, x)
    [] op \in {"min", "sglmin"} -> IF first \/ numb_cmp(x, acc) < 0 THEN x ELSE acc
    [] op \in {"max", "sglmax"} -> IF first \/ numb_cmp(x, acc) > 0 THEN x ELSE acc
Accumulated(x) ==
  [Top EXCEPT !.first = FALSE, !.acc = Numb(Accumulate(Top.tree.op, Top.first, @.v, x))]

\* i_bool_exists leaves the loop when a tuple fits; i_expr_sglmin and _sglmax
\* take the element of the tuple, the others evaluate the body.
Test ==
  /\ At(LoopOps, "test")
  /\ IF Top.tree.op = "exists"
     THEN Round(IF val[Kid(1)].v THEN [Top EXCEPT !.first = FALSE, !.todo = <<Head(@)>>] ELSE Top)
     ELSE IF ~ val[Kid(1)].v THEN Round(Top)
     ELSE IF Top.tree.op \in MemberOps THEN Round(Accumulated(Head(Top.todo)))
     ELSE Child(Going("body"), 2)

Body_ ==
  /\ At(LoopOps, "body")
  /\ LET x == val[Kid(2)]
     IN  IF Top.tree.op = "forall" THEN Round(Top)
         ELSE IF x.t # "NUMB" THEN Abandon("error")
         ELSE Round(Accumulated(x.v))

Leave ==
  /\ At(LoopOps, "next") /\ Top.todo = <<>>
  /\ Return(CASE Top.tree.op = "forall" -> Void
              [] Top.tree.op = "exists" -> Bool(~ Top.first)
              [] OTHER -> Top.acc)
  /\ UNCHANGED locals

i_expr_sum == Deliver \/ Test \/ Body_ \/ Leave

\* i_elem_list_add: the elements of a list from the last to the first, each
\* copied; then min, max (i_expr_min2, i_expr_max2) or the call of a define
\* (i_define_deref: errors 170 and 171, then the code of the define).
Body(d) == <<d>>
WithList == ListOps \cup {"call"}
i_elem_list_add ==
  \/ /\ At(WithList, "start")
     /\ LET n == Len(Top.tree.kids)
        IN  Child([Going("element") EXCEPT !.held = n], n)
  \/ /\ At(WithList, "element") /\ Top.held > 1
     /\ LET k == Top.held
        IN  Child([Top EXCEPT !.todo = <<val[Kid(k)]>> \o @, !.held = k - 1], k - 1)

List == <<val[Kid(1)]>> \o Top.todo
i_expr_min2 ==
  At(ListOps, "element") /\ Top.held = 1 /\ Give(Extreme(Top.tree.op, List))

i_define_deref ==
  \/ /\ At({"call"}, "element") /\ Top.held = 1
     /\ LET def == code.def[Top.tree.def]
            bind == [k \in DOMAIN List |->
                       [name |-> def.param[k], elem |-> [t |-> List[k].t, v |-> List[k].v]]]
        IN  IF Len(List) # Len(def.param) \/ \E k \in DOMAIN List : List[k].t = "NAME"
            THEN Abandon("error")
            ELSE /\ local_install_tuple(bind)
                 /\ code_eval([Going("copy") EXCEPT !.todo = <<>>, !.bind = bind],
                              Body(Top.tree.def), def.code)
  \/ /\ At({"call"}, "copy")
     /\ Return(val[Body(Top.tree.def)])
     /\ locals' = local_drop_frame(locals)
----------------------------------------------------------------------------
Init ==
  /\ prog \in Programs
  /\ code = prog /\ stack = <<>>
  /\ val = <<>> /\ locals = <<>> /\ status = "parsed"

\* The statement is executed, or the program has ended.
Ended == status \notin {"parsed", "run"}
Finished == Ended /\ UNCHANGED vars

Next ==
  \/ code_prune_tree
  \/ i_nop \/ i_local_deref \/ i_bool_true
  \/ i_expr_add \/ i_expr_sub \/ i_expr_div \/ i_expr_pow \/ i_expr_neg \/ i_expr_substr
  \/ i_bool_gt \/ i_bool_not \/ i_bool_and \/ i_expr_if_else \/ i_check
  \/ i_idxset_new \/ i_expr_sum
  \/ i_elem_list_add \/ i_expr_min2 \/ i_define_deref
  \/ Finished

Spec == Init /\ [][Next]_vars
----------------------------------------------------------------------------
\* The program ended with this value, or with an error if there is none.
EndsWith(x) ==
  /\ status = "done" => val[<<"main">>].t = x.t /\ val[<<"main">>].v = x.v
  /\ status \in {"error", "abort"} => x.t = "WRONG"
  /\ status # "undefined"

\* The defines an expression may lead to.
RECURSIVE Calls(_), Reach(_), Waits(_, _)
Calls(e) == (IF e.op = "call" THEN {e.def} ELSE {}) \cup UNION {Calls(k) : k \in Range(e.kids)}
Reach(ds) == LET more == ds \cup UNION {Calls(prog.def[d].code) : d \in ds}
             IN  IF more = ds THEN ds ELSE Reach(more)

\* In the define d an instruction needs the value of one child after another
\* child that leads back to d has been evaluated.  A constant is safe, and so
\* is what is copied: an exponent, a truth value, an element of a list.
Waits(e, d) ==
  LET back(k) == d \in Reach(Calls(e.kids[k]))
      lost(k) == e.kids[k].op \notin Constants
  IN  \/ e.op \in {"add"} \cup CompareOps /\ lost(1) /\ back(2)
      \/ e.op \in Divisions /\ lost(2) /\ back(1)
      \/ e.op \in {"sub", "mul"} /\ \E k \in {1, 2} : lost(k) /\ back(3 - k)
      \/ e.op \in LoopOps /\ \E k \in DOMAIN e.kids : back(k)
      \/ \E k \in Range(e.kids) : Waits(k, d)
Guarded == \A d \in DOMAIN code.def : ~ Waits(code.def[d].code, d)

WrongConstants ==
  \/ HasWrongConstant(prog.main)
  \/ \E d \in DOMAIN prog.def : HasWrongConstant(prog.def[d].code)

\* No name that a define uses besides its arguments is bound by a caller.
Hygienic ==
  \A d \in DOMAIN prog.def :
    LET def == prog.def[d]
        others == DOMAIN prog.def \ {d}
    IN  (Uses(def.code) \ Range(def.param))
          \cap (Binds(prog.main)
                  \cup UNION {Range(prog.def[c].param) : c \in DOMAIN prog.def}
                  \cup UNION {Binds(prog.def[c].code) : c \in others}) = {}
----------------------------------------------------------------------------
\* A program has the value its expressions have, in whatever order C evaluates
\* the operands, as long as no instruction of a define needs the value of a
\* child across a call that leads back to the define: no node is evaluated
\* again while its value is still needed (i_expr_*, i_define_deref).  Constants
\* are evaluated before (code_prune_tree), which changes one thing only: one
\* that has no value ends the run even where it would never be reached.
Result ==
  /\ status = "done" => ~ WrongConstants
  /\ Ended /\ Guarded /\ ~ WrongConstants => EndsWith(Worth(prog.def, prog.main, <<>>, TRUE))

\* A define sees the locals of its callers (local_lookup goes through all
\* frames), even for the names of its own index sets; if it has no name in
\* common with them its value depends on its arguments only.
Lexical ==
  Ended /\ Guarded /\ Hygienic /\ ~ WrongConstants =>
    EndsWith(Worth(prog.def, prog.main, <<>>, FALSE))

\* The list of locals is exactly what the instructions that run have installed:
\* every frame is dropped by the instruction that made it (i_expr_sum,
\* i_define_deref), however they are nested.
FrameOf(a) == IF a.pc \in {"test", "body", "copy"} /\ a.tree.op \in LoopOps \cup {"call"}
              THEN Reverse(a.bind) \o <<[name |-> "", elem |-> NoFrame]>> ELSE <<>>
LocalsMatch ==
  locals = FlattenSeq(Reverse([i \in DOMAIN stack |-> FrameOf(stack[i])]))

\* Names mean what they mean where they stand, and a frame lives as long as the
\* instruction that made it.
Scoped == Lexical /\ LocalsMatch

\* A define may call itself (mmlscan.l:258-259 installs it "so that recursive
\* call succseed", and check/define.zpl does so): the value is the one that
\* the definition gives.
RecursiveCallsSucceed ==
  Ended /\ ~ WrongConstants => EndsWith(Worth(prog.def, prog.main, <<>>, TRUE))
============================================================================
