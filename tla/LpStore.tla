------------------------------ MODULE LpStore ------------------------------
(***************************************************************************)
(* The matrix of the linear program, src/src/zimpl/ratlpstore.c.           *)
(*                                                                         *)
(* A nonzero (Nzo) is one struct that sits in two doubly linked lists at   *)
(* once: the column of its variable (var_next, var_prev) and the row of    *)
(* its constraint (con_next, con_prev).  Structs come from blocks of       *)
(* sto_size; unused ones are chained through var_next, the same field that *)
(* links a column, starting at lp->next.  Nothing marks a struct as used:  *)
(* "live" is an auxiliary variable, the structs handed out by lps_addnzo   *)
(* and not yet given back by lps_delnzo.                                   *)
(***************************************************************************)
EXTENDS Integers, Sequences, FiniteSets

CONSTANTS Var,       \* the variables the program may create
          Con,       \* the constraints the program may create
          Value,     \* the coefficients
          StoSize,   \* sto_size, structs per block
          MaxSto,    \* bound of the model: blocks that can be allocated
          NULL

Nzo == (1 .. MaxSto) \X (1 .. StoSize)

ASSUME LpStoreAssumption ==
  /\ StoSize \in Nat \ {0}
  /\ MaxSto \in Nat
  /\ NULL \notin Nzo \cup Var \cup Con

VARIABLES
  vars, cons,                  \* the variables and constraints created
  sto,                         \* number of blocks in the list lp->sto_root
  next,                        \* lp->next, head of the unused structs
  nonzeros,                    \* lp->nonzeros
  nzo_var, nzo_con, nzo_value, \* the fields of a struct
  var_next, var_prev,
  con_next, con_prev,
  var_first, var_size,         \* the fields first and size of a variable
  con_first, con_size,         \* and of a constraint
  live

links == <<var_next, var_prev, con_next, con_prev>>
heads == <<var_first, var_size, con_first, con_size>>
vars_ == <<vars, cons, sto, next, nonzeros, nzo_var, nzo_con, nzo_value,
           links, heads, live>>

Ptr(S) == S \cup {NULL}

\* The structs of the blocks allocated so far.
Allocated == {n \in Nzo : n[1] <= sto}
----------------------------------------------------------------------------
\* lps_alloc: no variable, no constraint, no block; the fields of a struct
\* or of a variable mean nothing before they are allocated.
Init ==
  /\ vars = {} /\ cons = {}
  /\ sto = 0 /\ next = NULL /\ nonzeros = 0
  /\ nzo_var = [n \in Nzo |-> NULL]
  /\ nzo_con = [n \in Nzo |-> NULL]
  /\ nzo_value = [n \in Nzo |-> NULL]
  /\ var_next = [n \in Nzo |-> NULL]
  /\ var_prev = [n \in Nzo |-> NULL]
  /\ con_next = [n \in Nzo |-> NULL]
  /\ con_prev = [n \in Nzo |-> NULL]
  /\ var_first = [v \in Var |-> NULL] /\ var_size = [v \in Var |-> 0]
  /\ con_first = [c \in Con |-> NULL] /\ con_size = [c \in Con |-> 0]
  /\ live = {}

\* lps_addvar: a fresh variable with an empty column.
lps_addvar(v) ==
  /\ v \in Var \ vars
  /\ vars' = vars \cup {v}
  /\ var_first' = [var_first EXCEPT ![v] = NULL]
  /\ var_size' = [var_size EXCEPT ![v] = 0]
  /\ UNCHANGED <<cons, sto, next, nonzeros, nzo_var, nzo_con, nzo_value,
                 links, con_first, con_size, live>>

\* lps_addcon: a fresh constraint with an empty row.
lps_addcon(c) ==
  /\ c \in Con \ cons
  /\ cons' = cons \cup {c}
  /\ con_first' = [con_first EXCEPT ![c] = NULL]
  /\ con_size' = [con_size EXCEPT ![c] = 0]
  /\ UNCHANGED <<vars, sto, next, nonzeros, nzo_var, nzo_con, nzo_value,
                 links, var_first, var_size, live>>

(***************************************************************************)
(* lps_storage: block b, its structs chained in order through var_next.    *)
(***************************************************************************)
Chained_Overrun(b) == \* mutant: the last struct gets a successor too
  [n \in Nzo |-> IF n[1] # b THEN var_next[n] ELSE <<b, n[2] + 1>>]
Chained(b) ==
  [n \in Nzo |-> IF n[1] # b THEN var_next[n]
                 ELSE IF n[2] = StoSize THEN NULL ELSE <<b, n[2] + 1>>]

\* The links after pushing n in front of first, in either direction.
PushNext(nx, n, first) == [nx EXCEPT ![n] = first]
PushPrev(pv, n, first) ==
  [m \in Nzo |-> IF m = n THEN NULL ELSE IF m = first THEN n ELSE pv[m]]

\* The size field of a variable or constraint after one more or less nonzero.
Resized_Add(size, o, d) == \* mutant: lps_delnzo counts up as lps_addnzo does
  [size EXCEPT ![o] = @ + 1]
Resized(size, o, d) == [size EXCEPT ![o] = @ + d]

\* lps_addnzo: take the first unused struct, after a call of lps_storage if
\* there is none, and push it in front of the column and of the row.
lps_addnzo(c, v, x) ==
  LET grow == next = NULL
      vn   == IF grow THEN Chained(sto + 1) ELSE var_next
      n    == IF grow THEN <<sto + 1, 1>> ELSE next
  IN  /\ c \in cons /\ v \in vars
      /\ grow => sto < MaxSto
      /\ sto' = IF grow THEN sto + 1 ELSE sto
      /\ next' = vn[n]
      /\ nonzeros' = nonzeros + 1
      /\ nzo_value' = [nzo_value EXCEPT ![n] = x]
      /\ nzo_var' = [nzo_var EXCEPT ![n] = v]
      /\ var_next' = PushNext(vn, n, var_first[v])
      /\ var_prev' = PushPrev(var_prev, n, var_first[v])
      /\ var_first' = [var_first EXCEPT ![v] = n]
      /\ var_size' = Resized(var_size, v, 1)
      /\ nzo_con' = [nzo_con EXCEPT ![n] = c]
      /\ con_next' = PushNext(con_next, n, con_first[c])
      /\ con_prev' = PushPrev(con_prev, n, con_first[c])
      /\ con_first' = [con_first EXCEPT ![c] = n]
      /\ con_size' = Resized(con_size, c, 1)
      /\ live' = live \cup {n}
      /\ UNCHANGED <<vars, cons>>

\* The links after taking n out, in either direction.
UnlinkNext_Tail(nx, pv, n) == \* mutant: what follows n is lost as well
  [m \in Nzo |-> IF m = pv[n] THEN NULL ELSE nx[m]]
UnlinkNext(nx, pv, n) ==
  [m \in Nzo |-> IF m = pv[n] THEN nx[n] ELSE nx[m]]
UnlinkPrev_Stale(nx, pv, n) == \* mutant: the successor is not told
  pv
UnlinkPrev(nx, pv, n) ==
  [m \in Nzo |-> IF m = nx[n] THEN pv[n] ELSE pv[m]]

\* lps_delnzo: take n out of its column and its row and chain it in front of
\* the unused structs; its other fields keep what they hold.
lps_delnzo(n) ==
  LET v == nzo_var[n]
      c == nzo_con[n]
  IN  /\ n \in live
      /\ var_first' = IF n = var_first[v]
                      THEN [var_first EXCEPT ![v] = var_next[n]] ELSE var_first
      /\ var_next' = [UnlinkNext(var_next, var_prev, n) EXCEPT ![n] = next]
      /\ var_prev' = UnlinkPrev(var_next, var_prev, n)
      /\ var_size' = Resized(var_size, v, -1)
      /\ con_first' = IF n = con_first[c]
                      THEN [con_first EXCEPT ![c] = con_next[n]] ELSE con_first
      /\ con_next' = UnlinkNext(con_next, con_prev, n)
      /\ con_prev' = UnlinkPrev(con_next, con_prev, n)
      /\ con_size' = Resized(con_size, c, -1)
      /\ next' = n
      /\ nonzeros' = nonzeros - 1
      /\ live' = live \ {n}
      /\ UNCHANGED <<vars, cons, sto, nzo_var, nzo_con, nzo_value>>

\* lps_setval
lps_setval(n, x) ==
  /\ n \in live
  /\ nzo_value' = [nzo_value EXCEPT ![n] = x]
  /\ UNCHANGED <<vars, cons, sto, next, nonzeros, nzo_var, nzo_con,
                 links, heads, live>>

Next ==
  \/ \E v \in Var : lps_addvar(v)
  \/ \E c \in Con : lps_addcon(c)
  \/ \E c \in Con, v \in Var, x \in Value : lps_addnzo(c, v, x)
  \/ \E n \in Nzo : lps_delnzo(n)
  \/ \E n \in Nzo, x \in Value : lps_setval(n, x)

Spec == Init /\ [][Next]_vars_
----------------------------------------------------------------------------
\* Every pointer field of a struct, used or not, holds a struct, a variable,
\* a constraint or NULL, and the chain of a new block stays inside the block.
TypeOK ==
  /\ vars \subseteq Var /\ cons \subseteq Con
  /\ sto \in 0 .. MaxSto /\ next \in Ptr(Nzo) /\ nonzeros \in Int
  /\ nzo_var \in [Nzo -> Ptr(Var)] /\ nzo_con \in [Nzo -> Ptr(Con)]
  /\ nzo_value \in [Nzo -> Ptr(Value)]
  /\ var_next \in [Nzo -> Ptr(Nzo)] /\ var_prev \in [Nzo -> Ptr(Nzo)]
  /\ con_next \in [Nzo -> Ptr(Nzo)] /\ con_prev \in [Nzo -> Ptr(Nzo)]
  /\ var_first \in [Var -> Ptr(Nzo)] /\ con_first \in [Con -> Ptr(Nzo)]
  /\ var_size \in [Var -> Int] /\ con_size \in [Con -> Int]
  /\ live \in SUBSET Nzo

(***************************************************************************)
(* What the pointers must satisfy, struct by struct.                       *)
(***************************************************************************)
Free == Allocated \ live

\* No two unused structs are followed by the same one, and none of them by
\* the head: the chain from lp->next visits a struct once and never a used
\* one, so lps_addnzo cannot hand out a struct that is still in the matrix.
FreeListOK ==
  /\ live \subseteq Allocated
  /\ next \in Ptr(Free)
  /\ \A n \in Free : var_next[n] \in Ptr(Free)
  /\ \A n \in Free : var_next[n] = next => next = NULL
  /\ \A m, n \in Free : m # n /\ var_next[m] = var_next[n] => var_next[m] = NULL

\* The lists "first, nx, pv" hold the structs of L, each in that of its owner.
LinkedOK(L, owner, first, nx, pv, owners) ==
  /\ \A o \in owners : first[o] # NULL =>
        first[o] \in L /\ owner[first[o]] = o /\ pv[first[o]] = NULL
  /\ \A n \in L :
        /\ owner[n] \in owners
        /\ pv[n] = NULL => first[owner[n]] = n
        /\ pv[n] # NULL =>
              pv[n] \in L /\ nx[pv[n]] = n /\ owner[pv[n]] = owner[n]
        /\ nx[n] # NULL =>
              nx[n] \in L /\ pv[nx[n]] = n /\ owner[nx[n]] = owner[n]

\* Every nonzero is linked into the column of its variable and the row of
\* its constraint, and the lists of one dimension survive every splice in
\* the other (lps_addnzo, lps_delnzo work on both with one struct).
ColumnsOK == LinkedOK(live, nzo_var, var_first, var_next, var_prev, vars)
RowsOK    == LinkedOK(live, nzo_con, con_first, con_next, con_prev, cons)

Counted(S, size, L, owner) ==
  \A o \in S : size[o] = Cardinality({n \in L : owner[n] = o})

\* The counters lp->nonzeros, var->size and con->size count what is linked.
CountsOK ==
  /\ nonzeros = Cardinality(live)
  /\ Counted(vars, var_size, live, nzo_var)
  /\ Counted(cons, con_size, live, nzo_con)
----------------------------------------------------------------------------
(***************************************************************************)
(* lps_valid, the check the debug build runs around every operation: walk  *)
(* each list from its head, compare prev pointers, owners and sizes.       *)
(* Its tests on nonzeros and storage only: the lists of the variables, of  *)
(* the rows and of the sets, and the sides of the rows, which it looks at  *)
(* too, are not part of this module.                                       *)
(***************************************************************************)
\* walk[k][m]: the structs met from m on through nx in at most k steps.
Walks(nx) ==
  LET walk[k \in Nat] ==
        [m \in Ptr(Nzo) |->
           IF m = NULL THEN <<>>
           ELSE IF k = 0 THEN <<m>> ELSE <<m>> \o walk[k - 1][nx[m]]]
  IN  walk

\* The list that begins at first, where at most n structs can be met (one too
\* many on a cycle).
Walk(first, nx, n) == Walks(nx)[n][first]

ValidList(o, owner, first, size, nx, pv) ==
  LET s == Walk(first[o], nx, Cardinality(live))
  IN  /\ Len(s) = size[o]
      /\ \A i \in DOMAIN s : /\ owner[s[i]] = o
                             /\ pv[s[i]] = IF i = 1 THEN NULL ELSE s[i - 1]

lps_valid ==
  /\ \A v \in vars : ValidList(v, nzo_var, var_first, var_size, var_next, var_prev)
  /\ \A c \in cons : ValidList(c, nzo_con, con_first, con_size, con_next, con_prev)
  /\ sto * StoSize >= nonzeros

\* The chain from lp->next holds every unused struct exactly once: none is
\* lost, so the store grows only when every struct is in use.
NoStructLost ==
  LET s == Walk(next, var_next, Cardinality(Free))
  IN  /\ {s[i] : i \in DOMAIN s} = Free
      /\ Len(s) = Cardinality(Free)

\* After any sequence of operations each struct is in exactly one place: in
\* the chain of unused ones, or in one column and one row list, intact from
\* both ends, as the assertions around every operation demand.
WellLinked == FreeListOK /\ ColumnsOK /\ RowsOK /\ lps_valid /\ NoStructLost
----------------------------------------------------------------------------
(***************************************************************************)
(* The abstract matrix: a column lists constraints with coefficients, a    *)
(* row variables with coefficients, newest first (module LpMatrix).        *)
(***************************************************************************)
EntriesOf(first, nx, other) ==
  LET s == Walk(first, nx, Cardinality(live))
  IN  [i \in DOMAIN s |-> <<other[s[i]], nzo_value[s[i]]>>]

column == [v \in vars |-> EntriesOf(var_first[v], var_next, nzo_con)]
row    == [c \in cons |-> EntriesOf(con_first[c], con_next, nzo_var)]

Matrix == INSTANCE LpMatrix

\* The linked structs implement the abstract matrix: every operation changes
\* one entry of one column and the same entry of one row and no other, in
\* the order in which the writers of LP and MPS files walk them.
MatrixSpec == Matrix!Spec
============================================================================
