--------------------------- MODULE LpStoreProofs ---------------------------
(***************************************************************************)
(* Proofs about LpStore: typing, the list of unused structs and the two    *)
(* dimensions of lists, for any number of variables, constraints, blocks   *)
(* and any block size; that no struct is lost and lps_valid never fails;   *)
(* and that the lists implement the matrix.                                *)
(***************************************************************************)
EXTENDS LpStore, Iteration, SequenceTheorems, FunctionTheorems

\* A fresh block, chained by lps_storage, leads from struct to struct or ends.
LEMMA ChainedType ==
  ASSUME var_next \in [Nzo -> Ptr(Nzo)], NEW b \in 1 .. MaxSto
  PROVE  Chained(b) \in [Nzo -> Ptr(Nzo)]
<1>1. ASSUME NEW n \in Nzo, n[2] # StoSize
      PROVE  <<b, n[2] + 1>> \in Nzo
  BY <1>1, LpStoreAssumption DEF Nzo
<1> QED
  BY <1>1 DEF Chained, Ptr

\* Typing is an invariant: every field of every struct always holds a struct,
\* a variable, a constraint or NULL, as lps_addnzo and lps_delnzo leave it.
THEOREM Typing == Spec => []TypeOK
<1> USE LpStoreAssumption DEF Ptr
<1>1. Init => TypeOK
  BY DEF Init, TypeOK
<1>2. TypeOK /\ [Next]_vars_ => TypeOK'
  <2> SUFFICES ASSUME TypeOK, [Next]_vars_ PROVE TypeOK'
    OBVIOUS
  <2> USE DEF TypeOK
  <2>1. ASSUME NEW v \in Var, lps_addvar(v) PROVE TypeOK'
    BY <2>1 DEF lps_addvar, links
  <2>2. ASSUME NEW c \in Con, lps_addcon(c) PROVE TypeOK'
    BY <2>2 DEF lps_addcon, links
  <2>3. ASSUME NEW c \in Con, NEW v \in Var, NEW x \in Value, lps_addnzo(c, v, x)
        PROVE TypeOK'
    <3> DEFINE grow == next = NULL
               vn   == IF grow THEN Chained(sto + 1) ELSE var_next
               n    == IF grow THEN <<sto + 1, 1>> ELSE next
    <3>1. grow => sto + 1 \in 1 .. MaxSto
      BY <2>3 DEF lps_addnzo
    <3>2. n \in Nzo
      BY <3>1 DEF Nzo
    <3>3. vn \in [Nzo -> Ptr(Nzo)]
      BY <3>1, ChainedType
    <3> HIDE DEF n, vn
    <3>4. vn[n] \in Ptr(Nzo)
      BY <3>2, <3>3
    <3>5. /\ sto' \in 0 .. MaxSto /\ next' \in Ptr(Nzo) /\ nonzeros' \in Int
          /\ vars' \subseteq Var /\ cons' \subseteq Con
      BY <2>3, <3>1, <3>4 DEF lps_addnzo, n, vn
    <3>6. /\ nzo_var' \in [Nzo -> Ptr(Var)] /\ nzo_con' \in [Nzo -> Ptr(Con)]
          /\ nzo_value' \in [Nzo -> Ptr(Value)] /\ live' \in SUBSET Nzo
      BY <2>3, <3>2 DEF lps_addnzo, n
    <3>7. /\ var_first' = [var_first EXCEPT ![v] = n]
          /\ con_first' = [con_first EXCEPT ![c] = n]
          /\ var_next' = PushNext(vn, n, var_first[v])
          /\ var_prev' = PushPrev(var_prev, n, var_first[v])
          /\ con_next' = PushNext(con_next, n, con_first[c])
          /\ con_prev' = PushPrev(con_prev, n, con_first[c])
      BY <2>3 DEF lps_addnzo, n, vn
    <3>8. /\ var_next' \in [Nzo -> Ptr(Nzo)] /\ var_prev' \in [Nzo -> Ptr(Nzo)]
          /\ con_next' \in [Nzo -> Ptr(Nzo)] /\ con_prev' \in [Nzo -> Ptr(Nzo)]
          /\ var_first' \in [Var -> Ptr(Nzo)] /\ con_first' \in [Con -> Ptr(Nzo)]
      BY <3>2, <3>3, <3>7 DEF PushNext, PushPrev
    <3>9. var_size' \in [Var -> Int] /\ con_size' \in [Con -> Int]
      BY <2>3 DEF lps_addnzo, Resized
    <3> QED
      BY <3>5, <3>6, <3>8, <3>9
  <2>4. ASSUME NEW n \in Nzo, lps_delnzo(n) PROVE TypeOK'
    <3>1. /\ var_next' \in [Nzo -> Ptr(Nzo)] /\ var_prev' \in [Nzo -> Ptr(Nzo)]
          /\ con_next' \in [Nzo -> Ptr(Nzo)] /\ con_prev' \in [Nzo -> Ptr(Nzo)]
      BY <2>4 DEF lps_delnzo, UnlinkNext, UnlinkPrev
    <3>2. var_first' \in [Var -> Ptr(Nzo)]
      BY <2>4 DEF lps_delnzo
    <3>3. con_first' \in [Con -> Ptr(Nzo)]
      BY <2>4 DEF lps_delnzo
    <3>4. var_size' \in [Var -> Int]
      <4>1. var_size' = [w \in Var |-> IF w = nzo_var[n] THEN var_size[w] + (-1)
                                                   ELSE var_size[w]]
        BY <2>4 DEF lps_delnzo, Resized
      <4>2. \A w \in Var : var_size[w] \in Int /\ var_size[w] + (-1) \in Int
        OBVIOUS
      <4> QED
        BY <4>1, <4>2
    <3>5. con_size' \in [Con -> Int]
      <4>1. con_size' = [w \in Con |-> IF w = nzo_con[n] THEN con_size[w] + (-1)
                                                   ELSE con_size[w]]
        BY <2>4 DEF lps_delnzo, Resized
      <4>2. \A w \in Con : con_size[w] \in Int /\ con_size[w] + (-1) \in Int
        OBVIOUS
      <4> QED
        BY <4>1, <4>2
    <3> QED
      BY <2>4, <3>1, <3>2, <3>3, <3>4, <3>5 DEF lps_delnzo
  <2>5. ASSUME NEW n \in Nzo, NEW x \in Value, lps_setval(n, x) PROVE TypeOK'
    BY <2>5 DEF lps_setval, links, heads
  <2>6. ASSUME UNCHANGED vars_ PROVE TypeOK'
    BY <2>6 DEF vars_, links, heads
  <2> QED
    BY <2>1, <2>2, <2>3, <2>4, <2>5, <2>6 DEF Next
<1>3. QED
  BY <1>1, <1>2, PTL DEF Spec
----------------------------------------------------------------------------
(***************************************************************************)
(* One dimension of lists under the two splices.                           *)
(***************************************************************************)

\* The lists depend on the next pointers of the structs in them only.
LEMMA NextOffTheList ==
  ASSUME NEW L, NEW owner, NEW first, NEW nx, NEW nx2, NEW pv, NEW owners,
         LinkedOK(L, owner, first, nx, pv, owners),
         \A n \in L : nx2[n] = nx[n]
  PROVE  LinkedOK(L, owner, first, nx2, pv, owners)
BY DEF LinkedOK

\* lps_addnzo: a struct that is in no list goes to the front of that of o.
LEMMA PushLinked ==
  ASSUME NEW L \in SUBSET Nzo, NEW n \in Nzo \ L,
         NEW O, NEW owners \in SUBSET O, NEW o \in owners,
         NEW owner \in [Nzo -> Ptr(O)], NEW first \in [O -> Ptr(Nzo)],
         NEW nx \in [Nzo -> Ptr(Nzo)], NEW pv \in [Nzo -> Ptr(Nzo)],
         LinkedOK(L, owner, first, nx, pv, owners)
  PROVE  LinkedOK(L \cup {n}, [owner EXCEPT ![n] = o], [first EXCEPT ![o] = n],
                  PushNext(nx, n, first[o]), PushPrev(pv, n, first[o]), owners)
<1> DEFINE owner2 == [owner EXCEPT ![n] = o]
           first2 == [first EXCEPT ![o] = n]
           nx2 == PushNext(nx, n, first[o])
           pv2 == PushPrev(pv, n, first[o])
<1>1. /\ first2[o] = n /\ \A q \in owners : q # o => first2[q] = first[q]
      /\ owner2[n] = o /\ \A m \in L : owner2[m] = owner[m]
  OBVIOUS
<1>2. nx2[n] = first[o] /\ \A m \in L : nx2[m] = nx[m]
  BY DEF PushNext
<1>3. /\ pv2[n] = NULL
      /\ \A m \in L : pv2[m] = IF m = first[o] THEN n ELSE pv[m]
  BY DEF PushPrev
<1>4. first[o] # NULL =>
        first[o] \in L /\ owner[first[o]] = o /\ pv[first[o]] = NULL
  BY DEF LinkedOK
<1>5. n # NULL
  BY LpStoreAssumption
<1> HIDE DEF owner2, first2, nx2, pv2
<1>6. ASSUME NEW q \in owners, first2[q] # NULL
      PROVE  /\ first2[q] \in L \cup {n} /\ owner2[first2[q]] = q
             /\ pv2[first2[q]] = NULL
  <2>1. CASE q = o
    BY <2>1, <1>1, <1>3
  <2>2. CASE q # o
    <3>1. /\ first2[q] = first[q] /\ first[q] \in L /\ owner[first[q]] = q
          /\ pv[first[q]] = NULL
      BY <2>2, <1>1, <1>6 DEF LinkedOK
    <3>2. first[q] # first[o]
      BY <3>1, <1>4, <1>6, <2>2
    <3> QED
      BY <3>1, <3>2, <1>1, <1>3
  <2> QED
    BY <2>1, <2>2
<1>7. ASSUME NEW m \in L \cup {n}
      PROVE  /\ owner2[m] \in owners
             /\ pv2[m] = NULL => first2[owner2[m]] = m
             /\ pv2[m] # NULL => /\ pv2[m] \in L \cup {n} /\ nx2[pv2[m]] = m
                                 /\ owner2[pv2[m]] = owner2[m]
             /\ nx2[m] # NULL => /\ nx2[m] \in L \cup {n} /\ pv2[nx2[m]] = m
                                 /\ owner2[nx2[m]] = owner2[m]
  <2>1. CASE m = n
    BY <2>1, <1>1, <1>2, <1>3, <1>4
  <2>2. CASE m \in L /\ m = first[o]
    <3>1. /\ owner[m] = o /\ pv2[m] = n /\ nx2[n] = m
      BY <2>2, <1>2, <1>3, <1>4, <1>5, LpStoreAssumption
    <3>2. nx[m] # NULL => nx[m] \in L /\ pv[nx[m]] = m /\ owner[nx[m]] = o
      BY <2>2, <3>1 DEF LinkedOK
    <3>3. nx[m] # NULL => nx[m] # first[o]
      BY <3>2, <2>2, <1>4, LpStoreAssumption
    <3> QED
      BY <2>2, <3>1, <3>2, <3>3, <1>1, <1>2, <1>3, <1>5
  <2>3. CASE m \in L /\ m # first[o]
    <3>1. pv2[m] = pv[m] /\ nx2[m] = nx[m] /\ owner2[m] = owner[m]
      BY <2>3, <1>1, <1>2, <1>3
    <3>2. /\ owner[m] \in owners
          /\ pv[m] = NULL => first[owner[m]] = m
          /\ pv[m] # NULL =>
                pv[m] \in L /\ nx[pv[m]] = m /\ owner[pv[m]] = owner[m]
          /\ nx[m] # NULL =>
                nx[m] \in L /\ pv[nx[m]] = m /\ owner[nx[m]] = owner[m]
      BY <2>3 DEF LinkedOK
    <3>3. pv[m] = NULL => owner[m] # o
      BY <2>3, <3>2
    <3>4. nx[m] # NULL => nx[m] # first[o]
      BY <2>3, <3>2, <1>4, LpStoreAssumption
    <3> QED
      BY <3>1, <3>2, <3>3, <3>4, <1>1, <1>2, <1>3
  <2> QED
    BY <2>1, <2>2, <2>3
<1> QED
  BY <1>6, <1>7 DEF LinkedOK, owner2, first2, nx2, pv2

\* lps_delnzo: the neighbours of a struct taken out become neighbours.
LEMMA UnlinkLinked ==
  ASSUME NEW L \in SUBSET Nzo, NEW n \in L,
         NEW O, NEW owners \in SUBSET O,
         NEW owner \in [Nzo -> Ptr(O)], NEW first \in [O -> Ptr(Nzo)],
         NEW nx \in [Nzo -> Ptr(Nzo)], NEW pv \in [Nzo -> Ptr(Nzo)],
         LinkedOK(L, owner, first, nx, pv, owners)
  PROVE  LinkedOK(L \ {n}, owner,
                  IF n = first[owner[n]]
                  THEN [first EXCEPT ![owner[n]] = nx[n]] ELSE first,
                  UnlinkNext(nx, pv, n), UnlinkPrev(nx, pv, n), owners)
<1> DEFINE o == owner[n]
           first2 == IF n = first[o] THEN [first EXCEPT ![o] = nx[n]] ELSE first
           nx2 == UnlinkNext(nx, pv, n)
           pv2 == UnlinkPrev(nx, pv, n)
<1>1. /\ o \in owners
      /\ pv[n] = NULL => first[o] = n
      /\ pv[n] # NULL => pv[n] \in L /\ nx[pv[n]] = n /\ owner[pv[n]] = o
      /\ nx[n] # NULL => nx[n] \in L /\ pv[nx[n]] = n /\ owner[nx[n]] = o
  BY DEF LinkedOK
<1>2. /\ \A m \in L : nx2[m] = IF m = pv[n] THEN nx[n] ELSE nx[m]
      /\ \A m \in L : pv2[m] = IF m = nx[n] THEN pv[n] ELSE pv[m]
  BY DEF UnlinkNext, UnlinkPrev
<1>3. /\ \A q \in owners : q # o => first2[q] = first[q]
      /\ first2[o] = IF n = first[o] THEN nx[n] ELSE first[o]
  BY <1>1
<1>4. n = first[o] => pv[n] = NULL
  BY <1>1, LpStoreAssumption DEF LinkedOK
<1>5. \A m \in L : m # NULL
  BY LpStoreAssumption
<1> HIDE DEF o, first2, nx2, pv2
<1>6. ASSUME NEW q \in owners, first2[q] # NULL
      PROVE  /\ first2[q] \in L \ {n} /\ owner[first2[q]] = q
             /\ pv2[first2[q]] = NULL
  <2>1. CASE q = o /\ n = first[o]
    <3>1. nx[n] # n
      BY <2>1, <1>1, <1>4, <1>5
    <3> QED
      BY <2>1, <3>1, <1>1, <1>2, <1>3, <1>4, <1>6
  <2>2. CASE q # o \/ n # first[o]
    <3>1. first2[q] = first[q]
      BY <2>2, <1>3
    <3>2. first[q] \in L /\ owner[first[q]] = q /\ pv[first[q]] = NULL
      BY <3>1, <1>6 DEF LinkedOK
    <3>3. first[q] # n
      BY <3>2, <2>2 DEF o
    <3>4. first[q] # nx[n]
      BY <3>2, <1>1, <1>5
    <3> QED
      BY <3>1, <3>2, <3>3, <3>4, <1>2
  <2> QED
    BY <2>1, <2>2
<1>7. ASSUME NEW m \in L \ {n}
      PROVE  /\ owner[m] \in owners
             /\ pv2[m] = NULL => first2[owner[m]] = m
             /\ pv2[m] # NULL => /\ pv2[m] \in L \ {n} /\ nx2[pv2[m]] = m
                                 /\ owner[pv2[m]] = owner[m]
             /\ nx2[m] # NULL => /\ nx2[m] \in L \ {n} /\ pv2[nx2[m]] = m
                                 /\ owner[nx2[m]] = owner[m]
  <2>1. /\ owner[m] \in owners
        /\ pv[m] = NULL => first[owner[m]] = m
        /\ pv[m] # NULL =>
              pv[m] \in L /\ nx[pv[m]] = m /\ owner[pv[m]] = owner[m]
        /\ nx[m] # NULL =>
              nx[m] \in L /\ pv[nx[m]] = m /\ owner[nx[m]] = owner[m]
    BY DEF LinkedOK
  <2>2. (pv[n] # n /\ nx[n] # n) \/ (pv[n] = n /\ nx[n] = n)
    BY <1>1, <1>5
  <2>3. pv2[m] = NULL => first2[owner[m]] = m
    <3>1. CASE m = nx[n]
      BY <3>1, <1>1, <1>2, <1>3, <1>5
    <3>2. CASE m # nx[n]
      <4>1. pv2[m] = pv[m]
        BY <3>2, <1>2
      <4>2. pv[m] = NULL => first[owner[m]] = m
        BY <2>1
      <4> QED
        BY <4>1, <4>2, <1>3, <2>1
    <3> QED
      BY <3>1, <3>2
  <2>4. pv2[m] # NULL => /\ pv2[m] \in L \ {n} /\ nx2[pv2[m]] = m
                         /\ owner[pv2[m]] = owner[m]
    <3>1. CASE m = nx[n]
      BY <3>1, <1>1, <1>2, <2>1, <2>2, <1>5
    <3>2. CASE m # nx[n]
      <4>1. pv2[m] = pv[m]
        BY <3>2, <1>2
      <4>2. pv[m] # n /\ (pv[m] # NULL => pv[m] # pv[n])
        BY <3>2, <2>1, <1>1, <1>5
      <4> QED
        BY <4>1, <4>2, <2>1, <1>2
    <3> QED
      BY <3>1, <3>2
  <2>5. nx2[m] # NULL => /\ nx2[m] \in L \ {n} /\ pv2[nx2[m]] = m
                         /\ owner[nx2[m]] = owner[m]
    <3>1. CASE m = pv[n]
      BY <3>1, <1>1, <1>2, <2>1, <2>2, <1>5
    <3>2. CASE m # pv[n]
      <4>1. nx2[m] = nx[m]
        BY <3>2, <1>2
      <4>2. nx[m] # n /\ (nx[m] # NULL => nx[m] # nx[n])
        BY <3>2, <2>1, <1>1, <1>5
      <4> QED
        BY <4>1, <4>2, <2>1, <1>2
    <3> QED
      BY <3>1, <3>2
  <2> QED
    BY <2>1, <2>3, <2>4, <2>5
<1> QED
  BY <1>6, <1>7 DEF LinkedOK, o, first2, nx2, pv2
----------------------------------------------------------------------------
(***************************************************************************)
(* The inductive invariant.  The free chain and the columns share the      *)
(* field var_next, so neither is inductive alone: that a splice of a       *)
(* column leaves the free chain intact needs live and unused structs to be *)
(* disjoint, which is what the free chain is for.                          *)
(***************************************************************************)
ListsOK == TypeOK /\ FreeListOK /\ ColumnsOK /\ RowsOK

LEMMA ListsInit == Init => ListsOK
<1> SUFFICES ASSUME Init PROVE ListsOK
  OBVIOUS
<1>1. TypeOK
  BY LpStoreAssumption DEF Init, TypeOK, Ptr
<1>2. Allocated = {}
  BY DEF Init, Allocated, Nzo
<1>3. FreeListOK
  BY <1>2 DEF Init, FreeListOK, Free, Ptr
<1>4. ColumnsOK
  BY DEF Init, ColumnsOK, LinkedOK
<1>5. RowsOK
  BY DEF Init, RowsOK, LinkedOK
<1> QED
  BY <1>1, <1>3, <1>4, <1>5 DEF ListsOK

LEMMA ListsAddVar ==
  ASSUME ListsOK, NEW v \in Var, lps_addvar(v)
  PROVE  FreeListOK' /\ ColumnsOK' /\ RowsOK'
<1> USE DEF ListsOK, lps_addvar, links
<1>1. FreeListOK'
  BY DEF FreeListOK, Free, Allocated
<1>2. ColumnsOK'
  BY DEF ColumnsOK, LinkedOK, TypeOK
<1>3. RowsOK'
  BY DEF RowsOK, LinkedOK
<1> QED
  BY <1>1, <1>2, <1>3

LEMMA ListsAddCon ==
  ASSUME ListsOK, NEW c \in Con, lps_addcon(c)
  PROVE  FreeListOK' /\ ColumnsOK' /\ RowsOK'
<1> USE DEF ListsOK, lps_addcon, links
<1>1. FreeListOK'
  BY DEF FreeListOK, Free, Allocated
<1>2. ColumnsOK'
  BY DEF ColumnsOK, LinkedOK
<1>3. RowsOK'
  BY DEF RowsOK, LinkedOK, TypeOK
<1> QED
  BY <1>1, <1>2, <1>3

LEMMA ListsSetVal ==
  ASSUME ListsOK, NEW n \in Nzo, NEW x \in Value, lps_setval(n, x)
  PROVE  FreeListOK' /\ ColumnsOK' /\ RowsOK'
BY DEF ListsOK, lps_setval, links, heads, FreeListOK, Free, Allocated,
       ColumnsOK, RowsOK, LinkedOK

\* lps_storage: the structs of a fresh block form a chain of unused ones.
LEMMA FreshBlock ==
  ASSUME ListsOK, next = NULL, sto < MaxSto
  PROVE  LET b == sto + 1
             fresh == {n \in Nzo : n[1] = b}
             vn == Chained(b)
         IN  /\ <<b, 1>> \in fresh /\ b \in 1 .. MaxSto
             /\ fresh \cap Allocated = {}
             /\ \A n \in Allocated : vn[n] = var_next[n]
             /\ \A n \in fresh : vn[n] \in Ptr(fresh) /\ vn[n] # <<b, 1>>
             /\ \A m, n \in fresh : m # n /\ vn[m] = vn[n] => vn[m] = NULL
<1> DEFINE b == sto + 1
           fresh == {n \in Nzo : n[1] = b}
           vn == Chained(b)
<1> USE LpStoreAssumption
<1>1. sto \in 0 .. MaxSto /\ b \in 1 .. MaxSto
  BY DEF ListsOK, TypeOK
<1>2. \A n \in fresh : n = <<b, n[2]>> /\ n[2] \in 1 .. StoSize
  BY DEF Nzo
<1>3. <<b, 1>> \in fresh
  BY <1>1 DEF Nzo
<1>4. fresh \cap Allocated = {}
  BY <1>1 DEF Allocated
<1>5. \A n \in Allocated : vn[n] = var_next[n]
  BY <1>1, <1>4 DEF Chained, Allocated, ListsOK, TypeOK
<1>6. \A n \in fresh : vn[n] = IF n[2] = StoSize THEN NULL ELSE <<b, n[2] + 1>>
  BY DEF Chained
<1>7. ASSUME NEW n \in fresh, n[2] # StoSize
      PROVE  <<b, n[2] + 1>> \in fresh /\ <<b, n[2] + 1>> # <<b, 1>>
  BY <1>1, <1>2, <1>7 DEF Nzo
<1>8. \A n \in fresh : vn[n] \in Ptr(fresh) /\ vn[n] # <<b, 1>>
  BY <1>3, <1>6, <1>7 DEF Ptr
<1>9. ASSUME NEW m \in fresh, NEW n \in fresh, m # n, vn[m] = vn[n]
      PROVE  vn[m] = NULL
  <2>1. m[2] # n[2]
    BY <1>2, <1>9
  <2>2. m[2] + 1 # n[2] + 1
    BY <2>1, <1>2
  <2>3. /\ vn[m] = IF m[2] = StoSize THEN NULL ELSE <<b, m[2] + 1>>
        /\ vn[n] = IF n[2] = StoSize THEN NULL ELSE <<b, n[2] + 1>>
    BY <1>6
  <2>4. CASE m[2] # StoSize /\ n[2] # StoSize
    BY <2>2, <2>3, <2>4, <1>9
  <2>5. CASE m[2] = StoSize
    BY <2>3, <2>5
  <2>6. CASE m[2] # StoSize /\ n[2] = StoSize
    BY <2>3, <2>6, <1>9
  <2> QED
    BY <2>4, <2>5, <2>6
<1> QED
  BY <1>1, <1>3, <1>4, <1>5, <1>8, <1>9

LEMMA ListsAddNzo ==
  ASSUME ListsOK, NEW c \in Con, NEW v \in Var, NEW x \in Value,
         lps_addnzo(c, v, x)
  PROVE  FreeListOK' /\ ColumnsOK' /\ RowsOK'
<1> DEFINE grow == next = NULL
           vn == IF grow THEN Chained(sto + 1) ELSE var_next
           n == IF grow THEN <<sto + 1, 1>> ELSE next
           fresh == {m \in Nzo : m[1] = sto + 1}
           A2 == IF grow THEN Allocated \cup fresh ELSE Allocated
           F2 == A2 \ live
<1> USE LpStoreAssumption
<1>1. grow => sto < MaxSto
  BY DEF lps_addnzo
<1>2. /\ sto \in 0 .. MaxSto /\ live \subseteq Allocated /\ live \in SUBSET Nzo
      /\ var_next \in [Nzo -> Ptr(Nzo)] /\ Allocated \subseteq Nzo
  BY DEF ListsOK, TypeOK, FreeListOK, Allocated
<1>3. Allocated' = A2
  <2>1. sto' = IF grow THEN sto + 1 ELSE sto
    BY DEF lps_addnzo
  <2>2. \A m \in Nzo : m[1] \in Nat
    BY DEF Nzo
  <2>3. \A m \in Nzo : m[1] <= sto + 1 <=> m[1] <= sto \/ m[1] = sto + 1
    BY <2>2, <1>2
  <2> QED
    BY <2>1, <2>3 DEF Allocated
<1>4. /\ n \in F2 /\ vn \in [Nzo -> Ptr(Nzo)]
      /\ \A m \in Allocated : vn[m] = var_next[m]
      /\ \A m \in F2 : vn[m] \in Ptr(F2) /\ (vn[m] = n => n = NULL)
      /\ \A m, k \in F2 : m # k /\ vn[m] = vn[k] => vn[m] = NULL
      /\ vn[n] # n /\ A2 \subseteq Nzo /\ live \subseteq A2
  <2>1. CASE grow
    <3>1. Free = {m \in Free : var_next[m] # NULL} \cup {m \in Free : var_next[m] = NULL}
      OBVIOUS
    <3>2. /\ <<sto + 1, 1>> \in fresh /\ sto + 1 \in 1 .. MaxSto
          /\ fresh \cap Allocated = {}
          /\ \A m \in Allocated : vn[m] = var_next[m]
          /\ \A m \in fresh : vn[m] \in Ptr(fresh) /\ vn[m] # <<sto + 1, 1>>
          /\ \A m, k \in fresh : m # k /\ vn[m] = vn[k] => vn[m] = NULL
      BY <2>1, <1>1, FreshBlock
    <3>3. vn \in [Nzo -> Ptr(Nzo)]
      BY <2>1, <3>2, <1>2, ChainedType
    <3>4. /\ \A m \in Free : var_next[m] \in Ptr(Free)
          /\ \A m, k \in Free : m # k /\ var_next[m] = var_next[k] => var_next[m] = NULL
      BY DEF ListsOK, FreeListOK
    <3>5. F2 = Free \cup fresh /\ Free \cap fresh = {} /\ fresh \subseteq Nzo
      BY <2>1, <3>2, <1>2 DEF Free
    <3>6. \A m \in Free : m \in Allocated /\ vn[m] = var_next[m]
      BY <3>2 DEF Free
    <3> HIDE DEF vn, fresh, F2
    <3>7. \A m \in F2 : vn[m] \in Ptr(F2) /\ vn[m] # <<sto + 1, 1>>
      BY <3>2, <3>4, <3>5, <3>6 DEF Ptr
    <3>8. \A m, k \in F2 : m # k /\ vn[m] = vn[k] => vn[m] = NULL
      BY <3>2, <3>4, <3>5, <3>6 DEF Ptr
    <3> QED
      BY <2>1, <3>2, <3>3, <3>5, <3>7, <3>8, <1>2 DEF F2
  <2>2. CASE ~grow
    <3>1. F2 = Free /\ next \in Free
      BY <2>2 DEF Free, ListsOK, FreeListOK, Ptr
    <3> QED
      BY <2>2, <3>1, <1>2 DEF ListsOK, FreeListOK
  <2> QED
    BY <2>1, <2>2
<1>5. n \in Nzo \ live /\ n # NULL
  BY <1>4
<1>6. /\ next' = vn[n] /\ live' = live \cup {n}
      /\ nzo_var' = [nzo_var EXCEPT ![n] = v]
      /\ nzo_con' = [nzo_con EXCEPT ![n] = c]
      /\ var_next' = PushNext(vn, n, var_first[v])
      /\ var_prev' = PushPrev(var_prev, n, var_first[v])
      /\ con_next' = PushNext(con_next, n, con_first[c])
      /\ con_prev' = PushPrev(con_prev, n, con_first[c])
      /\ var_first' = [var_first EXCEPT ![v] = n]
      /\ con_first' = [con_first EXCEPT ![c] = n]
      /\ vars' = vars /\ cons' = cons /\ v \in vars /\ c \in cons
  BY DEF lps_addnzo
<1> HIDE DEF vn, n, A2, grow
<1>7. FreeListOK'
  <2>1. Free' = F2 \ {n}
    BY <1>3, <1>6 DEF Free
  <2>2. \A m \in Free' : var_next'[m] = vn[m]
    BY <2>1, <1>4, <1>6 DEF PushNext
  <2>3. next' \in Ptr(Free')
    BY <2>1, <1>4, <1>5, <1>6 DEF Ptr
  <2>4. \A m \in Free' : var_next'[m] \in Ptr(Free')
    BY <2>1, <2>2, <1>4, <1>5 DEF Ptr
  <2>5. \A m \in Free' : var_next'[m] = next' => next' = NULL
    BY <2>1, <2>2, <1>4, <1>6
  <2>6. \A m, k \in Free' : m # k /\ var_next'[m] = var_next'[k] => var_next'[m] = NULL
    BY <2>1, <2>2, <1>4
  <2>7. live' \subseteq Allocated'
    BY <1>3, <1>4, <1>6
  <2> QED
    BY <2>3, <2>4, <2>5, <2>6, <2>7 DEF FreeListOK
<1>8. ColumnsOK'
  <2>1. LinkedOK(live, nzo_var, var_first, vn, var_prev, vars)
    <3>1. LinkedOK(live, nzo_var, var_first, var_next, var_prev, vars)
      BY DEF ListsOK, ColumnsOK
    <3>2. \A m \in live : vn[m] = var_next[m]
      BY <1>2, <1>4
    <3> QED
      BY <3>1, <3>2, NextOffTheList
  <2>2. /\ nzo_var \in [Nzo -> Ptr(Var)] /\ var_first \in [Var -> Ptr(Nzo)]
        /\ var_prev \in [Nzo -> Ptr(Nzo)] /\ vars \in SUBSET Var
    BY DEF ListsOK, TypeOK
  <2>3. LinkedOK(live \cup {n}, [nzo_var EXCEPT ![n] = v], [var_first EXCEPT ![v] = n],
                 PushNext(vn, n, var_first[v]), PushPrev(var_prev, n, var_first[v]), vars)
    BY <2>1, <2>2, <1>2, <1>4, <1>5, <1>6, PushLinked
  <2> QED
    BY <2>3, <1>6 DEF ColumnsOK
<1>9. RowsOK'
  <2>1. LinkedOK(live, nzo_con, con_first, con_next, con_prev, cons)
    BY DEF ListsOK, RowsOK
  <2>2. /\ nzo_con \in [Nzo -> Ptr(Con)] /\ con_first \in [Con -> Ptr(Nzo)]
        /\ con_prev \in [Nzo -> Ptr(Nzo)] /\ con_next \in [Nzo -> Ptr(Nzo)]
        /\ cons \in SUBSET Con
    BY DEF ListsOK, TypeOK
  <2>3. LinkedOK(live \cup {n}, [nzo_con EXCEPT ![n] = c], [con_first EXCEPT ![c] = n],
                 PushNext(con_next, n, con_first[c]), PushPrev(con_prev, n, con_first[c]), cons)
    BY <2>1, <2>2, <1>2, <1>5, <1>6, PushLinked
  <2> QED
    BY <2>3, <1>6 DEF RowsOK
<1> QED
  BY <1>7, <1>8, <1>9

LEMMA ListsDelNzo ==
  ASSUME ListsOK, NEW n \in Nzo, lps_delnzo(n)
  PROVE  FreeListOK' /\ ColumnsOK' /\ RowsOK'
<1>1. /\ n \in live /\ live' = live \ {n} /\ next' = n /\ sto' = sto
      /\ vars' = vars /\ cons' = cons /\ nzo_var' = nzo_var /\ nzo_con' = nzo_con
      /\ var_first' = IF n = var_first[nzo_var[n]]
                      THEN [var_first EXCEPT ![nzo_var[n]] = var_next[n]] ELSE var_first
      /\ con_first' = IF n = con_first[nzo_con[n]]
                      THEN [con_first EXCEPT ![nzo_con[n]] = con_next[n]] ELSE con_first
      /\ var_next' = [UnlinkNext(var_next, var_prev, n) EXCEPT ![n] = next]
      /\ var_prev' = UnlinkPrev(var_next, var_prev, n)
      /\ con_next' = UnlinkNext(con_next, con_prev, n)
      /\ con_prev' = UnlinkPrev(con_next, con_prev, n)
  BY DEF lps_delnzo
<1>2. /\ live \in SUBSET Nzo /\ vars \in SUBSET Var /\ cons \in SUBSET Con
      /\ nzo_var \in [Nzo -> Ptr(Var)] /\ var_first \in [Var -> Ptr(Nzo)]
      /\ var_next \in [Nzo -> Ptr(Nzo)] /\ var_prev \in [Nzo -> Ptr(Nzo)]
      /\ nzo_con \in [Nzo -> Ptr(Con)] /\ con_first \in [Con -> Ptr(Nzo)]
      /\ con_next \in [Nzo -> Ptr(Nzo)] /\ con_prev \in [Nzo -> Ptr(Nzo)]
  BY DEF ListsOK, TypeOK
<1>3. /\ LinkedOK(live, nzo_var, var_first, var_next, var_prev, vars)
      /\ LinkedOK(live, nzo_con, con_first, con_next, con_prev, cons)
  BY DEF ListsOK, ColumnsOK, RowsOK
<1>4. FreeListOK'
  <2>1. Free' = Free \cup {n} /\ n \notin Free /\ Allocated' = Allocated
    BY <1>1 DEF Free, Allocated, ListsOK, FreeListOK
  <2>2. var_prev[n] \notin Free
    BY <1>1, <1>2, <1>3, LpStoreAssumption DEF LinkedOK, Free, Allocated
  <2>3. var_next'[n] = next /\ \A m \in Free : var_next'[m] = var_next[m]
    BY <1>1, <1>2, <2>1, <2>2 DEF UnlinkNext, Free, Allocated
  <2>4. /\ next \in Ptr(Free) /\ live \subseteq Allocated
        /\ \A m \in Free : var_next[m] \in Ptr(Free)
        /\ \A m \in Free : var_next[m] = next => next = NULL
        /\ \A m, k \in Free : m # k /\ var_next[m] = var_next[k] => var_next[m] = NULL
    BY DEF ListsOK, FreeListOK
  <2>5. \A m \in Free' : var_next'[m] \in Ptr(Free')
    BY <2>1, <2>3, <2>4 DEF Ptr
  <2>6. \A m \in Free' : var_next'[m] # n
    BY <2>1, <2>3, <2>4, LpStoreAssumption DEF Ptr
  <2>7. \A m, k \in Free' : m # k /\ var_next'[m] = var_next'[k] => var_next'[m] = NULL
    BY <2>1, <2>3, <2>4
  <2> QED
    BY <1>1, <2>1, <2>4, <2>5, <2>6, <2>7 DEF FreeListOK, Ptr
<1>5. ColumnsOK'
  <2>1. LinkedOK(live \ {n}, nzo_var, var_first', UnlinkNext(var_next, var_prev, n),
                 var_prev', vars)
    BY <1>1, <1>2, <1>3, UnlinkLinked
  <2>2. \A m \in live \ {n} : var_next'[m] = UnlinkNext(var_next, var_prev, n)[m]
    BY <1>1, <1>2 DEF UnlinkNext
  <2>3. LinkedOK(live \ {n}, nzo_var, var_first', var_next', var_prev', vars)
    BY <2>1, <2>2, NextOffTheList
  <2> QED
    BY <2>3, <1>1 DEF ColumnsOK
<1>6. RowsOK'
  <2>1. LinkedOK(live \ {n}, nzo_con, con_first', con_next', con_prev', cons)
    BY <1>1, <1>2, <1>3, UnlinkLinked
  <2> QED
    BY <2>1, <1>1 DEF RowsOK
<1> QED
  BY <1>4, <1>5, <1>6

\* Each nonzero stays in the two lists it belongs to, unused structs stay in
\* the chain from lp->next, and the two never mix: what lps_addnzo hands out
\* is never a struct that is still part of the matrix.
THEOREM ListsLinked == Spec => [](FreeListOK /\ ColumnsOK /\ RowsOK)
<1>1. ListsOK /\ TypeOK' /\ [Next]_vars_ => ListsOK'
  <2> SUFFICES ASSUME ListsOK, TypeOK', [Next]_vars_
               PROVE  FreeListOK' /\ ColumnsOK' /\ RowsOK'
    BY DEF ListsOK
  <2>1. CASE UNCHANGED vars_
    BY <2>1 DEF vars_, links, heads, ListsOK, FreeListOK, Free, Allocated,
                ColumnsOK, RowsOK, LinkedOK
  <2> QED
    BY <2>1, ListsAddVar, ListsAddCon, ListsAddNzo, ListsDelNzo, ListsSetVal
       DEF Next
<1>2. ListsOK => FreeListOK /\ ColumnsOK /\ RowsOK
  BY DEF ListsOK
<1> QED
  BY ListsInit, Typing, <1>1, <1>2, PTL DEF Spec
----------------------------------------------------------------------------
(***************************************************************************)
(* The counters.                                                           *)
(***************************************************************************)
LEMMA NzoFinite == IsFiniteSet(Nzo)
<1>1. IsFiniteSet(1 .. MaxSto) /\ IsFiniteSet(1 .. StoSize)
  BY LpStoreAssumption, FS_Interval
<1> QED
  BY <1>1, FS_Product DEF Nzo

\* One struct more, in the list of o: the size of o goes up with its list.
LEMMA CountPush ==
  ASSUME NEW N, NEW L \in SUBSET N, IsFiniteSet(L), NEW n \in N \ L,
         NEW D, NEW owner \in [N -> D], NEW T, NEW S \in SUBSET T,
         NEW o \in S, o \in D, NEW size \in [T -> Int],
         Counted(S, size, L, owner)
  PROVE  Counted(S, Resized(size, o, 1), L \cup {n}, [owner EXCEPT ![n] = o])
<1> SUFFICES ASSUME NEW w \in S
             PROVE  Resized(size, o, 1)[w] =
               Cardinality({m \in L \cup {n} : [owner EXCEPT ![n] = o][m] = w})
  BY DEF Counted
<1> DEFINE A == {m \in L : owner[m] = w}
           B == {m \in L \cup {n} : [owner EXCEPT ![n] = o][m] = w}
<1>1. IsFiniteSet(A) /\ n \notin A
  BY FS_Subset
<1>2. B = IF w = o THEN A \cup {n} ELSE A
  OBVIOUS
<1>3. Resized(size, o, 1)[w] = IF w = o THEN size[w] + 1 ELSE size[w]
  BY DEF Resized
<1>4. Cardinality(A \cup {n}) = Cardinality(A) + 1
  BY <1>1, FS_AddElement
<1> QED
  BY <1>2, <1>3, <1>4 DEF Counted

\* One struct less: the size of its owner goes down with its list.
LEMMA CountDrop ==
  ASSUME NEW N, NEW L \in SUBSET N, IsFiniteSet(L), NEW n \in L,
         NEW D, NEW owner \in [N -> D], NEW T, NEW S \in SUBSET T,
         owner[n] \in S, NEW size \in [T -> Int],
         Counted(S, size, L, owner)
  PROVE  Counted(S, Resized(size, owner[n], -1), L \ {n}, owner)
<1> SUFFICES ASSUME NEW w \in S
             PROVE  Resized(size, owner[n], -1)[w] =
                      Cardinality({m \in L \ {n} : owner[m] = w})
  BY DEF Counted
<1> DEFINE A == {m \in L : owner[m] = w}
           B == {m \in L \ {n} : owner[m] = w}
<1>1. IsFiniteSet(A)
  BY FS_Subset
<1>2. w = owner[n] => n \in A /\ B = A \ {n}
  OBVIOUS
<1>3. w # owner[n] => B = A
  OBVIOUS
<1>4. Resized(size, owner[n], -1)[w] = IF w = owner[n] THEN size[w] - 1 ELSE size[w]
  BY DEF Resized
<1>5. n \in A => Cardinality(A \ {n}) = Cardinality(A) - 1
  BY <1>1, FS_RemoveElement
<1> QED
  BY <1>2, <1>3, <1>4, <1>5 DEF Counted

\* The struct lps_addnzo hands out is none of those in the matrix, and those
\* in the matrix are linked as before when it is pushed.
LEMMA TakesUnused ==
  ASSUME ListsOK, NEW c \in Con, NEW v \in Var, NEW x \in Value,
         lps_addnzo(c, v, x)
  PROVE  \E n \in Nzo \ live, vn \in [Nzo -> Ptr(Nzo)] :
            /\ live' = live \cup {n} /\ nonzeros' = nonzeros + 1
            /\ nzo_var' = [nzo_var EXCEPT ![n] = v]
            /\ nzo_con' = [nzo_con EXCEPT ![n] = c]
            /\ nzo_value' = [nzo_value EXCEPT ![n] = x]
            /\ var_size' = Resized(var_size, v, 1)
            /\ con_size' = Resized(con_size, c, 1)
            /\ var_first' = [var_first EXCEPT ![v] = n]
            /\ con_first' = [con_first EXCEPT ![c] = n]
            /\ \A m \in live : vn[m] = var_next[m]
            /\ var_next' = PushNext(vn, n, var_first[v])
            /\ con_next' = PushNext(con_next, n, con_first[c])
            /\ v \in vars /\ c \in cons /\ UNCHANGED <<vars, cons>>
<1> DEFINE n == IF next = NULL THEN <<sto + 1, 1>> ELSE next
           vn == IF next = NULL THEN Chained(sto + 1) ELSE var_next
<1>1. /\ live' = live \cup {n} /\ nonzeros' = nonzeros + 1
      /\ nzo_var' = [nzo_var EXCEPT ![n] = v]
      /\ nzo_con' = [nzo_con EXCEPT ![n] = c]
      /\ nzo_value' = [nzo_value EXCEPT ![n] = x]
      /\ var_size' = Resized(var_size, v, 1)
      /\ con_size' = Resized(con_size, c, 1)
      /\ var_first' = [var_first EXCEPT ![v] = n]
      /\ con_first' = [con_first EXCEPT ![c] = n]
      /\ var_next' = PushNext(vn, n, var_first[v])
      /\ con_next' = PushNext(con_next, n, con_first[c])
      /\ v \in vars /\ c \in cons /\ UNCHANGED <<vars, cons>>
      /\ next = NULL => sto < MaxSto
  BY DEF lps_addnzo
<1>2. n \in Nzo \ live /\ vn \in [Nzo -> Ptr(Nzo)] /\ \A m \in live : vn[m] = var_next[m]
  <2>1. CASE next = NULL
    <3>1. /\ <<sto + 1, 1>> \in {m \in Nzo : m[1] = sto + 1} /\ sto + 1 \in 1 .. MaxSto
          /\ {m \in Nzo : m[1] = sto + 1} \cap Allocated = {}
          /\ \A m \in Allocated : Chained(sto + 1)[m] = var_next[m]
      BY <2>1, <1>1, FreshBlock
    <3>2. Chained(sto + 1) \in [Nzo -> Ptr(Nzo)]
      BY <3>1, ChainedType DEF ListsOK, TypeOK
    <3> QED
      BY <2>1, <3>1, <3>2 DEF ListsOK, FreeListOK
  <2>2. CASE next # NULL
    BY <2>2 DEF ListsOK, TypeOK, FreeListOK, Free, Allocated, Ptr
  <2> QED
    BY <2>1, <2>2
<1> HIDE DEF n, vn
<1> QED
  BY <1>1, <1>2

\* lp->nonzeros, var->size and con->size always count the nonzeros of the
\* matrix, of the column and of the row, across any sequence of additions and
\* deletions: lps_stat and the writers size their tables by them.
THEOREM Counts == Spec => []CountsOK
<1>1. Init => CountsOK
  BY FS_EmptySet DEF Init, CountsOK, Counted
<1>2. ListsOK /\ CountsOK /\ [Next]_vars_ => CountsOK'
  <2> SUFFICES ASSUME ListsOK, CountsOK, [Next]_vars_ PROVE CountsOK'
    OBVIOUS
  <2>1. /\ live \in SUBSET Nzo /\ IsFiniteSet(live)
        /\ nzo_var \in [Nzo -> Ptr(Var)] /\ nzo_con \in [Nzo -> Ptr(Con)]
        /\ var_size \in [Var -> Int] /\ con_size \in [Con -> Int]
        /\ vars \in SUBSET Var /\ cons \in SUBSET Con /\ nonzeros \in Int
    BY NzoFinite, FS_Subset DEF ListsOK, TypeOK
  <2>2. \A m \in live : nzo_var[m] \in vars /\ nzo_con[m] \in cons
    BY DEF ListsOK, ColumnsOK, RowsOK, LinkedOK
  <2>3. ASSUME NEW v \in Var, lps_addvar(v) PROVE CountsOK'
    <3>1. /\ vars' = vars \cup {v} /\ v \notin vars
          /\ var_size' = [var_size EXCEPT ![v] = 0]
          /\ UNCHANGED <<cons, nonzeros, nzo_var, nzo_con, con_size, live>>
      BY <2>3 DEF lps_addvar
    <3>2. {m \in live : nzo_var[m] = v} = {}
      BY <3>1, <2>2
    <3>3. var_size'[v] = 0 /\ \A w \in vars : var_size'[w] = var_size[w]
      BY <3>1, <2>1
    <3>0. Counted(vars, var_size, live, nzo_var) /\ Cardinality({}) = 0
      BY FS_EmptySet DEF CountsOK
    <3>4. Counted(vars', var_size', live, nzo_var)
      BY ONLY <3>0, <3>1, <3>2, <3>3 DEF Counted
    <3>5. nonzeros' = Cardinality(live') /\ Counted(cons', con_size', live', nzo_con')
      BY <3>1 DEF CountsOK
    <3>6. Counted(vars', var_size', live', nzo_var')
      BY <3>1, <3>4
    <3> QED
      BY ONLY <3>5, <3>6 DEF CountsOK
  <2>4. ASSUME NEW c \in Con, lps_addcon(c) PROVE CountsOK'
    <3>1. /\ cons' = cons \cup {c} /\ c \notin cons
          /\ con_size' = [con_size EXCEPT ![c] = 0]
          /\ UNCHANGED <<vars, nonzeros, nzo_var, nzo_con, var_size, live>>
      BY <2>4 DEF lps_addcon
    <3>2. {m \in live : nzo_con[m] = c} = {}
      BY <3>1, <2>2
    <3>3. con_size'[c] = 0 /\ \A w \in cons : con_size'[w] = con_size[w]
      BY <3>1, <2>1
    <3>0. Counted(cons, con_size, live, nzo_con) /\ Cardinality({}) = 0
      BY FS_EmptySet DEF CountsOK
    <3>4. Counted(cons', con_size', live, nzo_con)
      BY ONLY <3>0, <3>1, <3>2, <3>3 DEF Counted
    <3>5. nonzeros' = Cardinality(live') /\ Counted(vars', var_size', live', nzo_var')
      BY <3>1 DEF CountsOK
    <3>6. Counted(cons', con_size', live', nzo_con')
      BY <3>1, <3>4
    <3> QED
      BY ONLY <3>5, <3>6 DEF CountsOK
  <2>5. ASSUME NEW c \in Con, NEW v \in Var, NEW x \in Value, lps_addnzo(c, v, x)
        PROVE CountsOK'
    <3>1. PICK n \in Nzo \ live :
            /\ live' = live \cup {n} /\ nonzeros' = nonzeros + 1
            /\ nzo_var' = [nzo_var EXCEPT ![n] = v]
            /\ nzo_con' = [nzo_con EXCEPT ![n] = c]
            /\ var_size' = Resized(var_size, v, 1)
            /\ con_size' = Resized(con_size, c, 1)
            /\ v \in vars /\ c \in cons /\ UNCHANGED <<vars, cons>>
      BY <2>5, TakesUnused
    <3>2. nonzeros' = Cardinality(live')
      BY <3>1, <2>1, FS_AddElement DEF CountsOK
    <3>3. Counted(vars, var_size', live', nzo_var')
      <4>1. Counted(vars, var_size, live, nzo_var)
        BY DEF CountsOK
      <4>2. v \in Ptr(Var)
        BY DEF Ptr
      <4>3. Counted(vars, Resized(var_size, v, 1), live \cup {n},
                     [nzo_var EXCEPT ![n] = v])
        BY <2>1, <3>1, <4>1, <4>2, CountPush
      <4> QED
        BY <4>3, <3>1
    <3>4. Counted(cons, con_size', live', nzo_con')
      <4>1. Counted(cons, con_size, live, nzo_con)
        BY DEF CountsOK
      <4>2. c \in Ptr(Con)
        BY DEF Ptr
      <4>3. Counted(cons, Resized(con_size, c, 1), live \cup {n},
                     [nzo_con EXCEPT ![n] = c])
        BY <2>1, <3>1, <4>1, <4>2, CountPush
      <4> QED
        BY <4>3, <3>1
    <3> QED
      BY <3>1, <3>2, <3>3, <3>4 DEF CountsOK
  <2>6. ASSUME NEW n \in Nzo, lps_delnzo(n) PROVE CountsOK'
    <3>1. /\ n \in live /\ live' = live \ {n} /\ nonzeros' = nonzeros - 1
          /\ var_size' = Resized(var_size, nzo_var[n], -1)
          /\ con_size' = Resized(con_size, nzo_con[n], -1)
          /\ UNCHANGED <<vars, cons, nzo_var, nzo_con>>
      BY <2>6 DEF lps_delnzo
    <3>2. nonzeros' = Cardinality(live')
      BY <3>1, <2>1, FS_RemoveElement DEF CountsOK
    <3>3. Counted(vars, var_size', live', nzo_var')
      <4>1. Counted(vars, var_size, live, nzo_var)
        BY DEF CountsOK
      <4>2. Counted(vars, Resized(var_size, nzo_var[n], -1), live \ {n}, nzo_var)
        BY <2>1, <2>2, <3>1, <4>1, CountDrop
      <4> QED
        BY <4>2, <3>1
    <3>4. Counted(cons, con_size', live', nzo_con')
      <4>1. Counted(cons, con_size, live, nzo_con)
        BY DEF CountsOK
      <4>2. Counted(cons, Resized(con_size, nzo_con[n], -1), live \ {n}, nzo_con)
        BY <2>1, <2>2, <3>1, <4>1, CountDrop
      <4> QED
        BY <4>2, <3>1
    <3> QED
      BY <3>1, <3>2, <3>3, <3>4 DEF CountsOK
  <2>7. ASSUME NEW n \in Nzo, NEW x \in Value, lps_setval(n, x) PROVE CountsOK'
    BY <2>7 DEF lps_setval, heads, CountsOK
  <2>8. CASE UNCHANGED vars_
    BY <2>8 DEF vars_, heads, CountsOK
  <2> QED
    BY <2>3, <2>4, <2>5, <2>6, <2>7, <2>8 DEF Next
<1>3. Spec => []ListsOK
  BY Typing, ListsLinked, PTL DEF ListsOK
<1> QED
  BY <1>1, <1>2, <1>3, PTL DEF Spec
----------------------------------------------------------------------------
(***************************************************************************)
(* Walking a list.  A chain is the sequence of structs a list consists of; *)
(* the walk of lps_valid, and that of the writers, is the chain.           *)
(***************************************************************************)
IsChain(s, first, nx) ==
  /\ s \in Seq(Nzo)
  /\ first = IF Len(s) = 0 THEN NULL ELSE s[1]
  /\ \A i \in 1 .. Len(s) : nx[s[i]] = IF i = Len(s) THEN NULL ELSE s[i + 1]

\* The recursion of Walks has a solution, so that Walks is one.
LEMMA WalksStep ==
  ASSUME NEW nx \in [Nzo -> Ptr(Nzo)]
  PROVE  /\ \A k \in Nat : Walks(nx)[k][NULL] = <<>>
         /\ \A m \in Nzo : Walks(nx)[0][m] = <<m>>
         /\ \A k \in Nat : \A m \in Nzo :
               Walks(nx)[k + 1][m] = <<m>> \o Walks(nx)[k][nx[m]]
<1> DEFINE S == [Ptr(Nzo) -> Seq(Nzo)]
           a == [m \in Ptr(Nzo) |-> IF m = NULL THEN <<>> ELSE <<m>>]
           more(F) == [m \in Ptr(Nzo) |-> IF m = NULL THEN <<>> ELSE <<m>> \o F[nx[m]]]
           g == [F \in S |-> more(F)]
<1>1. a \in S
  BY EmptySeq DEF Ptr
<1>2. g \in [S -> S]
  <2> SUFFICES ASSUME NEW F \in S PROVE more(F) \in S
    OBVIOUS
  <2>1. ASSUME NEW m \in Nzo PROVE <<m>> \o F[nx[m]] \in Seq(Nzo)
    <3>1. <<m>> \in Seq(Nzo) /\ F[nx[m]] \in Seq(Nzo)
      OBVIOUS
    <3> QED
      BY <3>1, ConcatProperties
  <2> QED
    BY <2>1, EmptySeq DEF Ptr
<1>3. PICK h \in [Nat -> S] : h[0] = a /\ \A k \in Nat : h[k + 1] = g[h[k]]
  <2> HIDE DEF S, a, g, more
  <2>1. \E h : Repeats(h, S, a, g)
    BY <1>1, <1>2, Repeated
  <2> QED
    BY <2>1 DEF Repeats
<1> DEFINE step(f) == [k \in Nat |-> [m \in Ptr(Nzo) |->
                         IF m = NULL THEN <<>>
                         ELSE IF k = 0 THEN <<m>> ELSE <<m>> \o f[k - 1][nx[m]]]]
<1>4. h = step(h)
  <2>1. ASSUME NEW k \in Nat PROVE h[k] = step(h)[k]
    <3>1. CASE k = 0
      BY <3>1, <1>3
    <3>2. CASE k # 0
      <4>1. k - 1 \in Nat /\ k - 1 + 1 = k
        BY <3>2
      <4>2. h[k] = g[h[k - 1]] /\ h[k - 1] \in S
        BY <4>1, <1>3
      <4>3. h[k] = more(h[k - 1])
        BY <4>2
      <4> QED
        BY <4>3, <3>2
    <3> QED
      BY <3>1, <3>2
  <2> QED
    BY <2>1, <1>3
<1>5. Walks(nx) = step(Walks(nx))
  BY <1>4 DEF Walks
<1>6. ASSUME NEW f, f = step(f)
      PROVE  /\ \A k \in Nat : f[k][NULL] = <<>>
             /\ \A m \in Nzo : f[0][m] = <<m>>
             /\ \A k \in Nat : \A m \in Nzo : f[k + 1][m] = <<m>> \o f[k][nx[m]]
  <2> DEFINE F == step(f)
  <2>1. \A k \in Nat : F[k][NULL] = <<>>
    BY DEF Ptr
  <2>2. \A m \in Nzo : F[0][m] = <<m>>
    BY LpStoreAssumption DEF Ptr
  <2>3. ASSUME NEW k \in Nat, NEW m \in Nzo PROVE F[k + 1][m] = <<m>> \o f[k][nx[m]]
    <3>1. k + 1 \in Nat /\ k + 1 # 0 /\ k + 1 - 1 = k /\ m # NULL /\ m \in Ptr(Nzo)
      BY LpStoreAssumption DEF Ptr
    <3>2. PICK i \in Nat : i = k + 1 /\ i # 0 /\ i - 1 = k
      BY <3>1
    <3>3. F[i][m] = <<m>> \o f[i - 1][nx[m]]
      BY <3>1, <3>2
    <3> HIDE DEF F
    <3> QED
      BY <3>2, <3>3
  <2>4. f = F
    BY <1>6
  <2> HIDE DEF F
  <2> QED
    BY <2>1, <2>2, <2>3, <2>4
<1> HIDE DEF step
<1> QED
  BY <1>5, <1>6

\* A walk that may meet as many structs as the chain has is the chain.
LEMMA WalkIs ==
  ASSUME NEW nx \in [Nzo -> Ptr(Nzo)], NEW first, NEW s, IsChain(s, first, nx),
         NEW n \in Nat, Len(s) <= n + 1
  PROVE  Walk(first, nx, n) = s
<1> DEFINE L == Len(s)
           W == Walks(nx)
           S == {k \in Nat : \A j \in 1 .. L : L - j <= k => W[k][s[j]] = SubSeq(s, j, L)}
<1>1. /\ s \in Seq(Nzo) /\ L \in Nat /\ first = IF L = 0 THEN NULL ELSE s[1]
      /\ \A i \in 1 .. L : s[i] \in Nzo /\ s[i] # NULL
      /\ \A i \in 1 .. L : nx[s[i]] = IF i = L THEN NULL ELSE s[i + 1]
  BY LpStoreAssumption DEF IsChain
<1>2. /\ \A k \in Nat : W[k][NULL] = <<>>
      /\ \A m \in Nzo : W[0][m] = <<m>>
      /\ \A k \in Nat : \A m \in Nzo : W[k + 1][m] = <<m>> \o W[k][nx[m]]
  BY WalksStep
<1> HIDE DEF W
<1>3. \A j \in 1 .. L : SubSeq(s, j, L) = <<s[j]>> \o SubSeq(s, j + 1, L)
  BY <1>1, SubSeqRecursiveFirst
<1>4. SubSeq(s, L + 1, L) = <<>> /\ SubSeq(s, 1, L) = s
  BY <1>1, SubSeqEmpty, SubSeqFull
<1>5. \A j \in 1 .. L : <<s[j]>> \o <<>> = <<s[j]>>
  BY <1>1, ConcatEmptySeq
<1>6. 0 \in S
  <2> SUFFICES ASSUME NEW j \in 1 .. L, L - j <= 0 PROVE W[0][s[j]] = SubSeq(s, j, L)
    OBVIOUS
  <2>1. j = L
    BY <1>1
  <2>2. W[0][s[j]] = <<s[j]>>
    BY <1>1, <1>2 DEF Ptr
  <2> QED
    BY <2>1, <2>2, <1>3, <1>4, <1>5
<1>7. ASSUME NEW k \in S PROVE k + 1 \in S
  <2> SUFFICES ASSUME NEW j \in 1 .. L, L - j <= k + 1
               PROVE  W[k + 1][s[j]] = SubSeq(s, j, L)
    <3>1. k + 1 \in Nat
      OBVIOUS
    <3> QED
      BY <3>1
  <2>1. W[k + 1][s[j]] = <<s[j]>> \o W[k][nx[s[j]]]
    BY <1>1, <1>2
  <2>2. CASE j = L
    <3>1. nx[s[j]] = NULL
      BY <2>2, <1>1
    <3>2. W[k][NULL] = <<>>
      BY <1>2 DEF Ptr
    <3> QED
      BY <2>1, <2>2, <3>1, <3>2, <1>3, <1>4, <1>5
  <2>3. CASE j # L
    <3>1. j + 1 \in 1 .. L /\ L - (j + 1) <= k /\ nx[s[j]] = s[j + 1]
      BY <2>3, <1>1
    <3>2. W[k][s[j + 1]] = SubSeq(s, j + 1, L)
      BY <3>1, <1>7
    <3> QED
      BY <2>1, <3>1, <3>2, <1>3
  <2> QED
    BY <2>2, <2>3
<1>8. S = Nat
  <2>1. S \in SUBSET Nat
    OBVIOUS
  <2> HIDE DEF S
  <2> QED
    BY <1>6, <1>7, <2>1, Induction
<1>9. Walk(first, nx, n) = W[n][first]
  BY DEF Walk, W
<1>10. CASE L = 0
  <2>1. s = <<>> /\ first = NULL
    BY <1>10, <1>1, EmptySeq
  <2> QED
    BY <2>1, <1>2, <1>9 DEF Ptr
<1>11. CASE L # 0
  <2>1. 1 \in 1 .. L /\ L - 1 <= n
    BY <1>11, <1>1
  <2>2. W[n][s[1]] = SubSeq(s, 1, L)
    BY <2>1, <1>8
  <2> QED
    BY <2>2, <1>1, <1>4, <1>9, <1>11
<1> QED
  BY <1>10, <1>11

\* The structs of a chain, each once.
ChainOf(s, A, first, nx) ==
  /\ IsChain(s, first, nx)
  /\ Len(s) = Cardinality(A)
  /\ {s[i] : i \in 1 .. Len(s)} = A
  /\ \A i, j \in 1 .. Len(s) : s[i] = s[j] => i = j

\* A finite set of structs in which no two have the same successor, none has
\* the head as its successor, and which the head leads all through, is a chain.
LEMMA ChainExists ==
  ASSUME NEW A \in SUBSET Nzo, IsFiniteSet(A), NEW first \in Ptr(A),
         NEW nx \in [Nzo -> Ptr(Nzo)], \A m \in A : nx[m] \in Ptr(A),
         \A m \in A : nx[m] = first => first = NULL,
         \A m, k \in A : m # k /\ nx[m] = nx[k] => nx[m] = NULL,
         \A S \in SUBSET A :
            first \in Ptr(S) /\ (\A m \in S : nx[m] \in Ptr(S)) => S = A
  PROVE  \E s : ChainOf(s, A, first, nx)
<1> DEFINE P == Ptr(A)
           g == [m \in P |-> IF m = NULL THEN NULL ELSE nx[m]]
<1>1. NULL \notin A /\ NULL \in P /\ first \in P /\ A \subseteq P
  BY LpStoreAssumption DEF Ptr
<1>2. g \in [P -> P]
  BY <1>1 DEF Ptr
<1>3. PICK f \in [Nat -> P] : f[0] = first /\ \A k \in Nat : f[k + 1] = g[f[k]]
  <2> HIDE DEF P, g
  <2>1. \E f : Repeats(f, P, first, g)
    BY <1>1, <1>2, Repeated
  <2> QED
    BY <2>1 DEF Repeats
<1>4. /\ \A k \in Nat : f[k] # NULL => f[k] \in A /\ f[k + 1] = nx[f[k]]
      /\ \A k \in Nat : f[k] = NULL => f[k + 1] = NULL
  BY <1>1, <1>3 DEF Ptr
<1> HIDE DEF P, g
\* No struct is met twice.
<1>5. ASSUME NEW i \in Nat, NEW j \in Nat, i < j, f[i] = f[j] PROVE f[i] = NULL
  <2> DEFINE I == {a \in Nat : \E b \in Nat : a < b /\ f[a] = f[b] /\ f[a] # NULL}
  <2> SUFFICES ASSUME I # {} PROVE FALSE
    BY <1>5
  <2>1. PICK a \in I : \A c \in I : a <= c
    <3>1. I \in SUBSET Nat
      OBVIOUS
    <3> HIDE DEF I
    <3> QED
      BY <3>1, Least
  <2>2. PICK b \in Nat : a < b /\ f[a] = f[b] /\ f[a] # NULL
    BY <2>1
  <2>3. PICK d \in Nat : b = d + 1
    <3>1. b - 1 \in Nat /\ b = (b - 1) + 1
      BY <2>1, <2>2
    <3> QED
      BY <3>1
  <2>4. f[d] \in A /\ f[b] = nx[f[d]]
    BY <2>2, <2>3, <1>4
  <2>5. CASE a = 0
    BY <2>5, <2>2, <2>4, <1>3
  <2>6. CASE a # 0
    <3>1. PICK c \in Nat : a = c + 1
      <4>1. a - 1 \in Nat /\ a = (a - 1) + 1
        BY <2>1, <2>6
      <4> QED
        BY <4>1
    <3>2. f[c] \in A /\ f[a] = nx[f[c]]
      BY <3>1, <2>2, <1>4
    <3>3. f[c] = f[d]
      BY <3>2, <2>2, <2>4
    <3>4. c < d /\ f[c] # NULL
      BY <3>1, <2>3, <2>2, <3>2, <1>1
    <3>5. c \in I
      BY <3>3, <3>4
    <3> QED
      BY <3>1, <3>5, <2>1
  <2> QED
    BY <2>5, <2>6
\* The list ends.
<1>6. \E k \in Nat : f[k] = NULL
  <2> SUFFICES ASSUME \A k \in Nat : f[k] # NULL PROVE FALSE
    OBVIOUS
  <2> DEFINE n == Cardinality(A)
             h == [k \in 0 .. n |-> f[k]]
  <2>1. n \in Nat
    BY FS_CardinalityType
  <2>2. IsFiniteSet(0 .. n) /\ Cardinality(0 .. n) = n + 1
    <3>1. 0 \in Int /\ n \in Int /\ ~ (0 > n)
      BY <2>1
    <3> HIDE DEF n
    <3> QED
      BY <3>1, FS_Interval
  <2>3. h \in [0 .. n -> A]
    BY <1>4, <2>1
  <2>4. PICK a \in 0 .. n, b \in 0 .. n : a # b /\ h[a] = h[b]
    <3>1. Cardinality(A) < Cardinality(0 .. n)
      BY <2>1, <2>2
    <3>2. IsFiniteSet(A)
      OBVIOUS
    <3> HIDE DEF h, n
    <3> QED
      BY ONLY <3>1, <3>2, <2>2, <2>3, FS_PigeonHole
  <2>5. a \in Nat /\ b \in Nat /\ (a < b \/ b < a) /\ f[a] = f[b]
    BY <2>4, <2>1
  <2> QED
    BY <2>5, <1>5
<1>7. PICK n \in Nat : f[n] = NULL /\ \A k \in Nat : k < n => f[k] # NULL
  <2> DEFINE K == {k \in Nat : f[k] = NULL}
  <2>1. K \in SUBSET Nat /\ K # {}
    BY <1>6
  <2>2. PICK n \in K : \A k \in K : n <= k
    <3> HIDE DEF K
    <3> QED
      BY <2>1, Least
  <2> QED
    BY <2>2
<1> DEFINE s == [i \in 1 .. n |-> f[i - 1]]
<1>8. \A i \in 1 .. n : /\ i - 1 \in Nat /\ i - 1 < n /\ i - 1 + 1 = i
                        /\ s[i] = f[i - 1] /\ s[i] \in A
  BY <1>4, <1>7
<1>9. s \in Seq(Nzo) /\ Len(s) = n
  BY <1>8
<1>10. \A i, j \in 1 .. n : s[i] = s[j] => i = j
  <2> SUFFICES ASSUME NEW i \in 1 .. n, NEW j \in 1 .. n, s[i] = s[j] PROVE i = j
    OBVIOUS
  <2>1. i - 1 < j - 1 \/ j - 1 < i - 1 \/ i = j
    OBVIOUS
  <2> HIDE DEF s
  <2> QED
    BY <2>1, <1>5, <1>7, <1>8
<1>11. IsChain(s, first, nx)
  <2>1. first = IF n = 0 THEN NULL ELSE s[1]
    BY <1>3, <1>7
  <2>2. ASSUME NEW i \in 1 .. n PROVE nx[s[i]] = IF i = n THEN NULL ELSE s[i + 1]
    <3>1. f[i - 1 + 1] = nx[f[i - 1]]
      BY <1>4, <1>7, <1>8
    <3>2. i # n => s[i + 1] = f[i + 1 - 1] /\ i + 1 - 1 = i
      OBVIOUS
    <3> QED
      BY <3>1, <3>2, <1>7, <1>8
  <2> HIDE DEF s
  <2> QED
    BY <2>1, <2>2, <1>9 DEF IsChain
<1> DEFINE S == {s[i] : i \in 1 .. n}
<1>12. S = A
  <2> HIDE DEF s
  <2>1. S \in SUBSET A
    BY <1>8
  <2>2. first \in Ptr(S)
    BY <1>9, <1>11 DEF IsChain, Ptr
  <2>3. \A m \in S : nx[m] \in Ptr(S)
    <3> SUFFICES ASSUME NEW i \in 1 .. n PROVE nx[s[i]] \in Ptr(S)
      OBVIOUS
    <3>1. i # n => i + 1 \in 1 .. n
      OBVIOUS
    <3> QED
      BY <3>1, <1>9, <1>11 DEF IsChain, Ptr
  <2> HIDE DEF S
  <2> QED
    BY <2>1, <2>2, <2>3
<1>13. n = Cardinality(A)
  <2> HIDE DEF s
  <2>1. s \in [1 .. n -> A]
    BY <1>8, <1>9
  <2>2. s \in Injection(1 .. n, A) /\ s \in Surjection(1 .. n, A)
    BY <2>1, <1>10, <1>12, Fun_IsInj, Fun_IsSurj
  <2>3. Cardinality(1 .. n) = n /\ IsFiniteSet(1 .. n)
    BY FS_Interval
  <2> QED
    BY <2>2, <2>3, FS_Injection
<1> HIDE DEF s
<1> QED
  BY <1>9, <1>10, <1>11, <1>12, <1>13 DEF ChainOf
----------------------------------------------------------------------------
(***************************************************************************)
(* Nothing is linked apart from the heads.  LinkedOK alone admits a ring   *)
(* of structs that no head leads to, and FreeListOK a chain of its own; a  *)
(* set that holds the heads and what its members point to holds all.       *)
(***************************************************************************)
HeldOK(L, first, nx, owners) ==
  \A S \in SUBSET L :
     (\A o \in owners : first[o] \in Ptr(S)) /\ (\A m \in S : nx[m] \in Ptr(S)) => S = L

FreeHeld ==
  \A S \in SUBSET Free :
     next \in Ptr(S) /\ (\A m \in S : var_next[m] \in Ptr(S)) => S = Free

HeldInv ==
  /\ HeldOK(live, var_first, var_next, vars)
  /\ HeldOK(live, con_first, con_next, cons)
  /\ FreeHeld

\* Only what the structs of the list hold matters.
LEMMA HeldSame ==
  ASSUME NEW L, NEW first, NEW first2, NEW nx, NEW nx2, NEW owners,
         HeldOK(L, first, nx, owners),
         \A m \in L : nx2[m] = nx[m], \A o \in owners : first2[o] = first[o]
  PROVE  HeldOK(L, first2, nx2, owners)
BY DEF HeldOK

\* A new owner has an empty list.
LEMMA HeldOwner ==
  ASSUME NEW L, NEW O, NEW first \in [O -> Ptr(Nzo)], NEW nx,
         NEW owners \in SUBSET O, NEW o \in O \ owners, HeldOK(L, first, nx, owners)
  PROVE  HeldOK(L, [first EXCEPT ![o] = NULL], nx, owners \cup {o})
<1> SUFFICES ASSUME NEW S \in SUBSET L,
                    \A q \in owners \cup {o} : [first EXCEPT ![o] = NULL][q] \in Ptr(S),
                    \A m \in S : nx[m] \in Ptr(S)
             PROVE  S = L
  BY DEF HeldOK
<1>1. ASSUME NEW q \in owners PROVE first[q] \in Ptr(S)
  <2>1. [first EXCEPT ![o] = NULL][q] = first[q]
    OBVIOUS
  <2> QED
    BY <2>1
<1> QED
  BY <1>1 DEF HeldOK

\* lps_addnzo: the new struct leads to what its owner's head led to.
LEMMA HeldPush ==
  ASSUME NEW L \in SUBSET Nzo, NEW n \in Nzo \ L,
         NEW O, NEW owners \in SUBSET O, NEW o \in owners,
         NEW owner, NEW first \in [O -> Ptr(Nzo)],
         NEW nx \in [Nzo -> Ptr(Nzo)], NEW pv,
         LinkedOK(L, owner, first, nx, pv, owners), HeldOK(L, first, nx, owners)
  PROVE  HeldOK(L \cup {n}, [first EXCEPT ![o] = n], PushNext(nx, n, first[o]), owners)
<1> DEFINE first2 == [first EXCEPT ![o] = n]
           nx2 == PushNext(nx, n, first[o])
<1>1. /\ first2[o] = n /\ \A q \in owners : q # o => first2[q] = first[q]
      /\ nx2[n] = first[o] /\ \A m \in L : nx2[m] = nx[m]
  BY DEF PushNext
<1> HIDE DEF first2, nx2
<1> SUFFICES ASSUME NEW S \in SUBSET (L \cup {n}),
                    \A q \in owners : first2[q] \in Ptr(S),
                    \A m \in S : nx2[m] \in Ptr(S)
             PROVE  S = L \cup {n}
  BY DEF HeldOK, first2, nx2
<1> DEFINE T == S \ {n}
<1>2. n \in S
  BY <1>1, LpStoreAssumption DEF Ptr
<1>3. /\ \A q \in owners : first[q] # NULL => first[q] \in L
      /\ \A m \in L : nx[m] # NULL => nx[m] \in L
  BY DEF LinkedOK
<1>4. \A q \in owners : first[q] \in Ptr(T)
  <2>1. first[o] \in Ptr(S)
    BY <1>1, <1>2
  <2> QED
    BY <2>1, <1>1, <1>3 DEF Ptr
<1>5. \A m \in T : nx[m] \in Ptr(T)
  BY <1>1, <1>3 DEF Ptr
<1>6. T = L
  <2>1. T \in SUBSET L
    OBVIOUS
  <2> HIDE DEF T
  <2> QED
    BY <2>1, <1>4, <1>5 DEF HeldOK
<1> QED
  BY <1>2, <1>6

\* lps_delnzo: who led to the struct leads to what it led to.
LEMMA HeldUnlink ==
  ASSUME NEW L \in SUBSET Nzo, NEW n \in L,
         NEW O, NEW owners \in SUBSET O,
         NEW owner, NEW first \in [O -> Ptr(Nzo)],
         NEW nx \in [Nzo -> Ptr(Nzo)], NEW pv \in [Nzo -> Ptr(Nzo)],
         LinkedOK(L, owner, first, nx, pv, owners), HeldOK(L, first, nx, owners)
  PROVE  HeldOK(L \ {n},
                IF n = first[owner[n]] THEN [first EXCEPT ![owner[n]] = nx[n]] ELSE first,
                UnlinkNext(nx, pv, n), owners)
<1> DEFINE o == owner[n]
           first2 == IF n = first[o] THEN [first EXCEPT ![o] = nx[n]] ELSE first
           nx2 == UnlinkNext(nx, pv, n)
<1>1. /\ o \in owners /\ n # NULL
      /\ pv[n] = NULL => first[o] = n
      /\ pv[n] # NULL => pv[n] \in L /\ nx[pv[n]] = n
      /\ nx[n] # NULL => nx[n] \in L /\ pv[nx[n]] = n
  BY LpStoreAssumption DEF LinkedOK
<1>2. /\ \A m \in L : nx2[m] = IF m = pv[n] THEN nx[n] ELSE nx[m]
      /\ \A q \in owners : q # o => first2[q] = first[q]
      /\ first2[o] = IF n = first[o] THEN nx[n] ELSE first[o]
  BY <1>1 DEF UnlinkNext
<1>3. \A q \in owners : first[q] = n => q = o
  BY LpStoreAssumption DEF LinkedOK
<1>4. \A m \in L : nx[m] = n => m = pv[n]
  BY LpStoreAssumption DEF LinkedOK
<1> HIDE DEF o, first2, nx2
<1> SUFFICES ASSUME NEW S \in SUBSET (L \ {n}),
                    \A q \in owners : first2[q] \in Ptr(S),
                    \A m \in S : nx2[m] \in Ptr(S)
             PROVE  S = L \ {n}
  BY DEF HeldOK, o, first2, nx2
<1> DEFINE T == S \cup {n}
<1>5. CASE nx[n] \in Ptr(T)
  <2>1. \A q \in owners : first[q] \in Ptr(T)
    BY <1>2, <1>3 DEF Ptr
  <2>2. ASSUME NEW m \in T PROVE nx[m] \in Ptr(T)
    <3>1. CASE m = n
      BY <3>1, <1>5
    <3>2. CASE m # n /\ m = pv[n]
      <4>1. m # NULL
        BY LpStoreAssumption
      <4> QED
        BY <3>2, <4>1, <1>1 DEF Ptr
    <3>3. CASE m # n /\ m # pv[n]
      BY <3>3, <1>2 DEF Ptr
    <3> QED
      BY <3>1, <3>2, <3>3
  <2>3. T = L
    <3>1. T \in SUBSET L
      OBVIOUS
    <3> HIDE DEF T
    <3> QED
      BY <3>1, <2>1, <2>2 DEF HeldOK
  <2> QED
    BY <2>3
\* Otherwise nothing in S leads to n, and S would have been all before.
<1>6. CASE nx[n] \notin Ptr(T)
  <2>1. n # first[o]
    BY <1>6, <1>2, <1>1 DEF Ptr
  <2>2. pv[n] \notin S
    BY <1>6, <1>2 DEF Ptr
  <2>3. \A q \in owners : first[q] \in Ptr(S)
    BY <2>1, <1>2
  <2>4. \A m \in S : nx[m] \in Ptr(S)
    BY <2>2, <1>2
  <2>5. S = L
    BY <2>3, <2>4 DEF HeldOK
  <2> QED
    BY <2>5
<1> QED
  BY <1>5, <1>6

LEMMA HeldInit == Init => HeldInv
<1> SUFFICES ASSUME Init PROVE HeldInv
  OBVIOUS
<1>1. live = {} /\ Free = {}
  BY DEF Init, Free, Allocated, Nzo
<1> QED
  BY <1>1 DEF HeldInv, HeldOK, FreeHeld

\* The steps that leave the structs alone.
LEMMA HeldAddVar ==
  ASSUME ListsOK, HeldInv, NEW v \in Var, lps_addvar(v)
  PROVE  HeldInv'
<1>1. /\ v \in Var \ vars /\ vars' = vars \cup {v} /\ var_first' = [var_first EXCEPT ![v] = NULL]
      /\ UNCHANGED <<cons, next, sto, live, var_next, con_next, con_first>>
  BY DEF lps_addvar, links
<1>2. HeldOK(live, var_first', var_next, vars')
  BY <1>1, HeldOwner DEF HeldInv, ListsOK, TypeOK
<1> QED
  BY <1>1, <1>2 DEF HeldInv, HeldOK, FreeHeld, Free, Allocated

LEMMA HeldAddCon ==
  ASSUME ListsOK, HeldInv, NEW c \in Con, lps_addcon(c)
  PROVE  HeldInv'
<1>1. /\ c \in Con \ cons /\ cons' = cons \cup {c} /\ con_first' = [con_first EXCEPT ![c] = NULL]
      /\ UNCHANGED <<vars, next, sto, live, var_next, con_next, var_first>>
  BY DEF lps_addcon, links
<1>2. HeldOK(live, con_first', con_next, cons')
  BY <1>1, HeldOwner DEF HeldInv, ListsOK, TypeOK
<1> QED
  BY <1>1, <1>2 DEF HeldInv, HeldOK, FreeHeld, Free, Allocated

\* The first struct of a fresh block leads to all the others.
LEMMA FreshHeld ==
  ASSUME ListsOK, NEW b \in 1 .. MaxSto,
         NEW S \in SUBSET {n \in Nzo : n[1] = b}, <<b, 1>> \in S,
         \A m \in S : Chained(b)[m] \in Ptr(S)
  PROVE  S = {n \in Nzo : n[1] = b}
<1> DEFINE K == {k \in Nat : k + 1 <= StoSize => <<b, k + 1>> \in S}
<1>1. 0 \in K
  BY LpStoreAssumption
<1>2. ASSUME NEW k \in K PROVE k + 1 \in K
  <2> SUFFICES ASSUME k + 1 + 1 <= StoSize PROVE <<b, k + 1 + 1>> \in S
    OBVIOUS
  <2>1. <<b, k + 1>> \in S /\ <<b, k + 1>> \in Nzo /\ k + 1 # StoSize
    BY LpStoreAssumption
  <2>2. Chained(b)[<<b, k + 1>>] = <<b, k + 1 + 1>>
    BY <2>1 DEF Chained
  <2>3. <<b, k + 1 + 1>> \in Nzo
    BY LpStoreAssumption DEF Nzo
  <2> QED
    BY <2>1, <2>2, <2>3, LpStoreAssumption DEF Ptr
<1>3. K = Nat
  <2>1. K \in SUBSET Nat
    OBVIOUS
  <2> HIDE DEF K
  <2> QED
    BY <1>1, <1>2, <2>1, Induction
<1>4. ASSUME NEW n \in Nzo, n[1] = b PROVE n \in S
  <2>1. n = <<b, n[2]>> /\ n[2] \in 1 .. StoSize
    BY <1>4 DEF Nzo
  <2>2. PICK k \in Nat : n[2] = k + 1
    <3>1. n[2] - 1 \in Nat /\ n[2] = n[2] - 1 + 1
      BY <2>1, LpStoreAssumption
    <3> QED
      BY <3>1
  <2>3. k \in K /\ k + 1 <= StoSize
    <3>1. k + 1 <= StoSize
      BY <2>1, <2>2, LpStoreAssumption
    <3> HIDE DEF K
    <3> QED
      BY <1>3, <3>1
  <2> QED
    BY <2>1, <2>2, <2>3
<1> QED
  BY <1>4

LEMMA HeldAddNzo ==
  ASSUME ListsOK, HeldInv, NEW c \in Con, NEW v \in Var, NEW x \in Value,
         lps_addnzo(c, v, x)
  PROVE  HeldInv'
<1> DEFINE grow == next = NULL
           fresh == {m \in Nzo : m[1] = sto + 1}
           vn == IF grow THEN Chained(sto + 1) ELSE var_next
           n == IF grow THEN <<sto + 1, 1>> ELSE next
           F == IF grow THEN fresh ELSE Free
<1>1. /\ next' = vn[n] /\ live' = live \cup {n}
      /\ var_next' = PushNext(vn, n, var_first[v])
      /\ con_next' = PushNext(con_next, n, con_first[c])
      /\ var_first' = [var_first EXCEPT ![v] = n]
      /\ con_first' = [con_first EXCEPT ![c] = n]
      /\ vars' = vars /\ cons' = cons /\ v \in vars /\ c \in cons
      /\ sto' = (IF grow THEN sto + 1 ELSE sto) /\ (grow => sto < MaxSto)
  BY DEF lps_addnzo
<1>2. /\ sto \in 0 .. MaxSto /\ live \in SUBSET Nzo /\ live \subseteq Allocated
      /\ var_next \in [Nzo -> Ptr(Nzo)] /\ con_next \in [Nzo -> Ptr(Nzo)]
      /\ var_first \in [Var -> Ptr(Nzo)] /\ con_first \in [Con -> Ptr(Nzo)]
      /\ vars \in SUBSET Var /\ cons \in SUBSET Con
      /\ LinkedOK(live, nzo_var, var_first, var_next, var_prev, vars)
      /\ LinkedOK(live, nzo_con, con_first, con_next, con_prev, cons)
      /\ next \in Ptr(Free)
  BY DEF ListsOK, TypeOK, FreeListOK, ColumnsOK, RowsOK
<1>3. grow => Free = {}
  <2> SUFFICES ASSUME next = NULL PROVE Free = {}
    OBVIOUS
  <2>1. next \in Ptr({}) /\ {} \in SUBSET Free /\ \A m \in {} : var_next[m] \in Ptr({})
    BY DEF Ptr
  <2> QED
    BY <2>1 DEF HeldInv, FreeHeld
<1>4. /\ n \in F /\ F \in SUBSET Nzo /\ F \cap live = {}
      /\ vn \in [Nzo -> Ptr(Nzo)] /\ \A m \in live : vn[m] = var_next[m]
      /\ Free' = F \ {n}
  <2>1. CASE grow
    <3>1. /\ <<sto + 1, 1>> \in fresh /\ sto + 1 \in 1 .. MaxSto
          /\ fresh \cap Allocated = {}
          /\ \A m \in Allocated : vn[m] = var_next[m]
      BY <2>1, <1>1, FreshBlock
    <3>2. vn \in [Nzo -> Ptr(Nzo)]
      BY <2>1, <3>1, <1>2, ChainedType
    <3>3. Allocated' = Allocated \cup fresh
      <4>1. \A m \in Nzo : m[1] \in Nat
        BY DEF Nzo
      <4>2. \A m \in Nzo : m[1] <= sto + 1 <=> m[1] <= sto \/ m[1] = sto + 1
        BY <4>1, <1>2
      <4> QED
        BY <4>2, <1>1, <2>1 DEF Allocated
    <3>4. Allocated = live
      BY <1>2, <1>3, <2>1 DEF Free
    <3> HIDE DEF fresh, vn
    <3> QED
      BY <2>1, <3>1, <3>2, <3>3, <3>4, <1>1, <1>2 DEF Free, fresh
  <2>2. CASE ~grow
    BY <2>2, <1>1, <1>2 DEF Free, Allocated, Ptr
  <2> QED
    BY <2>1, <2>2
<1>5. ASSUME NEW S \in SUBSET F, n \in S, \A m \in S : vn[m] \in Ptr(S)
      PROVE  S = F
  <2>1. CASE grow
    <3>1. sto + 1 \in 1 .. MaxSto
      BY <2>1, <1>1, <1>2, LpStoreAssumption
    <3>2. S \in SUBSET fresh /\ <<sto + 1, 1>> \in S /\ \A m \in S : Chained(sto + 1)[m] \in Ptr(S)
      BY <2>1, <1>5
    <3> HIDE DEF F, vn, n
    <3>3. S = fresh
      BY <3>1, <3>2, FreshHeld
    <3> QED
      BY <3>3, <2>1 DEF F
  <2>2. CASE ~grow
    <3>1. S \in SUBSET Free /\ next \in Ptr(S) /\ \A m \in S : var_next[m] \in Ptr(S)
      BY <2>2, <1>5 DEF Ptr
    <3>2. S = Free
      BY <3>1 DEF HeldInv, FreeHeld
    <3> QED
      BY <3>2, <2>2
  <2> QED
    BY <2>1, <2>2
<1> HIDE DEF grow, fresh, vn, n, F
<1>6. FreeHeld'
  <2> SUFFICES ASSUME NEW S \in SUBSET Free', next' \in Ptr(S),
                      \A m \in S : var_next'[m] \in Ptr(S)
               PROVE  S = Free'
    BY DEF FreeHeld
  <2>1. S \cup {n} \in SUBSET F /\ n \notin S
    BY <1>4
  <2>2. \A m \in S : vn[m] = var_next'[m]
    BY <2>1, <1>1, <1>4 DEF PushNext
  <2>3. \A m \in S \cup {n} : vn[m] \in Ptr(S \cup {n})
    BY <2>2, <1>1 DEF Ptr
  <2>4. S \cup {n} = F
    BY <2>1, <2>3, <1>5
  <2> QED
    BY <2>1, <2>4, <1>4
<1>7. HeldOK(live', var_first', var_next', vars')
  <2>1. LinkedOK(live, nzo_var, var_first, vn, var_prev, vars)
    BY <1>2, <1>4, NextOffTheList
  <2>2. HeldOK(live, var_first, vn, vars)
    BY <1>4, HeldSame DEF HeldInv
  <2>3. HeldOK(live \cup {n}, [var_first EXCEPT ![v] = n], PushNext(vn, n, var_first[v]), vars)
    <3>1. n \in Nzo \ live
      BY <1>4
    <3> QED
      BY ONLY <2>1, <2>2, <3>1, <1>1, <1>2, <1>4, HeldPush
  <2> QED
    BY <2>3, <1>1
<1>8. HeldOK(live', con_first', con_next', cons')
  <2>1. HeldOK(live, con_first, con_next, cons)
    BY DEF HeldInv
  <2>2. HeldOK(live \cup {n}, [con_first EXCEPT ![c] = n], PushNext(con_next, n, con_first[c]), cons)
    <3>1. n \in Nzo \ live
      BY <1>4
    <3> QED
      BY ONLY <2>1, <3>1, <1>1, <1>2, HeldPush
  <2> QED
    BY <2>2, <1>1
<1> QED
  BY <1>6, <1>7, <1>8 DEF HeldInv

LEMMA HeldDelNzo ==
  ASSUME ListsOK, HeldInv, NEW n \in Nzo, lps_delnzo(n)
  PROVE  HeldInv'
<1>1. /\ n \in live /\ live' = live \ {n} /\ next' = n /\ sto' = sto
      /\ vars' = vars /\ cons' = cons
      /\ var_first' = IF n = var_first[nzo_var[n]]
                      THEN [var_first EXCEPT ![nzo_var[n]] = var_next[n]] ELSE var_first
      /\ con_first' = IF n = con_first[nzo_con[n]]
                      THEN [con_first EXCEPT ![nzo_con[n]] = con_next[n]] ELSE con_first
      /\ var_next' = [UnlinkNext(var_next, var_prev, n) EXCEPT ![n] = next]
      /\ con_next' = UnlinkNext(con_next, con_prev, n)
  BY DEF lps_delnzo
<1>2. /\ live \in SUBSET Nzo /\ vars \in SUBSET Var /\ cons \in SUBSET Con
      /\ var_first \in [Var -> Ptr(Nzo)] /\ con_first \in [Con -> Ptr(Nzo)]
      /\ var_next \in [Nzo -> Ptr(Nzo)] /\ var_prev \in [Nzo -> Ptr(Nzo)]
      /\ con_next \in [Nzo -> Ptr(Nzo)] /\ con_prev \in [Nzo -> Ptr(Nzo)]
      /\ next \in Ptr(Free) /\ \A m \in Free : var_next[m] \in Ptr(Free)
      /\ live \subseteq Allocated
      /\ LinkedOK(live, nzo_var, var_first, var_next, var_prev, vars)
      /\ LinkedOK(live, nzo_con, con_first, con_next, con_prev, cons)
  BY DEF ListsOK, TypeOK, FreeListOK, ColumnsOK, RowsOK
<1>3. HeldOK(live', var_first', var_next', vars')
  <2>1. HeldOK(live \ {n}, var_first', UnlinkNext(var_next, var_prev, n), vars)
    BY <1>1, <1>2, HeldUnlink DEF HeldInv
  <2>2. \A m \in live \ {n} : var_next'[m] = UnlinkNext(var_next, var_prev, n)[m]
    BY <1>1, <1>2 DEF UnlinkNext
  <2> QED
    BY <2>1, <2>2, <1>1, HeldSame
<1>4. HeldOK(live', con_first', con_next', cons')
  BY <1>1, <1>2, HeldUnlink DEF HeldInv
<1>5. FreeHeld'
  <2>1. Free' = Free \cup {n} /\ n \notin Free
    BY <1>1, <1>2 DEF Free, Allocated
  <2>2. var_prev[n] \notin Free /\ n # NULL
    BY <1>1, <1>2, LpStoreAssumption DEF LinkedOK, Free, Allocated
  <2>3. var_next'[n] = next /\ \A m \in Free : var_next'[m] = var_next[m]
    BY <1>1, <1>2, <2>1, <2>2 DEF UnlinkNext, Free, Allocated
  <2> SUFFICES ASSUME NEW S \in SUBSET Free', next' \in Ptr(S),
                      \A m \in S : var_next'[m] \in Ptr(S)
               PROVE  S = Free'
    BY DEF FreeHeld
  <2> DEFINE T == S \ {n}
  <2>4. n \in S /\ T \in SUBSET Free
    BY <1>1, <2>1, <2>2 DEF Ptr
  <2>5. next \in Ptr(T)
    BY <2>3, <2>4, <2>1, <1>2 DEF Ptr
  <2>6. \A m \in T : var_next[m] \in Ptr(T)
    BY <2>3, <2>4, <2>1, <1>2 DEF Ptr
  <2>7. T = Free
    <3> HIDE DEF T
    <3> QED
      BY <2>4, <2>5, <2>6 DEF HeldInv, FreeHeld
  <2> QED
    BY <2>1, <2>4, <2>7
<1> QED
  BY <1>3, <1>4, <1>5 DEF HeldInv

LEMMA HeldStep ==
  ASSUME ListsOK, HeldInv, [Next]_vars_
  PROVE  HeldInv'
<1>1. ASSUME NEW n \in Nzo, NEW x \in Value, lps_setval(n, x) PROVE HeldInv'
  BY <1>1 DEF lps_setval, links, heads, HeldInv, HeldOK, FreeHeld, Free, Allocated
<1>2. CASE UNCHANGED vars_
  BY <1>2 DEF vars_, links, heads, HeldInv, HeldOK, FreeHeld, Free, Allocated
<1> QED
  BY <1>1, <1>2, HeldAddVar, HeldAddCon, HeldAddNzo, HeldDelNzo DEF Next
----------------------------------------------------------------------------
(***************************************************************************)
(* What lps_valid finds when it walks the lists.                           *)
(***************************************************************************)

\* The structs of owner o, from its head on, are a chain.
Owned(L, owner, o) == {m \in L : owner[m] = o}

LEMMA ListChain ==
  ASSUME NEW L \in SUBSET Nzo, IsFiniteSet(L),
         NEW O, NEW owners \in SUBSET O, NEW o \in owners,
         NEW owner, NEW first \in [O -> Ptr(Nzo)],
         NEW nx \in [Nzo -> Ptr(Nzo)], NEW pv,
         LinkedOK(L, owner, first, nx, pv, owners), HeldOK(L, first, nx, owners)
  PROVE  \E s : ChainOf(s, Owned(L, owner, o), first[o], nx)
<1> DEFINE A == Owned(L, owner, o)
<1>0. \A m : m \in A <=> m \in L /\ owner[m] = o
  BY DEF Owned
<1> HIDE DEF A
<1>1. /\ \A q \in owners : first[q] # NULL =>
            first[q] \in L /\ owner[first[q]] = q /\ pv[first[q]] = NULL
      /\ \A m \in L : nx[m] # NULL =>
            nx[m] \in L /\ pv[nx[m]] = m /\ owner[nx[m]] = owner[m]
      /\ \A m \in L : m # NULL
  BY LpStoreAssumption DEF LinkedOK
<1>2. A \in SUBSET Nzo /\ IsFiniteSet(A)
  <2>1. A \subseteq L
    BY <1>0
  <2> QED
    BY <2>1, FS_Subset
<1>3. first[o] \in Ptr(A)
  BY <1>0, <1>1 DEF Ptr
<1>4. \A m \in A : nx[m] \in Ptr(A)
  BY <1>0, <1>1 DEF Ptr
<1>5. \A m \in A : nx[m] = first[o] => first[o] = NULL
  BY <1>0, <1>1
<1>6. \A m, k \in A : m # k /\ nx[m] = nx[k] => nx[m] = NULL
  BY <1>0, <1>1
<1>7. ASSUME NEW S \in SUBSET A, first[o] \in Ptr(S), \A m \in S : nx[m] \in Ptr(S)
      PROVE  S = A
  <2> DEFINE T == (L \ A) \cup S
  <2>1. T \in SUBSET L
    BY <1>0
  <2>2. \A q \in owners : first[q] \in Ptr(T)
    BY <1>0, <1>1, <1>7 DEF Ptr
  <2>3. \A m \in T : nx[m] \in Ptr(T)
    BY <1>0, <1>1, <1>7 DEF Ptr
  <2>4. T = L
    <3> HIDE DEF T
    <3> QED
      BY <2>1, <2>2, <2>3 DEF HeldOK
  <2>5. A \subseteq L
    BY <1>0
  <2> QED
    BY <2>4, <2>5
<1>8. \E s : ChainOf(s, A, first[o], nx)
  BY <1>2, <1>3, <1>4, <1>5, <1>6, <1>7, ChainExists
<1> QED
  BY <1>8 DEF A

\* The invariant of all steps.
StoreOK == ListsOK /\ HeldInv /\ CountsOK

StoreFacts ==
  /\ live \in SUBSET Nzo /\ IsFiniteSet(live) /\ Cardinality(live) \in Nat
  /\ IsFiniteSet(Free) /\ Cardinality(Free) \in Nat /\ Free \in SUBSET Nzo
  /\ vars \in SUBSET Var /\ cons \in SUBSET Con
  /\ var_first \in [Var -> Ptr(Nzo)] /\ con_first \in [Con -> Ptr(Nzo)]
  /\ var_next \in [Nzo -> Ptr(Nzo)] /\ con_next \in [Nzo -> Ptr(Nzo)]
  /\ LinkedOK(live, nzo_var, var_first, var_next, var_prev, vars)
  /\ LinkedOK(live, nzo_con, con_first, con_next, con_prev, cons)
  /\ HeldOK(live, var_first, var_next, vars)
  /\ HeldOK(live, con_first, con_next, cons)
  /\ Counted(vars, var_size, live, nzo_var)
  /\ Counted(cons, con_size, live, nzo_con)

LEMMA StoreTypes == StoreOK => StoreFacts
<1> SUFFICES ASSUME StoreOK PROVE StoreFacts
  OBVIOUS
<1>1. live \in SUBSET Nzo /\ Free \in SUBSET Nzo
  BY DEF StoreOK, ListsOK, TypeOK, Free, Allocated
<1>2. /\ IsFiniteSet(live) /\ IsFiniteSet(Free)
      /\ Cardinality(live) \in Nat /\ Cardinality(Free) \in Nat
  BY <1>1, NzoFinite, FS_Subset, FS_CardinalityType
<1> QED
  BY <1>1, <1>2
     DEF StoreFacts, StoreOK, ListsOK, TypeOK, ColumnsOK, RowsOK, HeldInv, CountsOK

\* A walk that counts up to the nonzeros of the matrix meets the list of o.
LEMMA ListWalk ==
  ASSUME NEW L \in SUBSET Nzo, IsFiniteSet(L),
         NEW O, NEW owners \in SUBSET O, NEW o \in owners,
         NEW owner, NEW first \in [O -> Ptr(Nzo)],
         NEW nx \in [Nzo -> Ptr(Nzo)], NEW pv,
         LinkedOK(L, owner, first, nx, pv, owners), HeldOK(L, first, nx, owners)
  PROVE  ChainOf(Walk(first[o], nx, Cardinality(L)), Owned(L, owner, o), first[o], nx)
<1> DEFINE A == Owned(L, owner, o)
<1>1. PICK s : ChainOf(s, A, first[o], nx)
  BY ListChain
<1>2. A \subseteq L
  BY DEF Owned
<1> HIDE DEF A
<1>3. Cardinality(A) <= Cardinality(L) /\ Cardinality(A) \in Nat /\ Cardinality(L) \in Nat
  BY <1>2, FS_Subset, FS_CardinalityType
<1>4. IsChain(s, first[o], nx) /\ Len(s) = Cardinality(A)
  BY <1>1 DEF ChainOf
<1>5. Walk(first[o], nx, Cardinality(L)) = s
  BY <1>3, <1>4, WalkIs
<1> QED
  BY <1>1, <1>5 DEF A

\* The list lps_valid walks is that of its owner, from both ends.
LEMMA ListValid ==
  ASSUME NEW O, NEW owners \in SUBSET O, NEW o \in owners,
         NEW owner, NEW first \in [O -> Ptr(Nzo)], NEW size,
         NEW nx \in [Nzo -> Ptr(Nzo)], NEW pv,
         live \in SUBSET Nzo, IsFiniteSet(live),
         LinkedOK(live, owner, first, nx, pv, owners), HeldOK(live, first, nx, owners),
         Counted(owners, size, live, owner)
  PROVE  ValidList(o, owner, first, size, nx, pv)
<1> DEFINE A == Owned(live, owner, o)
           s == Walk(first[o], nx, Cardinality(live))
<1>1. ChainOf(s, A, first[o], nx)
  BY ListWalk
<1>2. size[o] = Cardinality(A)
  BY DEF Counted, Owned
<1>0. \A m \in A : m \in live /\ owner[m] = o
  BY DEF Owned
<1> HIDE DEF A, s
<1>3. /\ s \in Seq(Nzo) /\ Len(s) = size[o] /\ Len(s) \in Nat /\ DOMAIN s = 1 .. Len(s)
      /\ first[o] = IF Len(s) = 0 THEN NULL ELSE s[1]
      /\ \A i \in 1 .. Len(s) : nx[s[i]] = IF i = Len(s) THEN NULL ELSE s[i + 1]
      /\ \A i \in 1 .. Len(s) : s[i] \in live /\ owner[s[i]] = o
      /\ \A i \in 1 .. Len(s) : s[i] # NULL
  <2>1. /\ s \in Seq(Nzo) /\ Len(s) = size[o]
        /\ first[o] = IF Len(s) = 0 THEN NULL ELSE s[1]
        /\ \A i \in 1 .. Len(s) : nx[s[i]] = IF i = Len(s) THEN NULL ELSE s[i + 1]
        /\ \A i \in 1 .. Len(s) : s[i] \in A
    BY <1>1, <1>2 DEF ChainOf, IsChain
  <2>2. Len(s) \in Nat /\ DOMAIN s = 1 .. Len(s) /\ \A i \in 1 .. Len(s) : s[i] \in Nzo
    BY <2>1
  <2>3. \A i \in 1 .. Len(s) : s[i] # NULL
    BY <2>2, LpStoreAssumption
  <2> QED
    BY <2>1, <2>2, <2>3, <1>0
<1>4. ASSUME NEW i \in DOMAIN s PROVE pv[s[i]] = IF i = 1 THEN NULL ELSE s[i - 1]
  <2>1. CASE i = 1
    BY <2>1, <1>3 DEF LinkedOK
  <2>2. CASE i # 1
    <3>1. PICK j \in 1 .. Len(s) : j = i - 1 /\ j # Len(s) /\ j + 1 = i
      BY <2>2, <1>3
    <3>2. nx[s[j]] = s[i]
      BY <3>1, <1>3
    <3> QED
      BY <2>2, <3>1, <3>2, <1>3 DEF LinkedOK
  <2> QED
    BY <2>1, <2>2
<1> QED
  BY <1>3, <1>4 DEF ValidList, s

LEMMA StoreValid ==
  ASSUME StoreOK
  PROVE  lps_valid
<1>1. \A v \in vars : ValidList(v, nzo_var, var_first, var_size, var_next, var_prev)
  BY StoreTypes, ListValid DEF StoreFacts
<1>2. \A c \in cons : ValidList(c, nzo_con, con_first, con_size, con_next, con_prev)
  BY StoreTypes, ListValid DEF StoreFacts
<1>3. sto * StoSize >= nonzeros
  <2> DEFINE block == 1 .. sto
             place == 1 .. StoSize
  <2>1. sto \in Nat /\ StoSize \in Nat /\ sto <= MaxSto /\ MaxSto \in Nat
    BY LpStoreAssumption DEF StoreOK, ListsOK, TypeOK
  <2>2. Allocated \subseteq block \X place
    BY <2>1 DEF Allocated, Nzo
  <2>3. live \subseteq block \X place
    BY <2>2 DEF StoreOK, ListsOK, FreeListOK
  <2>4. /\ IsFiniteSet(block) /\ IsFiniteSet(place)
        /\ Cardinality(block) = sto /\ Cardinality(place) = StoSize
    <3>1. /\ IsFiniteSet(1 .. sto)
          /\ Cardinality(1 .. sto) = IF 1 > sto THEN 0 ELSE sto - 1 + 1
      BY <2>1, FS_Interval
    <3>2. /\ IsFiniteSet(1 .. StoSize)
          /\ Cardinality(1 .. StoSize) = IF 1 > StoSize THEN 0 ELSE StoSize - 1 + 1
      BY <2>1, FS_Interval
    <3> QED
      BY <2>1, <3>1, <3>2
  <2> HIDE DEF block, place
  <2>5. IsFiniteSet(block \X place) /\ Cardinality(block \X place) = sto * StoSize
    BY <2>4, FS_Product
  <2>6. Cardinality(live) <= Cardinality(block \X place)
    BY <2>3, <2>5, FS_Subset
  <2>7. nonzeros = Cardinality(live) /\ Cardinality(live) \in Nat /\ sto * StoSize \in Nat
    BY <2>1, StoreTypes DEF StoreFacts, StoreOK, CountsOK
  <2> QED
    BY <2>5, <2>6, <2>7
<1> QED
  BY <1>1, <1>2, <1>3 DEF lps_valid

LEMMA StoreComplete ==
  ASSUME StoreOK
  PROVE  NoStructLost
<1> DEFINE s == Walk(next, var_next, Cardinality(Free))
<1>1. PICK t : ChainOf(t, Free, next, var_next)
  <2>1. /\ next \in Ptr(Free)
        /\ \A m \in Free : var_next[m] \in Ptr(Free)
        /\ \A m \in Free : var_next[m] = next => next = NULL
        /\ \A m, k \in Free : m # k /\ var_next[m] = var_next[k] => var_next[m] = NULL
    BY DEF StoreOK, ListsOK, FreeListOK
  <2>2. \A S \in SUBSET Free :
           next \in Ptr(S) /\ (\A m \in S : var_next[m] \in Ptr(S)) => S = Free
    BY DEF StoreOK, HeldInv, FreeHeld
  <2> QED
    BY <2>1, <2>2, StoreTypes, ChainExists DEF StoreFacts
<1>2. IsChain(t, next, var_next) /\ Len(t) = Cardinality(Free) /\ Cardinality(Free) \in Nat
  BY <1>1, StoreTypes DEF ChainOf, StoreFacts
<1>3. s = t
  BY <1>2, StoreTypes, WalkIs DEF StoreFacts
<1> HIDE DEF s
<1>4. DOMAIN s = 1 .. Len(s)
  BY <1>2, <1>3 DEF IsChain
<1> QED
  BY <1>1, <1>3, <1>4 DEF NoStructLost, ChainOf, s

LEMMA StoreAlways == Spec => []StoreOK
<1>1. ListsOK /\ HeldInv /\ [Next]_vars_ => HeldInv'
  BY HeldStep
<1> QED
  BY HeldInit, Typing, ListsLinked, Counts, <1>1, PTL DEF Spec, StoreOK, ListsOK

\* lps_valid never fails, whatever was added, deleted or changed before: each
\* list, walked from its head, has as many structs as its size says, all of
\* them of its owner and linked back in the same order; and the chain from
\* lp->next holds every unused struct once, so lps_addnzo gets a new block
\* only when no struct is left.
THEOREM StoreWellLinked == Spec => []WellLinked
<1>1. StoreOK => WellLinked
  BY StoreValid, StoreComplete DEF WellLinked, StoreOK, ListsOK
<1> QED
  BY <1>1, StoreAlways, PTL
----------------------------------------------------------------------------
(***************************************************************************)
(* The refinement of LpMatrix.  A chain is the only one from its head, so  *)
(* that the list an operation makes of an old one is the list a walk finds *)
(* afterwards.                                                             *)
(***************************************************************************)
LEMMA ChainUnique ==
  ASSUME NEW nx \in [Nzo -> Ptr(Nzo)], NEW first, NEW s, NEW t,
         IsChain(s, first, nx), IsChain(t, first, nx)
  PROVE  s = t
<1>1. Len(s) \in Nat /\ Len(t) \in Nat
  BY DEF IsChain
<1> DEFINE n == Len(s) + Len(t)
<1>2. n \in Nat /\ Len(s) <= n + 1 /\ Len(t) <= n + 1
  BY <1>1
<1> HIDE DEF n
<1> QED
  BY <1>2, WalkIs

LEMMA ChainSame ==
  ASSUME NEW s, NEW first, NEW nx, NEW nx2, IsChain(s, first, nx),
         \A i \in 1 .. Len(s) : nx2[s[i]] = nx[s[i]]
  PROVE  IsChain(s, first, nx2)
BY DEF IsChain

\* n in front.
LEMMA ChainPush ==
  ASSUME NEW s, NEW first, NEW nx, NEW nx2, NEW n \in Nzo, IsChain(s, first, nx),
         nx2[n] = first, \A i \in 1 .. Len(s) : nx2[s[i]] = nx[s[i]]
  PROVE  IsChain(<<n>> \o s, n, nx2)
<1> DEFINE t == <<n>> \o s
<1>1. s \in Seq(Nzo) /\ <<n>> \in Seq(Nzo) /\ Len(s) \in Nat
  BY DEF IsChain
<1>2. /\ t \in Seq(Nzo) /\ Len(t) = Len(s) + 1 /\ t[1] = n
      /\ \A i \in 2 .. Len(t) : t[i] = s[i - 1]
  BY <1>1
<1> HIDE DEF t
<1>3. ASSUME NEW i \in 1 .. Len(t)
      PROVE  nx2[t[i]] = IF i = Len(t) THEN NULL ELSE t[i + 1]
  <2>1. CASE i = 1
    <3>1. Len(s) # 0 => 2 \in 2 .. Len(t) /\ t[2] = s[1]
      BY <1>1, <1>2
    <3> QED
      BY <2>1, <3>1, <1>1, <1>2 DEF IsChain
  <2>2. CASE i # 1
    <3>1. PICK j \in 1 .. Len(s) : i = j + 1
      <4>1. i - 1 \in 1 .. Len(s) /\ i = i - 1 + 1
        BY <2>2, <1>1, <1>2
      <4> QED
        BY <4>1
    <3>0. /\ i \in 2 .. Len(t) /\ i - 1 = j /\ (i = Len(t) <=> j = Len(s))
          /\ i # Len(t) => i + 1 \in 2 .. Len(t) /\ (i + 1) - 1 = j + 1
      BY <3>1, <1>1, <1>2
    <3>2. t[i] = s[j] /\ (i = Len(t) <=> j = Len(s)) /\ (i # Len(t) => t[i + 1] = s[j + 1])
      BY ONLY <3>0, <1>2
    <3> QED
      BY <3>1, <3>2 DEF IsChain
  <2> QED
    BY <2>1, <2>2
<1> QED
  BY <1>1, <1>2, <1>3 DEF IsChain, t

\* What RemoveAt of the community modules returns, place by place.
LEMMA Removed ==
  ASSUME NEW S, NEW s \in Seq(S), NEW i \in 1 .. Len(s)
  PROVE  /\ Matrix!RemoveAt(s, i) \in Seq(S)
         /\ Len(Matrix!RemoveAt(s, i)) = Len(s) - 1
         /\ \A j \in 1 .. Len(s) - 1 :
               Matrix!RemoveAt(s, i)[j] = IF j < i THEN s[j] ELSE s[j + 1]
<1>1. Len(s) \in Nat /\ i \in Nat
  OBVIOUS
<1> DEFINE p == SubSeq(s, 1, i - 1)
           q == SubSeq(s, i + 1, Len(s))
<1>2. p \in Seq(S) /\ Len(p) = i - 1 /\ \A j \in 1 .. i - 1 : p[j] = s[j]
  BY <1>1
<1>3. /\ q \in Seq(S) /\ Len(q) = Len(s) - i
      /\ \A j \in 1 .. Len(s) - i : q[j] = s[i + j]
  BY <1>1
<1> HIDE DEF p, q
<1>4. /\ p \o q \in Seq(S) /\ Len(p \o q) = Len(s) - 1
      /\ \A j \in 1 .. Len(s) - 1 : (p \o q)[j] = IF j < i THEN s[j] ELSE s[j + 1]
  <2>1. p \o q \in Seq(S) /\ Len(p \o q) = Len(s) - 1
    BY <1>1, <1>2, <1>3
  <2>2. ASSUME NEW j \in 1 .. Len(s) - 1, j < i PROVE (p \o q)[j] = s[j]
    BY <2>2, <1>1, <1>2, <1>3
  <2>3. ASSUME NEW j \in 1 .. Len(s) - 1, ~ (j < i) PROVE (p \o q)[j] = s[j + 1]
    <3>1. (p \o q)[j] = q[j - (i - 1)]
      BY <2>3, <1>1, <1>2, <1>3
    <3>2. j - (i - 1) \in 1 .. Len(s) - i /\ i + (j - (i - 1)) = j + 1
      BY <2>3, <1>1
    <3> QED
      BY <3>1, <3>2, <1>3
  <2> QED
    BY <2>1, <2>2, <2>3
<1> QED
  BY <1>4 DEF Matrix!RemoveAt, p, q

\* Place i out: what came before it is followed by what came after it.
LEMMA ChainDrop ==
  ASSUME NEW s, NEW first, NEW first2, NEW nx, NEW nx2, IsChain(s, first, nx),
         NEW i \in 1 .. Len(s), first2 = IF i = 1 THEN nx[s[i]] ELSE first,
         \A j \in 1 .. Len(s) :
            j # i => nx2[s[j]] = IF j = i - 1 THEN nx[s[i]] ELSE nx[s[j]]
  PROVE  IsChain(Matrix!RemoveAt(s, i), first2, nx2)
<1> DEFINE t == Matrix!RemoveAt(s, i)
<1>1. /\ s \in Seq(Nzo) /\ Len(s) \in Nat \ {0}
      /\ first = s[1]
      /\ \A j \in 1 .. Len(s) : nx[s[j]] = IF j = Len(s) THEN NULL ELSE s[j + 1]
  BY DEF IsChain
<1>2. /\ t \in Seq(Nzo) /\ Len(t) = Len(s) - 1
      /\ \A j \in 1 .. Len(s) - 1 : t[j] = IF j < i THEN s[j] ELSE s[j + 1]
  BY <1>1, Removed
<1> HIDE DEF t
<1>3. first2 = IF Len(t) = 0 THEN NULL ELSE t[1]
  BY <1>1, <1>2
<1>4. ASSUME NEW j \in 1 .. Len(t) PROVE nx2[t[j]] = IF j = Len(t) THEN NULL ELSE t[j + 1]
  <2>1. CASE j < i - 1
    <3>0. /\ j \in 1 .. Len(s) - 1 /\ j < i /\ j # i /\ j # i - 1 /\ j # Len(s) /\ j # Len(t)
          /\ j + 1 \in 1 .. Len(s) - 1 /\ j + 1 < i /\ j \in 1 .. Len(s)
      BY <2>1, <1>1, <1>2
    <3>1. /\ t[j] = s[j] /\ nx2[s[j]] = nx[s[j]] /\ nx[s[j]] = s[j + 1]
          /\ j + 1 \in 1 .. Len(s) - 1 /\ t[j + 1] = s[j + 1] /\ j # Len(t)
      BY ONLY <3>0, <1>1, <1>2, \A k \in 1 .. Len(s) :
                k # i => nx2[s[k]] = IF k = i - 1 THEN nx[s[i]] ELSE nx[s[k]]
    <3> QED
      BY <3>1
  <2>2. CASE j = i - 1
    <3>1. t[j] = s[j] /\ nx2[s[j]] = nx[s[i]]
      BY <2>2, <1>1, <1>2
    <3>2. j # Len(t) => i \in 1 .. Len(s) - 1 /\ i # Len(s) /\ t[i] = s[i + 1] /\ j + 1 = i
      BY <2>2, <1>1, <1>2
    <3>3. j = Len(t) => i = Len(s)
      BY <2>2, <1>1, <1>2
    <3> QED
      BY <3>1, <3>2, <3>3, <1>1
  <2>3. CASE j > i - 1
    <3>1. t[j] = s[j + 1] /\ j + 1 \in 1 .. Len(s) /\ j + 1 # i /\ j + 1 # i - 1
      BY <2>3, <1>1, <1>2
    <3>2. nx2[s[j + 1]] = nx[s[j + 1]]
      BY <3>1
    <3>3. j # Len(t) => /\ j + 1 \in 1 .. Len(s) - 1 /\ j + 1 # Len(s)
                        /\ ~ (j + 1 < i) /\ t[j + 1] = s[j + 1 + 1]
      BY <2>3, <1>1, <1>2
    <3>4. j = Len(t) => j + 1 = Len(s)
      BY <1>1, <1>2
    <3> QED
      BY <3>1, <3>2, <3>3, <3>4, <1>1
  <2> QED
    BY <2>1, <2>2, <2>3, <1>1, <1>2
<1> QED
  BY <1>2, <1>3, <1>4 DEF IsChain, t

\* lps_addnzo, list by list: that of o has n in front, the others stay.
LEMMA PushedList ==
  ASSUME NEW L \in SUBSET Nzo, NEW n \in Nzo \ L,
         NEW O, NEW owners \in SUBSET O, NEW o \in owners, NEW w \in owners,
         NEW owner, NEW first \in [O -> Ptr(Nzo)],
         NEW nx \in [Nzo -> Ptr(Nzo)], NEW s,
         ChainOf(s, Owned(L, owner, w), first[w], nx)
  PROVE  IsChain(IF w = o THEN <<n>> \o s ELSE s,
                 [first EXCEPT ![o] = n][w], PushNext(nx, n, first[o]))
<1> DEFINE nx2 == PushNext(nx, n, first[o])
<1>1. IsChain(s, first[w], nx) /\ \A i \in 1 .. Len(s) : s[i] \in L
  BY DEF ChainOf, Owned
<1>2. nx2[n] = first[o] /\ \A i \in 1 .. Len(s) : nx2[s[i]] = nx[s[i]]
  BY <1>1 DEF PushNext
<1> HIDE DEF nx2
<1>3. CASE w = o
  <2>1. IsChain(<<n>> \o s, n, nx2)
    BY <1>1, <1>2, <1>3, ChainPush
  <2> QED
    BY <2>1, <1>3 DEF nx2
<1>4. CASE w # o
  <2>1. IsChain(s, first[w], nx2)
    BY <1>1, <1>2, ChainSame
  <2> QED
    BY <2>1, <1>4 DEF nx2
<1> QED
  BY <1>3, <1>4

\* What a writer reads of the structs of a list.
Entries(s, other, value) == [i \in DOMAIN s |-> <<other[s[i]], value[s[i]]>>]

SameAlong(s, f, g) == \A i \in DOMAIN s : f[s[i]] = g[s[i]]

LEMMA EntriesSame ==
  ASSUME NEW s, NEW other, NEW other2, NEW value, NEW value2,
         SameAlong(s, other2, other), SameAlong(s, value2, value)
  PROVE  Entries(s, other2, value2) = Entries(s, other, value)
BY DEF Entries, SameAlong

Push(e, s) == <<e>> \o s

LEMMA EntriesPush ==
  ASSUME NEW s \in Seq(Nzo), NEW n \in Nzo,
         NEW other, NEW other2, NEW value, NEW value2,
         SameAlong(s, other2, other), SameAlong(s, value2, value)
  PROVE  Entries(Push(n, s), other2, value2) =
            Push(<<other2[n], value2[n]>>, Entries(s, other, value))
<1> DEFINE e == Entries(s, other, value)
           a == <<other2[n], value2[n]>>
           t == <<n>> \o s
           T == {<<other[s[i]], value[s[i]]>> : i \in 1 .. Len(s)} \cup {a}
<1>1. DOMAIN s = 1 .. Len(s) /\ Len(s) \in Nat
  OBVIOUS
<1>2. e \in Seq(T) /\ Len(e) = Len(s) /\ \A i \in 1 .. Len(s) : e[i] = <<other[s[i]], value[s[i]]>>
  BY <1>1 DEF Entries
<1>3. t \in Seq(Nzo) /\ Len(t) = Len(s) + 1 /\ t[1] = n /\ \A i \in 2 .. Len(t) : t[i] = s[i - 1]
  OBVIOUS
<1>4. DOMAIN t = 1 .. Len(s) + 1
  BY <1>3
<1> HIDE DEF e, a, T
<1>5. <<a>> \in Seq(T) /\ Len(<<a>>) = 1 /\ <<a>>[1] = a
  BY DEF T
<1>6. /\ <<a>> \o e \in Seq(T) /\ Len(<<a>> \o e) = Len(s) + 1
      /\ (<<a>> \o e)[1] = a /\ \A i \in 2 .. Len(s) + 1 : (<<a>> \o e)[i] = e[i - 1]
  BY <1>1, <1>2, <1>5
<1> HIDE DEF t
<1> DEFINE r == Entries(t, other2, value2)
<1>7. r = [i \in 1 .. Len(s) + 1 |-> <<other2[t[i]], value2[t[i]]>>]
  BY <1>4 DEF Entries
<1>8. ASSUME NEW i \in 1 .. Len(s) + 1 PROVE r[i] = (<<a>> \o e)[i]
  <2>1. CASE i = 1
    BY <2>1, <1>3, <1>6, <1>7 DEF a
  <2>2. CASE i # 1
    <3>1. i - 1 \in 1 .. Len(s) /\ i \in 2 .. Len(s) + 1
      BY <2>2, <1>1
    <3>2. t[i] = s[i - 1] /\ (<<a>> \o e)[i] = e[i - 1]
      BY <3>1, <1>3, <1>6
    <3>3. other2[s[i - 1]] = other[s[i - 1]] /\ value2[s[i - 1]] = value[s[i - 1]]
      BY <3>1, <1>1 DEF SameAlong
    <3> QED
      BY <3>1, <3>2, <3>3, <1>2, <1>7
  <2> QED
    BY <2>1, <2>2
<1>9. r = <<a>> \o e
  <2>1. DOMAIN (<<a>> \o e) = 1 .. Len(s) + 1 /\ <<a>> \o e = [i \in DOMAIN (<<a>> \o e) |-> (<<a>> \o e)[i]]
    BY <1>6
  <2> QED
    BY <2>1, <1>7, <1>8
<1> QED
  BY <1>9 DEF r, t, a, e, Push

LEMMA EntriesDrop ==
  ASSUME NEW s \in Seq(Nzo), NEW i \in 1 .. Len(s), NEW other, NEW value
  PROVE  Entries(Matrix!RemoveAt(s, i), other, value) =
            Matrix!RemoveAt(Entries(s, other, value), i)
<1> DEFINE e == Entries(s, other, value)
           t == Matrix!RemoveAt(s, i)
           T == {<<other[s[j]], value[s[j]]>> : j \in 1 .. Len(s)}
<1>1. DOMAIN s = 1 .. Len(s) /\ Len(s) \in Nat
  OBVIOUS
<1>2. e \in Seq(T) /\ Len(e) = Len(s) /\ \A j \in 1 .. Len(s) : e[j] = <<other[s[j]], value[s[j]]>>
  BY <1>1 DEF Entries
<1>3. /\ t \in Seq(Nzo) /\ Len(t) = Len(s) - 1
      /\ \A j \in 1 .. Len(s) - 1 : t[j] = IF j < i THEN s[j] ELSE s[j + 1]
  BY Removed
<1> HIDE DEF e, t, T
<1> DEFINE d == Matrix!RemoveAt(e, i)
           r == Entries(t, other, value)
<1>4. /\ d \in Seq(T) /\ Len(d) = Len(s) - 1
      /\ \A j \in 1 .. Len(s) - 1 : d[j] = IF j < i THEN e[j] ELSE e[j + 1]
  BY <1>2, Removed
<1>5. r = [j \in 1 .. Len(s) - 1 |-> <<other[t[j]], value[t[j]]>>]
  BY <1>3 DEF Entries
<1>6. ASSUME NEW j \in 1 .. Len(s) - 1 PROVE r[j] = d[j]
  <2>1. j \in 1 .. Len(s) /\ j + 1 \in 1 .. Len(s)
    BY <1>1
  <2>2. r[j] = <<other[t[j]], value[t[j]]>>
    BY <1>5
  <2>3. CASE j < i
    BY <1>2, <1>3, <1>4, <2>1, <2>2, <2>3
  <2>4. CASE ~ j < i
    BY <1>2, <1>3, <1>4, <2>1, <2>2, <2>4
  <2> QED
    BY <2>3, <2>4
<1> HIDE DEF d
<1>7. r = d
  BY <1>4, <1>5, <1>6
<1> QED
  BY <1>7 DEF r, d, t, e

\* The entries of a list after lps_addnzo.
SameOn(L, f, g) == \A m \in L : f[m] = g[m]

PushStep(L, n, O, owners, o, first, nx, vn, first2, nx2) ==
  /\ L \in SUBSET Nzo /\ n \in Nzo \ L /\ owners \in SUBSET O /\ o \in owners
  /\ first \in [O -> Ptr(Nzo)] /\ nx \in [Nzo -> Ptr(Nzo)]
  /\ vn \in [Nzo -> Ptr(Nzo)] /\ SameOn(L, vn, nx)
  /\ first2 = [first EXCEPT ![o] = n]
  /\ nx2 \in [Nzo -> Ptr(Nzo)] /\ nx2 = PushNext(vn, n, first[o])

LEMMA PushedEntries ==
  ASSUME NEW L, NEW n, NEW O, NEW owners, NEW o, NEW first, NEW nx, NEW vn,
         NEW first2, NEW nx2,
         PushStep(L, n, O, owners, o, first, nx, vn, first2, nx2),
         NEW owner, NEW w \in owners,
         NEW s, ChainOf(s, Owned(L, owner, w), first[w], nx),
         NEW t, IsChain(t, first2[w], nx2),
         NEW other, NEW other2, NEW value, NEW value2,
         SameOn(L, other2, other), SameOn(L, value2, value)
  PROVE  Entries(t, other2, value2) =
            IF w = o THEN Push(<<other2[n], value2[n]>>, Entries(s, other, value))
                     ELSE Entries(s, other, value)
<1>0. /\ L \in SUBSET Nzo /\ n \in Nzo \ L /\ owners \in SUBSET O /\ o \in owners
      /\ first \in [O -> Ptr(Nzo)] /\ nx \in [Nzo -> Ptr(Nzo)]
      /\ vn \in [Nzo -> Ptr(Nzo)] /\ \A m \in L : vn[m] = nx[m]
      /\ first2 = [first EXCEPT ![o] = n]
      /\ nx2 \in [Nzo -> Ptr(Nzo)] /\ nx2 = PushNext(vn, n, first[o])
  BY DEF PushStep, SameOn
<1>1. s \in Seq(Nzo) /\ \A i \in 1 .. Len(s) : s[i] \in L
  BY DEF ChainOf, IsChain, Owned
<1>2. ChainOf(s, Owned(L, owner, w), first[w], vn)
  BY <1>0, <1>1, ChainSame DEF ChainOf
<1>3. IsChain(IF w = o THEN Push(n, s) ELSE s, first2[w], nx2)
  BY <1>0, <1>2, PushedList DEF Push
<1>4. t = IF w = o THEN Push(n, s) ELSE s
  BY <1>0, <1>3, ChainUnique
<1>5. SameAlong(s, other2, other) /\ SameAlong(s, value2, value) /\ n \in Nzo
  BY <1>0, <1>1 DEF SameAlong, SameOn
<1>6. CASE w = o
  <2>1. Entries(Push(n, s), other2, value2) =
           Push(<<other2[n], value2[n]>>, Entries(s, other, value))
    BY <1>1, <1>5, EntriesPush
  <2> QED
    BY <2>1, <1>4, <1>6
<1>7. CASE w # o
  <2>1. Entries(s, other2, value2) = Entries(s, other, value)
    BY <1>5, EntriesSame
  <2> QED
    BY <2>1, <1>4, <1>7
<1> QED
  BY <1>6, <1>7

\* The heads without n, and the links of the structs that stay.
UnlinkFirst(first, owner, nx, n) ==
  IF n = first[owner[n]] THEN [first EXCEPT ![owner[n]] = nx[n]] ELSE first

UnlinksTo(nx2, L, nx, pv, n) == \A m \in L \ {n} : nx2[m] = UnlinkNext(nx, pv, n)[m]

\* The place of n in the list s is the place e2 lacks of e.
DropsOne(s, n, e, e2) ==
  \E i \in 1 .. Len(s) : s[i] = n /\ e2 = Matrix!RemoveAt(e, i)

\* The entries of a list after lps_delnzo: the list of the owner of n loses n,
\* the others stay.
DropStep(L, n, O, owners, owner, first, nx, pv, first2, nx2) ==
  /\ L \in SUBSET Nzo /\ n \in L /\ owners \in SUBSET O
  /\ first \in [O -> Ptr(Nzo)]
  /\ nx \in [Nzo -> Ptr(Nzo)] /\ pv \in [Nzo -> Ptr(Nzo)]
  /\ LinkedOK(L, owner, first, nx, pv, owners)
  /\ first2 = UnlinkFirst(first, owner, nx, n)
  /\ nx2 \in [Nzo -> Ptr(Nzo)] /\ UnlinksTo(nx2, L, nx, pv, n)

LEMMA DroppedEntries ==
  ASSUME NEW L, NEW n, NEW O, NEW owners, NEW owner, NEW first, NEW nx, NEW pv,
         NEW first2, NEW nx2,
         DropStep(L, n, O, owners, owner, first, nx, pv, first2, nx2),
         NEW w \in owners,
         NEW s, ChainOf(s, Owned(L, owner, w), first[w], nx),
         NEW t, IsChain(t, first2[w], nx2),
         NEW other, NEW value
  PROVE  /\ w # owner[n] => Entries(t, other, value) = Entries(s, other, value)
         /\ w = owner[n] =>
               DropsOne(s, n, Entries(s, other, value), Entries(t, other, value))
<1>0. /\ L \in SUBSET Nzo /\ n \in L /\ owners \in SUBSET O
      /\ first \in [O -> Ptr(Nzo)]
      /\ nx \in [Nzo -> Ptr(Nzo)] /\ pv \in [Nzo -> Ptr(Nzo)]
      /\ LinkedOK(L, owner, first, nx, pv, owners)
      /\ first2 = UnlinkFirst(first, owner, nx, n)
      /\ nx2 \in [Nzo -> Ptr(Nzo)] /\ UnlinksTo(nx2, L, nx, pv, n)
  BY DEF DropStep
<1>1. /\ s \in Seq(Nzo) /\ Len(s) \in Nat
      /\ first[w] = IF Len(s) = 0 THEN NULL ELSE s[1]
      /\ \A i \in 1 .. Len(s) : nx[s[i]] = IF i = Len(s) THEN NULL ELSE s[i + 1]
      /\ IsChain(s, first[w], nx)
  BY DEF ChainOf, IsChain
<1>2. /\ \A i \in 1 .. Len(s) : s[i] \in L /\ owner[s[i]] = w
      /\ w = owner[n] => \E i \in 1 .. Len(s) : s[i] = n
      /\ \A i, j \in 1 .. Len(s) : s[i] = s[j] => i = j
  <2>1. /\ {s[i] : i \in 1 .. Len(s)} = Owned(L, owner, w)
        /\ \A i, j \in 1 .. Len(s) : s[i] = s[j] => i = j
    BY DEF ChainOf
  <2>2. \A m : m \in Owned(L, owner, w) <=> m \in L /\ owner[m] = w
    BY DEF Owned
  <2>3. \A i \in 1 .. Len(s) : s[i] \in Owned(L, owner, w)
    BY <2>1
  <2>4. w = owner[n] => n \in {s[i] : i \in 1 .. Len(s)}
    BY <1>0, <2>1, <2>2
  <2> QED
    BY <2>1, <2>2, <2>3, <2>4
<1>3. \A m \in L : m # n => nx2[m] = IF m = pv[n] THEN nx[n] ELSE nx[m]
  BY <1>0 DEF UnlinkNext, UnlinksTo
<1>4. /\ owner[n] \in owners
      /\ pv[n] # NULL => pv[n] \in L /\ nx[pv[n]] = n /\ owner[pv[n]] = owner[n]
      /\ \A m \in L : nx[m] = n => m = pv[n]
      /\ n # NULL /\ \A m \in L : m # NULL
  BY <1>0, LpStoreAssumption DEF LinkedOK
<1>5. ASSUME w # owner[n] PROVE IsChain(s, first2[w], nx2)
  <2>1. first2[w] = first[w]
    BY <1>0, <1>5, <1>4 DEF UnlinkFirst
  <2>2. \A i \in 1 .. Len(s) : nx2[s[i]] = nx[s[i]]
    BY <1>5, <1>2, <1>3, <1>4
  <2> QED
    BY <2>1, <2>2, <1>1, ChainSame
<1>6. ASSUME w = owner[n]
      PROVE  \E i \in 1 .. Len(s) :
                s[i] = n /\ IsChain(Matrix!RemoveAt(s, i), first2[w], nx2)
  <2>1. PICK i \in 1 .. Len(s) : s[i] = n
    BY <1>0, <1>2, <1>6
  <2>2. n = first[w] <=> i = 1
    BY <1>0, <2>1, <1>1, <1>2
  <2>3. first2[w] = IF i = 1 THEN nx[s[i]] ELSE first[w]
    BY <1>0, <2>1, <2>2, <1>4, <1>6 DEF UnlinkFirst
  <2>4. ASSUME NEW j \in 1 .. Len(s), j # i
        PROVE  nx2[s[j]] = IF j = i - 1 THEN nx[s[i]] ELSE nx[s[j]]
    <3>1. s[j] # n /\ s[j] \in L
      BY <2>1, <2>4, <1>2
    <3>2. s[j] = pv[n] <=> nx[s[j]] = n
      BY <3>1, <1>4
    <3>3. nx[s[j]] = n => j # Len(s) /\ s[j + 1] = s[i] /\ j + 1 \in 1 .. Len(s)
      BY <1>0, <2>1, <1>1, <1>4
    <3>4. nx[s[j]] = n => j = i - 1
      BY <3>3, <1>2
    <3>5. j = i - 1 => j # Len(s) /\ j + 1 = i /\ nx[s[j]] = n
      BY <2>1, <1>1
    <3> QED
      BY <2>1, <3>1, <3>2, <3>4, <3>5, <1>3
  <2>5. IsChain(Matrix!RemoveAt(s, i), first2[w], nx2)
    BY <2>3, <2>4, <1>1, ChainDrop
  <2> QED
    BY <2>1, <2>5
<1>7. CASE w # owner[n]
  BY <1>1, <1>5, <1>7, ChainUnique, <1>0
<1>8. CASE w = owner[n]
  <2>1. PICK i \in 1 .. Len(s) : s[i] = n /\ IsChain(Matrix!RemoveAt(s, i), first2[w], nx2)
    BY <1>6, <1>8
  <2>2. t = Matrix!RemoveAt(s, i)
    BY <2>1, ChainUnique, <1>0
  <2>3. Entries(t, other, value) = Matrix!RemoveAt(Entries(s, other, value), i)
    BY <1>1, <2>2, EntriesDrop
  <2> QED
    BY <2>1, <2>3, <1>8 DEF DropsOne
<1> QED
  BY <1>7, <1>8

\* The column and the row lists of a state.
ColumnList(v) == Walk(var_first[v], var_next, Cardinality(live))
RowList(c) == Walk(con_first[c], con_next, Cardinality(live))

Readable ==
  /\ TypeOK
  /\ LinkedOK(live, nzo_var, var_first, var_next, var_prev, vars)
  /\ LinkedOK(live, nzo_con, con_first, con_next, con_prev, cons)
  /\ \A v \in vars :
        ChainOf(ColumnList(v), Owned(live, nzo_var, v), var_first[v], var_next)
  /\ \A c \in cons :
        ChainOf(RowList(c), Owned(live, nzo_con, c), con_first[c], con_next)

LEMMA StoreReadable == StoreOK => Readable
<1> SUFFICES ASSUME StoreOK PROVE Readable
  OBVIOUS
<1>1. StoreFacts
  BY StoreTypes
<1>2. \A v \in vars :
         ChainOf(ColumnList(v), Owned(live, nzo_var, v), var_first[v], var_next)
  BY <1>1, ListWalk DEF StoreFacts, ColumnList
<1>3. \A c \in cons :
         ChainOf(RowList(c), Owned(live, nzo_con, c), con_first[c], con_next)
  BY <1>1, ListWalk DEF StoreFacts, RowList
<1> QED
  BY <1>1, <1>2, <1>3 DEF Readable, StoreFacts, StoreOK, ListsOK

Columns == [v \in vars |-> Entries(ColumnList(v), nzo_con, nzo_value)]
Rows == [c \in cons |-> Entries(RowList(c), nzo_var, nzo_value)]

LEMMA MatrixRead == column = Columns /\ row = Rows
BY DEF column, row, Columns, Rows, EntriesOf, Entries, ColumnList, RowList

\* A list without a head is empty.
LEMMA NoList ==
  ASSUME NEW s, NEW A, NEW first, first = NULL, NEW nx, ChainOf(s, A, first, nx),
         NEW other, NEW value
  PROVE  Entries(s, other, value) = <<>>
<1>1. s \in Seq(Nzo) /\ (Len(s) # 0 => s[1] = NULL)
  BY DEF ChainOf, IsChain
<1>2. Len(s) = 0
  BY <1>1, LpStoreAssumption
<1>3. s = <<>>
  BY <1>1, <1>2, EmptySeq
<1> QED
  BY <1>3 DEF Entries

LEMMA StepAddVar ==
  ASSUME Readable, Readable', NEW v \in Var, lps_addvar(v)
  PROVE  Columns' = [w \in vars \cup {v} |-> IF w = v THEN <<>> ELSE Columns[w]]
         /\ Rows' = Rows /\ v \notin vars
<1>1. /\ v \notin vars /\ vars' = vars \cup {v}
      /\ var_first' = [var_first EXCEPT ![v] = NULL]
      /\ cons' = cons /\ live' = live /\ var_next' = var_next /\ con_next' = con_next
      /\ con_first' = con_first /\ nzo_con' = nzo_con /\ nzo_value' = nzo_value
      /\ nzo_var' = nzo_var
  BY DEF lps_addvar, links
<1>2. Rows' = Rows
  BY <1>1 DEF Rows, RowList
<1>3. \A w \in vars : ColumnList(w)' = ColumnList(w)
  BY <1>1 DEF Readable, TypeOK, ColumnList
<1>4. Entries(ColumnList(v)', nzo_con', nzo_value') = <<>>
  <2>1. ChainOf(ColumnList(v)', Owned(live', nzo_var', v), var_first'[v], var_next')
    BY <1>1 DEF Readable
  <2>2. var_first'[v] = NULL
    BY <1>1 DEF Readable, TypeOK
  <2> QED
    BY <2>1, <2>2, NoList
<1>5. Columns' = [w \in vars \cup {v} |-> Entries(ColumnList(w)', nzo_con', nzo_value')]
  BY <1>1 DEF Columns
<1>6. \A w \in vars : Columns[w] = Entries(ColumnList(w), nzo_con, nzo_value)
  BY DEF Columns
<1> QED
  BY <1>1, <1>2, <1>3, <1>4, <1>5, <1>6

LEMMA StepAddCon ==
  ASSUME Readable, Readable', NEW c \in Con, lps_addcon(c)
  PROVE  Rows' = [d \in cons \cup {c} |-> IF d = c THEN <<>> ELSE Rows[d]]
         /\ Columns' = Columns /\ c \notin cons
<1>1. /\ c \notin cons /\ cons' = cons \cup {c}
      /\ con_first' = [con_first EXCEPT ![c] = NULL]
      /\ vars' = vars /\ live' = live /\ var_next' = var_next /\ con_next' = con_next
      /\ var_first' = var_first /\ nzo_con' = nzo_con /\ nzo_value' = nzo_value
      /\ nzo_var' = nzo_var
  BY DEF lps_addcon, links
<1>2. Columns' = Columns
  BY <1>1 DEF Columns, ColumnList
<1>3. \A d \in cons : RowList(d)' = RowList(d)
  BY <1>1 DEF Readable, TypeOK, RowList
<1>4. Entries(RowList(c)', nzo_var', nzo_value') = <<>>
  <2>1. ChainOf(RowList(c)', Owned(live', nzo_con', c), con_first'[c], con_next')
    BY <1>1 DEF Readable
  <2>2. con_first'[c] = NULL
    BY <1>1 DEF Readable, TypeOK
  <2> QED
    BY <2>1, <2>2, NoList
<1>5. Rows' = [d \in cons \cup {c} |-> Entries(RowList(d)', nzo_var', nzo_value')]
  BY <1>1 DEF Rows
<1>6. \A d \in cons : Rows[d] = Entries(RowList(d), nzo_var, nzo_value)
  BY DEF Rows
<1> QED
  BY <1>1, <1>2, <1>3, <1>4, <1>5, <1>6

LEMMA StepAddNzo ==
  ASSUME ListsOK, Readable, Readable',
         NEW c \in Con, NEW v \in Var, NEW x \in Value, lps_addnzo(c, v, x)
  PROVE  /\ v \in vars /\ c \in cons
         /\ Columns' = [Columns EXCEPT ![v] = <<<<c, x>>>> \o @]
         /\ Rows' = [Rows EXCEPT ![c] = <<<<v, x>>>> \o @]
<1>1. PICK n \in Nzo \ live, vn \in [Nzo -> Ptr(Nzo)] :
         /\ live' = live \cup {n}
         /\ nzo_var' = [nzo_var EXCEPT ![n] = v]
         /\ nzo_con' = [nzo_con EXCEPT ![n] = c]
         /\ nzo_value' = [nzo_value EXCEPT ![n] = x]
         /\ var_first' = [var_first EXCEPT ![v] = n]
         /\ con_first' = [con_first EXCEPT ![c] = n]
         /\ \A m \in live : vn[m] = var_next[m]
         /\ var_next' = PushNext(vn, n, var_first[v])
         /\ con_next' = PushNext(con_next, n, con_first[c])
         /\ v \in vars /\ c \in cons /\ vars' = vars /\ cons' = cons
  BY TakesUnused
<1>2. /\ live \in SUBSET Nzo /\ vars \in SUBSET Var /\ cons \in SUBSET Con
      /\ var_first \in [Var -> Ptr(Nzo)] /\ con_first \in [Con -> Ptr(Nzo)]
      /\ var_next \in [Nzo -> Ptr(Nzo)] /\ con_next \in [Nzo -> Ptr(Nzo)]
      /\ var_next' \in [Nzo -> Ptr(Nzo)] /\ con_next' \in [Nzo -> Ptr(Nzo)]
      /\ nzo_var \in [Nzo -> Ptr(Var)] /\ nzo_con \in [Nzo -> Ptr(Con)]
      /\ nzo_value \in [Nzo -> Ptr(Value)]
  BY DEF Readable, TypeOK
<1>3. /\ \A m \in live : /\ nzo_var'[m] = nzo_var[m] /\ nzo_con'[m] = nzo_con[m]
                         /\ nzo_value'[m] = nzo_value[m]
      /\ nzo_var'[n] = v /\ nzo_con'[n] = c /\ nzo_value'[n] = x
  BY <1>1, <1>2
<1>4. ASSUME NEW w \in vars
      PROVE  Entries(ColumnList(w)', nzo_con', nzo_value') =
                IF w = v THEN <<<<c, x>>>> \o Columns[w] ELSE Columns[w]
  <2> DEFINE s == ColumnList(w)
             t == ColumnList(w)'
  <2>1. Columns[w] = Entries(s, nzo_con, nzo_value)
    BY DEF Columns
  <2>2. ChainOf(s, Owned(live, nzo_var, w), var_first[w], var_next)
    BY DEF Readable
  <2>3. IsChain(t, var_first'[w], var_next')
    BY <1>1 DEF Readable, ChainOf
  <2> HIDE DEF s, t
  <2> DEFINE first2 == var_first'
             nx2 == var_next'
             other2 == nzo_con'
             value2 == nzo_value'
  <2>4. PushStep(live, n, Var, vars, v, var_first, var_next, vn, first2, nx2)
    BY <1>1, <1>2 DEF PushStep, SameOn
  <2>6. SameOn(live, other2, nzo_con) /\ SameOn(live, value2, nzo_value)
    BY <1>3 DEF SameOn
  <2>7. IsChain(t, first2[w], nx2)
    BY <2>3
  <2> HIDE DEF first2, nx2, other2, value2
  <2>5. Entries(t, other2, value2) =
           IF w = v THEN Push(<<other2[n], value2[n]>>, Entries(s, nzo_con, nzo_value))
                    ELSE Entries(s, nzo_con, nzo_value)
    BY <2>2, <2>4, <2>6, <2>7, PushedEntries
  <2> QED
    BY <1>3, <2>1, <2>5 DEF Push, t, other2, value2
<1>5. ASSUME NEW d \in cons
      PROVE  Entries(RowList(d)', nzo_var', nzo_value') =
                IF d = c THEN <<<<v, x>>>> \o Rows[d] ELSE Rows[d]
  <2> DEFINE s == RowList(d)
             t == RowList(d)'
  <2>1. Rows[d] = Entries(s, nzo_var, nzo_value)
    BY DEF Rows
  <2>2. ChainOf(s, Owned(live, nzo_con, d), con_first[d], con_next)
    BY DEF Readable
  <2>3. IsChain(t, con_first'[d], con_next')
    BY <1>1 DEF Readable, ChainOf
  <2> HIDE DEF s, t
  <2> DEFINE first2 == con_first'
             nx2 == con_next'
             other2 == nzo_var'
             value2 == nzo_value'
  <2>4. PushStep(live, n, Con, cons, c, con_first, con_next, con_next, first2, nx2)
    BY <1>1, <1>2 DEF PushStep, SameOn
  <2>6. SameOn(live, other2, nzo_var) /\ SameOn(live, value2, nzo_value)
    BY <1>3 DEF SameOn
  <2>7. IsChain(t, first2[d], nx2)
    BY <2>3
  <2> HIDE DEF first2, nx2, other2, value2
  <2>5. Entries(t, other2, value2) =
           IF d = c THEN Push(<<other2[n], value2[n]>>, Entries(s, nzo_var, nzo_value))
                    ELSE Entries(s, nzo_var, nzo_value)
    BY <2>2, <2>4, <2>6, <2>7, PushedEntries
  <2> QED
    BY <1>3, <2>1, <2>5 DEF Push, t, other2, value2
<1>6. Columns' = [w \in vars |-> Entries(ColumnList(w)', nzo_con', nzo_value')]
  BY <1>1 DEF Columns
<1>7. Rows' = [d \in cons |-> Entries(RowList(d)', nzo_var', nzo_value')]
  BY <1>1 DEF Rows
<1>8. DOMAIN Columns = vars /\ DOMAIN Rows = cons
  BY DEF Columns, Rows
<1>9. Columns' = [Columns EXCEPT ![v] = <<<<c, x>>>> \o @]
  BY <1>1, <1>4, <1>6, <1>8 DEF Columns
<1>10. Rows' = [Rows EXCEPT ![c] = <<<<v, x>>>> \o @]
  BY <1>1, <1>5, <1>7, <1>8 DEF Rows
<1> QED
  BY <1>1, <1>9, <1>10

\* Entry i of column v and entry j of row c are the nonzero of value y.
Located(v, c, i, j, y) ==
  /\ i \in DOMAIN Columns[v] /\ Columns[v][i] = <<c, y>>
  /\ j \in DOMAIN Rows[c] /\ Rows[c][j] = <<v, y>>

Without(F, v, i) == [F EXCEPT ![v] = Matrix!RemoveAt(@, i)]
Changed(F, v, i, e) == [F EXCEPT ![v][i] = e]

LEMMA StepDelNzo ==
  ASSUME Readable, Readable', NEW n \in Nzo, lps_delnzo(n)
  PROVE  \E v \in vars, c \in cons : \E i, j :
            /\ Located(v, c, i, j, nzo_value[n])
            /\ Columns' = Without(Columns, v, i) /\ Rows' = Without(Rows, c, j)
<1>1. /\ n \in live /\ live' = live \ {n} /\ vars' = vars /\ cons' = cons
      /\ nzo_var' = nzo_var /\ nzo_con' = nzo_con /\ nzo_value' = nzo_value
      /\ var_first' = UnlinkFirst(var_first, nzo_var, var_next, n)
      /\ con_first' = UnlinkFirst(con_first, nzo_con, con_next, n)
      /\ var_next' = [UnlinkNext(var_next, var_prev, n) EXCEPT ![n] = next]
      /\ con_next' = UnlinkNext(con_next, con_prev, n)
  BY DEF lps_delnzo, UnlinkFirst
<1>2. /\ live \in SUBSET Nzo /\ vars \in SUBSET Var /\ cons \in SUBSET Con
      /\ var_first \in [Var -> Ptr(Nzo)] /\ con_first \in [Con -> Ptr(Nzo)]
      /\ var_next \in [Nzo -> Ptr(Nzo)] /\ con_next \in [Nzo -> Ptr(Nzo)]
      /\ var_prev \in [Nzo -> Ptr(Nzo)] /\ con_prev \in [Nzo -> Ptr(Nzo)]
      /\ var_next' \in [Nzo -> Ptr(Nzo)] /\ con_next' \in [Nzo -> Ptr(Nzo)]
      /\ LinkedOK(live, nzo_var, var_first, var_next, var_prev, vars)
      /\ LinkedOK(live, nzo_con, con_first, con_next, con_prev, cons)
  BY DEF Readable, TypeOK
<1>3. PICK v \in vars, c \in cons : v = nzo_var[n] /\ c = nzo_con[n]
  BY <1>1, <1>2 DEF LinkedOK
<1>4. UnlinksTo(var_next', live, var_next, var_prev, n)
  BY <1>1, <1>2 DEF UnlinksTo, UnlinkNext
<1>5. UnlinksTo(con_next', live, con_next, con_prev, n)
  BY <1>1 DEF UnlinksTo
<1>6. ASSUME NEW w \in vars
      PROVE  LET e2 == Entries(ColumnList(w)', nzo_con, nzo_value)
             IN  /\ w # v => e2 = Columns[w]
                 /\ w = v => DropsOne(ColumnList(w), n, Columns[w], e2)
  <2> DEFINE s == ColumnList(w)
             t == ColumnList(w)'
  <2>1. Columns[w] = Entries(s, nzo_con, nzo_value)
    BY DEF Columns
  <2>2. ChainOf(s, Owned(live, nzo_var, w), var_first[w], var_next)
    BY DEF Readable
  <2>3. IsChain(t, var_first'[w], var_next')
    BY <1>1 DEF Readable, ChainOf
  <2> HIDE DEF s, t
  <2> DEFINE first2 == var_first'
             nx2 == var_next'
  <2>4. DropStep(live, n, Var, vars, nzo_var, var_first, var_next, var_prev, first2, nx2)
    BY <1>1, <1>2, <1>4 DEF DropStep
  <2>6. IsChain(t, first2[w], nx2)
    BY <2>3
  <2> HIDE DEF first2, nx2
  <2>5. /\ w # nzo_var[n] =>
              Entries(t, nzo_con, nzo_value) = Entries(s, nzo_con, nzo_value)
        /\ w = nzo_var[n] =>
              DropsOne(s, n, Entries(s, nzo_con, nzo_value), Entries(t, nzo_con, nzo_value))
    BY <2>2, <2>4, <2>6, DroppedEntries
  <2> QED
    BY <1>3, <2>1, <2>5 DEF s, t
<1>7. ASSUME NEW d \in cons
      PROVE  LET e2 == Entries(RowList(d)', nzo_var, nzo_value)
             IN  /\ d # c => e2 = Rows[d]
                 /\ d = c => DropsOne(RowList(d), n, Rows[d], e2)
  <2> DEFINE s == RowList(d)
             t == RowList(d)'
  <2>1. Rows[d] = Entries(s, nzo_var, nzo_value)
    BY DEF Rows
  <2>2. ChainOf(s, Owned(live, nzo_con, d), con_first[d], con_next)
    BY DEF Readable
  <2>3. IsChain(t, con_first'[d], con_next')
    BY <1>1 DEF Readable, ChainOf
  <2> HIDE DEF s, t
  <2> DEFINE first2 == con_first'
             nx2 == con_next'
  <2>4. DropStep(live, n, Con, cons, nzo_con, con_first, con_next, con_prev, first2, nx2)
    BY <1>1, <1>2, <1>5 DEF DropStep
  <2>6. IsChain(t, first2[d], nx2)
    BY <2>3
  <2> HIDE DEF first2, nx2
  <2>5. /\ d # nzo_con[n] =>
              Entries(t, nzo_var, nzo_value) = Entries(s, nzo_var, nzo_value)
        /\ d = nzo_con[n] =>
              DropsOne(s, n, Entries(s, nzo_var, nzo_value), Entries(t, nzo_var, nzo_value))
    BY <2>2, <2>4, <2>6, DroppedEntries
  <2> QED
    BY <1>3, <2>1, <2>5 DEF s, t
<1>8. PICK i \in 1 .. Len(ColumnList(v)) :
         /\ ColumnList(v)[i] = n
         /\ Entries(ColumnList(v)', nzo_con, nzo_value) = Matrix!RemoveAt(Columns[v], i)
  BY <1>3, <1>6 DEF DropsOne
<1>9. PICK j \in 1 .. Len(RowList(c)) :
         /\ RowList(c)[j] = n
         /\ Entries(RowList(c)', nzo_var, nzo_value) = Matrix!RemoveAt(Rows[c], j)
  BY <1>3, <1>7 DEF DropsOne
<1>10. /\ i \in DOMAIN Columns[v] /\ Columns[v][i] = <<c, nzo_value[n]>>
       /\ j \in DOMAIN Rows[c] /\ Rows[c][j] = <<v, nzo_value[n]>>
  <2>1. ColumnList(v) \in Seq(Nzo) /\ RowList(c) \in Seq(Nzo)
    BY <1>3 DEF Readable, ChainOf, IsChain
  <2>2. Columns[v] = Entries(ColumnList(v), nzo_con, nzo_value)
        /\ Rows[c] = Entries(RowList(c), nzo_var, nzo_value)
    BY <1>3 DEF Columns, Rows
  <2>3. i \in DOMAIN Columns[v] /\ Columns[v][i] = <<c, nzo_value[n]>>
    BY <2>1, <2>2, <1>3, <1>8 DEF Entries
  <2>4. j \in DOMAIN Rows[c] /\ Rows[c][j] = <<v, nzo_value[n]>>
    BY <2>1, <2>2, <1>3, <1>9 DEF Entries
  <2> QED
    BY <2>3, <2>4
<1>11. Columns' = [w \in vars |-> Entries(ColumnList(w)', nzo_con, nzo_value)]
  BY <1>1 DEF Columns
<1>12. Rows' = [d \in cons |-> Entries(RowList(d)', nzo_var, nzo_value)]
  BY <1>1 DEF Rows
<1>13. /\ Columns = [w \in vars |-> Columns[w]]
       /\ Rows = [d \in cons |-> Rows[d]]
  BY DEF Columns, Rows
<1>14. Columns' = Without(Columns, v, i)
  BY <1>3, <1>6, <1>8, <1>11, <1>13 DEF Without
<1>15. Rows' = Without(Rows, c, j)
  BY <1>3, <1>7, <1>9, <1>12, <1>13 DEF Without
<1> QED
  BY <1>10, <1>14, <1>15 DEF Located

LEMMA StepSetVal ==
  ASSUME Readable, NEW n \in Nzo, NEW x \in Value, lps_setval(n, x)
  PROVE  \E v \in vars, c \in cons : \E i, j :
            /\ Located(v, c, i, j, nzo_value[n])
            /\ Columns' = Changed(Columns, v, i, <<c, x>>)
            /\ Rows' = Changed(Rows, c, j, <<v, x>>)
<1>1. /\ n \in live /\ nzo_value' = [nzo_value EXCEPT ![n] = x]
      /\ UNCHANGED <<live, vars, cons, nzo_var, nzo_con,
                     var_first, con_first, var_next, con_next>>
  BY DEF lps_setval, links, heads
<1>2. /\ nzo_value'[n] = x /\ \A m \in Nzo \ {n} : nzo_value'[m] = nzo_value[m]
      /\ nzo_var[n] \in vars /\ nzo_con[n] \in cons /\ live \in SUBSET Nzo
  BY <1>1 DEF Readable, TypeOK, LinkedOK
<1>0. PICK v \in vars, c \in cons : v = nzo_var[n] /\ c = nzo_con[n]
  BY <1>2
<1>3. ASSUME NEW w \in vars
      PROVE  /\ ColumnList(w)' = ColumnList(w) /\ ColumnList(w) \in Seq(Nzo)
             /\ \A i, j \in 1 .. Len(ColumnList(w)) :
                   ColumnList(w)[i] = ColumnList(w)[j] => i = j
             /\ w # v => \A i \in 1 .. Len(ColumnList(w)) : ColumnList(w)[i] # n
             /\ w = v => \E i \in 1 .. Len(ColumnList(w)) : ColumnList(w)[i] = n
  <2> DEFINE s == ColumnList(w)
  <2>1. ColumnList(w)' = s
    BY <1>1 DEF ColumnList
  <2>2. ChainOf(s, Owned(live, nzo_var, w), var_first[w], var_next)
    BY DEF Readable
  <2> HIDE DEF s
  <2>3. n \in Owned(live, nzo_var, w) <=> w = v
    BY <1>0, <1>1 DEF Owned
  <2>4. n \in {s[i] : i \in 1 .. Len(s)} <=> w = v
    BY <2>2, <2>3 DEF ChainOf
  <2>5. s \in Seq(Nzo) /\ \A i, j \in 1 .. Len(s) : s[i] = s[j] => i = j
    BY <2>2 DEF ChainOf, IsChain
  <2> QED
    BY <2>1, <2>4, <2>5 DEF s
<1>4. ASSUME NEW d \in cons
      PROVE  /\ RowList(d)' = RowList(d) /\ RowList(d) \in Seq(Nzo)
             /\ \A i, j \in 1 .. Len(RowList(d)) : RowList(d)[i] = RowList(d)[j] => i = j
             /\ d # c => \A i \in 1 .. Len(RowList(d)) : RowList(d)[i] # n
             /\ d = c => \E i \in 1 .. Len(RowList(d)) : RowList(d)[i] = n
  <2> DEFINE s == RowList(d)
  <2>1. RowList(d)' = s
    BY <1>1 DEF RowList
  <2>2. ChainOf(s, Owned(live, nzo_con, d), con_first[d], con_next)
    BY DEF Readable
  <2> HIDE DEF s
  <2>3. n \in Owned(live, nzo_con, d) <=> d = c
    BY <1>0, <1>1 DEF Owned
  <2>4. n \in {s[i] : i \in 1 .. Len(s)} <=> d = c
    BY <2>2, <2>3 DEF ChainOf
  <2>5. s \in Seq(Nzo) /\ \A i, j \in 1 .. Len(s) : s[i] = s[j] => i = j
    BY <2>2 DEF ChainOf, IsChain
  <2> QED
    BY <2>1, <2>4, <2>5 DEF s
<1>5. PICK i \in 1 .. Len(ColumnList(v)) : ColumnList(v)[i] = n
  BY <1>2, <1>3
<1>6. PICK j \in 1 .. Len(RowList(c)) : RowList(c)[j] = n
  BY <1>2, <1>4
<1>7. ASSUME NEW w \in vars
      PROVE  Entries(ColumnList(w)', nzo_con', nzo_value') =
                IF w = v THEN [Columns[w] EXCEPT ![i] = <<c, x>>] ELSE Columns[w]
  <2> DEFINE s == ColumnList(w)
  <2>1. DOMAIN s = 1 .. Len(s) /\ \A k \in 1 .. Len(s) : s[k] \in Nzo
    BY <1>3
  <2>2. nzo_con' = nzo_con /\ ColumnList(w)' = s
    BY <1>1, <1>3
  <2>3. Columns[w] = [k \in 1 .. Len(s) |-> <<nzo_con[s[k]], nzo_value[s[k]]>>]
    BY <2>1 DEF Columns, Entries
  <2>4. Entries(ColumnList(w)', nzo_con', nzo_value') =
           [k \in 1 .. Len(s) |-> <<nzo_con[s[k]], nzo_value'[s[k]]>>]
    BY <2>1, <2>2 DEF Entries
  <2>5. CASE w # v
    <3>1. \A k \in 1 .. Len(s) : nzo_value'[s[k]] = nzo_value[s[k]]
      BY <2>1, <2>5, <1>2, <1>3
    <3> HIDE DEF s
    <3> QED
      BY <2>3, <2>4, <2>5, <3>1
  <2>6. CASE w = v
    <3>1. i \in 1 .. Len(s) /\ s[i] = n /\ nzo_con[n] = c
      BY <2>6, <1>5, <1>0
    <3>2. \A k \in 1 .. Len(s) : k # i => s[k] # n
      BY <2>6, <3>1, <1>3
    <3>3. /\ nzo_value'[s[i]] = x
          /\ \A k \in 1 .. Len(s) : k # i => nzo_value'[s[k]] = nzo_value[s[k]]
      BY <3>1, <3>2, <2>1, <1>2
    <3> HIDE DEF s
    <3>4. [Columns[w] EXCEPT ![i] = <<c, x>>] =
             [k \in 1 .. Len(s) |-> IF k = i THEN <<c, x>>
                                    ELSE <<nzo_con[s[k]], nzo_value[s[k]]>>]
      BY <2>3, <3>1
    <3>5. [k \in 1 .. Len(s) |-> <<nzo_con[s[k]], nzo_value'[s[k]]>>] =
             [k \in 1 .. Len(s) |-> IF k = i THEN <<c, x>>
                                    ELSE <<nzo_con[s[k]], nzo_value[s[k]]>>]
      BY <3>1, <3>3
    <3> QED
      BY <2>4, <2>6, <3>4, <3>5
  <2> QED
    BY <2>5, <2>6
<1>8. ASSUME NEW d \in cons
      PROVE  Entries(RowList(d)', nzo_var', nzo_value') =
                IF d = c THEN [Rows[d] EXCEPT ![j] = <<v, x>>] ELSE Rows[d]
  <2> DEFINE s == RowList(d)
  <2>1. DOMAIN s = 1 .. Len(s) /\ \A k \in 1 .. Len(s) : s[k] \in Nzo
    BY <1>4
  <2>2. nzo_var' = nzo_var /\ RowList(d)' = s
    BY <1>1, <1>4
  <2>3. Rows[d] = [k \in 1 .. Len(s) |-> <<nzo_var[s[k]], nzo_value[s[k]]>>]
    BY <2>1 DEF Rows, Entries
  <2>4. Entries(RowList(d)', nzo_var', nzo_value') =
           [k \in 1 .. Len(s) |-> <<nzo_var[s[k]], nzo_value'[s[k]]>>]
    BY <2>1, <2>2 DEF Entries
  <2>5. CASE d # c
    <3>1. \A k \in 1 .. Len(s) : nzo_value'[s[k]] = nzo_value[s[k]]
      BY <2>1, <2>5, <1>2, <1>4
    <3> HIDE DEF s
    <3> QED
      BY <2>3, <2>4, <2>5, <3>1
  <2>6. CASE d = c
    <3>1. j \in 1 .. Len(s) /\ s[j] = n /\ nzo_var[n] = v
      BY <2>6, <1>6, <1>0
    <3>2. \A k \in 1 .. Len(s) : k # j => s[k] # n
      BY <2>6, <3>1, <1>4
    <3>3. /\ nzo_value'[s[j]] = x
          /\ \A k \in 1 .. Len(s) : k # j => nzo_value'[s[k]] = nzo_value[s[k]]
      BY <3>1, <3>2, <2>1, <1>2
    <3> HIDE DEF s
    <3>4. [Rows[d] EXCEPT ![j] = <<v, x>>] =
             [k \in 1 .. Len(s) |-> IF k = j THEN <<v, x>>
                                    ELSE <<nzo_var[s[k]], nzo_value[s[k]]>>]
      BY <2>3, <3>1
    <3>5. [k \in 1 .. Len(s) |-> <<nzo_var[s[k]], nzo_value'[s[k]]>>] =
             [k \in 1 .. Len(s) |-> IF k = j THEN <<v, x>>
                                    ELSE <<nzo_var[s[k]], nzo_value[s[k]]>>]
      BY <3>1, <3>3
    <3> QED
      BY <2>4, <2>6, <3>4, <3>5
  <2> QED
    BY <2>5, <2>6
<1>9. /\ i \in DOMAIN Columns[v] /\ Columns[v][i] = <<c, nzo_value[n]>>
      /\ j \in DOMAIN Rows[c] /\ Rows[c][j] = <<v, nzo_value[n]>>
  BY <1>0, <1>3, <1>4, <1>5, <1>6 DEF Columns, Rows, Entries
<1>10. Columns' = [w \in vars |-> Entries(ColumnList(w)', nzo_con', nzo_value')]
  BY <1>1 DEF Columns
<1>11. Rows' = [d \in cons |-> Entries(RowList(d)', nzo_var', nzo_value')]
  BY <1>1 DEF Rows
<1>12. /\ Columns = [w \in vars |-> Columns[w]]
       /\ Rows = [d \in cons |-> Rows[d]]
  BY DEF Columns, Rows
<1>13. Columns' = Changed(Columns, v, i, <<c, x>>)
  BY <1>7, <1>10, <1>12 DEF Changed
<1>14. Rows' = Changed(Rows, c, j, <<v, x>>)
  BY <1>8, <1>11, <1>12 DEF Changed
<1> QED
  BY <1>9, <1>13, <1>14 DEF Located

\* The structs, links and counters of ratlpstore.c implement a matrix of plain
\* columns and rows (LpMatrix): each operation makes the one change it is for,
\* to one column and to one row, and the two stay two views of one matrix.
THEOREM ImplementsMatrix == Spec => MatrixSpec
<1>1. Init => Matrix!Init
  <2> SUFFICES ASSUME Init PROVE Matrix!Init
    OBVIOUS
  <2>1. vars = {} /\ cons = {}
    BY DEF Init
  <2> QED
    BY <2>1 DEF Matrix!Init, column, row
<1>2. ASSUME ListsOK, Readable, Readable', [Next]_vars_
      PROVE  [Matrix!Next]_<<column, row>>
  <2>0. /\ column = Columns /\ row = Rows /\ column' = Columns' /\ row' = Rows'
        /\ DOMAIN column = vars /\ DOMAIN row = cons
    BY MatrixRead DEF column, row, Columns, Rows, EntriesOf, Entries, ColumnList, RowList
  <2>1. ASSUME NEW v \in Var, lps_addvar(v) PROVE Matrix!Next
    BY <1>2, <2>0, <2>1, StepAddVar DEF Matrix!Next, Matrix!AddVar
  <2>2. ASSUME NEW c \in Con, lps_addcon(c) PROVE Matrix!Next
    BY <1>2, <2>0, <2>2, StepAddCon DEF Matrix!Next, Matrix!AddCon
  <2>3. ASSUME NEW c \in Con, NEW v \in Var, NEW x \in Value, lps_addnzo(c, v, x)
        PROVE  Matrix!Next
    <3>1. /\ v \in vars /\ c \in cons
          /\ Columns' = [Columns EXCEPT ![v] = <<<<c, x>>>> \o @]
          /\ Rows' = [Rows EXCEPT ![c] = <<<<v, x>>>> \o @]
      BY <1>2, <2>3, StepAddNzo
    <3>2. Matrix!AddEntry(c, v, x)
      BY <2>0, <3>1 DEF Matrix!AddEntry
    <3> QED
      BY <2>0, <3>1, <3>2 DEF Matrix!Next
  <2>4. ASSUME NEW n \in Nzo, lps_delnzo(n) PROVE Matrix!Next
    <3>0. PICK v \in vars, c \in cons : \E i, j :
             /\ Located(v, c, i, j, nzo_value[n])
             /\ Columns' = Without(Columns, v, i)
             /\ Rows' = Without(Rows, c, j)
      BY <1>2, <2>4, StepDelNzo
    <3>1. PICK i, j :
             /\ Located(v, c, i, j, nzo_value[n])
             /\ Columns' = Without(Columns, v, i)
             /\ Rows' = Without(Rows, c, j)
      BY <3>0
    <3>2. i \in DOMAIN column[v] /\ j \in DOMAIN row[c] /\ Matrix!Same(c, v, i, j)
      BY <2>0, <3>1 DEF Located, Matrix!Same
    <3>3. column' = [column EXCEPT ![v] = Matrix!RemoveAt(@, i)] /\ row' = [row EXCEPT ![c] = Matrix!RemoveAt(@, j)]
      BY <2>0, <3>1 DEF Without
    <3>4. Matrix!DelEntry(c, v)
      BY <3>2, <3>3 DEF Matrix!DelEntry
    <3> QED
      BY <2>0, <3>1, <3>4 DEF Matrix!Next
  <2>5. ASSUME NEW n \in Nzo, NEW x \in Value, lps_setval(n, x) PROVE Matrix!Next
    <3>0. PICK v \in vars, c \in cons : \E i, j :
             /\ Located(v, c, i, j, nzo_value[n])
             /\ Columns' = Changed(Columns, v, i, <<c, x>>)
             /\ Rows' = Changed(Rows, c, j, <<v, x>>)
      BY <1>2, <2>5, StepSetVal
    <3>1. PICK i, j :
             /\ Located(v, c, i, j, nzo_value[n])
             /\ Columns' = Changed(Columns, v, i, <<c, x>>)
             /\ Rows' = Changed(Rows, c, j, <<v, x>>)
      BY <3>0
    <3>2. i \in DOMAIN column[v] /\ j \in DOMAIN row[c] /\ Matrix!Same(c, v, i, j)
      BY <2>0, <3>1 DEF Located, Matrix!Same
    <3>3. column' = [column EXCEPT ![v][i] = <<c, x>>] /\ row' = [row EXCEPT ![c][j] = <<v, x>>]
      BY <2>0, <3>1 DEF Changed
    <3>4. Matrix!SetEntry(c, v, x)
      BY <3>2, <3>3 DEF Matrix!SetEntry
    <3> QED
      BY <2>0, <3>1, <3>4 DEF Matrix!Next
  <2>6. CASE UNCHANGED vars_
    BY <2>6 DEF vars_, links, heads, column, row, EntriesOf
  <2> QED
    BY <1>2, <2>1, <2>2, <2>3, <2>4, <2>5, <2>6 DEF Next
<1>3. StoreOK => ListsOK
  BY DEF StoreOK
<1> QED
  BY <1>1, <1>2, <1>3, StoreAlways, StoreReadable, PTL DEF Spec, MatrixSpec, Matrix!Spec
============================================================================
