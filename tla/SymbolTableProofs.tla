-------------------------- MODULE SymbolTableProofs --------------------------
(***************************************************************************)
(* Proofs about the symbols and the memory of a session.                   *)
(*                                                                         *)
(* The argument is a ledger.  Places lists everything that can hold a      *)
(* reference: the nodes of the program, the lists a statement builds, what *)
(* an error left in abandoned frames, the tables and defaults of the       *)
(* symbols.  Refs, TupRefs and CellCount add them up, and Sound says that  *)
(* the counts kept in memory are these sums.  The first parts prove that   *)
(* each operation on a memory keeps it Sound with one reference more or    *)
(* less; the later ones that every action moves the places in the same way.*)
(***************************************************************************)
EXTENDS Iteration, SequenceTheorems, SymbolTable, TLAPS

\* The stores of cells: numbers of free cells, of all cells, of the newest block, of cells counted.
Pool == [free : Nat, cells : Nat, block : Nat, count : Int]

\* A store with u cells in use, before of them lost by earlier sessions.
Good(p, u, before) == p \in Pool /\ Conserved(p, u, before)

\* Taking a free cell (numb_new, new_elem): one more in use, one more counted.
LEMMA PoolTaken ==
  ASSUME NEW p \in Pool, p.free > 0
  PROVE  /\ Taken(p) \in Pool /\ Taken(p).cells = p.cells /\ Taken(p).block = p.block
         /\ \A u \in Nat, b \in Int : Conserved(p, u, b) => Conserved(Taken(p), u + 1, b)
<1> DEFINE q == Taken(p)
<1>1. q = [free |-> p.free - 1, cells |-> p.cells, block |-> p.block, count |-> p.count + 1]
  BY DEF Taken
<1>2. p.free - 1 \in Nat /\ p.cells \in Nat /\ p.block \in Nat /\ p.count + 1 \in Int
  BY DEF Pool
<1>3. q \in Pool /\ q.free = p.free - 1 /\ q.cells = p.cells /\ q.block = p.block /\ q.count = p.count + 1
  <2> HIDE DEF q
  <2> QED BY <1>1, <1>2 DEF Pool
<1> HIDE DEF q
<1>4. \A u \in Nat, b \in Int : Conserved(p, u, b) => Conserved(q, u + 1, b)
  BY <1>3 DEF Conserved, Pool
<1> QED BY <1>3, <1>4 DEF q

\* extend_storage adds only free cells, and then there is one.
LEMMA PoolExtended ==
  ASSUME NEW p \in Pool, NEW size \in Nat \ {0}
  PROVE  /\ Extended(p, size) \in Pool /\ Extended(p, size).free > 0 /\ Extended(p, size).block = size
         /\ \A u \in Nat, b \in Int : Conserved(p, u, b) => Conserved(Extended(p, size), u, b)
BY DEF Pool, Conserved, Extended

\* A cell is drawn from any store, after growing it if it was empty.
LEMMA PoolCell ==
  ASSUME NEW p \in Pool, NEW size \in Nat \ {0}
  PROVE  /\ Cell(p, size) \in Pool
         /\ \A u \in Nat, b \in Int : Conserved(p, u, b) => Conserved(Cell(p, size), u + 1, b)
<1>1. CASE p.free = 0
  <2>1. Cell(p, size) = Taken(Extended(p, size)) BY <1>1 DEF Cell
  <2> QED BY <2>1, PoolTaken, PoolExtended
<1>2. CASE p.free # 0
  <2>1. Cell(p, size) = Taken(p) /\ p.free > 0 BY <1>2 DEF Cell, Pool
  <2> QED BY <2>1, PoolTaken
<1> QED BY <1>1, <1>2

\* A chain has blocks as soon as it has cells.
Chained(p) == p.cells # 0 => p.block # 0

\* blk_alloc: one more cell in use, whatever the chain of blocks has doubled to.
LEMMA PoolAlloc ==
  ASSUME NEW u \in Nat, NEW b \in Int, NEW p, Good(p, u, b), Chained(p)
  PROVE  Good(blk_alloc(p), u + 1, b) /\ Chained(blk_alloc(p))
<1>0. p \in Pool /\ Conserved(p, u, b) BY DEF Good
<1>1. CASE p.free = 0
  <2>1. PICK size \in Nat \ {0} : blk_alloc(p) = Taken(Extended(p, size))
    BY <1>0, <1>1, StoreSizes DEF blk_alloc, extend_memory, Chained, Pool
  <2>2. /\ Extended(p, size) \in Pool /\ Extended(p, size).free > 0 /\ Extended(p, size).block # 0
        /\ Conserved(Extended(p, size), u, b)
    BY <1>0, PoolExtended
  <2>3. /\ blk_alloc(p) \in Pool /\ blk_alloc(p).block # 0
        /\ Conserved(blk_alloc(p), u + 1, b)
    BY <2>1, <2>2, PoolTaken
  <2> QED BY <2>3 DEF Good, Chained
<1>2. CASE p.free # 0
  <2>1. blk_alloc(p) = Taken(p) /\ p.free > 0 BY <1>0, <1>2 DEF blk_alloc, Pool
  <2> QED BY <1>0, <2>1, PoolTaken DEF Good, Chained
<1> QED BY <1>1, <1>2

\* Cells go back to their store (blk_free, elem_free, numb_free).
LEMMA PoolReturned ==
  ASSUME NEW u \in Nat, NEW b \in Int, NEW p, Good(p, u, b), NEW n \in 0 .. u
  PROVE  Good(Returned(p, n), u - n, b) /\ Returned(p, n).cells = p.cells /\ Returned(p, n).block = p.block
<1> DEFINE q == Returned(p, n)
<1>1. q = [free |-> p.free + n, cells |-> p.cells, block |-> p.block, count |-> p.count - n]
  BY DEF Returned
<1>2. /\ p.free \in Nat /\ p.free + n \in Nat /\ p.cells \in Nat /\ p.block \in Nat
      /\ p.count \in Int /\ p.count - n \in Int
  BY DEF Pool, Good
<1>3. q \in Pool /\ q.free = p.free + n /\ q.cells = p.cells /\ q.block = p.block /\ q.count = p.count - n
  <2> HIDE DEF q
  <2> QED BY <1>1, <1>2 DEF Pool
<1> HIDE DEF q
<1>4. p.free + u = p.cells /\ p.count = u + b BY DEF Good, Conserved
<1>5. Conserved(q, u - n, b) BY <1>2, <1>3, <1>4 DEF Conserved
<1> QED BY <1>3, <1>5 DEF q, Good

\* Several cells in a row, as a tuple or numb_init draws them.
LEMMA PoolDrawn ==
  ASSUME NEW u \in Nat, NEW b \in Int, NEW p, Good(p, u, b), NEW size \in Nat \ {0}, NEW n \in Nat
  PROVE  Good(Drawn(p, size, n), u + n, b)
<1> DEFINE g == [q \in Pool |-> Cell(q, size)]
<1>1. p \in Pool /\ g \in [Pool -> Pool] BY PoolCell DEF Good
<1>2. PICK f : Repeats(f, Pool, p, g)
  <2> HIDE DEF g
  <2> QED BY <1>1, Repeated
<1>3. f \in [Nat -> Pool] /\ f[0] = p /\ \A k \in Nat : f[k + 1] = Cell(f[k], size)
  BY <1>2 DEF Repeats
<1>4. \E v : v = [k \in Nat |-> IF k = 0 THEN p ELSE Cell(v[k - 1], size)]
  <2>1. \A k \in Nat : f[k] = IF k = 0 THEN p ELSE Cell(f[k - 1], size)
    <3> SUFFICES ASSUME NEW k \in Nat, k # 0 PROVE f[k] = Cell(f[k - 1], size)
      BY <1>3
    <3>1. k - 1 \in Nat /\ (k - 1) + 1 = k OBVIOUS
    <3> QED BY <1>3, <3>1
  <2>2. f = [k \in Nat |-> f[k]] BY <1>3
  <2> QED BY <2>1, <2>2
<1> DEFINE after[k \in Nat] == IF k = 0 THEN p ELSE Cell(after[k - 1], size)
<1>5. after = [k \in Nat |-> IF k = 0 THEN p ELSE Cell(after[k - 1], size)]
  BY <1>4
<1>6. Drawn(p, size, n) = after[n] BY DEF Drawn
<1> HIDE DEF after
<1>7. after[0] = p /\ \A k \in Nat : after[k + 1] = Cell(after[k], size)
  <2>1. after[0] = p BY <1>5
  <2>2. ASSUME NEW k \in Nat PROVE after[k + 1] = Cell(after[k], size)
    <3>1. k + 1 \in Nat /\ k + 1 # 0 /\ (k + 1) - 1 = k OBVIOUS
    <3> QED BY <1>5, <3>1
  <2> QED BY <2>1, <2>2
<1> DEFINE N == {k \in Nat : Good(after[k], u + k, b)}
<1>8. 0 \in N BY <1>7
<1>9. ASSUME NEW k \in N PROVE k + 1 \in N
  <2>1. u + k \in Nat /\ after[k] \in Pool /\ Conserved(after[k], u + k, b) /\ k \in Nat
    BY DEF Good
  <2>2. Good(Cell(after[k], size), u + k + 1, b) BY <2>1, PoolCell DEF Good
  <2>3. u + (k + 1) = u + k + 1 /\ k + 1 \in Nat BY <2>1
  <2> QED BY <1>7, <2>1, <2>2, <2>3
<1>10. N \in SUBSET Nat OBVIOUS
<1>11. N = Nat
  <2> HIDE DEF N
  <2> QED BY <1>8, <1>9, <1>10, Induction
<1> QED BY <1>6, <1>11
-----------------------------------------------------------------------------
-----------------------------------------------------------------------------
\* ---- the objects of a memory

\* Tuples and entries as they are in memory: with a reference each.
IsTup(x) == \E r \in Nat \ {0} : \E k : IsKey(k) /\ x = [refc |-> r, key |-> k]
IsEnt(x) == \E r \in Nat \ {0}, t \in Nat, type \in {"NUMB", "STRG", "SET", "VAR"} :
              \E v : x = [refc |-> r, tuple |-> t, type |-> type, val |-> v]

\* No entry without its tuple.
Objects(tup, ent) ==
  /\ IsFiniteSet(DOMAIN tup) /\ DOMAIN tup \subseteq Nat \ {0}
  /\ IsFiniteSet(DOMAIN ent) /\ DOMAIN ent \subseteq Nat \ {0}
  /\ tup = [t \in DOMAIN tup |-> tup[t]] /\ ent = [e \in DOMAIN ent |-> ent[e]]
  /\ \A t \in DOMAIN tup : IsTup(tup[t])
  /\ \A e \in DOMAIN ent : IsEnt(ent[e]) /\ ent[e].tuple \in DOMAIN tup

\* A memory has five parts.
Shape(m) == m = [blk |-> m.blk, elem |-> m.elem, numb |-> m.numb, tup |-> m.tup, ent |-> m.ent]
IsMem(m) ==
  /\ Shape(m)
  /\ Objects(m.tup, m.ent)

\* An entry is counted f[e] times, a tuple g[t] times and by its entries.
Counted(tup, ent, f, g) ==
  /\ f \in [Nat -> Nat] /\ g \in [Nat -> Nat]
  /\ \A e \in Nat : IF e \in DOMAIN ent THEN ent[e].refc = f[e] ELSE f[e] = 0
  /\ \A t \in Nat : IF t \in DOMAIN tup THEN tup[t].refc = g[t] + Cardinality(Users(ent, t)) ELSE g[t] = 0

\* Entries of both memories are the same but for their references.
Keeps(m, n) ==
  \A e \in DOMAIN m.ent \cap DOMAIN n.ent :
    n.ent[e].type = m.ent[e].type /\ n.ent[e].val = m.ent[e].val /\ Key(n, e) = Key(m, e)

\* There is a number for a new object: memory is never full.
LEMMA NewNumber ==
  ASSUME NEW o, IsFiniteSet(DOMAIN o)
  PROVE  Unused(o) \in Nat \ {0} /\ Unused(o) \notin DOMAIN o
<1> DEFINE D == DOMAIN o
           c == Cardinality(D)
           S == {i \in Nat : i # 0 /\ i \notin D}
           Is(i) == i \notin D /\ \A j \in 1 .. i - 1 : j \in D
<1>1. c \in Nat BY FS_CardinalityType
<1>2. \A n \in Nat : (1 .. n) \subseteq D => n <= c
  <2> SUFFICES ASSUME NEW n \in Nat, (1 .. n) \subseteq D PROVE n <= c OBVIOUS
  <2>1. Cardinality(1 .. n) = n BY FS_Interval
  <2>2. Cardinality(1 .. n) <= Cardinality(D)
    <3>1. IsFiniteSet(D) /\ (1 .. n) \in SUBSET D OBVIOUS
    <3> HIDE DEF D
    <3> QED BY <3>1, FS_Subset
  <2> QED BY <2>1, <2>2
<1> HIDE DEF c
<1>3. S # {}
  <2>1. ~ ((1 .. c + 1) \subseteq D) BY <1>1, <1>2
  <2> QED BY <1>1, <2>1
<1>4. PICK i \in S : \A k \in S : i <= k
  <2>1. S \in SUBSET Nat OBVIOUS
  <2> HIDE DEF S
  <2> QED BY <1>3, <2>1, Least
<1>5. i \in 1 .. c + 1 /\ Is(i)
  <2>1. \A j \in 1 .. i - 1 : j \in D BY <1>4
  <2>2. i - 1 \in Nat /\ (1 .. i - 1) \subseteq D BY <1>4, <2>1
  <2>3. i - 1 <= c BY <1>2, <2>2
  <2> QED BY <1>1, <1>4, <2>1, <2>3
<1>6. \E j \in 1 .. c + 1 : Is(j) BY <1>5
<1>7. Unused(o) = CHOOSE j \in 1 .. c + 1 : Is(j) BY DEF Unused, c
<1> HIDE DEF Is
<1>8. Unused(o) \in 1 .. c + 1 /\ Is(Unused(o)) BY <1>6, <1>7
<1> QED BY <1>1, <1>8 DEF Is

\* The fields of what the operations return.
LEMMA Fields ==
  ASSUME NEW m, IsMem(m)
  PROVE  /\ \A key : LET n == tuple_new(m, key) IN
              /\ n.tup = With(m.tup, NewTup(m), [refc |-> 1, key |-> key]) /\ n.ent = m.ent
              /\ n.blk = blk_alloc(m.blk) /\ n.elem = new_elem(m.elem, Len(key))
              /\ n.numb = numb_new(m.numb, Cardinality(Numeric(key)))
              /\ Shape(n)
         /\ \A t, type, val : LET n == entry_new(m, t, type, val) IN
              /\ n.tup = Shared(m.tup, t)
              /\ n.ent = With(m.ent, NewEnt(m), [refc |-> 1, tuple |-> t, type |-> type, val |-> val])
              /\ n.blk = m.blk /\ n.elem = m.elem /\ n.numb = numb_new(m.numb, Numb(type))
              /\ Shape(n)
         /\ \A e : LET n == entry_copy(m, e) IN
              /\ n.ent = Shared(m.ent, e) /\ n.tup = m.tup
              /\ n.blk = m.blk /\ n.elem = m.elem /\ n.numb = m.numb
              /\ Shape(n)
<1> USE DEF IsMem, Shape
<1>1. ASSUME NEW key PROVE LET n == tuple_new(m, key) IN
              /\ n.tup = With(m.tup, NewTup(m), [refc |-> 1, key |-> key]) /\ n.ent = m.ent
              /\ n.blk = blk_alloc(m.blk) /\ n.elem = new_elem(m.elem, Len(key))
              /\ n.numb = numb_new(m.numb, Cardinality(Numeric(key)))
              /\ Shape(n)
  BY DEF tuple_new
<1>2. ASSUME NEW t, NEW type, NEW val PROVE LET n == entry_new(m, t, type, val) IN
              /\ n.tup = Shared(m.tup, t)
              /\ n.ent = With(m.ent, NewEnt(m), [refc |-> 1, tuple |-> t, type |-> type, val |-> val])
              /\ n.blk = m.blk /\ n.elem = m.elem /\ n.numb = numb_new(m.numb, Numb(type))
              /\ Shape(n)
  BY DEF entry_new, tuple_copy
<1>3. ASSUME NEW e PROVE LET n == entry_copy(m, e) IN
              /\ n.ent = Shared(m.ent, e) /\ n.tup = m.tup
              /\ n.blk = m.blk /\ n.elem = m.elem /\ n.numb = m.numb
              /\ Shape(n)
  BY DEF entry_copy
<1> QED BY <1>1, <1>2, <1>3

\* What tuple_free and entry_free change: with references left, only the count.
LEMMA FreeFields ==
  ASSUME NEW m, IsMem(m)
  PROVE  /\ \A t : m.tup[t].refc > 1 =>
              LET n == tuple_free(m, t) IN
              /\ n.tup = Released(m.tup, t) /\ n.ent = m.ent
              /\ n.blk = m.blk /\ n.elem = m.elem /\ n.numb = m.numb
              /\ Shape(n)
         /\ \A t : ~ (m.tup[t].refc > 1) =>
              LET n == tuple_free(m, t) IN
              /\ n.tup = Without(m.tup, t) /\ n.ent = m.ent
              /\ n.blk = blk_free(m.blk) /\ n.elem = elem_free(m.elem, Len(m.tup[t].key))
              /\ n.numb = numb_free(m.numb, Cardinality(Numeric(m.tup[t].key)))
              /\ Shape(n)
         /\ \A e : m.ent[e].refc > 1 =>
              LET n == entry_free(m, e) IN
              /\ n.ent = Released(m.ent, e) /\ n.tup = m.tup
              /\ n.blk = m.blk /\ n.elem = m.elem /\ n.numb = m.numb
              /\ Shape(n)
         /\ \A e : LET n == EntryDropped(m, e) IN
              /\ n.ent = Without(m.ent, e) /\ n.tup = m.tup
              /\ n.blk = m.blk /\ n.elem = m.elem /\ n.numb = numb_free(m.numb, Numb(m.ent[e].type))
              /\ Shape(n)
<1> USE DEF IsMem, Shape
<1>1. ASSUME NEW t, m.tup[t].refc > 1
      PROVE LET n == tuple_free(m, t) IN
              /\ n.tup = Released(m.tup, t) /\ n.ent = m.ent
              /\ n.blk = m.blk /\ n.elem = m.elem /\ n.numb = m.numb
              /\ Shape(n)
  <2>1. tuple_free(m, t) = [m EXCEPT !.tup = Released(m.tup, t)]
    BY <1>1 DEF tuple_free
  <2> QED BY <2>1
<1>2. ASSUME NEW t, ~ (m.tup[t].refc > 1)
      PROVE LET n == tuple_free(m, t) IN
              /\ n.tup = Without(m.tup, t) /\ n.ent = m.ent
              /\ n.blk = blk_free(m.blk) /\ n.elem = elem_free(m.elem, Len(m.tup[t].key))
              /\ n.numb = numb_free(m.numb, Cardinality(Numeric(m.tup[t].key)))
              /\ Shape(n)
  BY <1>2 DEF tuple_free
<1>3. ASSUME NEW e, m.ent[e].refc > 1
      PROVE LET n == entry_free(m, e) IN
              /\ n.ent = Released(m.ent, e) /\ n.tup = m.tup
              /\ n.blk = m.blk /\ n.elem = m.elem /\ n.numb = m.numb
              /\ Shape(n)
  <2>1. entry_free(m, e) = [m EXCEPT !.ent = Released(m.ent, e)]
    BY <1>3 DEF entry_free
  <2> QED BY <2>1
<1>4. ASSUME NEW e PROVE LET n == EntryDropped(m, e) IN
              /\ n.ent = Without(m.ent, e) /\ n.tup = m.tup
              /\ n.blk = m.blk /\ n.elem = m.elem /\ n.numb = numb_free(m.numb, Numb(m.ent[e].type))
              /\ Shape(n)
  BY DEF EntryDropped
<1> QED BY <1>1, <1>2, <1>3, <1>4
-----------------------------------------------------------------------------
\* The entries of a tuple can be counted.
LEMMA UsersFinite ==
  ASSUME NEW tup, NEW ent, Objects(tup, ent), NEW t
  PROVE  IsFiniteSet(Users(ent, t)) /\ Cardinality(Users(ent, t)) \in Nat
<1>1. IsFiniteSet(DOMAIN ent) /\ Users(ent, t) \in SUBSET DOMAIN ent
  BY DEF Objects, Users
<1> QED BY <1>1, FS_Subset, FS_CardinalityType

\* A new tuple has the one reference of the node or local that made it.
LEMMA TupNew ==
  ASSUME NEW tup, NEW ent, NEW f, NEW g, Objects(tup, ent), Counted(tup, ent, f, g),
         NEW t \in Nat \ {0}, t \notin DOMAIN tup, NEW key, IsKey(key)
  PROVE  LET new == With(tup, t, [refc |-> 1, key |-> key])
         IN  Objects(new, ent) /\ Counted(new, ent, f, More(g, t))
<1> DEFINE new == With(tup, t, [refc |-> 1, key |-> key])
<1>1. /\ DOMAIN new = DOMAIN tup \cup {t} /\ new[t] = [refc |-> 1, key |-> key]
      /\ \A i \in DOMAIN tup : new[i] = tup[i]
      /\ new = [i \in DOMAIN new |-> new[i]]
  BY DEF With
<1> HIDE DEF new
<1>2. IsFiniteSet(DOMAIN new) BY <1>1, FS_AddElement DEF Objects
<1>3. IsTup(new[t]) BY <1>1 DEF IsTup
<1>4. Objects(new, ent) BY <1>1, <1>2, <1>3 DEF Objects
<1>5. Users(ent, t) = {} /\ Cardinality(Users(ent, t)) = 0
  <2>1. Users(ent, t) = {} BY DEF Users, Objects
  <2> QED BY <2>1, FS_EmptySet
<1>6. More(g, t) \in [Nat -> Nat] /\ More(g, t)[t] = 1 /\ \A i \in Nat \ {t} : More(g, t)[i] = g[i]
  BY DEF More, Counted
<1>7. Counted(new, ent, f, More(g, t))
  <2>1. new[t].refc = 1 BY <1>1
  <2>2. \A i \in Nat : IF i \in DOMAIN new THEN new[i].refc = More(g, t)[i] + Cardinality(Users(ent, i))
                                           ELSE More(g, t)[i] = 0
    <3> SUFFICES ASSUME NEW i \in Nat
                 PROVE  IF i \in DOMAIN new THEN new[i].refc = More(g, t)[i] + Cardinality(Users(ent, i))
                                            ELSE More(g, t)[i] = 0
      OBVIOUS
    <3>1. CASE i = t BY <1>1, <1>5, <1>6, <2>1, <3>1
    <3>2. CASE i # t BY <1>1, <1>6, <3>2 DEF Counted
    <3> QED BY <3>1, <3>2
  <2> QED BY <1>1, <1>6, <2>2 DEF Counted
<1> QED BY <1>4, <1>7 DEF new

\* One reference more or less.
LEMMA TupShared ==
  ASSUME NEW tup, NEW t \in DOMAIN tup, tup = [i \in DOMAIN tup |-> tup[i]], IsTup(tup[t])
  PROVE  /\ DOMAIN Shared(tup, t) = DOMAIN tup /\ DOMAIN Released(tup, t) = DOMAIN tup
         /\ Shared(tup, t) = [i \in DOMAIN tup |-> Shared(tup, t)[i]]
         /\ Released(tup, t) = [i \in DOMAIN tup |-> Released(tup, t)[i]]
         /\ \A i \in DOMAIN tup : i # t => Shared(tup, t)[i] = tup[i] /\ Released(tup, t)[i] = tup[i]
         /\ tup[t].refc \in Nat /\ IsTup(Shared(tup, t)[t])
         /\ Shared(tup, t)[t].refc = tup[t].refc + 1 /\ Shared(tup, t)[t].key = tup[t].key
         /\ Released(tup, t)[t].refc = tup[t].refc - 1 /\ Released(tup, t)[t].key = tup[t].key
         /\ tup[t].refc > 1 => IsTup(Released(tup, t)[t])
<1>0. PICK r \in Nat \ {0} : \E k : IsKey(k) /\ tup[t] = [refc |-> r, key |-> k]
  BY DEF IsTup
<1>1. PICK k : IsKey(k) /\ tup[t] = [refc |-> r, key |-> k] BY <1>0
<1>2. Sharing(tup[t]) = [refc |-> r + 1, key |-> k] /\ Releasing(tup[t]) = [refc |-> r - 1, key |-> k]
  BY <1>1 DEF Sharing, Releasing
<1>3. /\ Shared(tup, t) = [tup EXCEPT ![t] = Sharing(tup[t])]
      /\ Released(tup, t) = [tup EXCEPT ![t] = Releasing(tup[t])]
  BY DEF Shared, Released
<1>4. /\ DOMAIN Shared(tup, t) = DOMAIN tup /\ DOMAIN Released(tup, t) = DOMAIN tup
      /\ Shared(tup, t) = [i \in DOMAIN tup |-> Shared(tup, t)[i]]
      /\ Released(tup, t) = [i \in DOMAIN tup |-> Released(tup, t)[i]]
      /\ \A i \in DOMAIN tup : i # t => Shared(tup, t)[i] = tup[i] /\ Released(tup, t)[i] = tup[i]
  BY <1>3
<1>5. Shared(tup, t)[t] = Sharing(tup[t]) /\ Released(tup, t)[t] = Releasing(tup[t])
  BY <1>3
<1>6. r > 1 => r - 1 \in Nat \ {0} OBVIOUS
<1>7. IsTup(Shared(tup, t)[t]) /\ (r > 1 => IsTup(Released(tup, t)[t]))
  BY <1>1, <1>2, <1>5, <1>6, r + 1 \in Nat \ {0} DEF IsTup
<1>8. tup[t].refc = r /\ tup[t].key = k BY <1>1
<1>9. /\ Shared(tup, t)[t].refc = r + 1 /\ Shared(tup, t)[t].key = k
      /\ Released(tup, t)[t].refc = r - 1 /\ Released(tup, t)[t].key = k
  BY <1>2, <1>5
<1> QED BY <1>4, <1>7, <1>8, <1>9

\* entry_copy and an entry_free that is not the last touch the count alone.
LEMMA EntShared ==
  ASSUME NEW ent, NEW e \in DOMAIN ent, ent = [i \in DOMAIN ent |-> ent[i]], IsEnt(ent[e])
  PROVE  /\ DOMAIN Shared(ent, e) = DOMAIN ent /\ DOMAIN Released(ent, e) = DOMAIN ent
         /\ Shared(ent, e) = [i \in DOMAIN ent |-> Shared(ent, e)[i]]
         /\ Released(ent, e) = [i \in DOMAIN ent |-> Released(ent, e)[i]]
         /\ \A i \in DOMAIN ent : i # e => Shared(ent, e)[i] = ent[i] /\ Released(ent, e)[i] = ent[i]
         /\ ent[e].refc \in Nat /\ IsEnt(Shared(ent, e)[e])
         /\ Shared(ent, e)[e].refc = ent[e].refc + 1 /\ Released(ent, e)[e].refc = ent[e].refc - 1
         /\ \A new \in {Shared(ent, e), Released(ent, e)} : \A i \in DOMAIN ent :
               new[i].tuple = ent[i].tuple /\ new[i].type = ent[i].type /\ new[i].val = ent[i].val
         /\ ent[e].refc > 1 => IsEnt(Released(ent, e)[e])
<1>0. PICK r \in Nat \ {0}, t \in Nat, type \in {"NUMB", "STRG", "SET", "VAR"} :
        \E v : ent[e] = [refc |-> r, tuple |-> t, type |-> type, val |-> v]
  BY DEF IsEnt
<1>1. PICK v : ent[e] = [refc |-> r, tuple |-> t, type |-> type, val |-> v]
  BY <1>0
<1>2. /\ Sharing(ent[e]) = [refc |-> r + 1, tuple |-> t, type |-> type, val |-> v]
      /\ Releasing(ent[e]) = [refc |-> r - 1, tuple |-> t, type |-> type, val |-> v]
  BY <1>1 DEF Sharing, Releasing
<1>3. /\ Shared(ent, e) = [ent EXCEPT ![e] = Sharing(ent[e])]
      /\ Released(ent, e) = [ent EXCEPT ![e] = Releasing(ent[e])]
  BY DEF Shared, Released
<1>4. /\ DOMAIN Shared(ent, e) = DOMAIN ent /\ DOMAIN Released(ent, e) = DOMAIN ent
      /\ Shared(ent, e) = [i \in DOMAIN ent |-> Shared(ent, e)[i]]
      /\ Released(ent, e) = [i \in DOMAIN ent |-> Released(ent, e)[i]]
      /\ \A i \in DOMAIN ent : i # e => Shared(ent, e)[i] = ent[i] /\ Released(ent, e)[i] = ent[i]
  BY <1>3
<1>5. Shared(ent, e)[e] = Sharing(ent[e]) /\ Released(ent, e)[e] = Releasing(ent[e])
  BY <1>3
<1>6. r > 1 => r - 1 \in Nat \ {0} OBVIOUS
<1>7. IsEnt(Shared(ent, e)[e]) /\ (r > 1 => IsEnt(Released(ent, e)[e]))
  <2>1. ASSUME NEW n \in Nat \ {0} PROVE IsEnt([refc |-> n, tuple |-> t, type |-> type, val |-> v])
    BY DEF IsEnt
  <2>2. r + 1 \in Nat \ {0} OBVIOUS
  <2> QED BY <1>2, <1>5, <1>6, <2>1, <2>2
<1>8. \A new \in {Shared(ent, e), Released(ent, e)} :
        new[e].tuple = ent[e].tuple /\ new[e].type = ent[e].type /\ new[e].val = ent[e].val
  BY <1>1, <1>2, <1>5
<1>9. ent[e].refc = r /\ Shared(ent, e)[e].refc = r + 1 /\ Released(ent, e)[e].refc = r - 1
  BY <1>1, <1>2, <1>5
<1> QED BY <1>4, <1>7, <1>8, <1>9

\* A new entry has one reference and takes one of its tuple.
LEMMA EntNew ==
  ASSUME NEW tup, NEW ent, NEW f, NEW g, Objects(tup, ent), Counted(tup, ent, f, g),
         NEW e \in Nat \ {0}, e \notin DOMAIN ent, NEW t \in DOMAIN tup,
         NEW type \in {"NUMB", "STRG", "SET", "VAR"}, NEW val
  PROVE  LET one == Shared(tup, t)
             two == With(ent, e, [refc |-> 1, tuple |-> t, type |-> type, val |-> val])
         IN  Objects(one, two) /\ Counted(one, two, More(f, e), g)
<1> DEFINE x == [refc |-> 1, tuple |-> t, type |-> type, val |-> val]
           one == Shared(tup, t)
           two == With(ent, e, x)
<1>0. x = [refc |-> 1, tuple |-> t, type |-> type, val |-> val] /\ x.refc = 1 /\ x.tuple = t
  OBVIOUS
<1> HIDE DEF x
<1>1. /\ DOMAIN two = DOMAIN ent \cup {e} /\ two[e] = x
      /\ \A i \in DOMAIN ent : two[i] = ent[i]
      /\ two = [i \in DOMAIN two |-> two[i]]
  BY DEF With
<1>2. /\ DOMAIN one = DOMAIN tup /\ one = [i \in DOMAIN one |-> one[i]]
      /\ \A i \in DOMAIN tup : i # t => one[i] = tup[i]
      /\ IsTup(one[t]) /\ one[t].refc = tup[t].refc + 1 /\ tup[t].refc \in Nat
  BY TupShared DEF Objects
<1>4. t \in Nat BY DEF Objects
<1>5. IsEnt(two[e]) /\ two[e].tuple = t /\ two[e].refc = 1
  <2>1. IsEnt(x) BY <1>4, 1 \in Nat \ {0} DEF IsEnt, x
  <2> QED BY <1>0, <1>1, <2>1
<1>6. IsFiniteSet(DOMAIN two) BY <1>1, FS_AddElement DEF Objects
<1> HIDE DEF one, two
<1>7. Objects(one, two) BY <1>1, <1>2, <1>5, <1>6 DEF Objects
<1>8. Users(two, t) = Users(ent, t) \cup {e} /\ e \notin Users(ent, t)
  BY <1>1, <1>5 DEF Users
<1>9. Cardinality(Users(two, t)) = Cardinality(Users(ent, t)) + 1 /\ Cardinality(Users(ent, t)) \in Nat
  BY <1>8, UsersFinite, FS_AddElement
<1>10. \A i \in Nat : i # t => Users(two, i) = Users(ent, i)
  BY <1>1, <1>5 DEF Users
<1>11. More(f, e) \in [Nat -> Nat] /\ More(f, e)[e] = 1 /\ \A i \in Nat \ {e} : More(f, e)[i] = f[i]
  BY DEF More, Counted
<1>12. Counted(one, two, More(f, e), g)
  <2>1. \A i \in Nat : IF i \in DOMAIN two THEN two[i].refc = More(f, e)[i] ELSE More(f, e)[i] = 0
    BY <1>1, <1>5, <1>11 DEF Counted
  <2>2. \A i \in Nat : IF i \in DOMAIN one THEN one[i].refc = g[i] + Cardinality(Users(two, i)) ELSE g[i] = 0
    <3> SUFFICES ASSUME NEW i \in Nat
                 PROVE  IF i \in DOMAIN one THEN one[i].refc = g[i] + Cardinality(Users(two, i)) ELSE g[i] = 0
      OBVIOUS
    <3>1. CASE i = t
      <4>1. tup[t].refc = g[t] + Cardinality(Users(ent, t)) /\ g[t] \in Nat
        BY <1>4 DEF Counted
      <4> QED BY <1>2, <1>9, <3>1, <4>1
    <3>2. CASE i # t BY <1>2, <1>10, <3>2 DEF Counted
    <3> QED BY <3>1, <3>2
  <2> QED BY <1>11, <2>1, <2>2 DEF Counted
<1> QED BY <1>7, <1>12 DEF one, two, x

\* entry_copy: one reference more, of this entry only.
LEMMA EntCopied ==
  ASSUME NEW tup, NEW ent, NEW f, NEW g, Objects(tup, ent), Counted(tup, ent, f, g), NEW e \in DOMAIN ent
  PROVE  Objects(tup, Shared(ent, e)) /\ Counted(tup, Shared(ent, e), More(f, e), g)
<1> DEFINE new == Shared(ent, e)
<1>1. /\ DOMAIN new = DOMAIN ent /\ new = [i \in DOMAIN ent |-> new[i]]
      /\ \A i \in DOMAIN ent : i # e => new[i] = ent[i]
      /\ IsEnt(new[e]) /\ new[e].refc = ent[e].refc + 1
      /\ \A i \in DOMAIN ent : new[i].tuple = ent[i].tuple
  BY EntShared DEF Objects
<1> HIDE DEF new
<1>2. Objects(tup, new) BY <1>1 DEF Objects
<1>3. \A t : Users(new, t) = Users(ent, t) BY <1>1 DEF Users
<1>4. e \in Nat BY DEF Objects
<1>5. More(f, e) \in [Nat -> Nat] /\ More(f, e)[e] = f[e] + 1 /\ \A i \in Nat \ {e} : More(f, e)[i] = f[i]
  BY <1>4 DEF More, Counted
<1>6. Counted(tup, new, More(f, e), g)
  <2>1. \A i \in Nat : IF i \in DOMAIN new THEN new[i].refc = More(f, e)[i] ELSE More(f, e)[i] = 0
    <3> SUFFICES ASSUME NEW i \in Nat
                 PROVE  IF i \in DOMAIN new THEN new[i].refc = More(f, e)[i] ELSE More(f, e)[i] = 0
      OBVIOUS
    <3>1. CASE i = e BY <1>1, <1>5, <3>1 DEF Counted
    <3>2. CASE i # e BY <1>1, <1>5, <3>2 DEF Counted
    <3> QED BY <3>1, <3>2
  <2> QED BY <1>3, <1>5, <2>1 DEF Counted
<1> QED BY <1>2, <1>6 DEF new

\* entry_free with references left: one less, of this entry only.
LEMMA EntReleased ==
  ASSUME NEW tup, NEW ent, NEW f, NEW g, Objects(tup, ent), Counted(tup, ent, f, g),
         NEW e \in DOMAIN ent, ent[e].refc > 1
  PROVE  Objects(tup, Released(ent, e)) /\ Counted(tup, Released(ent, e), Less(f, e), g)
<1> DEFINE new == Released(ent, e)
<1>1. /\ DOMAIN new = DOMAIN ent /\ new = [i \in DOMAIN ent |-> new[i]]
      /\ \A i \in DOMAIN ent : i # e => new[i] = ent[i]
      /\ IsEnt(new[e]) /\ new[e].refc = ent[e].refc - 1
      /\ \A i \in DOMAIN ent : new[i].tuple = ent[i].tuple
  BY EntShared DEF Objects
<1> HIDE DEF new
<1>2. Objects(tup, new) BY <1>1 DEF Objects
<1>3. \A t : Users(new, t) = Users(ent, t) BY <1>1 DEF Users
<1>4. e \in Nat /\ f[e] = ent[e].refc BY DEF Objects, Counted
<1>5. Less(f, e) \in [Nat -> Nat] /\ Less(f, e)[e] = f[e] - 1 /\ \A i \in Nat \ {e} : Less(f, e)[i] = f[i]
  <2>1. f \in [Nat -> Nat] /\ f[e] - 1 \in Nat BY <1>4 DEF Counted
  <2> QED BY <1>4, <2>1 DEF Less
<1>6. Counted(tup, new, Less(f, e), g)
  <2>1. \A i \in Nat : IF i \in DOMAIN new THEN new[i].refc = Less(f, e)[i] ELSE Less(f, e)[i] = 0
    <3> SUFFICES ASSUME NEW i \in Nat
                 PROVE  IF i \in DOMAIN new THEN new[i].refc = Less(f, e)[i] ELSE Less(f, e)[i] = 0
      OBVIOUS
    <3>1. CASE i = e BY <1>1, <1>4, <1>5, <3>1 DEF Counted
    <3>2. CASE i # e BY <1>1, <1>5, <3>2 DEF Counted
    <3> QED BY <3>1, <3>2
  <2> QED BY <1>3, <1>5, <2>1 DEF Counted
<1> QED BY <1>2, <1>6 DEF new

\* The last reference to an entry: its tuple has the reference for itself.
LEMMA EntGone ==
  ASSUME NEW tup, NEW ent, NEW f, NEW g, Objects(tup, ent), Counted(tup, ent, f, g),
         NEW e \in DOMAIN ent, ent[e].refc = 1
  PROVE  /\ Objects(tup, Without(ent, e))
         /\ Counted(tup, Without(ent, e), Less(f, e), More(g, ent[e].tuple))
<1> DEFINE new == Without(ent, e)
           t == ent[e].tuple
<1>1. /\ DOMAIN new = DOMAIN ent \ {e} /\ new = [i \in DOMAIN new |-> new[i]]
      /\ \A i \in DOMAIN new : new[i] = ent[i]
  BY DEF Without
<1> HIDE DEF new
<1>2. Objects(tup, new)
  <2>1. IsFiniteSet(DOMAIN new) BY <1>1, FS_RemoveElement DEF Objects
  <2> QED BY <1>1, <2>1 DEF Objects
<1>3. e \in Nat /\ f[e] = 1 /\ t \in DOMAIN tup /\ t \in Nat
  BY DEF Objects, Counted
<1>4. Users(new, t) = Users(ent, t) \ {e} /\ e \in Users(ent, t)
  BY <1>1 DEF Users
<1>5. Cardinality(Users(new, t)) = Cardinality(Users(ent, t)) - 1 /\ Cardinality(Users(ent, t)) \in Nat
  <2>1. IsFiniteSet(Users(ent, t)) /\ Cardinality(Users(ent, t)) \in Nat
    BY UsersFinite
  <2> HIDE DEF t
  <2> QED BY <1>4, <2>1, FS_RemoveElement
<1>6. \A i \in Nat : i # t => Users(new, i) = Users(ent, i) BY <1>1 DEF Users
<1>7. Less(f, e) \in [Nat -> Nat] /\ Less(f, e)[e] = 0 /\ \A i \in Nat \ {e} : Less(f, e)[i] = f[i]
  <2>1. f \in [Nat -> Nat] /\ f[e] - 1 = 0 BY <1>3 DEF Counted
  <2> QED BY <1>3, <2>1 DEF Less
<1> HIDE DEF t
<1>8. /\ More(g, t) \in [Nat -> Nat] /\ More(g, t)[t] = g[t] + 1 /\ g[t] \in Nat
      /\ \A i \in Nat \ {t} : More(g, t)[i] = g[i]
  BY <1>3 DEF More, Counted
<1>9. \A i \in Nat : IF i \in DOMAIN new THEN new[i].refc = Less(f, e)[i] ELSE Less(f, e)[i] = 0
  BY <1>1, <1>7 DEF Counted
<1>10. \A i \in Nat : IF i \in DOMAIN tup THEN tup[i].refc = More(g, t)[i] + Cardinality(Users(new, i))
                                          ELSE More(g, t)[i] = 0
  <2> SUFFICES ASSUME NEW i \in Nat
               PROVE  IF i \in DOMAIN tup THEN tup[i].refc = More(g, t)[i] + Cardinality(Users(new, i))
                                          ELSE More(g, t)[i] = 0
    OBVIOUS
  <2>1. CASE i = t
    <3>1. tup[t].refc = g[t] + Cardinality(Users(ent, t)) BY <1>3 DEF Counted
    <3> QED BY <1>3, <1>5, <1>8, <2>1, <3>1
  <2>2. CASE i # t BY <1>6, <1>8, <2>2 DEF Counted
  <2> QED BY <2>1, <2>2
<1>11. Counted(tup, new, Less(f, e), More(g, t))
  BY <1>7, <1>8, <1>9, <1>10 DEF Counted
<1> QED BY <1>2, <1>11 DEF new, t

\* tuple_free of a reference that was held: the tuple is there, and gone with the last.
LEMMA TupReleased ==
  ASSUME NEW tup, NEW ent, NEW f, NEW g, Objects(tup, ent), Counted(tup, ent, f, g),
         NEW t \in Nat, g[t] > 0
  PROVE  /\ t \in DOMAIN tup /\ tup[t].refc \in Nat \ {0}
         /\ tup[t].refc > 1 => Objects(Released(tup, t), ent) /\ Counted(Released(tup, t), ent, f, Less(g, t))
         /\ tup[t].refc = 1 => Objects(Without(tup, t), ent) /\ Counted(Without(tup, t), ent, f, Less(g, t))
<1>1. t \in DOMAIN tup /\ IsTup(tup[t]) BY DEF Counted, Objects
<1>2. tup[t].refc \in Nat \ {0} BY <1>1 DEF IsTup
<1>3. tup[t].refc = g[t] + Cardinality(Users(ent, t)) /\ g[t] \in Nat /\ g \in [Nat -> Nat]
  BY <1>1 DEF Counted
<1>4. Less(g, t) \in [Nat -> Nat] /\ Less(g, t)[t] = g[t] - 1 /\ \A i \in Nat \ {t} : Less(g, t)[i] = g[i]
  <2>1. g[t] - 1 \in Nat BY <1>3
  <2> QED BY <1>3, <2>1 DEF Less
<1>5. Cardinality(Users(ent, t)) \in Nat /\ IsFiniteSet(Users(ent, t))
  BY UsersFinite
<1>6. ASSUME tup[t].refc > 1
      PROVE  Objects(Released(tup, t), ent) /\ Counted(Released(tup, t), ent, f, Less(g, t))
  <2> DEFINE new == Released(tup, t)
  <2>1. /\ DOMAIN new = DOMAIN tup /\ new = [i \in DOMAIN tup |-> new[i]]
        /\ \A i \in DOMAIN tup : i # t => new[i] = tup[i]
        /\ IsTup(new[t]) /\ new[t].refc = tup[t].refc - 1
    BY <1>1, <1>6, TupShared DEF Objects
  <2> HIDE DEF new
  <2>2. Objects(new, ent) BY <2>1 DEF Objects
  <2>3. \A i \in Nat : IF i \in DOMAIN new THEN new[i].refc = Less(g, t)[i] + Cardinality(Users(ent, i))
                                           ELSE Less(g, t)[i] = 0
    <3> SUFFICES ASSUME NEW i \in Nat
                 PROVE  IF i \in DOMAIN new THEN new[i].refc = Less(g, t)[i] + Cardinality(Users(ent, i))
                                            ELSE Less(g, t)[i] = 0
      OBVIOUS
    <3>1. CASE i = t BY <1>1, <1>3, <1>4, <1>5, <2>1, <3>1
    <3>2. CASE i # t BY <1>4, <2>1, <3>2 DEF Counted
    <3> QED BY <3>1, <3>2
  <2> QED BY <1>4, <2>2, <2>3 DEF Counted, new
<1>7. ASSUME tup[t].refc = 1
      PROVE  Objects(Without(tup, t), ent) /\ Counted(Without(tup, t), ent, f, Less(g, t))
  <2> DEFINE new == Without(tup, t)
  <2>1. /\ DOMAIN new = DOMAIN tup \ {t} /\ new = [i \in DOMAIN new |-> new[i]]
        /\ \A i \in DOMAIN new : new[i] = tup[i]
    BY DEF Without
  <2> HIDE DEF new
  <2>2. g[t] = 1 /\ Cardinality(Users(ent, t)) = 0 BY <1>3, <1>5, <1>7
  <2>3. Users(ent, t) = {} BY <1>5, <2>2, FS_EmptySet
  <2>4. \A e \in DOMAIN ent : ent[e].tuple # t BY <2>3 DEF Users
  <2>5. IsFiniteSet(DOMAIN new) BY <2>1, FS_RemoveElement DEF Objects
  <2>6. Objects(new, ent) BY <2>1, <2>4, <2>5 DEF Objects
  <2>7. \A i \in Nat : IF i \in DOMAIN new THEN new[i].refc = Less(g, t)[i] + Cardinality(Users(ent, i))
                                           ELSE Less(g, t)[i] = 0
    <3> SUFFICES ASSUME NEW i \in Nat
                 PROVE  IF i \in DOMAIN new THEN new[i].refc = Less(g, t)[i] + Cardinality(Users(ent, i))
                                            ELSE Less(g, t)[i] = 0
      OBVIOUS
    <3>1. CASE i = t BY <1>4, <2>1, <2>2, <3>1
    <3>2. CASE i # t BY <1>4, <2>1, <3>2 DEF Counted
    <3> QED BY <3>1, <3>2
  <2> QED BY <1>4, <2>6, <2>7 DEF Counted, new
<1> QED BY <1>1, <1>2, <1>6, <1>7
-----------------------------------------------------------------------------
\* ---- the cells of the objects

\* The elements of each tuple, and those that are numbers.
ElemSets(tup) == [t \in DOMAIN tup |-> DOMAIN tup[t].key]
NumbSets(tup) == [t \in DOMAIN tup |-> Numeric(tup[t].key)]

\* The elements of a tuple and the numbers among them can be counted.
LEMMA KeyCells ==
  ASSUME NEW key, IsKey(key)
  PROVE  /\ IsFiniteSet(DOMAIN key) /\ Cardinality(DOMAIN key) = Len(key) /\ Len(key) \in Nat
         /\ IsFiniteSet(Numeric(key)) /\ Cardinality(Numeric(key)) \in Nat
<1>1. Len(key) \in Nat /\ DOMAIN key = 1 .. Len(key) BY DEF IsKey
<1>2. IsFiniteSet(1 .. Len(key)) /\ Cardinality(1 .. Len(key)) = Len(key)
  <2>1. \A n \in Nat : IsFiniteSet(1 .. n) /\ Cardinality(1 .. n) = n
    BY FS_Interval
  <2> QED BY <1>1, <2>1
<1>3. Numeric(key) \in SUBSET DOMAIN key BY DEF Numeric
<1> QED BY <1>1, <1>2, <1>3, FS_Subset, FS_CardinalityType

\* The elements and numbers of all tuples are the places of a finite family.
LEMMA TupSets ==
  ASSUME NEW tup, NEW ent, Objects(tup, ent)
  PROVE  /\ Finite(ElemSets(tup)) /\ Finite(NumbSets(tup))
         /\ ElemPlaces(tup) = Spread(ElemSets(tup)) /\ NumbPlaces(tup) = Spread(NumbSets(tup))
         /\ Cardinality(DOMAIN tup) \in Nat /\ \A t \in DOMAIN tup : IsKey(tup[t].key)
<1>1. \A t \in DOMAIN tup : IsKey(tup[t].key) BY DEF Objects, IsTup
<1>2. Finite(ElemSets(tup)) /\ Finite(NumbSets(tup))
  BY <1>1, KeyCells DEF Finite, ElemSets, NumbSets, Objects
<1>3. Cardinality(DOMAIN tup) \in Nat BY FS_CardinalityType DEF Objects
<1>4. ElemPlaces(tup) = Spread(ElemSets(tup)) /\ NumbPlaces(tup) = Spread(NumbSets(tup))
  BY DEF ElemPlaces, NumbPlaces, Spread, ElemSets, NumbSets
<1> QED BY <1>1, <1>2, <1>3, <1>4

\* The cells of one tuple more.
\* One tuple more, and its cells.
OneMore(old, new, t) == t \in DOMAIN new /\ DOMAIN old = DOMAIN new \ {t} /\ \A i \in DOMAIN old : new[i] = old[i]
CellsMore(old, new, t) ==
  /\ Cardinality(DOMAIN new) = Cardinality(DOMAIN old) + 1
  /\ Cardinality(ElemPlaces(new)) = Cardinality(ElemPlaces(old)) + Len(new[t].key)
  /\ Cardinality(NumbPlaces(new)) = Cardinality(NumbPlaces(old)) + Cardinality(Numeric(new[t].key))

\* One tuple more is as many cells more as it has elements and numbers.
LEMMA TupCells ==
  ASSUME NEW old, NEW new, NEW ent, NEW ent2, Objects(old, ent), Objects(new, ent2),
         NEW t, OneMore(old, new, t)
  PROVE  CellsMore(old, new, t)
<1> USE DEF OneMore, CellsMore
<1>1. Cardinality(DOMAIN new) = Cardinality(DOMAIN old) + 1
  <2>1. IsFiniteSet(DOMAIN old) /\ DOMAIN new = DOMAIN old \cup {t} /\ t \notin DOMAIN old
    BY DEF Objects
  <2> QED BY <2>1, FS_AddElement
<1>2. /\ Finite(ElemSets(old)) /\ Finite(ElemSets(new)) /\ Finite(NumbSets(old)) /\ Finite(NumbSets(new))
      /\ IsKey(new[t].key)
  BY TupSets
<1>3. /\ t \in DOMAIN ElemSets(new) /\ DOMAIN ElemSets(old) = DOMAIN ElemSets(new) \ {t}
      /\ \A i \in DOMAIN ElemSets(old) : ElemSets(new)[i] = ElemSets(old)[i]
      /\ ElemSets(new)[t] = DOMAIN new[t].key
  BY DEF ElemSets
<1>4. /\ t \in DOMAIN NumbSets(new) /\ DOMAIN NumbSets(old) = DOMAIN NumbSets(new) \ {t}
      /\ \A i \in DOMAIN NumbSets(old) : NumbSets(new)[i] = NumbSets(old)[i]
      /\ NumbSets(new)[t] = Numeric(new[t].key)
  BY DEF NumbSets
<1>5. Cardinality(Spread(ElemSets(new))) = Cardinality(Spread(ElemSets(old))) + Cardinality(ElemSets(new)[t])
  BY <1>2, <1>3, SpreadMore
<1>6. Cardinality(Spread(NumbSets(new))) = Cardinality(Spread(NumbSets(old))) + Cardinality(NumbSets(new)[t])
  BY <1>2, <1>4, SpreadMore
<1>7. Cardinality(ElemSets(new)[t]) = Len(new[t].key) BY <1>2, <1>3, KeyCells
<1> QED BY <1>1, <1>4, <1>5, <1>6, <1>7, TupSets

\* Sharing changes no cell.
LEMMA SameTupCells ==
  ASSUME NEW old, NEW new, DOMAIN new = DOMAIN old, \A i \in DOMAIN old : new[i].key = old[i].key
  PROVE  ElemPlaces(new) = ElemPlaces(old) /\ NumbPlaces(new) = NumbPlaces(old)
BY DEF ElemPlaces, NumbPlaces

\* One entry more is one number more when its value is a number.
LEMMA EntCells ==
  ASSUME NEW tup, NEW old, NEW tup2, NEW new, Objects(tup, old), Objects(tup2, new),
         NEW e \in DOMAIN new, DOMAIN old = DOMAIN new \ {e}, \A i \in DOMAIN old : new[i].type = old[i].type
  PROVE  /\ Cardinality(Numbers(new)) = Cardinality(Numbers(old)) + Numb(new[e].type)
         /\ Cardinality(Numbers(old)) \in Nat
<1>1. IsFiniteSet(Numbers(old)) /\ Cardinality(Numbers(old)) \in Nat
  <2>1. IsFiniteSet(DOMAIN old) /\ Numbers(old) \in SUBSET DOMAIN old
    BY DEF Objects, Numbers
  <2> QED BY <2>1, FS_Subset, FS_CardinalityType
<1>2. CASE new[e].type = "NUMB"
  <2>1. Numbers(new) = Numbers(old) \cup {e} /\ e \notin Numbers(old)
    BY <1>2 DEF Numbers
  <2> QED BY <1>1, <1>2, <2>1, FS_AddElement DEF Numb
<1>3. CASE new[e].type # "NUMB"
  <2>1. Numbers(new) = Numbers(old) BY <1>3 DEF Numbers
  <2> QED BY <1>1, <1>3, <2>1 DEF Numb
<1> QED BY <1>2, <1>3
-----------------------------------------------------------------------------
\* ---- the operations on a memory

\* References and cells of m are what f, g and the l cells of lists and
\* hashes say.
Sound(m, f, g, l, b) ==
  /\ IsMem(m) /\ Counted(m.tup, m.ent, f, g)
  /\ l \in Nat /\ b \in Int /\ Chained(m.blk)
  /\ Good(m.blk, Cardinality(DOMAIN m.tup) + l, b)
  /\ Good(m.elem, Cardinality(ElemPlaces(m.tup)), 0)
  /\ Good(m.numb, 4 + Cardinality(NumbPlaces(m.tup)) + Cardinality(Numbers(m.ent)), 0)

\* What the stores count are numbers.
LEMMA Cells ==
  ASSUME NEW m, NEW f, NEW g, NEW l, NEW b, Sound(m, f, g, l, b)
  PROVE  /\ Objects(m.tup, m.ent) /\ Cardinality(DOMAIN m.tup) \in Nat
         /\ Cardinality(ElemPlaces(m.tup)) \in Nat /\ Cardinality(NumbPlaces(m.tup)) \in Nat
         /\ Cardinality(Numbers(m.ent)) \in Nat
<1>1. Objects(m.tup, m.ent) BY DEF Sound, IsMem
<1>2. IsFiniteSet(DOMAIN m.ent) /\ Numbers(m.ent) \in SUBSET DOMAIN m.ent
  BY <1>1 DEF Objects, Numbers
<1>3. Cardinality(Numbers(m.ent)) \in Nat BY <1>2, FS_Subset, FS_CardinalityType
<1>4. /\ ElemPlaces(m.tup) = Spread(ElemSets(m.tup)) /\ NumbPlaces(m.tup) = Spread(NumbSets(m.tup))
      /\ Finite(ElemSets(m.tup)) /\ Finite(NumbSets(m.tup)) /\ Cardinality(DOMAIN m.tup) \in Nat
  BY <1>1, TupSets
<1>5. Cardinality(Spread(ElemSets(m.tup))) \in Nat /\ Cardinality(Spread(NumbSets(m.tup))) \in Nat
  BY <1>4, SpreadFinite
<1> QED BY <1>1, <1>3, <1>4, <1>5

\* tuple_new keeps memory sound: one tuple more, with one reference.
LEMMA SoundTupNew ==
  ASSUME NEW m, NEW f, NEW g, NEW l, NEW b, Sound(m, f, g, l, b), NEW key, IsKey(key)
  PROVE  LET n == tuple_new(m, key)
             t == NewTup(m)
         IN  /\ Sound(n, f, More(g, t), l, b)
             /\ t \in Nat \ {0} /\ t \in DOMAIN n.tup /\ n.tup[t].key = key
             /\ n.ent = m.ent /\ \A i \in DOMAIN m.tup : i \in DOMAIN n.tup /\ n.tup[i] = m.tup[i]
<1> DEFINE n == tuple_new(m, key)
           t == NewTup(m)
           c == Cardinality(Numeric(key))
<1>1. /\ n.tup = With(m.tup, t, [refc |-> 1, key |-> key]) /\ n.ent = m.ent
      /\ n.blk = blk_alloc(m.blk) /\ n.elem = new_elem(m.elem, Len(key))
      /\ n.numb = numb_new(m.numb, c) /\ Shape(n)
  BY Fields DEF Sound
<1>2. t \in Nat \ {0} /\ t \notin DOMAIN m.tup
  BY NewNumber DEF NewTup, Sound, IsMem, Objects
<1> HIDE DEF n, t
<1>3. Objects(n.tup, n.ent) /\ Counted(n.tup, n.ent, f, More(g, t))
  BY <1>1, <1>2, TupNew DEF Sound, IsMem
<1>4. /\ t \in DOMAIN n.tup /\ DOMAIN m.tup = DOMAIN n.tup \ {t} /\ n.tup[t].key = key
      /\ \A i \in DOMAIN m.tup : n.tup[i] = m.tup[i]
  BY <1>1, <1>2 DEF With
<1>5. /\ Cardinality(DOMAIN n.tup) = Cardinality(DOMAIN m.tup) + 1
      /\ Cardinality(ElemPlaces(n.tup)) = Cardinality(ElemPlaces(m.tup)) + Len(key)
      /\ Cardinality(NumbPlaces(n.tup)) = Cardinality(NumbPlaces(m.tup)) + c
  <2>1. Objects(m.tup, m.ent) BY Cells
  <2>2. /\ Cardinality(DOMAIN n.tup) = Cardinality(DOMAIN m.tup) + 1
        /\ Cardinality(ElemPlaces(n.tup)) = Cardinality(ElemPlaces(m.tup)) + Len(n.tup[t].key)
        /\ Cardinality(NumbPlaces(n.tup)) = Cardinality(NumbPlaces(m.tup)) + Cardinality(Numeric(n.tup[t].key))
    <3>1. OneMore(m.tup, n.tup, t) BY <1>4 DEF OneMore
    <3>2. CellsMore(m.tup, n.tup, t) BY <1>3, <2>1, <3>1, TupCells
    <3> QED BY <3>2 DEF CellsMore
  <2> QED BY <1>4, <2>2
<1>6. Len(key) \in Nat /\ c \in Nat BY KeyCells
<1> HIDE DEF c
<1>7. Good(n.blk, Cardinality(DOMAIN n.tup) + l, b) /\ Chained(n.blk)
  <2>1. Cardinality(DOMAIN m.tup) + l \in Nat /\ l \in Nat /\ b \in Int /\ Cardinality(DOMAIN m.tup) \in Nat
    BY Cells DEF Sound
  <2>2. Good(n.blk, Cardinality(DOMAIN m.tup) + l + 1, b) /\ Chained(n.blk)
    BY <1>1, <2>1, PoolAlloc DEF Sound
  <2>3. Cardinality(DOMAIN n.tup) + l = Cardinality(DOMAIN m.tup) + l + 1
    BY <1>5, <2>1
  <2> QED BY <2>2, <2>3
<1>8. Good(n.elem, Cardinality(ElemPlaces(n.tup)), 0)
  <2>1. Good(Drawn(m.elem, ELEM_STORE_SIZE, Len(key)), Cardinality(ElemPlaces(m.tup)) + Len(key), 0)
    <3>1. ELEM_STORE_SIZE \in Nat \ {0} /\ 0 \in Int BY StoreSizes
    <3>2. Cardinality(ElemPlaces(m.tup)) \in Nat /\ Good(m.elem, Cardinality(ElemPlaces(m.tup)), 0)
      BY Cells DEF Sound
    <3> QED BY <1>6, <3>1, <3>2, PoolDrawn
  <2> QED BY <1>1, <1>5, <2>1 DEF new_elem
<1>9. Good(n.numb, 4 + Cardinality(NumbPlaces(n.tup)) + Cardinality(Numbers(n.ent)), 0)
  <2> DEFINE u == 4 + Cardinality(NumbPlaces(m.tup)) + Cardinality(Numbers(m.ent))
  <2>1. u \in Nat /\ Cardinality(NumbPlaces(m.tup)) \in Nat /\ Cardinality(Numbers(m.ent)) \in Nat
    BY Cells
  <2>2. 4 + Cardinality(NumbPlaces(n.tup)) + Cardinality(Numbers(n.ent)) = u + c
    BY <1>1, <1>5, <1>6, <2>1
  <2>3. Good(m.numb, u, 0) BY DEF Sound
  <2> HIDE DEF u
  <2>4. Good(Drawn(m.numb, NUMB_STORE_SIZE, c), u + c, 0)
    <3>1. NUMB_STORE_SIZE \in Nat \ {0} /\ 0 \in Int BY StoreSizes
    <3> QED BY <1>6, <2>1, <2>3, <3>1, PoolDrawn
  <2> QED BY <1>1, <2>2, <2>4 DEF numb_new
<1>10. Sound(n, f, More(g, t), l, b)
  BY <1>1, <1>3, <1>7, <1>8, <1>9 DEF Sound, IsMem
<1> QED BY <1>1, <1>2, <1>4, <1>10 DEF n, t

\* entry_new keeps memory sound: one entry more, with one reference.
LEMMA SoundEntNew ==
  ASSUME NEW m, NEW f, NEW g, NEW l, NEW b, Sound(m, f, g, l, b),
         NEW t \in DOMAIN m.tup, NEW type \in {"NUMB", "STRG", "SET", "VAR"}, NEW val
  PROVE  LET n == entry_new(m, t, type, val)
             e == NewEnt(m)
         IN  /\ Sound(n, More(f, e), g, l, b)
             /\ e \in Nat \ {0} /\ e \notin DOMAIN m.ent /\ e \in DOMAIN n.ent
             /\ n.ent[e].type = type /\ n.ent[e].val = val /\ Key(n, e) = m.tup[t].key
             /\ Keeps(m, n)
<1> DEFINE n == entry_new(m, t, type, val)
           e == NewEnt(m)
           x == [refc |-> 1, tuple |-> t, type |-> type, val |-> val]
<1>1. /\ n.tup = Shared(m.tup, t) /\ n.ent = With(m.ent, e, x)
      /\ n.blk = m.blk /\ n.elem = m.elem /\ n.numb = numb_new(m.numb, Numb(type)) /\ Shape(n)
  BY Fields DEF Sound
<1>2. e \in Nat \ {0} /\ e \notin DOMAIN m.ent
  BY NewNumber DEF NewEnt, Sound, IsMem, Objects
<1>0. x.tuple = t /\ x.type = type /\ x.val = val OBVIOUS
<1> HIDE DEF n, e
<1>3. Objects(n.tup, n.ent) /\ Counted(n.tup, n.ent, More(f, e), g)
  BY <1>1, <1>2, EntNew DEF Sound, IsMem
<1> HIDE DEF x
<1>4. /\ e \in DOMAIN n.ent /\ DOMAIN m.ent = DOMAIN n.ent \ {e} /\ n.ent[e] = x
      /\ \A i \in DOMAIN m.ent : n.ent[i] = m.ent[i]
  BY <1>1, <1>2 DEF With
<1>5. DOMAIN n.tup = DOMAIN m.tup /\ \A i \in DOMAIN m.tup : n.tup[i].key = m.tup[i].key
  <2>1. m.tup = [i \in DOMAIN m.tup |-> m.tup[i]] /\ IsTup(m.tup[t])
    BY DEF Sound, IsMem, Objects
  <2>2. /\ DOMAIN Shared(m.tup, t) = DOMAIN m.tup
        /\ \A i \in DOMAIN m.tup : i # t => Shared(m.tup, t)[i] = m.tup[i]
        /\ Shared(m.tup, t)[t].key = m.tup[t].key
    BY <2>1, TupShared
  <2> QED BY <1>1, <2>2
<1>6. ElemPlaces(n.tup) = ElemPlaces(m.tup) /\ NumbPlaces(n.tup) = NumbPlaces(m.tup)
  BY <1>5, SameTupCells
<1>7. Cardinality(Numbers(n.ent)) = Cardinality(Numbers(m.ent)) + Numb(type)
  <2>1. \A i \in DOMAIN m.ent : n.ent[i].type = m.ent[i].type BY <1>4
  <2> QED BY <1>0, <1>3, <1>4, <2>1, Cells, EntCells
<1>8. Good(n.numb, 4 + Cardinality(NumbPlaces(n.tup)) + Cardinality(Numbers(n.ent)), 0)
  <2> DEFINE u == 4 + Cardinality(NumbPlaces(m.tup)) + Cardinality(Numbers(m.ent))
             c == Numb(type)
  <2>1. u \in Nat /\ Cardinality(NumbPlaces(m.tup)) \in Nat /\ Cardinality(Numbers(m.ent)) \in Nat
    BY Cells
  <2>2. c \in Nat BY DEF Numb
  <2> HIDE DEF c
  <2>3. 4 + Cardinality(NumbPlaces(n.tup)) + Cardinality(Numbers(n.ent)) = u + c
    BY <1>6, <1>7, <2>1, <2>2 DEF c
  <2>4. Good(m.numb, u, 0) BY DEF Sound
  <2> HIDE DEF u
  <2>5. Good(Drawn(m.numb, NUMB_STORE_SIZE, c), u + c, 0)
    <3>1. NUMB_STORE_SIZE \in Nat \ {0} /\ 0 \in Int BY StoreSizes
    <3> QED BY <2>1, <2>2, <2>4, <3>1, PoolDrawn
  <2> QED BY <1>1, <2>3, <2>5 DEF numb_new, c
<1>9. Sound(n, More(f, e), g, l, b)
  BY <1>1, <1>3, <1>5, <1>6, <1>8 DEF Sound, IsMem
<1>10. Key(n, e) = m.tup[t].key BY <1>0, <1>4, <1>5 DEF Key
<1>11. Keeps(m, n)
  <2>1. \A i \in DOMAIN m.ent : m.ent[i].tuple \in DOMAIN m.tup
    BY DEF Sound, IsMem, Objects
  <2> QED BY <1>4, <1>5, <2>1 DEF Keeps, Key
<1> QED BY <1>0, <1>2, <1>4, <1>9, <1>10, <1>11 DEF n, e

\* entry_copy keeps memory sound with one reference more.
LEMMA SoundCopy ==
  ASSUME NEW m, NEW f, NEW g, NEW l, NEW b, Sound(m, f, g, l, b), NEW e \in DOMAIN m.ent
  PROVE  LET n == entry_copy(m, e) IN
         /\ Sound(n, More(f, e), g, l, b) /\ Keeps(m, n) /\ DOMAIN n.ent = DOMAIN m.ent
<1> DEFINE n == entry_copy(m, e)
<1>1. /\ n.ent = Shared(m.ent, e) /\ n.tup = m.tup
      /\ n.blk = m.blk /\ n.elem = m.elem /\ n.numb = m.numb /\ Shape(n)
  BY Fields DEF Sound
<1> HIDE DEF n
<1>2. Objects(n.tup, n.ent) /\ Counted(n.tup, n.ent, More(f, e), g)
  BY <1>1, EntCopied DEF Sound, IsMem
<1>3. /\ DOMAIN n.ent = DOMAIN m.ent
      /\ \A i \in DOMAIN m.ent : n.ent[i].tuple = m.ent[i].tuple /\ n.ent[i].type = m.ent[i].type
                                 /\ n.ent[i].val = m.ent[i].val
  BY <1>1, EntShared DEF Sound, IsMem, Objects
<1>4. Numbers(n.ent) = Numbers(m.ent) /\ Keeps(m, n)
  BY <1>1, <1>3 DEF Numbers, Keeps, Key
<1> QED BY <1>1, <1>2, <1>3, <1>4 DEF Sound, IsMem, n

\* tuple_free of a held reference keeps memory sound with one less.
LEMMA SoundTupFree ==
  ASSUME NEW m, NEW f, NEW g, NEW l, NEW b, Sound(m, f, g, l, b), NEW t \in Nat, g[t] > 0
  PROVE  LET n == tuple_free(m, t) IN
         /\ Sound(n, f, Less(g, t), l, b) /\ n.ent = m.ent
         /\ \A i \in DOMAIN n.tup : i \in DOMAIN m.tup /\ n.tup[i].key = m.tup[i].key
<1> DEFINE n == tuple_free(m, t)
           c == Cardinality(Numeric(m.tup[t].key))
           k == Len(m.tup[t].key)
<1>1. /\ t \in DOMAIN m.tup /\ m.tup[t].refc \in Nat \ {0}
      /\ m.tup[t].refc > 1 => Objects(Released(m.tup, t), m.ent) /\ Counted(Released(m.tup, t), m.ent, f, Less(g, t))
      /\ m.tup[t].refc = 1 => Objects(Without(m.tup, t), m.ent) /\ Counted(Without(m.tup, t), m.ent, f, Less(g, t))
  BY TupReleased DEF Sound, IsMem
<1>2. IsMem(m) /\ m.tup = [i \in DOMAIN m.tup |-> m.tup[i]] /\ IsTup(m.tup[t])
  BY <1>1 DEF Sound, IsMem, Objects
<1>3. ASSUME m.tup[t].refc > 1
      PROVE  /\ Sound(n, f, Less(g, t), l, b) /\ n.ent = m.ent
             /\ \A i \in DOMAIN n.tup : i \in DOMAIN m.tup /\ n.tup[i].key = m.tup[i].key
  <2>1. /\ n.tup = Released(m.tup, t) /\ n.ent = m.ent
        /\ n.blk = m.blk /\ n.elem = m.elem /\ n.numb = m.numb /\ Shape(n)
    BY <1>2, <1>3, FreeFields
  <2> HIDE DEF n
  <2>2. /\ DOMAIN Released(m.tup, t) = DOMAIN m.tup
        /\ \A i \in DOMAIN m.tup : i # t => Released(m.tup, t)[i] = m.tup[i]
        /\ Released(m.tup, t)[t].key = m.tup[t].key
    BY <1>1, <1>2, TupShared
  <2>3. DOMAIN n.tup = DOMAIN m.tup /\ \A i \in DOMAIN m.tup : n.tup[i].key = m.tup[i].key
    BY <2>1, <2>2
  <2>4. ElemPlaces(n.tup) = ElemPlaces(m.tup) /\ NumbPlaces(n.tup) = NumbPlaces(m.tup)
    BY <2>3, SameTupCells
  <2>5. Sound(n, f, Less(g, t), l, b)
    BY <1>1, <1>3, <2>1, <2>3, <2>4 DEF Sound, IsMem
  <2> QED BY <2>1, <2>3, <2>5
<1>4. ASSUME m.tup[t].refc = 1
      PROVE  /\ Sound(n, f, Less(g, t), l, b) /\ n.ent = m.ent
             /\ \A i \in DOMAIN n.tup : i \in DOMAIN m.tup /\ n.tup[i].key = m.tup[i].key
  <2>0. ~ (m.tup[t].refc > 1) BY <1>4
  <2>1. /\ n.tup = Without(m.tup, t) /\ n.ent = m.ent
        /\ n.blk = blk_free(m.blk) /\ n.elem = elem_free(m.elem, k)
        /\ n.numb = numb_free(m.numb, c) /\ Shape(n)
    BY <1>2, <2>0, FreeFields
  <2> HIDE DEF n
  <2>2. /\ DOMAIN n.tup = DOMAIN m.tup \ {t}
        /\ \A i \in DOMAIN n.tup : m.tup[i] = n.tup[i]
    BY <2>1 DEF Without
  <2>3. Objects(n.tup, m.ent) /\ Counted(n.tup, n.ent, f, Less(g, t)) /\ Objects(m.tup, m.ent)
    BY <1>1, <1>4, <2>1, Cells
  <2>4. /\ Cardinality(DOMAIN m.tup) = Cardinality(DOMAIN n.tup) + 1
        /\ Cardinality(ElemPlaces(m.tup)) = Cardinality(ElemPlaces(n.tup)) + k
        /\ Cardinality(NumbPlaces(m.tup)) = Cardinality(NumbPlaces(n.tup)) + c
    <3>1. OneMore(n.tup, m.tup, t) BY <1>1, <2>2 DEF OneMore
    <3>2. CellsMore(n.tup, m.tup, t) BY <2>3, <3>1, TupCells
    <3> QED BY <3>2 DEF CellsMore
  <2>5. k \in Nat /\ c \in Nat BY <1>1, <2>3, TupSets, KeyCells
  <2> HIDE DEF k, c
  <2>6. /\ Cardinality(DOMAIN n.tup) \in Nat /\ Cardinality(ElemPlaces(n.tup)) \in Nat
        /\ Cardinality(NumbPlaces(n.tup)) \in Nat
    BY <2>3, TupSets, SpreadFinite
  <2>7. Good(n.blk, Cardinality(DOMAIN n.tup) + l, b) /\ Chained(n.blk)
    <3> DEFINE u == Cardinality(DOMAIN m.tup) + l
    <3>1. u \in Nat /\ b \in Int /\ Good(m.blk, u, b) /\ 1 \in 0 .. u /\ u - 1 = Cardinality(DOMAIN n.tup) + l
      BY <2>4, <2>6 DEF Sound
    <3> HIDE DEF u
    <3>2. /\ Good(Returned(m.blk, 1), u - 1, b) /\ Returned(m.blk, 1).cells = m.blk.cells
          /\ Returned(m.blk, 1).block = m.blk.block
      BY <3>1, PoolReturned
    <3> QED BY <2>1, <3>1, <3>2 DEF blk_free, Chained, Sound
  <2>8. Good(n.elem, Cardinality(ElemPlaces(n.tup)), 0)
    <3> DEFINE u == Cardinality(ElemPlaces(m.tup))
    <3>1. u \in Nat /\ Good(m.elem, u, 0) /\ k \in 0 .. u /\ u - k = Cardinality(ElemPlaces(n.tup))
      BY <2>4, <2>5, <2>6 DEF Sound
    <3> HIDE DEF u
    <3>2. Good(Returned(m.elem, k), u - k, 0) BY <3>1, 0 \in Int, PoolReturned
    <3> QED BY <2>1, <3>1, <3>2 DEF elem_free
  <2>9. Good(n.numb, 4 + Cardinality(NumbPlaces(n.tup)) + Cardinality(Numbers(n.ent)), 0)
    <3> DEFINE u == 4 + Cardinality(NumbPlaces(m.tup)) + Cardinality(Numbers(m.ent))
    <3>1. Cardinality(Numbers(m.ent)) \in Nat BY Cells
    <3>2. /\ u \in Nat /\ Good(m.numb, u, 0) /\ c \in 0 .. u
          /\ u - c = 4 + Cardinality(NumbPlaces(n.tup)) + Cardinality(Numbers(n.ent))
      BY <2>1, <2>4, <2>5, <2>6, <3>1 DEF Sound
    <3> HIDE DEF u
    <3>3. Good(Returned(m.numb, c), u - c, 0) BY <3>2, 0 \in Int, PoolReturned
    <3> QED BY <2>1, <3>2, <3>3 DEF numb_free
  <2>10. Sound(n, f, Less(g, t), l, b)
    BY <2>1, <2>3, <2>7, <2>8, <2>9 DEF Sound, IsMem
  <2> QED BY <2>1, <2>2, <2>10
<1> QED BY <1>1, <1>3, <1>4

\* entry_free of a held reference keeps memory sound with one less.
LEMMA SoundEntFree ==
  ASSUME NEW m, NEW f, NEW g, NEW l, NEW b, Sound(m, f, g, l, b), NEW e \in Nat, f[e] > 0
  PROVE  LET n == entry_free(m, e) IN
         Sound(n, Less(f, e), g, l, b) /\ Keeps(m, n)
<1> DEFINE n == entry_free(m, e)
<1>1. IsMem(m) /\ Objects(m.tup, m.ent) /\ Counted(m.tup, m.ent, f, g)
  BY DEF Sound, IsMem
<1>2. e \in DOMAIN m.ent /\ IsEnt(m.ent[e]) /\ m.ent[e].tuple \in DOMAIN m.tup /\ m.ent[e].tuple \in Nat
  BY <1>1 DEF Counted, Objects
<1>3. m.ent[e].refc \in Nat \ {0} BY <1>2 DEF IsEnt
<1>4. ASSUME m.ent[e].refc > 1 PROVE Sound(n, Less(f, e), g, l, b) /\ Keeps(m, n)
  <2>1. /\ n.ent = Released(m.ent, e) /\ n.tup = m.tup
        /\ n.blk = m.blk /\ n.elem = m.elem /\ n.numb = m.numb /\ Shape(n)
    BY <1>1, <1>4, FreeFields
  <2> HIDE DEF n
  <2>2. Objects(n.tup, n.ent) /\ Counted(n.tup, n.ent, Less(f, e), g)
    BY <1>1, <1>2, <1>4, <2>1, EntReleased
  <2>3. /\ DOMAIN n.ent = DOMAIN m.ent
        /\ \A i \in DOMAIN m.ent : n.ent[i].tuple = m.ent[i].tuple /\ n.ent[i].type = m.ent[i].type
                                   /\ n.ent[i].val = m.ent[i].val
    BY <1>1, <1>2, <2>1, EntShared DEF Objects
  <2>4. Numbers(n.ent) = Numbers(m.ent) /\ Keeps(m, n)
    BY <2>1, <2>3 DEF Numbers, Keeps, Key
  <2> QED BY <2>1, <2>2, <2>4 DEF Sound, IsMem
<1>5. ASSUME m.ent[e].refc = 1 PROVE Sound(n, Less(f, e), g, l, b) /\ Keeps(m, n)
  <2> DEFINE t == m.ent[e].tuple
             o == EntryDropped(m, e)
             c == Numb(m.ent[e].type)
  <2>0. ~ (m.ent[e].refc > 1) BY <1>5
  <2>1. n = tuple_free(o, t) BY <2>0 DEF entry_free
  <2>2. /\ o.ent = Without(m.ent, e) /\ o.tup = m.tup
        /\ o.blk = m.blk /\ o.elem = m.elem /\ o.numb = numb_free(m.numb, c) /\ Shape(o)
    BY <1>1, FreeFields
  <2> HIDE DEF n, o
  <2>3. Objects(o.tup, o.ent) /\ Counted(o.tup, o.ent, Less(f, e), More(g, t))
    BY <1>1, <1>2, <1>5, <2>2, EntGone
  <2>4. DOMAIN o.ent = DOMAIN m.ent \ {e} /\ \A i \in DOMAIN o.ent : m.ent[i] = o.ent[i]
    BY <2>2 DEF Without
  <2>5. /\ Cardinality(Numbers(m.ent)) = Cardinality(Numbers(o.ent)) + c
        /\ Cardinality(Numbers(o.ent)) \in Nat
    <3>1. \A i \in DOMAIN o.ent : m.ent[i].type = o.ent[i].type BY <2>4
    <3> QED BY <1>1, <1>2, <2>3, <2>4, <3>1, EntCells
  <2>6. Good(o.numb, 4 + Cardinality(NumbPlaces(o.tup)) + Cardinality(Numbers(o.ent)), 0)
    <3> DEFINE u == 4 + Cardinality(NumbPlaces(m.tup)) + Cardinality(Numbers(m.ent))
    <3>1. Cardinality(NumbPlaces(m.tup)) \in Nat /\ c \in Nat BY Cells DEF Numb
    <3> HIDE DEF c
    <3>2. /\ u \in Nat /\ Good(m.numb, u, 0) /\ c \in 0 .. u
          /\ u - c = 4 + Cardinality(NumbPlaces(o.tup)) + Cardinality(Numbers(o.ent))
      BY <2>2, <2>5, <3>1 DEF Sound
    <3> HIDE DEF u
    <3>3. Good(Returned(m.numb, c), u - c, 0) BY <3>2, 0 \in Int, PoolReturned
    <3> QED BY <2>2, <3>2, <3>3 DEF numb_free
  <2>7. Sound(o, Less(f, e), More(g, t), l, b)
    BY <2>2, <2>3, <2>6 DEF Sound, IsMem
  <2>8. g \in [Nat -> Nat] /\ t \in Nat BY <1>1, <1>2 DEF Counted
  <2> HIDE DEF t
  <2>9. More(g, t)[t] > 0 /\ Less(More(g, t), t) = g
    <3>1. More(g, t) = [g EXCEPT ![t] = g[t] + 1] /\ g[t] \in Nat
      BY <2>8 DEF More
    <3>2. More(g, t)[t] = g[t] + 1 BY <2>8, <3>1
    <3>3. Less(More(g, t), t) = [More(g, t) EXCEPT ![t] = g[t]]
      BY <3>1, <3>2 DEF Less
    <3> QED BY <2>8, <3>1, <3>2, <3>3
  <2>10. /\ Sound(n, Less(f, e), Less(More(g, t), t), l, b) /\ n.ent = o.ent
         /\ \A i \in DOMAIN n.tup : n.tup[i].key = o.tup[i].key
    BY <2>1, <2>7, <2>8, <2>9, SoundTupFree
  <2>11. Keeps(m, n)
    <3>1. \A i \in DOMAIN n.ent : n.ent[i].tuple \in DOMAIN n.tup
      BY <2>10 DEF Sound, IsMem, Objects
    <3> QED BY <2>2, <2>4, <2>10, <3>1 DEF Keeps, Key
  <2> QED BY <2>9, <2>10, <2>11
<1> QED BY <1>3, <1>4, <1>5

\* The cells of lists and hashes.
LEMMA SoundCells ==
  ASSUME NEW m, NEW f, NEW g, NEW l, NEW b, Sound(m, f, g, l, b)
  PROVE  /\ LET n == [m EXCEPT !.blk = blk_alloc(@)] IN
              Sound(n, f, g, l + 1, b) /\ n.ent = m.ent /\ n.tup = m.tup
         /\ l > 0 => LET n == [m EXCEPT !.blk = blk_free(@)] IN
              Sound(n, f, g, l - 1, b) /\ n.ent = m.ent /\ n.tup = m.tup
<1>0. /\ IsMem(m) /\ Shape(m) /\ Chained(m.blk) /\ l \in Nat /\ b \in Int
      /\ Cardinality(DOMAIN m.tup) + l \in Nat /\ Cardinality(DOMAIN m.tup) \in Nat
      /\ Good(m.blk, Cardinality(DOMAIN m.tup) + l, b)
  <2>1. IsMem(m) /\ Chained(m.blk) /\ l \in Nat /\ b \in Int /\ Good(m.blk, Cardinality(DOMAIN m.tup) + l, b)
    BY DEF Sound
  <2>2. Shape(m) BY <2>1 DEF IsMem
  <2>3. Cardinality(DOMAIN m.tup) \in Nat BY Cells
  <2> QED BY <2>1, <2>2, <2>3
<1>1. LET n == [m EXCEPT !.blk = blk_alloc(@)] IN
         Sound(n, f, g, l + 1, b) /\ n.ent = m.ent /\ n.tup = m.tup
  <2> DEFINE n == [m EXCEPT !.blk = blk_alloc(@)]
  <2>1. /\ n.blk = blk_alloc(m.blk) /\ n.elem = m.elem /\ n.numb = m.numb /\ n.tup = m.tup
        /\ n.ent = m.ent /\ Shape(n)
    BY <1>0 DEF Shape
  <2> HIDE DEF n
  <2>2. Good(n.blk, Cardinality(DOMAIN m.tup) + l + 1, b) /\ Chained(n.blk)
    BY <1>0, <2>1, PoolAlloc
  <2>3. Cardinality(DOMAIN m.tup) + l + 1 = Cardinality(DOMAIN m.tup) + (l + 1) /\ l + 1 \in Nat
    BY <1>0
  <2>4. Sound(n, f, g, l + 1, b) BY <2>1, <2>2, <2>3 DEF Sound, IsMem
  <2> QED BY <2>1, <2>4 DEF n
<1>2. ASSUME l > 0
      PROVE  LET n == [m EXCEPT !.blk = blk_free(@)] IN
             Sound(n, f, g, l - 1, b) /\ n.ent = m.ent /\ n.tup = m.tup
  <2> DEFINE n == [m EXCEPT !.blk = blk_free(@)]
             u == Cardinality(DOMAIN m.tup) + l
  <2>1. /\ n.blk = blk_free(m.blk) /\ n.elem = m.elem /\ n.numb = m.numb /\ n.tup = m.tup
        /\ n.ent = m.ent /\ Shape(n)
    BY <1>0 DEF Shape
  <2> HIDE DEF n
  <2>2. u \in Nat /\ 1 \in 0 .. u /\ u - 1 = Cardinality(DOMAIN m.tup) + (l - 1) /\ l - 1 \in Nat
    BY <1>0, <1>2
  <2>3. Good(m.blk, u, b) BY <1>0
  <2> HIDE DEF u
  <2>4. /\ Good(Returned(m.blk, 1), u - 1, b) /\ Returned(m.blk, 1).cells = m.blk.cells
        /\ Returned(m.blk, 1).block = m.blk.block
    BY <1>0, <2>2, <2>3, PoolReturned
  <2>5. Good(n.blk, Cardinality(DOMAIN m.tup) + (l - 1), b) /\ Chained(n.blk)
    BY <1>0, <2>1, <2>2, <2>4 DEF blk_free, Chained
  <2>6. Sound(n, f, g, l - 1, b) BY <2>1, <2>2, <2>5 DEF Sound, IsMem
  <2> QED BY <2>1, <2>6 DEF n
<1> QED BY <1>1, <1>2

\* A list without its first or its last holds one less.
LEMMA TimesEnds ==
  ASSUME NEW s \in Lists, NEW x
  PROVE  /\ Times(x, s) \in Nat /\ (Times(x, s) > 0 <=> x \in ToSet(s))
         /\ s # <<>> => /\ Tail(s) \in Lists /\ Front(s) \in Lists /\ s[1] \in Numbered /\ s[Len(s)] \in Numbered
                        /\ Times(x, s) = Times(x, Tail(s)) + Hit(x, s[1])
                        /\ Times(x, s) = Times(x, Front(s)) + Hit(x, s[Len(s)])
<1>1. Times(x, s) \in Nat BY TimesJoined
<1>3. ASSUME s # <<>>
      PROVE  /\ Tail(s) \in Lists /\ Front(s) \in Lists /\ s[1] \in Numbered /\ s[Len(s)] \in Numbered
             /\ Times(x, s) = Times(x, Tail(s)) + Hit(x, s[1])
             /\ Times(x, s) = Times(x, Front(s)) + Hit(x, s[Len(s)])
  <2>1. Tail(s) \in Lists /\ s = <<s[1]>> \o Tail(s) /\ <<s[1]>> \in Lists /\ s[1] \in Numbered
    BY <1>3 DEF Lists
  <2>2. Front(s) \in Lists /\ s = Front(s) \o <<s[Len(s)]>> /\ <<s[Len(s)]>> \in Lists /\ s[Len(s)] \in Numbered
    BY <1>3 DEF Lists, Front
  <2>3. /\ Times(x, <<s[1]>> \o Tail(s)) = Times(x, <<s[1]>>) + Times(x, Tail(s))
        /\ Times(x, <<s[1]>>) \in Nat
    BY ONLY <2>1, TimesJoined
  <2>4. /\ Times(x, Front(s) \o <<s[Len(s)]>>) = Times(x, Front(s)) + Times(x, <<s[Len(s)]>>)
    BY ONLY <2>2, TimesJoined
  <2>5. Times(x, Tail(s)) \in Nat BY <2>1, TimesJoined
  <2>6. Times(x, <<s[1]>>) = Hit(x, s[1]) /\ Times(x, <<s[Len(s)]>>) = Hit(x, s[Len(s)])
    BY TimesOne
  <2>7. Times(x, s) = Times(x, <<s[1]>>) + Times(x, Tail(s))
    BY <2>1, <2>3, Zenon
  <2>8. Times(x, s) = Times(x, Front(s)) + Times(x, <<s[Len(s)]>>)
    BY <2>2, <2>4, Zenon
  <2>9. Times(x, <<s[1]>>) \in Nat BY <2>3
  <2> QED BY ONLY <2>1, <2>2, <2>5, <2>6, <2>7, <2>8, <2>9
<1>4. Times(x, s) > 0 <=> x \in ToSet(s)
  <2> DEFINE A == {i \in DOMAIN s : s[i] = x}
  <2>1. IsFiniteSet(A)
    <3>1. IsFiniteSet(DOMAIN s) /\ A \in SUBSET DOMAIN s
      <4>1. DOMAIN s = 1 .. Len(s) /\ Len(s) \in Nat BY DEF Lists
      <4> QED BY <4>1, FS_Interval
    <3> QED BY <3>1, FS_Subset
  <2>2. x \in ToSet(s) <=> A # {} BY DEF ToSet, Lists
  <2>3. Cardinality(A) = 0 <=> A = {} BY <2>1, FS_EmptySet
  <2> QED BY <1>1, <2>2, <2>3 DEF Times
<1> QED BY <1>1, <1>3, <1>4
-----------------------------------------------------------------------------
\* ---- symbols

\* What a symbol is made of.
IsSymbol(s) ==
  /\ s = [name |-> s.name, type |-> s.type, iset |-> s.iset, size |-> s.size, extend |-> s.extend,
          entry |-> s.entry, hash |-> s.hash, deflt |-> s.deflt]
  /\ s.entry \in Lists /\ s.hash \in Lists
  /\ s.deflt \in Nat /\ s.size \in Nat /\ s.extend \in Numbered
AreSymbols(ss) == \E T : ss \in Seq(T) /\ \A s \in T : IsSymbol(s)

\* One symbol more holds what its table and its default hold.
LEMMA OneSymbolMore ==
  ASSUME NEW ss, AreSymbols(ss), NEW s, IsSymbol(s), NEW e \in Numbered
  PROVE  /\ AreSymbols(Append(ss, s))
         /\ Cardinality(EntryPlaces(ss, e)) \in Nat /\ Cardinality(DefaultPlaces(ss, e)) \in Nat
         /\ Cardinality(HashPlaces(ss)) \in Nat
         /\ Cardinality(EntryPlaces(Append(ss, s), e)) = Cardinality(EntryPlaces(ss, e)) + Times(e, s.entry)
         /\ Cardinality(DefaultPlaces(Append(ss, s), e)) = Cardinality(DefaultPlaces(ss, e)) + Hit(e, s.deflt)
         /\ Cardinality(HashPlaces(Append(ss, s))) = Cardinality(HashPlaces(ss)) + Len(s.hash)
<1>1. PICK T : ss \in Seq(T) /\ \A r \in T : IsSymbol(r) BY DEF AreSymbols
<1> DEFINE n == Len(ss)
           new == Append(ss, s)
<1>2. /\ n \in Nat /\ DOMAIN ss = 1 .. n /\ DOMAIN new = 1 .. n + 1 /\ new[n + 1] = s
      /\ \A i \in 1 .. n : new[i] = ss[i]
  BY <1>1
<1>3. \A i \in DOMAIN new : IsSymbol(new[i]) BY <1>1, <1>2
<1>4. AreSymbols(new)
  <2>1. new \in Seq(T \cup {s}) /\ \A r \in T \cup {s} : IsSymbol(r) BY <1>1
  <2> HIDE DEF new
  <2> QED BY <2>1 DEF AreSymbols
<1>5. DOMAIN ss = DOMAIN new \ {n + 1} /\ n + 1 \in DOMAIN new /\ IsFiniteSet(DOMAIN ss) /\ IsFiniteSet(DOMAIN new)
  <2>1. IsFiniteSet(1 .. n) /\ IsFiniteSet(1 .. n + 1) BY <1>2, FS_Interval
  <2> QED BY <1>2, <2>1
<1>6. \A i \in DOMAIN ss : new[i] = ss[i] BY <1>2
<1> DEFINE Here(q) == {j \in DOMAIN q.entry : q.entry[j] = e}
           A(q) == [i \in DOMAIN q |-> Here(q[i])]
           H(q) == [i \in DOMAIN q |-> DOMAIN q[i].hash]
<1>7. \A i \in DOMAIN new : IsFiniteSet(Here(new[i])) /\ IsFiniteSet(DOMAIN new[i].hash)
  <2> SUFFICES ASSUME NEW q, IsSymbol(q) PROVE IsFiniteSet(Here(q)) /\ IsFiniteSet(DOMAIN q.hash)
    BY <1>3
  <2>1. q.entry \in Seq(Numbered) /\ q.hash \in Seq(Numbered)
    BY DEF IsSymbol, Lists
  <2>2. DOMAIN q.entry = 1 .. Len(q.entry) /\ Len(q.entry) \in Nat /\ DOMAIN q.hash = 1 .. Len(q.hash) /\ Len(q.hash) \in Nat
    BY <2>1
  <2>3. IsFiniteSet(1 .. Len(q.entry)) /\ IsFiniteSet(1 .. Len(q.hash))
    BY SMTT(30), <2>2, FS_Interval
  <2>4. Here(q) \in SUBSET (1 .. Len(q.entry)) BY <2>2
  <2> QED BY <2>2, <2>3, <2>4, FS_Subset
<1>8. Cardinality(DOMAIN s.hash) = Len(s.hash)
  <2>1. DOMAIN s.hash = 1 .. Len(s.hash) /\ Len(s.hash) \in Nat
    BY DEF IsSymbol, Lists
  <2> QED BY <2>1, FS_Interval
<1> HIDE DEF n, new, Here
<1>9. Cardinality(EntryPlaces(ss, e)) \in Nat
      /\ Cardinality(EntryPlaces(new, e)) = Cardinality(EntryPlaces(ss, e)) + Times(e, s.entry)
  <2>1. Finite(A(ss)) /\ Finite(A(new)) BY <1>5, <1>6, <1>7 DEF Finite
  <2>2. /\ n + 1 \in DOMAIN A(new) /\ DOMAIN A(ss) = DOMAIN A(new) \ {n + 1}
        /\ \A i \in DOMAIN A(ss) : A(new)[i] = A(ss)[i]
        /\ A(new)[n + 1] = Here(s)
    BY <1>2, <1>5, <1>6 DEF new
  <2>3. Spread(A(ss)) = EntryPlaces(ss, e) /\ Spread(A(new)) = EntryPlaces(new, e)
    BY DEF Spread, EntryPlaces, Here
  <2> HIDE DEF A
  <2>4. /\ Cardinality(Spread(A(new))) = Cardinality(Spread(A(ss))) + Cardinality(A(new)[n + 1])
        /\ Cardinality(Spread(A(ss))) \in Nat
    BY <2>1, <2>2, SpreadMore
  <2> QED BY <2>2, <2>3, <2>4 DEF Times, Here
<1>10. Cardinality(HashPlaces(ss)) \in Nat
      /\ Cardinality(HashPlaces(new)) = Cardinality(HashPlaces(ss)) + Len(s.hash)
  <2>1. Finite(H(ss)) /\ Finite(H(new)) BY <1>5, <1>6, <1>7 DEF Finite
  <2>2. /\ n + 1 \in DOMAIN H(new) /\ DOMAIN H(ss) = DOMAIN H(new) \ {n + 1}
        /\ \A i \in DOMAIN H(ss) : H(new)[i] = H(ss)[i]
        /\ H(new)[n + 1] = DOMAIN s.hash
    BY <1>2, <1>5, <1>6 DEF new
  <2>3. Spread(H(ss)) = HashPlaces(ss) /\ Spread(H(new)) = HashPlaces(new)
    BY DEF Spread, HashPlaces
  <2> HIDE DEF H
  <2>4. /\ Cardinality(Spread(H(new))) = Cardinality(Spread(H(ss))) + Cardinality(H(new)[n + 1])
        /\ Cardinality(Spread(H(ss))) \in Nat
    BY <2>1, <2>2, SpreadMore
  <2> QED BY <1>8, <2>2, <2>3, <2>4
<1>11. Cardinality(DefaultPlaces(ss, e)) \in Nat
      /\ Cardinality(DefaultPlaces(new, e)) = Cardinality(DefaultPlaces(ss, e)) + Hit(e, s.deflt)
  <2> DEFINE D == DefaultPlaces(ss, e)
             E == DefaultPlaces(new, e)
  <2>1. D \in SUBSET DOMAIN ss /\ n + 1 \notin D BY <1>5 DEF DefaultPlaces
  <2>2. IsFiniteSet(D) /\ Cardinality(D) \in Nat
    BY <1>5, <2>1, FS_Subset, FS_CardinalityType
  <2>3. ASSUME s.deflt = e PROVE E = D \cup {n + 1}
    BY <1>2, <2>3 DEF DefaultPlaces
  <2>4. ASSUME s.deflt # e PROVE E = D BY <1>2, <2>4 DEF DefaultPlaces
  <2> HIDE DEF D, E
  <2>5. Cardinality(D \cup {n + 1}) = Cardinality(D) + 1
    BY <2>1, <2>2, FS_AddElement
  <2>6. Cardinality(E) = Cardinality(D) + Hit(e, s.deflt)
    BY <2>2, <2>3, <2>4, <2>5 DEF Hit
  <2> QED BY <2>2, <2>6 DEF D, E
<1> QED BY <1>4, <1>9, <1>10, <1>11 DEF new

\* What is alive is what is counted.
LEMMA Living ==
  ASSUME NEW m, NEW f, NEW g, NEW l, NEW b, Sound(m, f, g, l, b)
  PROVE  /\ f \in [Nat -> Nat] /\ g \in [Nat -> Nat] /\ l \in Nat /\ b \in Int
         /\ DOMAIN m.ent = {e \in Nat : f[e] > 0} /\ 0 \notin DOMAIN m.ent
         /\ \A e \in DOMAIN m.ent : m.ent[e].tuple \in DOMAIN m.tup
<1>1. Counted(m.tup, m.ent, f, g) /\ Objects(m.tup, m.ent) /\ l \in Nat /\ b \in Int
  BY DEF Sound, IsMem
<1>2. \A e \in DOMAIN m.ent : m.ent[e].refc \in Nat \ {0} /\ m.ent[e].tuple \in DOMAIN m.tup
  <2> SUFFICES ASSUME NEW e \in DOMAIN m.ent PROVE m.ent[e].refc \in Nat \ {0} /\ m.ent[e].tuple \in DOMAIN m.tup
    OBVIOUS
  <2>1. IsEnt(m.ent[e]) /\ m.ent[e].tuple \in DOMAIN m.tup BY <1>1 DEF Objects
  <2>2. m.ent[e].refc \in Nat \ {0} BY <2>1 DEF IsEnt
  <2> QED BY <2>1, <2>2
<1>3. DOMAIN m.ent \subseteq Nat \ {0} BY <1>1 DEF Objects
<1>4. f \in [Nat -> Nat] /\ g \in [Nat -> Nat] /\ \A e \in Nat : IF e \in DOMAIN m.ent THEN m.ent[e].refc = f[e] ELSE f[e] = 0
  BY <1>1 DEF Counted
<1>5. \A e \in Nat : e \in DOMAIN m.ent <=> f[e] > 0 BY <1>2, <1>4
<1> QED BY <1>1, <1>2, <1>3, <1>4, <1>5

\* Entries that two steps keep are kept by both.
LEMMA KeepsOn ==
  ASSUME NEW m, NEW n, NEW o, Keeps(m, n), Keeps(n, o), DOMAIN m.ent \cap DOMAIN o.ent \subseteq DOMAIN n.ent
  PROVE  Keeps(m, o)
BY DEF Keeps
-----------------------------------------------------------------------------
\* ---- what the statements do to a memory

\* A new tuple.
LEMMA TupleMade ==
  ASSUME NEW m, NEW f, NEW g, NEW l, NEW b, Sound(m, f, g, l, b), NEW key, IsKey(key)
  PROVE  LET n == tuple_new(m, key)
         IN  /\ Sound(n, f, More(g, NewTup(m)), l, b) /\ Keeps(m, n) /\ NewTup(m) \in Numbered
             /\ n.ent = m.ent /\ NewTup(m) \in DOMAIN n.tup /\ n.tup[NewTup(m)].key = key
             /\ NewEnt(n) = NewEnt(m)
<1> DEFINE n == tuple_new(m, key)
<1>1. /\ Sound(n, f, More(g, NewTup(m)), l, b)
      /\ NewTup(m) \in Nat \ {0} /\ NewTup(m) \in DOMAIN n.tup /\ n.tup[NewTup(m)].key = key
      /\ n.ent = m.ent /\ \A i \in DOMAIN m.tup : i \in DOMAIN n.tup /\ n.tup[i] = m.tup[i]
  BY SoundTupNew
<1> HIDE DEF n
<1>2. Keeps(m, n) BY <1>1, Living DEF Keeps, Key
<1>3. NewEnt(n) = NewEnt(m) BY <1>1 DEF NewEnt
<1> QED BY <1>1, <1>2, <1>3 DEF n, Numbered

\* A new tuple and its entry.
LEMMA EntryMade ==
  ASSUME NEW m, NEW f, NEW g, NEW l, NEW b, Sound(m, f, g, l, b), NEW key, IsKey(key),
         NEW type \in {"NUMB", "STRG", "SET", "VAR"}, NEW val
  PROVE  LET n == entry_new(tuple_new(m, key), NewTup(m), type, val)
             e == NewEnt(m)
         IN  /\ Sound(n, More(f, e), More(g, NewTup(m)), l, b) /\ Keeps(m, n)
             /\ e \in Numbered /\ f[e] = 0 /\ NewTup(m) \in Numbered
             /\ n.ent[e].type = type /\ n.ent[e].val = val /\ Key(n, e) = key
<1> DEFINE k == tuple_new(m, key)
           n == entry_new(k, NewTup(m), type, val)
           e == NewEnt(m)
<1>1. /\ Sound(k, f, More(g, NewTup(m)), l, b) /\ Keeps(m, k) /\ NewTup(m) \in Numbered
      /\ k.ent = m.ent /\ NewTup(m) \in DOMAIN k.tup /\ k.tup[NewTup(m)].key = key
      /\ NewEnt(k) = e
  BY TupleMade
<1> HIDE DEF k, e
<1>2. /\ Sound(n, More(f, e), More(g, NewTup(m)), l, b)
      /\ e \in Nat \ {0} /\ e \notin DOMAIN k.ent /\ e \in DOMAIN n.ent
      /\ n.ent[e].type = type /\ n.ent[e].val = val /\ Key(n, e) = k.tup[NewTup(m)].key
      /\ Keeps(k, n)
  BY <1>1, SoundEntNew
<1> HIDE DEF n
<1>3. f[e] = 0 BY <1>1, <1>2, Living
<1>4. Keeps(m, n) BY <1>1, <1>2, KeepsOn
<1> QED BY <1>1, <1>2, <1>3, <1>4 DEF k, n, e, Numbered

\* list_data_new: a cell and a reference more.
LEMMA CellMade ==
  ASSUME NEW m, NEW f, NEW g, NEW l, NEW b, Sound(m, f, g, l, b), NEW e \in Nat, f[e] > 0
  PROVE  LET n == list_data_new(m, e) IN Sound(n, More(f, e), g, l + 1, b) /\ Keeps(m, n)
<1> DEFINE k == entry_copy(m, e)
           n == [k EXCEPT !.blk = blk_alloc(@)]
<1>1. e \in DOMAIN m.ent BY Living
<1>2. Sound(k, More(f, e), g, l, b) /\ Keeps(m, k) /\ DOMAIN k.ent = DOMAIN m.ent
  BY <1>1, SoundCopy
<1> HIDE DEF k
<1>3. Sound(n, More(f, e), g, l + 1, b) /\ n.ent = k.ent /\ n.tup = k.tup
  BY <1>2, SoundCells
<1> HIDE DEF n
<1>4. Keeps(m, n) BY <1>2, <1>3 DEF Keeps, Key
<1> QED BY <1>3, <1>4 DEF k, n, list_data_new

\* list_data_free: a cell and a reference less.
LEMMA CellGone ==
  ASSUME NEW m, NEW f, NEW g, NEW l, NEW b, Sound(m, f, g, l, b), NEW e \in Nat, f[e] > 0, l > 0
  PROVE  LET n == list_data_free(m, e) IN Sound(n, Less(f, e), g, l - 1, b) /\ Keeps(m, n)
<1> DEFINE k == entry_free(m, e)
           n == [k EXCEPT !.blk = blk_free(@)]
<1>1. Sound(k, Less(f, e), g, l, b) /\ Keeps(m, k) BY SoundEntFree
<1> HIDE DEF k
<1>2. Sound(n, Less(f, e), g, l - 1, b) /\ n.ent = k.ent /\ n.tup = k.tup
  BY <1>1, SoundCells
<1> HIDE DEF n
<1>3. Keeps(m, n) BY <1>1, <1>2 DEF Keeps, Key
<1> QED BY <1>2, <1>3 DEF k, n, list_data_free

\* tuple_free: the entries stay as they are.
LEMMA TupleGone ==
  ASSUME NEW m, NEW f, NEW g, NEW l, NEW b, Sound(m, f, g, l, b), NEW t \in Nat, g[t] > 0
  PROVE  LET n == tuple_free(m, t) IN Sound(n, f, Less(g, t), l, b) /\ Keeps(m, n) /\ n.ent = m.ent
<1> DEFINE n == tuple_free(m, t)
<1>1. /\ Sound(n, f, Less(g, t), l, b) /\ n.ent = m.ent
      /\ \A i \in DOMAIN n.tup : i \in DOMAIN m.tup /\ n.tup[i].key = m.tup[i].key
  BY SoundTupFree
<1> HIDE DEF n
<1>2. Keeps(m, n) BY <1>1, Living DEF Keeps, Key
<1> QED BY <1>1, <1>2 DEF n

\* hash_add_entry and the cells hash_free returns.
LEMMA HashCells ==
  ASSUME NEW m, NEW f, NEW g, NEW l, NEW b, Sound(m, f, g, l, b)
  PROVE  /\ Sound(hash_add_entry(m), f, g, l + 1, b) /\ Keeps(m, hash_add_entry(m))
         /\ l > 0 => Sound(hash_elem_free(m), f, g, l - 1, b) /\ Keeps(m, hash_elem_free(m))
<1>1. Sound(hash_add_entry(m), f, g, l + 1, b) /\ hash_add_entry(m).ent = m.ent /\ hash_add_entry(m).tup = m.tup
  BY SoundCells DEF hash_add_entry
<1>2. l > 0 => /\ Sound(hash_elem_free(m), f, g, l - 1, b)
               /\ hash_elem_free(m).ent = m.ent /\ hash_elem_free(m).tup = m.tup
  BY SoundCells DEF hash_elem_free
<1> QED BY <1>1, <1>2 DEF Keeps, Key

\* The entry of a line of a file is kept by the list alone.
LEMMA ItemRead ==
  ASSUME NEW m, NEW f, NEW g, NEW l, NEW b, Sound(m, f, g, l, b), NEW item, IsKey(item.key),
         item.type \in {"NUMB", "STRG", "SET", "VAR"}
  PROVE  LET n == ReadItem(m, item)
             e == NewEnt(m)
         IN  /\ Sound(n, More(f, e), g, l + 1, b) /\ Keeps(m, n)
             /\ e \in Numbered /\ f[e] = 0 /\ n.ent[e].type = item.type
             /\ n.ent[e].val = item.val /\ Key(n, e) = item.key
<1> DEFINE k == NodeEntry(m, item)
           e == NewEnt(m)
           t == NewTup(m)
           p == list_data_new(k, e)
           q == tuple_free(p, t)
           n == entry_free(q, e)
<1>1. /\ Sound(k, More(f, e), More(g, t), l, b) /\ Keeps(m, k)
      /\ e \in Numbered /\ f[e] = 0 /\ t \in Numbered /\ k.ent[e].type = item.type
      /\ k.ent[e].val = item.val /\ Key(k, e) = item.key
  BY EntryMade DEF NodeEntry
<1>2. f \in [Nat -> Nat] /\ g \in [Nat -> Nat] /\ e \in Nat /\ t \in Nat
  BY <1>1, Living DEF Numbered
<1> HIDE DEF k, e, t
<1>3. More(f, e)[e] > 0 /\ More(f, e) \in [Nat -> Nat] BY <1>2, MoreAt, LessMore
<1>4. Sound(p, More(More(f, e), e), More(g, t), l + 1, b) /\ Keeps(k, p)
  BY <1>1, <1>2, <1>3, CellMade
<1> HIDE DEF p
<1>5. More(g, t)[t] > 0 /\ Less(More(g, t), t) = g BY <1>2, MoreAt, LessMore
<1>6. Sound(q, More(More(f, e), e), g, l + 1, b) /\ Keeps(p, q) /\ q.ent = p.ent
  BY <1>2, <1>4, <1>5, TupleGone
<1> HIDE DEF q
<1>7. More(More(f, e), e)[e] > 0 /\ Less(More(More(f, e), e), e) = More(f, e)
  BY <1>2, <1>3, MoreAt, LessMore
<1>8. Sound(n, More(f, e), g, l + 1, b) /\ Keeps(q, n)
  BY <1>2, <1>6, <1>7, SoundEntFree
<1> HIDE DEF n
<1>9. /\ DOMAIN m.ent = {x \in Nat : f[x] > 0} /\ DOMAIN k.ent = {x \in Nat : More(f, e)[x] > 0}
      /\ DOMAIN p.ent = {x \in Nat : More(More(f, e), e)[x] > 0} /\ DOMAIN q.ent = DOMAIN p.ent
      /\ DOMAIN n.ent = {x \in Nat : More(f, e)[x] > 0}
  BY SMTT(30), <1>1, <1>4, <1>6, <1>8, Living
<1>10. \A x \in Nat : More(f, e)[x] > 0 => More(More(f, e), e)[x] > 0
  <2> DEFINE h == More(f, e)
  <2>1. \A x \in Nat : More(h, e)[x] = h[x] + Hit(x, e) BY <1>2, <1>3, MoreAt
  <2>2. \A x \in Nat : h[x] \in Nat /\ Hit(x, e) \in Nat BY <1>3 DEF Hit
  <2> HIDE DEF h
  <2>3. \A x \in Nat : h[x] > 0 => More(h, e)[x] > 0 BY <2>1, <2>2
  <2> QED BY <2>3 DEF h
<1>11. Keeps(k, n)
  <2>1. Keeps(k, q) BY <1>4, <1>6, <1>9, KeepsOn
  <2> QED BY <1>8, <1>9, <1>10, <2>1, KeepsOn
<1>12. Keeps(m, n) BY <1>1, <1>9, <1>11, KeepsOn
<1>13. n.ent[e].type = item.type /\ n.ent[e].val = item.val /\ Key(n, e) = item.key
  BY <1>1, <1>2, <1>3, <1>9, <1>11 DEF Keeps
<1> QED BY <1>1, <1>8, <1>12, <1>13 DEF k, p, q, n, e, t, ReadItem

\* ---- the table of a symbol

\* Array and hash have the same entries, of one type, under keys of their own.
TableOf(m, s) ==
  /\ Len(s.entry) <= s.size /\ s.hash = Reverse(s.entry)
  /\ \A i, j \in DOMAIN s.entry : Key(m, s.entry[i]) = Key(m, s.entry[j]) => i = j
  /\ \A i \in DOMAIN s.entry : /\ s.entry[i] \in DOMAIN m.ent
                               /\ Key(m, s.entry[i]) \in ToSet(s.iset)
                               /\ m.ent[s.entry[i]].type = s.type

\* A table agrees as long as the entries it holds are kept.
LEMMA TableKept ==
  ASSUME NEW m, NEW n, Keeps(m, n), NEW s, TableOf(m, s), \A i \in DOMAIN s.entry : s.entry[i] \in DOMAIN n.ent
  PROVE  TableOf(n, s)
<1>1. \A i \in DOMAIN s.entry : /\ Key(n, s.entry[i]) = Key(m, s.entry[i])
                                /\ n.ent[s.entry[i]].type = m.ent[s.entry[i]].type
  BY DEF TableOf, Keeps
<1> QED BY <1>1 DEF TableOf

\* The hash chain, newest first, mirrors the array of entries.
LEMMA ReverseGrown ==
  ASSUME NEW s \in Lists, NEW e \in Numbered
  PROVE  /\ Reverse(Append(s, e)) = <<e>> \o Reverse(s)
         /\ s # <<>> => Reverse(Front(s)) = Tail(Reverse(s))
         /\ Reverse(s) \in Lists /\ Len(Reverse(s)) = Len(s)
<1>1. s \in Seq(Numbered) /\ Len(s) \in Nat BY DEF Lists
<1>2. Reverse(Append(s, e)) = <<e>> \o Reverse(s) BY <1>1 DEF Reverse
<1>3. ASSUME s # <<>> PROVE Reverse(Front(s)) = Tail(Reverse(s))
  BY <1>1, <1>3 DEF Reverse, Front
<1>4. Reverse(s) \in Seq(Numbered) /\ Len(Reverse(s)) = Len(s)
  BY <1>1 DEF Reverse
<1> QED BY <1>2, <1>3, <1>4 DEF Lists

\* A lookup that fails has seen all the keys.
LEMMA NotFound ==
  ASSUME NEW m, NEW chain \in Lists, NEW key, hash_lookup_entry(m, chain, key) = 0
  PROVE  \A i \in DOMAIN chain : Key(m, chain[i]) # key
<1> DEFINE I == {i \in 1 .. Len(chain) : Key(m, chain[i]) = key}
           n == IF I # {} THEN Min(I) ELSE 0
<1>1. hash_lookup_entry(m, chain, key) = IF n = 0 THEN 0 ELSE chain[n]
  BY DEF hash_lookup_entry, SelectInSeq
<1>2. ASSUME I # {} PROVE FALSE
  <2>1. PICK k \in I : \A j \in I : k <= j
    <3>1. I \in SUBSET Nat OBVIOUS
    <3> HIDE DEF I
    <3> QED BY <1>2, <3>1, Least
  <2>2. Min(I) \in I
    <3> HIDE DEF I
    <3> QED BY <2>1 DEF Min
  <2>3. n \in 1 .. Len(chain) BY <1>2, <2>2
  <2>4. chain[n] \in Numbered /\ n # 0 BY <2>3 DEF Lists
  <2> QED BY <1>1, <2>4 DEF Numbered
<1> QED BY <1>2 DEF Lists

\* Nothing is found in an empty hash.
LEMMA NothingFound ==
  ASSUME NEW m, NEW key
  PROVE  hash_lookup_entry(m, <<>>, key) = 0
BY DEF hash_lookup_entry, SelectInSeq

\* The growth of symbol_add_entry gives room and changes nothing else.
LEMMA RoomOf ==
  ASSUME NEW s, IsSymbol(s)
  PROVE  /\ IsSymbol(Room(s)) /\ (Len(s.entry) <= s.size => Len(s.entry) < Room(s).size)
         /\ Room(s).name = s.name /\ Room(s).type = s.type /\ Room(s).iset = s.iset
         /\ Room(s).entry = s.entry /\ Room(s).hash = s.hash /\ Room(s).deflt = s.deflt
<1>1. CASE Len(s.entry) < s.size BY <1>1 DEF Room
<1>2. CASE ~ (Len(s.entry) < s.size)
  <2>1. Room(s) = [name |-> s.name, type |-> s.type, iset |-> s.iset, size |-> s.size + s.extend, extend |-> 2 * s.extend,
                   entry |-> s.entry, hash |-> s.hash, deflt |-> s.deflt]
    BY <1>2 DEF Room, IsSymbol
  <2>2. /\ s.size \in Nat /\ s.extend \in Nat \ {0} /\ 2 * s.extend \in Nat \ {0} /\ s.size + s.extend \in Nat
        /\ s.entry \in Lists /\ s.hash \in Lists /\ s.deflt \in Nat /\ Len(s.entry) \in Nat
    BY DEF IsSymbol, Numbered, Lists
  <2>3. Len(s.entry) <= s.size => Len(s.entry) < s.size + s.extend BY <2>2
  <2> QED BY <2>1, <2>2, <2>3 DEF IsSymbol, Numbered
<1> QED BY <1>1, <1>2

\* The first entry gives a symbol its type and changes nothing else.
LEMMA TypedOf ==
  ASSUME NEW s, IsSymbol(s), NEW type
  PROVE  /\ IsSymbol(Typed(s, type)) /\ Typed(s, type).size = s.size
         /\ Typed(s, type).type = IF s.type = "ERR" /\ s.entry = <<>> THEN type ELSE s.type
         /\ Typed(s, type).name = s.name /\ Typed(s, type).iset = s.iset
         /\ Typed(s, type).entry = s.entry /\ Typed(s, type).hash = s.hash /\ Typed(s, type).deflt = s.deflt
BY DEF Typed, IsSymbol

\* What symbol_add_entry makes of a symbol.
SymAdded(m, s, e, r, d) ==
  /\ IsSymbol(r) /\ r.name = s.name /\ r.iset = s.iset /\ r.deflt = s.deflt
  /\ Len(s.entry) <= s.size => Len(r.entry) <= r.size
  /\ d => r.type = s.type /\ r.entry = s.entry /\ r.hash = s.hash
  /\ ~ d => /\ r.type = IF s.type = "ERR" /\ s.entry = <<>> THEN m.ent[e].type ELSE s.type
            /\ r.entry = Append(s.entry, e) /\ r.hash = <<e>> \o s.hash

\* What symbol_add_entry makes of the symbol, duplicate or not.
LEMMA AddSymOf ==
  ASSUME NEW m, NEW s, IsSymbol(s), NEW e \in Numbered
  PROVE  SymAdded(m, s, e, AddSym(m, s, e), Duplicate(m, s, e))
<1> DEFINE r == AddSym(m, s, e)
           x == Room(s)
           y == Typed(x, m.ent[e].type)
<1>1. /\ IsSymbol(x) /\ (Len(s.entry) <= s.size => Len(s.entry) < x.size)
      /\ x.name = s.name /\ x.type = s.type /\ x.iset = s.iset
      /\ x.entry = s.entry /\ x.hash = s.hash /\ x.deflt = s.deflt
  BY RoomOf
<1>2. s.entry \in Lists /\ s.hash \in Lists BY DEF IsSymbol
<1>3. ASSUME Duplicate(m, s, e)
      PROVE  /\ IsSymbol(r) /\ r.name = s.name /\ r.iset = s.iset /\ r.deflt = s.deflt
             /\ Len(s.entry) <= s.size => Len(r.entry) <= r.size
             /\ r.type = s.type /\ r.entry = s.entry /\ r.hash = s.hash
  <2>1. r = x BY <1>3 DEF AddSym
  <2>2. x.size \in Nat /\ Len(s.entry) \in Nat BY <1>1, <1>2 DEF IsSymbol, Lists
  <2> HIDE DEF r, x
  <2> QED BY <1>1, <2>1, <2>2
<1>4. ASSUME ~ Duplicate(m, s, e)
      PROVE  /\ IsSymbol(r) /\ r.name = s.name /\ r.iset = s.iset /\ r.deflt = s.deflt
             /\ Len(s.entry) <= s.size => Len(r.entry) <= r.size
             /\ r.type = IF s.type = "ERR" /\ s.entry = <<>> THEN m.ent[e].type ELSE s.type
             /\ r.entry = Append(s.entry, e) /\ r.hash = <<e>> \o s.hash
  <2>1. r = [y EXCEPT !.entry = Append(@, e), !.hash = <<e>> \o @]
    BY <1>4 DEF AddSym
  <2> HIDE DEF r, x
  <2>2. /\ IsSymbol(y) /\ y.size = x.size /\ y.name = s.name /\ y.iset = s.iset /\ y.deflt = s.deflt
        /\ y.type = IF s.type = "ERR" /\ s.entry = <<>> THEN m.ent[e].type ELSE s.type
        /\ y.entry = s.entry /\ y.hash = s.hash
    BY <1>1, TypedOf
  <2>3. Append(s.entry, e) \in Lists /\ <<e>> \o s.hash \in Lists
    BY <1>2, TimesGrow
  <2> HIDE DEF y
  <2>4. /\ r.name = s.name /\ r.iset = s.iset /\ r.deflt = s.deflt /\ r.size = y.size /\ r.extend = y.extend
        /\ r.type = y.type /\ r.entry = Append(s.entry, e) /\ r.hash = <<e>> \o s.hash
        /\ r = [name |-> r.name, type |-> r.type, iset |-> r.iset, size |-> r.size, extend |-> r.extend,
                entry |-> r.entry, hash |-> r.hash, deflt |-> r.deflt]
    BY <2>1, <2>2 DEF IsSymbol
  <2>5. y.size \in Nat /\ y.extend \in Numbered /\ y.deflt \in Nat
    BY <2>2 DEF IsSymbol
  <2>6. IsSymbol(r) BY <2>2, <2>3, <2>4, <2>5 DEF IsSymbol
  <2>7. Len(s.entry) <= s.size => Len(r.entry) <= r.size
    <3>1. Len(Append(s.entry, e)) = Len(s.entry) + 1 /\ Len(s.entry) \in Nat
      BY <1>2 DEF Lists
    <3> QED BY <1>1, <2>2, <2>4, <2>5, <3>1
  <2> QED BY <2>2, <2>4, <2>6, <2>7
<1> QED BY <1>3, <1>4 DEF SymAdded

\* An entry of its own goes into a table: its reference is the table's or it
\* is gone.
Fits(m, s, e) ==
  /\ Key(m, e) \in ToSet(s.iset)
  /\ m.ent[e].type = IF s.type = "ERR" /\ s.entry = <<>> THEN m.ent[e].type ELSE s.type

\* Adding e to s gives memory n and symbol r; d says whether its key was there.
EntryIn(m, f, g, l, b, s, e, n, r, d) ==
  /\ Keeps(m, n) /\ IsSymbol(r) /\ TableOf(n, r)
  /\ r.name = s.name /\ r.iset = s.iset /\ r.deflt = s.deflt
  /\ d => Sound(n, f, g, l, b) /\ r.entry = s.entry /\ r.hash = s.hash /\ r.type = s.type /\ s.entry # <<>>
  /\ ~ d => /\ Sound(n, More(f, e), g, l + 1, b) /\ r.type = m.ent[e].type
            /\ r.entry = Append(s.entry, e) /\ r.hash = <<e>> \o s.hash

\* symbol_add_entry takes over the reference of its caller: into the table, or released as a duplicate.
LEMMA EntryAdded ==
  ASSUME NEW m, NEW f \in [Nat -> Nat], NEW g, NEW l, NEW b, NEW e \in Numbered,
         Sound(m, More(f, e), g, l, b),
         NEW s, IsSymbol(s), TableOf(m, s), Fits(m, s, e), \A i \in DOMAIN s.entry : f[s.entry[i]] > 0
  PROVE  EntryIn(m, f, g, l, b, s, e, AddMem(m, s, e), AddSym(m, s, e), Duplicate(m, s, e))
<1> DEFINE n == AddMem(m, s, e)
           r == AddSym(m, s, e)
<1>1. e \in Nat /\ More(f, e) \in [Nat -> Nat] /\ More(f, e)[e] > 0 /\ Less(More(f, e), e) = f
      /\ \A x \in Nat : f[x] > 0 => More(f, e)[x] > 0
  <2>1. e \in Nat BY DEF Numbered
  <2>2. /\ More(f, e) \in [Nat -> Nat] /\ More(f, e)[e] > 0 /\ Less(More(f, e), e) = f
        /\ \A x \in Nat : More(f, e)[x] = f[x] + Hit(x, e)
    BY <2>1, MoreAt, LessMore
  <2>3. \A x \in Nat : f[x] \in Nat /\ Hit(x, e) \in Nat BY DEF Hit
  <2> HIDE DEF Numbered
  <2> QED BY <2>1, <2>2, <2>3
<1>2. /\ IsSymbol(r) /\ r.name = s.name /\ r.iset = s.iset /\ r.deflt = s.deflt
      /\ Len(s.entry) <= s.size => Len(r.entry) <= r.size
      /\ Duplicate(m, s, e) => r.type = s.type /\ r.entry = s.entry /\ r.hash = s.hash
      /\ ~ Duplicate(m, s, e) => /\ r.type = IF s.type = "ERR" /\ s.entry = <<>> THEN m.ent[e].type ELSE s.type
                                 /\ r.entry = Append(s.entry, e) /\ r.hash = <<e>> \o s.hash
  <2>1. SymAdded(m, s, e, r, Duplicate(m, s, e)) BY AddSymOf
  <2> HIDE DEF r
  <2> QED BY <2>1 DEF SymAdded
<1>3. s.entry \in Lists /\ s.hash \in Lists /\ \A i \in DOMAIN s.entry : s.entry[i] \in Nat
  BY DEF IsSymbol, Lists, Numbered
<1>4. DOMAIN m.ent = {x \in Nat : More(f, e)[x] > 0} BY Living
<1> HIDE DEF r
<1>5. ASSUME Duplicate(m, s, e)
      PROVE  Keeps(m, n) /\ TableOf(n, r) /\ Sound(n, f, g, l, b) /\ s.entry # <<>>
  <2>1. n = entry_free(m, e) BY <1>5 DEF AddMem
  <2> HIDE DEF n
  <2>2. Sound(n, f, g, l, b) /\ Keeps(m, n) BY <1>1, <2>1, SoundEntFree
  <2>3. DOMAIN n.ent = {x \in Nat : f[x] > 0} BY <2>2, Living
  <2>4. TableOf(n, s) BY <1>3, <2>2, <2>3, TableKept
  <2>5. s.entry # <<>>
    <3>1. s.hash # <<>> BY <1>5, NothingFound DEF Duplicate
    <3>2. s.hash = Reverse(s.entry) /\ Len(Reverse(s.entry)) = Len(s.entry)
      BY <1>3, ReverseGrown DEF TableOf
    <3> QED BY <1>3, <3>1, <3>2 DEF Lists
  <2> QED BY <1>2, <1>5, <2>2, <2>4, <2>5 DEF TableOf
<1>6. ASSUME ~ Duplicate(m, s, e)
      PROVE  Keeps(m, n) /\ TableOf(n, r) /\ Sound(n, More(f, e), g, l + 1, b) /\ r.type = m.ent[e].type
  <2>1. n = hash_add_entry(m) BY <1>6 DEF AddMem
  <2> HIDE DEF n
  <2>2. Sound(n, More(f, e), g, l + 1, b) /\ Keeps(m, n) BY <2>1, HashCells
  <2>3. DOMAIN n.ent = DOMAIN m.ent BY <1>4, <2>2, Living
  <2>4. r.type = m.ent[e].type BY <1>2, <1>6 DEF Fits
  <2>5. e \in DOMAIN n.ent /\ n.ent[e].type = r.type /\ Key(n, e) = Key(m, e) /\ Key(n, e) \in ToSet(r.iset)
    BY <1>1, <1>2, <1>4, <2>2, <2>3, <2>4 DEF Fits, Keeps
  <2>6. TableOf(n, s)
    <3>1. \A i \in DOMAIN s.entry : s.entry[i] \in DOMAIN n.ent
      BY <2>3 DEF TableOf
    <3> QED BY <2>2, <3>1, TableKept
  <2>7. \A i \in DOMAIN s.entry : n.ent[s.entry[i]].type = r.type
    <3>1. DOMAIN s.entry # {} => s.entry # <<>> OBVIOUS
    <3>2. s.entry # <<>> => r.type = s.type BY <1>2, <1>6
    <3> QED BY <2>6, <3>1, <3>2 DEF TableOf
  <2>8. \A i \in DOMAIN s.entry : Key(n, s.entry[i]) # Key(n, e)
    <3>1. \A i \in DOMAIN s.hash : Key(m, s.hash[i]) # Key(m, e)
      BY <1>3, <1>6, NotFound DEF Duplicate
    <3>2. ASSUME NEW i \in DOMAIN s.entry PROVE \E j \in DOMAIN s.hash : s.hash[j] = s.entry[i]
      <4>1. s.hash = Reverse(s.entry) /\ Len(s.entry) \in Nat /\ DOMAIN s.entry = 1 .. Len(s.entry)
        BY <1>3 DEF TableOf, Lists
      <4> DEFINE j == (Len(s.entry) - i) + 1
      <4>2. j \in 1 .. Len(s.entry) /\ (Len(s.entry) - j) + 1 = i
        <5>1. i \in 1 .. Len(s.entry) BY <4>1
        <5> QED BY <4>1, <5>1, MirrorAt
      <4> HIDE DEF j
      <4>3. j \in DOMAIN s.hash /\ s.hash[j] = s.entry[i]
        BY <4>1, <4>2 DEF Reverse
      <4> QED BY <4>3
    <3>3. \A i \in DOMAIN s.entry : Key(m, s.entry[i]) # Key(m, e) BY <3>1, <3>2
    <3>4. \A i \in DOMAIN s.entry : Key(n, s.entry[i]) = Key(m, s.entry[i])
      BY <2>2, <2>3 DEF TableOf, Keeps
    <3> QED BY <2>5, <3>3, <3>4
  <2>9. /\ DOMAIN r.entry = DOMAIN s.entry \cup {Len(s.entry) + 1} /\ Len(s.entry) + 1 \notin DOMAIN s.entry
        /\ r.entry[Len(s.entry) + 1] = e /\ \A i \in DOMAIN s.entry : r.entry[i] = s.entry[i]
    <3>1. r.entry = Append(s.entry, e) BY <1>2, <1>6
    <3>2. /\ DOMAIN Append(s.entry, e) = DOMAIN s.entry \cup {Len(s.entry) + 1} /\ Len(s.entry) + 1 \notin DOMAIN s.entry
          /\ Append(s.entry, e)[Len(s.entry) + 1] = e
          /\ \A i \in DOMAIN s.entry : Append(s.entry, e)[i] = s.entry[i]
      BY <1>3, AppendAt
    <3> QED BY <3>1, <3>2
  <2>10. r.hash = Reverse(r.entry) BY <1>2, <1>3, <1>6, ReverseGrown DEF TableOf
  <2>11. \A i, j \in DOMAIN r.entry : Key(n, r.entry[i]) = Key(n, r.entry[j]) => i = j
    BY <2>6, <2>8, <2>9 DEF TableOf
  <2>12. \A i \in DOMAIN r.entry : /\ r.entry[i] \in DOMAIN n.ent /\ Key(n, r.entry[i]) \in ToSet(r.iset)
                                   /\ n.ent[r.entry[i]].type = r.type
    BY <1>2, <2>5, <2>6, <2>7, <2>9 DEF TableOf
  <2>13. Len(r.entry) <= r.size BY <1>2 DEF TableOf
  <2> QED BY <2>2, <2>4, <2>10, <2>11, <2>12, <2>13 DEF TableOf
<1> QED BY <1>2, <1>5, <1>6 DEF r, EntryIn

\* ---- the places that hold references

\* h.tr: what the nodes hold, h.he: what frames left behind, h.ls and h.rd: the
\* lists of the statement, h.ss: the symbols
IsLeft(x) ==
  /\ x = [tup |-> x.tup, ent |-> x.ent, cells |-> x.cells]
  /\ x.tup \in Lists /\ x.ent \in Lists /\ x.cells \in Lists
Plain(h) == IsLeft(h.tr) /\ IsLeft(h.he) /\ h.ls \in Lists /\ h.rd \in Lists /\ AreSymbols(h.ss)

\* How often the places of h hold an entry.
Holders(h, e) ==
  Times(e, h.tr.ent) + Times(e, h.he.ent) + Times(e, h.tr.cells) + Times(e, h.he.cells)
  + Times(e, h.ls) + Times(e, h.rd) + Cardinality(EntryPlaces(h.ss, e)) + Cardinality(DefaultPlaces(h.ss, e))
Refs(h)      == [e \in Nat |-> IF e = 0 THEN 0 ELSE Holders(h, e)]
TupRefs(h)   == [t \in Nat |-> Times(t, h.tr.tup) + Times(t, h.he.tup)]
CellCount(h) == Length(h.tr.cells) + Length(h.he.cells) + Length(h.ls) + Length(h.rd) + Cardinality(HashPlaces(h.ss))

\* Memory m is sound for the places h.
Ledger(m, h, b) == Sound(m, Refs(h), TupRefs(h), CellCount(h), b)

\* The places in the symbols are numbers.
LEMMA PlacesNat ==
  ASSUME NEW ss, AreSymbols(ss), NEW e \in Numbered
  PROVE  /\ Cardinality(EntryPlaces(ss, e)) \in Nat /\ Cardinality(DefaultPlaces(ss, e)) \in Nat
         /\ Cardinality(HashPlaces(ss)) \in Nat
<1>1. PICK s : s = [name |-> 0, type |-> 0, iset |-> 0, size |-> 1, extend |-> 1, entry |-> <<>>, hash |-> <<>>, deflt |-> 0]
  OBVIOUS
<1>2. IsSymbol(s) BY <1>1 DEF IsSymbol, Lists, Numbered
<1> QED BY <1>2, OneSymbolMore

\* The counts of the places are numbers: of an entry in nodes and in symbols,
\* and of cells in nodes.
InNodes(h, x) ==
  /\ Times(x, h.tr.ent) \in Nat /\ Times(x, h.he.ent) \in Nat /\ Times(x, h.tr.cells) \in Nat
  /\ Times(x, h.he.cells) \in Nat /\ Times(x, h.ls) \in Nat /\ Times(x, h.rd) \in Nat
InSymbols(ss, x) == Cardinality(EntryPlaces(ss, x)) \in Nat /\ Cardinality(DefaultPlaces(ss, x)) \in Nat
NodeCells(h) ==
  Length(h.tr.cells) \in Nat /\ Length(h.he.cells) \in Nat /\ Length(h.ls) \in Nat /\ Length(h.rd) \in Nat

\* All places are numbers.
LEMMA Parts ==
  ASSUME NEW h, Plain(h), NEW e \in Numbered
  PROVE  /\ InNodes(h, e)
         /\ Times(e, h.tr.tup) \in Nat /\ Times(e, h.he.tup) \in Nat /\ InSymbols(h.ss, e)
         /\ NodeCells(h)
         /\ Cardinality(HashPlaces(h.ss)) \in Nat
<1>1. /\ h.tr.tup \in Lists /\ h.tr.ent \in Lists /\ h.tr.cells \in Lists
      /\ h.he.tup \in Lists /\ h.he.ent \in Lists /\ h.he.cells \in Lists
      /\ h.ls \in Lists /\ h.rd \in Lists /\ AreSymbols(h.ss)
  BY DEF Plain, IsLeft
<1>2. /\ Cardinality(EntryPlaces(h.ss, e)) \in Nat /\ Cardinality(DefaultPlaces(h.ss, e)) \in Nat
      /\ Cardinality(HashPlaces(h.ss)) \in Nat
  BY <1>1, PlacesNat
<1> QED BY <1>1, <1>2, TimesNat DEF InNodes, InSymbols, NodeCells

\* What a ledger books is a number for every entry and tuple.
LEMMA Booked ==
  ASSUME NEW h, Plain(h)
  PROVE  /\ Refs(h) \in [Nat -> Nat] /\ TupRefs(h) \in [Nat -> Nat] /\ CellCount(h) \in Nat
         /\ Refs(h)[0] = 0 /\ \A e \in Numbered : Refs(h)[e] = Holders(h, e) /\ Holders(h, e) \in Nat
<1>1. ASSUME NEW e \in Numbered PROVE Holders(h, e) \in Nat /\ CellCount(h) \in Nat
  <2>1. InNodes(h, e) /\ InSymbols(h.ss, e) BY Parts
  <2>2. NodeCells(h)
        /\ Cardinality(HashPlaces(h.ss)) \in Nat
    BY Parts
  <2>3. Holders(h, e) \in Nat BY <2>1 DEF Holders, InNodes, InSymbols
  <2>4. CellCount(h) \in Nat BY <2>2 DEF CellCount, NodeCells
  <2> QED BY <2>3, <2>4
<1>2. 1 \in Numbered BY DEF Numbered
<1>3. ASSUME NEW t \in Nat PROVE Times(t, h.tr.tup) + Times(t, h.he.tup) \in Nat
  <2>1. h.tr.tup \in Lists /\ h.he.tup \in Lists BY DEF Plain, IsLeft
  <2>2. Times(t, h.tr.tup) \in Nat /\ Times(t, h.he.tup) \in Nat
    BY <2>1, TimesNat
  <2> QED BY <2>2
<1>4. TupRefs(h) \in [Nat -> Nat] BY <1>3 DEF TupRefs
<1>5. Refs(h) \in [Nat -> Nat] /\ Refs(h)[0] = 0 /\ \A e \in Numbered : Refs(h)[e] = Holders(h, e)
  BY <1>1 DEF Refs, Numbered
<1> QED BY <1>1, <1>2, <1>4, <1>5

\* One reference more.
LEMMA RefsMore ==
  ASSUME NEW h, Plain(h), NEW k, Plain(k), NEW e \in Numbered,
         \A x \in Numbered : Holders(k, x) = Holders(h, x) + Hit(x, e)
  PROVE  Refs(k) = More(Refs(h), e) /\ Less(Refs(k), e) = Refs(h) /\ Refs(k)[e] > 0
<1>1. /\ Refs(h) \in [Nat -> Nat] /\ Refs(k) \in [Nat -> Nat] /\ Refs(h)[0] = 0 /\ Refs(k)[0] = 0
      /\ \A x \in Numbered : Refs(h)[x] = Holders(h, x) /\ Refs(k)[x] = Holders(k, x)
  BY Booked
<1>2. \A x \in Nat : Refs(k)[x] = Refs(h)[x] + Hit(x, e)
  BY <1>1 DEF Hit, Numbered
<1>3. e \in Nat BY DEF Numbered
<1> QED BY <1>1, <1>2, <1>3, IsMore

\* A ledger with the same places for every entry.
LEMMA RefsSame ==
  ASSUME NEW h, Plain(h), NEW k, Plain(k), \A x \in Numbered : Holders(k, x) = Holders(h, x)
  PROVE  Refs(k) = Refs(h)
<1>1. /\ Refs(h) \in [Nat -> Nat] /\ Refs(k) \in [Nat -> Nat] /\ Refs(h)[0] = 0 /\ Refs(k)[0] = 0
      /\ \A x \in Numbered : Refs(h)[x] = Holders(h, x) /\ Refs(k)[x] = Holders(k, x)
  BY Booked
<1>2. \A x \in Nat : Refs(k)[x] = Refs(h)[x] BY <1>1 DEF Numbered
<1> QED BY <1>1, <1>2, SameNumbers

\* A ledger with one more place for one tuple.
LEMMA TupRefsMore ==
  ASSUME NEW h, Plain(h), NEW k, Plain(k), NEW t \in Numbered,
         \A x \in Nat : Times(x, k.tr.tup) + Times(x, k.he.tup) = Times(x, h.tr.tup) + Times(x, h.he.tup) + Hit(x, t)
  PROVE  TupRefs(k) = More(TupRefs(h), t) /\ Less(TupRefs(k), t) = TupRefs(h) /\ TupRefs(k)[t] > 0
<1>1. TupRefs(h) \in [Nat -> Nat] /\ TupRefs(k) \in [Nat -> Nat] /\ t \in Nat
  BY Booked DEF Numbered
<1>2. \A x \in Nat : TupRefs(k)[x] = TupRefs(h)[x] + Hit(x, t) BY DEF TupRefs
<1> QED BY <1>1, <1>2, IsMore

\* A ledger with the same tuples.
LEMMA TupRefsSame ==
  ASSUME NEW h, NEW k, k.tr.tup = h.tr.tup, k.he.tup = h.he.tup
  PROVE  TupRefs(k) = TupRefs(h)
BY DEF TupRefs
-----------------------------------------------------------------------------
\* ---- how the places change

\* The last symbol is another one, or there is one more.
LEMMA LastSymbol ==
  ASSUME NEW ss, AreSymbols(ss), ss # <<>>, NEW r, IsSymbol(r)
  PROVE  /\ AreSymbols(Front(ss)) /\ IsSymbol(ss[Len(ss)]) /\ ss = Append(Front(ss), ss[Len(ss)])
         /\ [ss EXCEPT ![Len(ss)] = r] = Append(Front(ss), r)
<1>1. PICK T : ss \in Seq(T) /\ \A s \in T : IsSymbol(s) BY DEF AreSymbols
<1>2. Front(ss) \in Seq(T) /\ ss[Len(ss)] \in T /\ ss = Append(Front(ss), ss[Len(ss)])
  BY <1>1 DEF Front
<1>3. [ss EXCEPT ![Len(ss)] = r] = Append(Front(ss), r)
  <2> DEFINE n == Len(ss)
             new == [ss EXCEPT ![n] = r]
             two == Append(Front(ss), r)
  <2>1. n \in Nat \ {0} /\ DOMAIN ss = 1 .. n BY <1>1
  <2>2. new = [i \in 1 .. n |-> IF i = n THEN r ELSE ss[i]] BY <1>1, <2>1
  <2>3. Front(ss) \in Seq(T) /\ Len(Front(ss)) = n - 1 /\ \A i \in 1 .. n - 1 : Front(ss)[i] = ss[i]
    BY <1>1, <2>1 DEF Front
  <2> HIDE DEF n
  <2>4. DOMAIN two = 1 .. n /\ two[n] = r /\ \A i \in 1 .. n - 1 : two[i] = ss[i]
    BY <2>1, <2>3
  <2>5. two = [i \in 1 .. n |-> two[i]]
    <3>1. two \in Seq(T \cup {r}) BY <2>3
    <3> HIDE DEF two
    <3> QED BY <2>4, <3>1
  <2>6. ASSUME NEW i \in 1 .. n PROVE two[i] = IF i = n THEN r ELSE ss[i]
    <3> HIDE DEF two
    <3>1. i = n \/ i \in 1 .. n - 1 BY ONLY <2>1
    <3> QED BY ONLY <2>4, <3>1, <2>1
  <2> QED BY <2>2, <2>5, <2>6 DEF n
<1> QED BY <1>1, <1>2, <1>3 DEF AreSymbols

\* The same places, the symbols apart.
SameNodes(h, k) ==
  /\ k.tr = h.tr /\ k.he = h.he /\ k.ls = h.ls /\ k.rd = h.rd

\* When only symbols change, so do only their places.
LEMMA HoldersDiffer ==
  ASSUME NEW h, Plain(h), NEW k, SameNodes(h, k), AreSymbols(k.ss), NEW x \in Numbered
  PROVE  /\ Holders(k, x) = Holders(h, x) + (Cardinality(EntryPlaces(k.ss, x)) - Cardinality(EntryPlaces(h.ss, x)))
                           + (Cardinality(DefaultPlaces(k.ss, x)) - Cardinality(DefaultPlaces(h.ss, x)))
         /\ CellCount(k) = CellCount(h) + (Cardinality(HashPlaces(k.ss)) - Cardinality(HashPlaces(h.ss)))
         /\ Holders(h, x) \in Nat /\ CellCount(h) \in Nat
<1>1. InNodes(h, x) /\ InSymbols(h.ss, x) BY Parts
<1>2. NodeCells(h)
      /\ Cardinality(HashPlaces(h.ss)) \in Nat
  BY Parts
<1>3. k.tr = h.tr /\ k.he = h.he /\ k.ls = h.ls /\ k.rd = h.rd BY DEF SameNodes
<1>4. /\ Cardinality(EntryPlaces(k.ss, x)) \in Nat /\ Cardinality(DefaultPlaces(k.ss, x)) \in Nat
      /\ Cardinality(HashPlaces(k.ss)) \in Nat
  BY PlacesNat
<1>5. Holders(k, x) = Holders(h, x) + (Cardinality(EntryPlaces(k.ss, x)) - Cardinality(EntryPlaces(h.ss, x)))
                      + (Cardinality(DefaultPlaces(k.ss, x)) - Cardinality(DefaultPlaces(h.ss, x)))
  BY <1>1, <1>3, <1>4 DEF Holders, InNodes, InSymbols
<1>6. CellCount(k) = CellCount(h) + (Cardinality(HashPlaces(k.ss)) - Cardinality(HashPlaces(h.ss)))
  BY <1>2, <1>3, <1>4 DEF CellCount, NodeCells
<1> QED BY <1>5, <1>6, Booked

\* The last symbol replaced by another with the same default.
LEMMA SymbolChanged ==
  ASSUME NEW h, Plain(h), NEW k, SameNodes(h, k), h.ss # <<>>, NEW r, IsSymbol(r),
         k.ss = [h.ss EXCEPT ![Len(h.ss)] = r], r.deflt = h.ss[Len(h.ss)].deflt
  PROVE  LET s == h.ss[Len(h.ss)] IN
         /\ Plain(k) /\ TupRefs(k) = TupRefs(h)
         /\ \A x \in Numbered : Holders(k, x) = Holders(h, x) + Times(x, r.entry) - Times(x, s.entry)
         /\ CellCount(k) = CellCount(h) + Length(r.hash) - Length(s.hash)
<1> DEFINE s == h.ss[Len(h.ss)]
           base == Front(h.ss)
<1>1. /\ AreSymbols(base) /\ IsSymbol(s) /\ h.ss = Append(base, s) /\ k.ss = Append(base, r)
  BY LastSymbol DEF Plain
<1> HIDE DEF s, base
<1>2. AreSymbols(k.ss)
  <2>1. 1 \in Numbered BY DEF Numbered
  <2>2. AreSymbols(Append(base, r)) BY <1>1, <2>1, OneSymbolMore
  <2> QED BY <1>1, <2>2
<1>3. Plain(k) BY <1>2 DEF Plain, SameNodes
<1>4. ASSUME NEW x \in Numbered
      PROVE  /\ Holders(k, x) = Holders(h, x) + Times(x, r.entry) - Times(x, s.entry)
             /\ CellCount(k) = CellCount(h) + Length(r.hash) - Length(s.hash)
  <2>1. /\ Cardinality(EntryPlaces(base, x)) \in Nat /\ Cardinality(DefaultPlaces(base, x)) \in Nat
        /\ Cardinality(HashPlaces(base)) \in Nat
    BY <1>1, PlacesNat
  <2>2. /\ Cardinality(EntryPlaces(h.ss, x)) = Cardinality(EntryPlaces(base, x)) + Times(x, s.entry)
        /\ Cardinality(DefaultPlaces(h.ss, x)) = Cardinality(DefaultPlaces(base, x)) + Hit(x, s.deflt)
        /\ Cardinality(HashPlaces(h.ss)) = Cardinality(HashPlaces(base)) + Length(s.hash)
    BY <1>1, OneSymbolMore DEF Length
  <2>3. /\ Cardinality(EntryPlaces(k.ss, x)) = Cardinality(EntryPlaces(base, x)) + Times(x, r.entry)
        /\ Cardinality(DefaultPlaces(k.ss, x)) = Cardinality(DefaultPlaces(base, x)) + Hit(x, r.deflt)
        /\ Cardinality(HashPlaces(k.ss)) = Cardinality(HashPlaces(base)) + Length(r.hash)
    <3>1. /\ Cardinality(EntryPlaces(Append(base, r), x)) = Cardinality(EntryPlaces(base, x)) + Times(x, r.entry)
          /\ Cardinality(DefaultPlaces(Append(base, r), x)) = Cardinality(DefaultPlaces(base, x)) + Hit(x, r.deflt)
          /\ Cardinality(HashPlaces(Append(base, r))) = Cardinality(HashPlaces(base)) + Len(r.hash)
      BY <1>1, OneSymbolMore
    <3> QED BY <1>1, <3>1 DEF Length
  <2>4. Hit(x, r.deflt) = Hit(x, s.deflt) /\ Hit(x, s.deflt) \in Nat
    BY DEF Hit, s
  <2>5. r.entry \in Lists /\ s.entry \in Lists /\ r.hash \in Lists /\ s.hash \in Lists
    BY <1>1 DEF IsSymbol
  <2>6. /\ Times(x, r.entry) \in Nat /\ Times(x, s.entry) \in Nat /\ Length(r.hash) \in Nat /\ Length(s.hash) \in Nat
    BY <2>5, TimesNat
  <2>7. /\ Holders(k, x) = Holders(h, x) + (Cardinality(EntryPlaces(k.ss, x)) - Cardinality(EntryPlaces(h.ss, x)))
                           + (Cardinality(DefaultPlaces(k.ss, x)) - Cardinality(DefaultPlaces(h.ss, x)))
        /\ CellCount(k) = CellCount(h) + (Cardinality(HashPlaces(k.ss)) - Cardinality(HashPlaces(h.ss)))
        /\ Holders(h, x) \in Nat /\ CellCount(h) \in Nat
    BY <1>2, HoldersDiffer
  <2>8. Holders(k, x) = Holders(h, x) + Times(x, r.entry) - Times(x, s.entry)
    BY ONLY <2>1, <2>2, <2>3, <2>4, <2>6, <2>7
  <2>9. CellCount(k) = CellCount(h) + Length(r.hash) - Length(s.hash)
    BY ONLY <2>1, <2>2, <2>3, <2>6, <2>7
  <2> QED BY <2>8, <2>9
<1>5. TupRefs(k) = TupRefs(h) BY TupRefsSame DEF SameNodes
<1>6. 1 \in Numbered BY DEF Numbered
<1> QED BY <1>3, <1>4, <1>5, <1>6 DEF s

\* One symbol more.
LEMMA SymbolAppended ==
  ASSUME NEW h, Plain(h), NEW k, SameNodes(h, k), NEW r, IsSymbol(r), k.ss = Append(h.ss, r)
  PROVE  /\ Plain(k) /\ TupRefs(k) = TupRefs(h)
         /\ \A x \in Numbered : Holders(k, x) = Holders(h, x) + Times(x, r.entry) + Hit(x, r.deflt)
         /\ CellCount(k) = CellCount(h) + Length(r.hash)
<1>1. AreSymbols(h.ss) BY DEF Plain
<1>2. AreSymbols(k.ss)
  <2>1. 1 \in Numbered BY DEF Numbered
  <2> QED BY <1>1, <2>1, OneSymbolMore
<1>3. Plain(k) BY <1>2 DEF Plain, SameNodes
<1>4. ASSUME NEW x \in Numbered
      PROVE  /\ Holders(k, x) = Holders(h, x) + Times(x, r.entry) + Hit(x, r.deflt)
             /\ CellCount(k) = CellCount(h) + Length(r.hash)
  <2>1. /\ Cardinality(EntryPlaces(k.ss, x)) = Cardinality(EntryPlaces(h.ss, x)) + Times(x, r.entry)
        /\ Cardinality(DefaultPlaces(k.ss, x)) = Cardinality(DefaultPlaces(h.ss, x)) + Hit(x, r.deflt)
        /\ Cardinality(HashPlaces(k.ss)) = Cardinality(HashPlaces(h.ss)) + Length(r.hash)
    BY <1>1, OneSymbolMore DEF Length
  <2>2. Hit(x, r.deflt) \in Nat BY DEF Hit
  <2>3. r.entry \in Lists /\ r.hash \in Lists BY DEF IsSymbol
  <2>4. Times(x, r.entry) \in Nat /\ Length(r.hash) \in Nat BY <2>3, TimesNat
  <2>5. /\ Holders(k, x) = Holders(h, x) + (Cardinality(EntryPlaces(k.ss, x)) - Cardinality(EntryPlaces(h.ss, x)))
                           + (Cardinality(DefaultPlaces(k.ss, x)) - Cardinality(DefaultPlaces(h.ss, x)))
        /\ CellCount(k) = CellCount(h) + (Cardinality(HashPlaces(k.ss)) - Cardinality(HashPlaces(h.ss)))
        /\ Holders(h, x) \in Nat /\ CellCount(h) \in Nat
    BY <1>2, HoldersDiffer
  <2>6. /\ Cardinality(EntryPlaces(h.ss, x)) \in Nat /\ Cardinality(DefaultPlaces(h.ss, x)) \in Nat
        /\ Cardinality(HashPlaces(h.ss)) \in Nat
    BY <1>1, PlacesNat
  <2>7. Holders(k, x) = Holders(h, x) + Times(x, r.entry) + Hit(x, r.deflt)
    BY ONLY <2>1, <2>2, <2>4, <2>5, <2>6
  <2>8. CellCount(k) = CellCount(h) + Length(r.hash)
    BY ONLY <2>1, <2>4, <2>5, <2>6
  <2> QED BY <2>7, <2>8
<1>5. TupRefs(k) = TupRefs(h) BY TupRefsSame DEF SameNodes
<1>6. 1 \in Numbered BY DEF Numbered
<1> QED BY <1>3, <1>4, <1>5, <1>6

\* ---- the invariant

\* The fields of the statement at work.
IsStmt(c) ==
  /\ c = [decl |-> c.decl, list |-> c.list, read |-> c.read, left |-> c.left, deflt |-> c.deflt, held |-> c.held]
  /\ c.list \in Lists /\ c.read \in Lists /\ c.left \in Nat /\ c.deflt \in Nat /\ IsLeft(c.held)

Stages == {"none", "args", "idle", "list", "front", "deflt", "begin", "by list", "by index", "each",
           "finish", "exit", "symbols", "stores", "asserted"}
Working == {"list", "front", "deflt", "begin", "by list", "by index", "each", "finish"}
Looping == {"by list", "by index", "each"}

\* Where a statement is says what it has.
InStage ==
  /\ pc \in Stages /\ IsLeft(tree) /\ IsStmt(cur) /\ AreSymbols(syms)
  /\ pc \in {"args", "idle"} => cur = NoStmt
  /\ pc \in Working => cur.decl \in Decls /\ cur.held = Nothing
  /\ pc \in {"list", "front", "deflt", "by list"} => cur.decl.kind \in {"para1", "set2"}
  /\ pc = "by index" => cur.decl.kind = "para1"
  /\ pc = "each" => cur.decl.kind \in {"set1", "para2", "var"}
  /\ pc = "list" => cur.left <= Len(cur.decl.items)
  /\ pc = "front" => cur.left # 0 /\ ToSet(cur.read) \subseteq ToSet(tree.cells)
  /\ pc \in {"deflt", "begin", "by list", "by index"} => ToSet(cur.list) \subseteq ToSet(tree.cells)
  /\ pc \in {"list", "front", "deflt"} => cur.deflt = 0
  /\ pc = "begin" /\ cur.deflt # 0 => cur.deflt \in ToSet(tree.ent)
  /\ pc = "stores" => syms = <<>>

\* The symbol a loop fills.
InLoop ==
  pc \in Looping =>
    /\ syms # <<>> /\ cur.left # 0
    /\ cur.decl.kind # "set2" => This.iset = cur.decl.iset
    /\ cur.decl.kind \in {"para1", "para2"} /\ cur.left = 1 => This.entry = <<>> /\ This.type = "ERR"
    /\ cur.decl.kind \in {"set1", "set2"} => This.type = "SET"
    /\ cur.decl.kind = "var" =>
         /\ This.type = "VAR"
         /\ \A i \in DOMAIN This.entry : mem.ent[This.entry[i]].val = <<Lower(cur.decl), Upper(cur.decl)>>

\* The lists of the declaration of a set have sets.
SetLists ==
  cur.decl.kind = "set2" =>
    /\ pc \in {"list", "front", "deflt", "begin", "by list"} => \A e \in ToSet(cur.list) : mem.ent[e].type = "SET"
    /\ pc \in {"list", "front"} => \A e \in ToSet(cur.read) : mem.ent[e].type = "SET"

\* Everything that can hold a reference now.
Places == [tr |-> tree, he |-> cur.held, ls |-> ListHeld, rd |-> ReadHeld, ss |-> syms]
NoMemory == mem.tup = <<>> /\ mem.ent = <<>> /\ mem.elem = EmptyPool /\ mem.numb = EmptyPool /\ mem.blk.count \in Int
InMemory ==
  IF pc = "none" THEN NoMemory /\ syms = <<>>
  ELSE Ledger(mem, Places, carried) /\ \A i \in DOMAIN syms : TableOf(mem, syms[i])

\* The inductive invariant.
Inv == InStage /\ InLoop /\ SetLists /\ InMemory

\* What the nodes, lists and frames hold, without the symbols.
Nodes(h, x) ==
  Times(x, h.tr.ent) + Times(x, h.he.ent) + Times(x, h.tr.cells) + Times(x, h.he.cells)
  + Times(x, h.ls) + Times(x, h.rd)
Lens(h) == Length(h.tr.cells) + Length(h.he.cells) + Length(h.ls) + Length(h.rd)
Tups(h, x) == Times(x, h.tr.tup) + Times(x, h.he.tup)

\* When only nodes change, so do only their places.
LEMMA NodesDiffer ==
  ASSUME NEW h, Plain(h), NEW k, Plain(k), k.ss = h.ss, NEW x \in Numbered
  PROVE  /\ Nodes(h, x) \in Nat /\ Nodes(k, x) \in Nat /\ Lens(h) \in Nat /\ Lens(k) \in Nat
         /\ Holders(h, x) \in Nat /\ Holders(k, x) = Holders(h, x) + (Nodes(k, x) - Nodes(h, x))
         /\ CellCount(h) \in Nat /\ CellCount(k) = CellCount(h) + (Lens(k) - Lens(h))
<1>1. InNodes(h, x) /\ NodeCells(h) BY Parts
<1>2. InNodes(k, x) /\ NodeCells(k) BY Parts
<1>3. NodeCells(h) /\ NodeCells(k) BY <1>1, <1>2
<1>4. /\ Cardinality(EntryPlaces(h.ss, x)) \in Nat /\ Cardinality(DefaultPlaces(h.ss, x)) \in Nat
      /\ Cardinality(HashPlaces(h.ss)) \in Nat
  BY Parts DEF InSymbols
<1>5. Nodes(h, x) \in Nat /\ Nodes(k, x) \in Nat /\ Lens(h) \in Nat /\ Lens(k) \in Nat
  BY ONLY <1>1, <1>2, <1>3 DEF Nodes, Lens, InNodes, NodeCells
<1>6. /\ Holders(h, x) = Nodes(h, x) + Cardinality(EntryPlaces(h.ss, x)) + Cardinality(DefaultPlaces(h.ss, x))
      /\ Holders(k, x) = Nodes(k, x) + Cardinality(EntryPlaces(h.ss, x)) + Cardinality(DefaultPlaces(h.ss, x))
  BY <1>1, <1>2 DEF Nodes, Holders, InNodes
<1>7. /\ CellCount(h) = Lens(h) + Cardinality(HashPlaces(h.ss))
      /\ CellCount(k) = Lens(k) + Cardinality(HashPlaces(h.ss))
  BY <1>3 DEF Lens, CellCount, NodeCells
<1> QED BY ONLY <1>4, <1>5, <1>6, <1>7

\* A reference handed from one place to another balances.
LEMMA Unmoved ==
  ASSUME NEW m, NEW b, NEW h, Plain(h), NEW k, Plain(k), k.ss = h.ss, Ledger(m, h, b),
         \A x \in Numbered : Nodes(k, x) = Nodes(h, x), Lens(k) = Lens(h),
         \A x \in Nat : Tups(k, x) = Tups(h, x)
  PROVE  Ledger(m, k, b)
<1>1. \A x \in Numbered : Holders(k, x) = Holders(h, x)
  <2> SUFFICES ASSUME NEW x \in Numbered PROVE Holders(k, x) = Holders(h, x)
    OBVIOUS
  <2>1. /\ Nodes(h, x) \in Nat /\ Holders(h, x) \in Nat
        /\ Holders(k, x) = Holders(h, x) + (Nodes(k, x) - Nodes(h, x))
    BY NodesDiffer
  <2>2. Nodes(k, x) = Nodes(h, x) OBVIOUS
  <2> QED BY ONLY <2>1, <2>2
<1>2. Refs(k) = Refs(h) BY <1>1, RefsSame
<1>3. CellCount(k) = CellCount(h)
  <2>1. 1 \in Numbered BY DEF Numbered
  <2>2. Lens(h) \in Nat /\ CellCount(h) \in Nat /\ CellCount(k) = CellCount(h) + (Lens(k) - Lens(h))
    BY <2>1, NodesDiffer
  <2>3. Lens(k) = Lens(h) OBVIOUS
  <2> QED BY ONLY <2>2, <2>3
<1>4. TupRefs(k) = TupRefs(h) BY DEF TupRefs, Tups
<1> QED BY <1>2, <1>3, <1>4 DEF Ledger

\* The fields of the places of a state.
PlacesAre(h, tr, he, ls, rd, ss) == h.tr = tr /\ h.he = he /\ h.ls = ls /\ h.rd = rd /\ h.ss = ss
\* The places of this state.
LEMMA PlacesNow == PlacesAre(Places, tree, cur.held, ListHeld, ReadHeld, syms)
BY DEF Places, PlacesAre
\* The places of the next.
LEMMA PlacesThen == PlacesAre(Places', tree', cur'.held, ListHeld', ReadHeld', syms')
BY DEF Places, PlacesAre

\* The places of this state are well formed.
LEMMA PlainNow ==
  ASSUME InStage
  PROVE  Plain(Places)
<1>1. IsLeft(tree) /\ IsLeft(cur.held) /\ cur.list \in Lists /\ cur.read \in Lists /\ AreSymbols(syms)
  BY DEF InStage, IsStmt
<1>2. ListHeld \in Lists /\ ReadHeld \in Lists
  BY <1>1, EmptyList DEF ListHeld, ReadHeld
<1> QED BY <1>1, <1>2, PlacesNow DEF Plain, PlacesAre

\* The places of the next state are well formed.
LEMMA PlainThen ==
  ASSUME InStage'
  PROVE  Plain(Places')
<1>1. IsLeft(tree') /\ IsLeft(cur'.held) /\ cur'.list \in Lists /\ cur'.read \in Lists /\ AreSymbols(syms')
  BY DEF InStage, IsStmt
<1>2. ListHeld' \in Lists /\ ReadHeld' \in Lists
  BY <1>1, EmptyList DEF ListHeld, ReadHeld
<1> QED BY <1>1, <1>2, PlacesThen DEF Plain, PlacesAre

\* A symbol holds its entries and its default.
LEMMA PlaceCounts ==
  ASSUME NEW ss, AreSymbols(ss), NEW i \in DOMAIN ss
  PROVE  /\ IsSymbol(ss[i])
         /\ \A j \in DOMAIN ss[i].entry : /\ ss[i].entry[j] \in Numbered
                                          /\ Cardinality(EntryPlaces(ss, ss[i].entry[j])) > 0
         /\ ss[i].deflt # 0 => ss[i].deflt \in Numbered /\ Cardinality(DefaultPlaces(ss, ss[i].deflt)) > 0
<1>1. PICK T : ss \in Seq(T) /\ \A r \in T : IsSymbol(r) BY DEF AreSymbols
<1>2. /\ DOMAIN ss = 1 .. Len(ss) /\ Len(ss) \in Nat
      /\ \A l \in DOMAIN ss : IsSymbol(ss[l])
  BY <1>1
<1>3. IsFiniteSet(DOMAIN ss) BY <1>2, FS_Interval
<1>4. ASSUME NEW j \in DOMAIN ss[i].entry
      PROVE  ss[i].entry[j] \in Numbered /\ Cardinality(EntryPlaces(ss, ss[i].entry[j])) > 0
  <2>1. ss[i].entry[j] \in Numbered
    <3>1. ss[i].entry \in Seq(Numbered) BY <1>2 DEF IsSymbol, Lists
    <3> QED BY <3>1
  <2> DEFINE e == ss[i].entry[j]
             Here(q) == {l \in DOMAIN q.entry : q.entry[l] = e}
             A == [l \in DOMAIN ss |-> Here(ss[l])]
  <2>2. ASSUME NEW q, IsSymbol(q) PROVE IsFiniteSet(Here(q))
    <3>1. q.entry \in Seq(Numbered) BY <2>2 DEF IsSymbol, Lists
    <3>2. DOMAIN q.entry = 1 .. Len(q.entry) /\ Len(q.entry) \in Nat BY <3>1
    <3>3. IsFiniteSet(1 .. Len(q.entry)) /\ Here(q) \in SUBSET (1 .. Len(q.entry))
      BY <3>2, FS_Interval
    <3> HIDE DEF Here
    <3> QED BY <3>3, FS_Subset
  <2> HIDE DEF Here
  <2>3. Finite(A) BY <1>2, <1>3, <2>2 DEF Finite
  <2>4. IsFiniteSet(Spread(A)) /\ Cardinality(Spread(A)) \in Nat
    <3> HIDE DEF A
    <3> QED BY <2>3, SpreadFinite
  <2>5. Spread(A) = EntryPlaces(ss, e) BY DEF Spread, EntryPlaces, Here
  <2>6. EntryPlaces(ss, e) # {}
    <3>1. <<i, j>> \in {i} \X {l \in DOMAIN ss[i].entry : ss[i].entry[l] = e}
      OBVIOUS
    <3> QED BY <3>1 DEF EntryPlaces
  <2> HIDE DEF A, e
  <2>7. Cardinality(EntryPlaces(ss, e)) > 0 BY <2>4, <2>5, <2>6, FS_EmptySet
  <2> QED BY <2>1, <2>7 DEF e
<1>5. ASSUME ss[i].deflt # 0
      PROVE  ss[i].deflt \in Numbered /\ Cardinality(DefaultPlaces(ss, ss[i].deflt)) > 0
  <2> DEFINE D == DefaultPlaces(ss, ss[i].deflt)
  <2>1. ss[i].deflt \in Numbered BY <1>2, <1>5 DEF IsSymbol, Numbered
  <2>2. D \in SUBSET DOMAIN ss /\ i \in D BY DEF DefaultPlaces
  <2> HIDE DEF D
  <2>3. IsFiniteSet(D) /\ Cardinality(D) \in Nat /\ D # {}
    BY <1>3, <2>2, FS_Subset, FS_CardinalityType
  <2>4. Cardinality(D) # 0 BY <2>3, FS_EmptySet
  <2>5. Cardinality(D) > 0 BY <2>3, <2>4
  <2> QED BY <2>1, <2>5 DEF D
<1> QED BY <1>2, <1>4, <1>5

\* The entries held outside the symbols.
HeldBy(h) == ToSet(h.tr.ent) \cup ToSet(h.he.ent) \cup ToSet(h.tr.cells) \cup ToSet(h.he.cells)
             \cup ToSet(h.ls) \cup ToSet(h.rd)

\* What is held is alive.
LEMMA Alive ==
  ASSUME NEW m, NEW h, NEW b, Plain(h), Ledger(m, h, b)
  PROVE  /\ \A e \in HeldBy(h) : e \in Numbered /\ Refs(h)[e] > 0 /\ e \in DOMAIN m.ent
         /\ \A i \in DOMAIN h.ss : \A j \in DOMAIN h.ss[i].entry :
              LET e == h.ss[i].entry[j] IN e \in Numbered /\ Refs(h)[e] > 0 /\ e \in DOMAIN m.ent
         /\ \A i \in DOMAIN h.ss : h.ss[i].deflt # 0 =>
              LET e == h.ss[i].deflt IN e \in Numbered /\ Refs(h)[e] > 0 /\ e \in DOMAIN m.ent
<1>1. /\ h.tr.ent \in Lists /\ h.he.ent \in Lists /\ h.tr.cells \in Lists /\ h.he.cells \in Lists
      /\ h.ls \in Lists /\ h.rd \in Lists /\ AreSymbols(h.ss)
  BY DEF Plain, IsLeft
<1>2. ASSUME NEW e \in Numbered, Holders(h, e) > 0
      PROVE  Refs(h)[e] > 0 /\ e \in DOMAIN m.ent
  <2>1. Refs(h)[e] > 0 /\ e \in Nat BY <1>2, Booked DEF Numbered
  <2>2. DOMAIN m.ent = {x \in Nat : Refs(h)[x] > 0}
    <3> DEFINE f == Refs(h)
               g == TupRefs(h)
               l == CellCount(h)
    <3>1. Sound(m, f, g, l, b) BY DEF Ledger
    <3> HIDE DEF f, g, l
    <3>2. DOMAIN m.ent = {x \in Nat : f[x] > 0} BY <3>1, Living
    <3> QED BY <3>2 DEF f
  <2> QED BY <2>1, <2>2
<1>3. ASSUME NEW e \in HeldBy(h)
      PROVE  e \in Numbered /\ Holders(h, e) > 0
  <2>1. ASSUME NEW s \in Lists, e \in ToSet(s)
        PROVE  e \in Numbered /\ Times(e, s) > 0
    <3>1. Times(e, s) > 0 BY <2>1, TimesEnds
    <3>2. \A x \in ToSet(s) : x \in Numbered BY <2>1 DEF Lists, ToSet
    <3> QED BY <2>1, <3>1, <3>2
  <2>2. /\ e \in Numbered
        /\ \/ Times(e, h.tr.ent) > 0 \/ Times(e, h.he.ent) > 0 \/ Times(e, h.tr.cells) > 0
           \/ Times(e, h.he.cells) > 0 \/ Times(e, h.ls) > 0 \/ Times(e, h.rd) > 0
    BY <1>1, <2>1 DEF HeldBy
  <2>3. InNodes(h, e) /\ InSymbols(h.ss, e) BY <2>2, Parts
  <2>4. Holders(h, e) > 0 BY ONLY <2>2, <2>3 DEF Holders, InNodes, InSymbols
  <2> QED BY <2>2, <2>4
<1>4. ASSUME NEW e \in Numbered,
             Cardinality(EntryPlaces(h.ss, e)) > 0 \/ Cardinality(DefaultPlaces(h.ss, e)) > 0
      PROVE  Holders(h, e) > 0
  <2>1. InNodes(h, e) /\ InSymbols(h.ss, e) BY Parts
  <2> QED BY ONLY <1>4, <2>1 DEF Holders, InNodes, InSymbols
<1>5. ASSUME NEW i \in DOMAIN h.ss, NEW j \in DOMAIN h.ss[i].entry
      PROVE  LET e == h.ss[i].entry[j] IN e \in Numbered /\ Refs(h)[e] > 0 /\ e \in DOMAIN m.ent
  <2> DEFINE e == h.ss[i].entry[j]
  <2>1. e \in Numbered /\ Cardinality(EntryPlaces(h.ss, e)) > 0
    BY <1>1, PlaceCounts
  <2> HIDE DEF e
  <2>2. e \in Numbered /\ Refs(h)[e] > 0 /\ e \in DOMAIN m.ent
    BY <1>2, <1>4, <2>1
  <2> QED BY <2>2 DEF e
<1>6. ASSUME NEW i \in DOMAIN h.ss, h.ss[i].deflt # 0
      PROVE  LET e == h.ss[i].deflt IN e \in Numbered /\ Refs(h)[e] > 0 /\ e \in DOMAIN m.ent
  <2> DEFINE e == h.ss[i].deflt
  <2>1. e \in Numbered /\ Cardinality(DefaultPlaces(h.ss, e)) > 0
    BY <1>1, <1>6, PlaceCounts
  <2> HIDE DEF e
  <2>2. e \in Numbered /\ Refs(h)[e] > 0 /\ e \in DOMAIN m.ent
    BY <1>2, <1>4, <2>1
  <2> QED BY <2>2 DEF e
<1> QED BY <1>2, <1>3, <1>5, <1>6

Tables(m, ss) == \A i \in DOMAIN ss : TableOf(m, ss[i])

\* Tables agree as long as what they hold is kept.
LEMMA TablesKept ==
  ASSUME NEW m, NEW n, Keeps(m, n), NEW k, Plain(k), NEW b, Ledger(n, k, b), Tables(m, k.ss)
  PROVE  Tables(n, k.ss)
<1> SUFFICES ASSUME NEW i \in DOMAIN k.ss PROVE TableOf(n, k.ss[i])
  BY DEF Tables
<1>1. \A j \in DOMAIN k.ss[i].entry : k.ss[i].entry[j] \in DOMAIN n.ent BY Alive
<1>2. TableOf(m, k.ss[i]) BY DEF Tables
<1> QED BY <1>1, <1>2, TableKept

\* A node, a list or a frame gets a reference to e.
LEMMA NodeGained ==
  ASSUME NEW h, Plain(h), NEW k, Plain(k), k.ss = h.ss, NEW e \in Numbered,
         \A x \in Numbered : Nodes(k, x) = Nodes(h, x) + Hit(x, e)
  PROVE  Refs(k) = More(Refs(h), e) /\ Less(Refs(k), e) = Refs(h) /\ Refs(k)[e] > 0
<1>1. ASSUME NEW x \in Numbered
      PROVE  Holders(k, x) = Holders(h, x) + Hit(x, e)
  <2>1. /\ Nodes(h, x) \in Nat /\ Holders(h, x) \in Nat
        /\ Holders(k, x) = Holders(h, x) + (Nodes(k, x) - Nodes(h, x))
    BY NodesDiffer
  <2>2. Nodes(k, x) = Nodes(h, x) + Hit(x, e) OBVIOUS
  <2>3. Hit(x, e) \in Nat BY DEF Hit
  <2> QED BY ONLY <2>1, <2>2, <2>3
<1> QED BY <1>1, RefsMore

\* The same entry in two of them, a node and a list cell.
LEMMA NodeGainedTwice ==
  ASSUME NEW h, Plain(h), NEW k, Plain(k), k.ss = h.ss, NEW e \in Numbered,
         \A x \in Numbered : Nodes(k, x) = Nodes(h, x) + Hit(x, e) + Hit(x, e)
  PROVE  Refs(k) = More(More(Refs(h), e), e)
<1> DEFINE f == Refs(h)
           g == Refs(k)
<1>1. f \in [Nat -> Nat] /\ g \in [Nat -> Nat] /\ f[0] = 0 /\ g[0] = 0 /\ e \in Nat
  BY Booked DEF Numbered
<1>2. ASSUME NEW x \in Numbered
      PROVE  g[x] = f[x] + Hit(x, e) + Hit(x, e)
  <2>1. /\ Nodes(h, x) \in Nat /\ Holders(h, x) \in Nat
        /\ Holders(k, x) = Holders(h, x) + (Nodes(k, x) - Nodes(h, x))
    BY NodesDiffer
  <2>2. Nodes(k, x) = Nodes(h, x) + Hit(x, e) + Hit(x, e) OBVIOUS
  <2>3. Hit(x, e) \in Nat BY DEF Hit
  <2>4. g[x] = Holders(k, x) /\ f[x] = Holders(h, x) BY Booked
  <2> QED BY ONLY <2>1, <2>2, <2>3, <2>4
<1> HIDE DEF f, g
<1> DEFINE p == More(f, e)
           q == More(p, e)
<1>3. p \in [Nat -> Nat] /\ \A x \in Nat : p[x] = f[x] + Hit(x, e)
  BY <1>1, MoreAt
<1> HIDE DEF p
<1>4. q \in [Nat -> Nat] /\ \A x \in Nat : q[x] = p[x] + Hit(x, e)
  BY <1>1, <1>3, MoreAt
<1> HIDE DEF q
<1>5. ASSUME NEW x \in Nat PROVE g[x] = q[x]
  <2>1. q[x] = f[x] + Hit(x, e) + Hit(x, e) /\ f[x] \in Nat
    <3>1. q[x] = p[x] + Hit(x, e) /\ p[x] = f[x] + Hit(x, e) /\ f[x] \in Nat
      BY <1>1, <1>3, <1>4
    <3>2. Hit(x, e) \in Nat BY DEF Hit
    <3> QED BY <3>1, <3>2
  <2>2. CASE x \in Numbered BY <1>2, <2>1, <2>2
  <2>3. CASE x \notin Numbered
    <3>1. x = 0 /\ Hit(x, e) = 0 BY <2>3 DEF Numbered, Hit
    <3> QED BY <1>1, <2>1, <3>1
  <2> QED BY <2>2, <2>3
<1>6. g = q BY <1>1, <1>4, <1>5, SameNumbers
<1> QED BY <1>6 DEF f, g, p, q

\* The cells when only nodes change.
LEMMA CellsDiffer ==
  ASSUME NEW h, Plain(h), NEW k, Plain(k), k.ss = h.ss
  PROVE  /\ Lens(h) \in Nat /\ CellCount(h) \in Nat /\ CellCount(k) \in Nat
         /\ CellCount(k) = CellCount(h) + (Lens(k) - Lens(h))
<1>1. 1 \in Numbered BY DEF Numbered
<1> QED BY <1>1, NodesDiffer

\* A tuple more in the nodes.
LEMMA TupGained ==
  ASSUME NEW h, Plain(h), NEW k, Plain(k), NEW t \in Numbered,
         \A x \in Nat : Tups(k, x) = Tups(h, x) + Hit(x, t)
  PROVE  TupRefs(k) = More(TupRefs(h), t) /\ Less(TupRefs(k), t) = TupRefs(h) /\ TupRefs(k)[t] > 0
<1>1. \A x \in Nat : Times(x, k.tr.tup) + Times(x, k.he.tup) = Times(x, h.tr.tup) + Times(x, h.he.tup) + Hit(x, t)
  BY DEF Tups
<1> QED BY ONLY <1>1, TupRefsMore, Plain(h), Plain(k), t \in Numbered

\* A node that keeps one more tuple holds it.
LEMMA TupleGiven ==
  ASSUME NEW h, Plain(h), NEW k, Plain(k), NEW t \in Numbered, k.tr.tup = Append(h.tr.tup, t), k.he.tup = h.he.tup
  PROVE  TupRefs(k) = More(TupRefs(h), t)
<1>1. h.tr.tup \in Lists /\ h.he.tup \in Lists BY DEF Plain, IsLeft
<1>2. ASSUME NEW x \in Nat PROVE Tups(k, x) = Tups(h, x) + Hit(x, t)
  <2>1. /\ Hit(x, t) \in Nat /\ Times(x, h.tr.tup) \in Nat /\ Times(x, h.he.tup) \in Nat
        /\ Times(x, k.tr.tup) = Times(x, h.tr.tup) + Hit(x, t)
    <3>1. Times(x, Append(h.tr.tup, t)) = Times(x, h.tr.tup) + Hit(x, t) /\ Hit(x, t) \in Nat
      BY ONLY <1>1, t \in Numbered, x \in Nat, TimesGrow
    <3>2. Times(x, h.tr.tup) \in Nat /\ Times(x, h.he.tup) \in Nat
      BY ONLY <1>1, x \in Nat, TimesNat
    <3> QED BY <3>1, <3>2
  <2> QED BY ONLY <2>1, k.he.tup = h.he.tup DEF Tups
<1> QED BY <1>2, TupGained

-----------------------------------------------------------------------------
\* ---- steps that leave the memory alone

\* A step inside a session that leaves memory and symbols alone.
Quiet == mem' = mem /\ syms' = syms /\ carried' = carried /\ pc # "none" /\ pc' # "none"

\* A step that only hands references from place to place keeps memory accounted for.
LEMMA Handed ==
  ASSUME Inv, InStage', Quiet, \A x \in Numbered : Nodes(Places', x) = Nodes(Places, x),
         Lens(Places') = Lens(Places), \A x \in Nat : Tups(Places', x) = Tups(Places, x)
  PROVE  InMemory'
<1>1. Plain(Places) /\ Plain(Places') BY PlainNow, PlainThen DEF Inv
<1>2. Ledger(mem, Places, carried) BY DEF Inv, InMemory, Quiet
<1>3. Places'.ss = Places.ss BY PlacesNow, PlacesThen DEF Quiet, PlacesAre
<1> DEFINE h == Places
           k == Places'
<1> HIDE DEF h, k
<1>4. Ledger(mem, k, carried) BY <1>1, <1>2, <1>3, Unmoved DEF h, k
<1> QED BY <1>4 DEF Inv, InMemory, Quiet, k

\* A step that touches no place keeps memory accounted for.
LEMMA Still ==
  ASSUME Inv, InStage', Quiet, tree' = tree, cur'.held = cur.held, ListHeld' = ListHeld, ReadHeld' = ReadHeld
  PROVE  InMemory'
<1>1. Places' = Places BY DEF Quiet, Places
<1> QED BY <1>1 DEF Inv, InMemory, Quiet

\* Between statements nothing is held.
LEMMA EmptyPlaces == NoStmt.list = <<>> /\ NoStmt.read = <<>> /\ NoStmt.held = Nothing /\ IsLeft(Nothing) /\ IsStmt(NoStmt)
<1>1. <<>> \in Lists BY EmptyList
<1>2. IsLeft(Nothing) BY <1>1 DEF IsLeft, Nothing
<1> QED BY <1>1, <1>2 DEF NoStmt, IsStmt

\* What every step does: the invariant holds again, and an entry that lives on
\* has the key, the type and the value it had.
Onward == Inv' /\ Keeps(mem, mem')

\* Untouched memory keeps every entry.
LEMMA SameMemory ==
  ASSUME mem' = mem
  PROVE  Keeps(mem, mem')
BY DEF Keeps

\* zpl_read goes from the parameters to the program.
LEMMA LoadKeeps ==
  ASSUME Inv, Load
  PROVE  Onward
<1>1. InStage' BY DEF Inv, InStage, Load, Stages, Working
<1>2. InLoop' /\ SetLists' BY DEF InLoop, SetLists, Load, Looping
<1>3. InMemory' BY <1>1, Still DEF Load, Quiet, ListHeld, ReadHeld
<1>4. Keeps(mem, mem') BY SameMemory DEF Load
<1> QED BY <1>1, <1>2, <1>3, <1>4 DEF Inv, Onward

\* The program was executed.
LEMMA EndOfProgramKeeps ==
  ASSUME Inv, EndOfProgram
  PROVE  Onward
<1>1. InStage' BY DEF Inv, InStage, EndOfProgram, Stages, Working
<1>2. InLoop' /\ SetLists' BY DEF InLoop, SetLists, EndOfProgram, Looping
<1>3. InMemory' BY <1>1, Still DEF EndOfProgram, Quiet, ListHeld, ReadHeld
<1>4. Keeps(mem, mem') BY SameMemory DEF EndOfProgram
<1> QED BY <1>1, <1>2, <1>3, <1>4 DEF Inv, Onward

\* A name is used: nothing is made; error 801 or 142, or the assertion, may end the program.
LEMMA UseKeeps ==
  ASSUME Inv, NEW s, NEW key, Use(s, key)
  PROVE  Onward
<1>1. pc' \in {"exit", "asserted"} BY DEF Use
<1>2. InStage' BY <1>1 DEF Inv, InStage, Use, Stages, Working
<1>3. InLoop' /\ SetLists' BY <1>1 DEF InLoop, SetLists, Looping
<1>4. ListHeld' = ListHeld /\ ReadHeld' = ReadHeld
  BY <1>1, EmptyPlaces DEF Inv, InStage, Use, ListHeld, ReadHeld
<1>5. InMemory' BY <1>1, <1>2, <1>4, Still DEF Use, Quiet
<1>6. Keeps(mem, mem') BY SameMemory DEF Use
<1> QED BY <1>2, <1>3, <1>5, <1>6 DEF Inv, Onward

\* A statement begins.
LEMMA DeclareKeeps ==
  ASSUME Inv, NEW d \in Decls, Declare(d)
  PROVE  Onward
<1>1. cur = NoStmt /\ pc = "idle" BY DEF Inv, InStage, Declare
<1>2. IsDecl(d) BY SymbolTableAssumption
<1>3. /\ IsStmt(cur') /\ cur'.held = Nothing /\ cur'.list = <<>> /\ cur'.read = <<>>
      /\ pc' \in {"idle", "exit", "list", "begin"}
      /\ pc' \in {"list", "begin"} => cur'.decl = d /\ cur'.deflt = 0
      /\ pc' = "list" => d.kind \in {"para1", "set2"} /\ cur'.left = Len(d.items)
      /\ pc' = "idle" => cur' = NoStmt
  <2>1. CASE UNCHANGED cur /\ pc' \in {"idle", "exit"}
    BY <1>1, <2>1, EmptyPlaces
  <2>2. CASE ~ Used(d.name)
    <3>1. /\ pc' = (IF d.kind \in {"para1", "set2"} THEN "list" ELSE "begin")
          /\ cur' = [NoStmt EXCEPT !.decl = d, !.left = IF d.kind \in {"para1", "set2"} THEN Len(d.items) ELSE 0]
      BY <2>2 DEF Declare
    <3>2. d.kind \in {"para1", "set2"} => Len(d.items) \in Nat
      BY <1>2 DEF IsDecl, IsItems
    <3> DEFINE n == IF d.kind \in {"para1", "set2"} THEN Len(d.items) ELSE 0
    <3>3. n \in Nat BY <3>2
    <3>4. cur' = [NoStmt EXCEPT !.decl = d, !.left = n] BY <3>1
    <3> HIDE DEF n
    <3>5. cur' = [decl |-> d, list |-> <<>>, read |-> <<>>, left |-> n, deflt |-> 0, held |-> Nothing]
      BY <3>4 DEF NoStmt
    <3>6. IsStmt(cur') /\ cur'.held = Nothing /\ cur'.list = <<>> /\ cur'.read = <<>> /\ cur'.decl = d /\ cur'.deflt = 0
          /\ cur'.left = n
      BY <3>3, <3>5, EmptyPlaces, EmptyList DEF IsStmt
    <3> QED BY <3>1, <3>6 DEF n
  <2> QED BY <1>1, <2>1, <2>2 DEF Declare
<1>4. InStage'
  <2>1. pc' = "begin" => d.kind \in {"set1", "para2", "var"}
    BY <1>1, <1>2 DEF Declare, IsDecl
  <2>2. ToSet(cur'.list) = {} BY <1>3 DEF ToSet
  <2>3. pc' = "list" => Len(d.items) \in Nat BY <1>2, <1>3 DEF IsDecl, IsItems
  <2>4. IsLeft(tree') /\ AreSymbols(syms') BY DEF Inv, InStage, Declare
  <2>5. pc' = "list" => cur'.left <= Len(cur'.decl.items) BY <1>3, <2>3
  <2> QED BY <1>3, <2>1, <2>2, <2>4, <2>5 DEF InStage, Stages, Working
<1>5. InLoop' BY <1>3 DEF InLoop, Looping
<1>6. SetLists'
  <2>1. ToSet(cur'.list) = {} /\ ToSet(cur'.read) = {} BY <1>3 DEF ToSet
  <2> QED BY <2>1 DEF SetLists
<1>7. InMemory'
  <2>1. ListHeld = <<>> /\ ReadHeld = <<>> /\ ListHeld' = <<>> /\ ReadHeld' = <<>> /\ cur.held = Nothing
    BY <1>1, <1>3, EmptyPlaces DEF ListHeld, ReadHeld
  <2> QED BY <1>1, <1>3, <1>4, <2>1, Still DEF Declare, Quiet
<1>8. Keeps(mem, mem') BY SameMemory DEF Declare
<1> QED BY <1>4, <1>5, <1>6, <1>7, <1>8 DEF Inv, Onward

\* What an error leaves behind.
LEMMA Failed ==
  ASSUME Inv, NEW n, NEW left, IsLeft(left), Fail(n, left), IsLeft(tree'), AreSymbols(syms')
  PROVE  /\ InStage' /\ InLoop' /\ SetLists'
         /\ cur'.held = left /\ ListHeld' = <<>> /\ ReadHeld' = <<>>
         /\ pc' = "exit" /\ carried' = carried
<1>1. pc' = "exit" /\ cur' = [cur EXCEPT !.held = left] /\ IsStmt(cur) /\ carried' = carried
  BY DEF Inv, InStage, Fail
<1>2. cur' = [decl |-> cur.decl, list |-> cur.list, read |-> cur.read, left |-> cur.left, deflt |-> cur.deflt,
              held |-> left]
  BY <1>1 DEF IsStmt
<1>3. IsStmt(cur') /\ cur'.held = left BY <1>1, <1>2 DEF IsStmt
<1>4. InStage' BY <1>1, <1>3 DEF InStage, Stages, Working
<1> QED BY <1>1, <1>3, <1>4 DEF InLoop, Looping, SetLists, ListHeld, ReadHeld

\* An error of the list leaves both lists behind.
LEMMA LeftListsKeep ==
  ASSUME Inv, pc = "list", NEW n, Fail(n, LeftLists), UNCHANGED <<mem, syms, tree>>
  PROVE  Onward
<1>1. /\ cur.list \in Lists /\ cur.read \in Lists /\ cur.held = Nothing /\ IsLeft(tree) /\ AreSymbols(syms)
      /\ pc # "none"
  BY DEF Inv, InStage, IsStmt, Working
<1>2. LeftLists = [tup |-> <<>>, ent |-> <<>>, cells |-> cur.list \o cur.read]
  BY DEF LeftLists
<1>3. cur.list \o cur.read \in Lists /\ Length(cur.list \o cur.read) = Length(cur.list) + Length(cur.read)
      /\ Length(cur.list) \in Nat /\ Length(cur.read) \in Nat
  <2>1. 1 \in Numbered BY DEF Numbered
  <2> QED BY <1>1, <2>1, TimesJoined, LengthOf, TimesNat
<1>4. IsLeft(LeftLists) BY <1>2, <1>3, EmptyList DEF IsLeft
<1>5. /\ InStage' /\ InLoop' /\ SetLists'
      /\ cur'.held = LeftLists /\ ListHeld' = <<>> /\ ReadHeld' = <<>>
      /\ pc' = "exit" /\ carried' = carried
  BY <1>1, <1>4, Failed
<1> DEFINE h == Places
           k == Places'
<1>6. /\ h.tr = tree /\ h.he = Nothing /\ h.ls = cur.list /\ h.rd = cur.read
      /\ k.tr = tree /\ k.he = LeftLists /\ k.ls = <<>> /\ k.rd = <<>>
  <2>1. ListHeld = cur.list /\ ReadHeld = cur.read BY DEF ListHeld, ReadHeld
  <2> QED BY <1>1, <1>5, <2>1, PlacesNow, PlacesThen DEF PlacesAre
<1> HIDE DEF h, k
<1>7. ASSUME NEW x \in Numbered PROVE Nodes(k, x) = Nodes(h, x)
  <2>1. /\ Times(x, cur.list) \in Nat /\ Times(x, cur.read) \in Nat
        /\ Times(x, tree.ent) \in Nat /\ Times(x, tree.cells) \in Nat
        /\ Times(x, cur.list \o cur.read) = Times(x, cur.list) + Times(x, cur.read)
    BY <1>1, TimesJoined, TimesNat DEF IsLeft
  <2>2. Times(x, <<>>) = 0 BY EmptyList
  <2>3. Nodes(h, x) = Times(x, tree.ent) + Times(x, <<>>) + Times(x, tree.cells) + Times(x, <<>>)
                      + Times(x, cur.list) + Times(x, cur.read)
    BY <1>6 DEF Nodes, Nothing
  <2>4. Nodes(k, x) = Times(x, tree.ent) + Times(x, <<>>) + Times(x, tree.cells) + Times(x, cur.list \o cur.read)
                      + Times(x, <<>>) + Times(x, <<>>)
    BY <1>2, <1>6 DEF Nodes
  <2> QED BY ONLY <2>1, <2>2, <2>3, <2>4
<1>8. Lens(k) = Lens(h)
  <2>1. Length(tree.cells) \in Nat /\ Length(<<>>) = 0
    BY <1>1, EmptyList, TimesNat DEF IsLeft
  <2>2. Lens(h) = Length(tree.cells) + Length(<<>>) + Length(cur.list) + Length(cur.read)
    BY <1>6 DEF Lens, Nothing
  <2>3. Lens(k) = Length(tree.cells) + Length(cur.list \o cur.read) + Length(<<>>) + Length(<<>>)
    BY <1>2, <1>6 DEF Lens
  <2> QED BY ONLY <1>3, <2>1, <2>2, <2>3
<1>9. ASSUME NEW x \in Nat PROVE Tups(k, x) = Tups(h, x)
  BY <1>2, <1>6 DEF Tups, Nothing
<1>10. InMemory'
  <2>1. Quiet BY <1>1, <1>5 DEF Quiet
  <2> QED BY <1>5, <1>7, <1>8, <1>9, <2>1, Handed DEF h, k
<1>11. Keeps(mem, mem') BY SameMemory
<1> QED BY <1>5, <1>10, <1>11 DEF Inv, Onward

\* A table of the wrong width: error 172.
LEMMA MatrixErrorKeeps ==
  ASSUME Inv, MatrixError
  PROVE  Onward
<1>1. pc = "list" /\ Fail(172, LeftLists) /\ UNCHANGED <<mem, syms, tree>>
  BY DEF MatrixError, HeadRead
<1> QED BY <1>1, LeftListsKeep

\* A list of tuples becomes a list of index entries.
LEMMA TupleListKeeps ==
  ASSUME Inv, TupleList
  PROVE  Onward
<1>1. CASE Fail(132, LeftLists)
  <2>1. pc = "list" /\ UNCHANGED <<mem, syms, tree>> BY <1>1 DEF TupleList
  <2> QED BY <1>1, <2>1, LeftListsKeep
<1>2. CASE pc' = "asserted" /\ UNCHANGED <<mem, syms, tree, cur, err, carried, stmts, sessions>>
  <2>1. InStage' BY <1>2 DEF Inv, InStage, Stages, Working
  <2>2. InLoop' /\ SetLists' BY <1>2 DEF InLoop, SetLists, Looping
  <2>3. InMemory' BY <1>2, <2>1, Still DEF TupleList, Quiet, ListHeld, ReadHeld
  <2>4. Keeps(mem, mem') BY <1>2, SameMemory
  <2> QED BY <2>1, <2>2, <2>3, <2>4 DEF Inv, Onward
<1> QED BY <1>1, <1>2 DEF TupleList

\* a statement refused while its symbol is made or filled
LEMMA RefusedKeeps ==
  ASSUME Inv, pc \in Working \ {"list", "front"}, NEW n, Refused(n)
  PROVE  Onward
<1>1. cur.held = Nothing /\ IsLeft(tree) /\ AreSymbols(syms) /\ pc # "none" /\ ListHeld = <<>> /\ ReadHeld = <<>>
  BY DEF Inv, InStage, Working, ListHeld, ReadHeld
<1>2. Fail(n, Nothing) /\ UNCHANGED <<mem, syms, tree>> /\ IsLeft(Nothing)
  BY EmptyPlaces DEF Refused
<1>3. /\ InStage' /\ InLoop' /\ SetLists'
      /\ cur'.held = Nothing /\ ListHeld' = <<>> /\ ReadHeld' = <<>>
      /\ pc' = "exit" /\ carried' = carried
  BY <1>1, <1>2, Failed
<1>4. InMemory' BY <1>1, <1>2, <1>3, Still DEF Quiet
<1>5. Keeps(mem, mem') BY SameMemory DEF Refused
<1> QED BY <1>3, <1>4, <1>5 DEF Inv, Onward

\* The members of joined lists.
LEMMA SetOfJoined ==
  ASSUME NEW s \in Lists, NEW t \in Lists
  PROVE  ToSet(s \o t) = ToSet(s) \cup ToSet(t) /\ ToSet(<<>>) = {} /\ ToSet(s) \subseteq Numbered
<1>1. \A e : e \in ToSet(s \o t) <=> e \in ToSet(s) \cup ToSet(t)
  <2> SUFFICES ASSUME NEW e PROVE e \in ToSet(s \o t) <=> e \in ToSet(s) \cup ToSet(t)
    OBVIOUS
  <2>1. /\ Times(e, s) \in Nat /\ Times(e, t) \in Nat /\ s \o t \in Lists
        /\ Times(e, s \o t) = Times(e, s) + Times(e, t)
    BY TimesJoined
  <2>2. /\ Times(e, s) > 0 <=> e \in ToSet(s)
        /\ Times(e, t) > 0 <=> e \in ToSet(t)
        /\ Times(e, s \o t) > 0 <=> e \in ToSet(s \o t)
    BY <2>1, TimesEnds
  <2> QED BY <2>1, <2>2
<1>2. ToSet(s) \subseteq Numbered BY DEF ToSet, Lists
<1>3. ToSet(<<>>) = {} BY DEF ToSet
<1>4. ToSet(s \o t) = ToSet(s) \cup ToSet(t) BY <1>1
<1> QED BY <1>2, <1>3, <1>4

\* Cells given to the nodes.
LEMMA TreeCells ==
  ASSUME IsLeft(tree), NEW s \in Lists, tree' = [tree EXCEPT !.cells = @ \o s]
  PROVE  /\ IsLeft(tree') /\ tree'.tup = tree.tup /\ tree'.ent = tree.ent /\ tree'.cells = tree.cells \o s
         /\ ToSet(s) \subseteq ToSet(tree'.cells)
<1>1. tree = [tup |-> tree.tup, ent |-> tree.ent, cells |-> tree.cells]
  BY DEF IsLeft
<1>2. tree' = [tup |-> tree.tup, ent |-> tree.ent, cells |-> tree.cells \o s]
  BY <1>1
<1>3. tree.cells \in Lists /\ tree.cells \o s \in Lists
  BY TimesJoined DEF IsLeft
<1>4. ToSet(tree.cells \o s) = ToSet(tree.cells) \cup ToSet(s)
  BY <1>3, SetOfJoined
<1>5. /\ tree'.tup = tree.tup /\ tree'.ent = tree.ent /\ tree'.cells = tree.cells \o s
      /\ tree' = [tup |-> tree'.tup, ent |-> tree'.ent, cells |-> tree'.cells]
  BY <1>2
<1> QED BY <1>3, <1>4, <1>5 DEF IsLeft

\* A list of the statement becomes one of a node.
LEMMA CellsMoved ==
  ASSUME Inv, InStage', Quiet, NEW s \in Lists, tree' = [tree EXCEPT !.cells = @ \o s], cur'.held = cur.held,
         \A x \in Numbered : Times(x, ListHeld) + Times(x, ReadHeld) = Times(x, s) + Times(x, ListHeld') + Times(x, ReadHeld'),
         Length(ListHeld) + Length(ReadHeld) = Length(s) + Length(ListHeld') + Length(ReadHeld')
  PROVE  InMemory'
<1>1. Plain(Places) /\ Plain(Places') BY PlainNow, PlainThen DEF Inv
<1>2. tree'.tup = tree.tup /\ tree'.ent = tree.ent /\ tree'.cells = tree.cells \o s /\ tree.cells \in Lists
  <2>1. IsLeft(tree) BY ONLY Inv, Zenon DEF Inv, InStage
  <2>2. s \in Lists /\ tree' = [tree EXCEPT !.cells = @ \o s] OBVIOUS
  <2>3. tree'.tup = tree.tup /\ tree'.ent = tree.ent /\ tree'.cells = tree.cells \o s
    BY ONLY <2>1, <2>2, TreeCells
  <2> QED BY ONLY <2>1, <2>3 DEF IsLeft
<1> DEFINE h == Places
           k == Places'
<1>3. /\ h.tr = tree /\ h.he = cur.held /\ h.ls = ListHeld /\ h.rd = ReadHeld
      /\ k.tr = tree' /\ k.he = cur.held /\ k.ls = ListHeld' /\ k.rd = ReadHeld'
  BY PlacesNow, PlacesThen DEF PlacesAre
<1>4. ASSUME NEW x \in Numbered PROVE Nodes(Places', x) = Nodes(Places, x)
  <2>1. InNodes(h, x) BY <1>1, Parts
  <2>2. Times(x, k.ls) \in Nat /\ Times(x, k.rd) \in Nat /\ Times(x, s) \in Nat
    BY <1>1, Parts, TimesNat DEF InNodes
  <2> HIDE DEF h, k
  <2>3. Times(x, k.tr.cells) = Times(x, h.tr.cells) + Times(x, s)
    BY <1>2, <1>3, TimesJoined
  <2>4. Times(x, h.ls) + Times(x, h.rd) = Times(x, s) + Times(x, k.ls) + Times(x, k.rd)
    BY <1>3
  <2>5. k.tr.ent = h.tr.ent /\ k.he = h.he BY <1>2, <1>3
  <2>6. Nodes(k, x) = Nodes(h, x)
    BY ONLY <2>1, <2>2, <2>3, <2>4, <2>5 DEF Nodes, InNodes
  <2> QED BY <2>6 DEF h, k
<1>5. Lens(Places') = Lens(Places)
  <2>1. 1 \in Numbered BY DEF Numbered
  <2>2. NodeCells(h)
        /\ Length(k.ls) \in Nat /\ Length(k.rd) \in Nat
    BY <1>1, <2>1, Parts DEF NodeCells
  <2> HIDE DEF h, k
  <2>3. Length(s) \in Nat /\ Length(k.tr.cells) = Length(h.tr.cells) + Length(s)
    <3>1. Length(tree.cells \o s) = Length(tree.cells) + Length(s)
      BY <1>2, <2>1, LengthOf
    <3> QED BY <1>2, <1>3, <3>1, TimesNat
  <2>4. Length(h.ls) + Length(h.rd) = Length(s) + Length(k.ls) + Length(k.rd)
    BY <1>3
  <2>5. k.he = h.he BY <1>3
  <2>6. Lens(k) = Lens(h) BY ONLY <2>2, <2>3, <2>4, <2>5 DEF Lens, NodeCells
  <2> QED BY <2>6 DEF h, k
<1>6. ASSUME NEW x \in Nat PROVE Tups(Places', x) = Tups(Places, x)
  BY <1>2, <1>3 DEF Tups
<1> QED BY <1>4, <1>5, <1>6, Handed

\* i_entry_list_new: the list becomes a node.
LEMMA ListNodeKeeps ==
  ASSUME Inv, ListNode
  PROVE  Onward
<1>1. /\ pc = "list" /\ mem' = mem /\ syms' = syms /\ carried' = carried
  BY DEF ListNode, HeadRead
<1>2. /\ cur.list \in Lists /\ cur.read \in Lists /\ IsStmt(cur) /\ IsLeft(tree) /\ AreSymbols(syms)
      /\ cur.held = Nothing /\ cur.decl \in Decls /\ cur.decl.kind \in {"para1", "set2"} /\ cur.deflt = 0
      /\ cur.left \in Nat
  BY <1>1 DEF Inv, InStage, IsStmt, Working
<1>3. ListHeld = cur.list /\ ReadHeld = cur.read BY <1>1 DEF ListHeld, ReadHeld
<1>4. 1 \in Numbered /\ 1 \in Nat BY DEF Numbered
<1>5. cur.decl.kind = "set2" => \A e \in ToSet(cur.list) \cup ToSet(cur.read) : mem.ent[e].type = "SET"
  BY <1>1 DEF Inv, SetLists
<1>8. Keeps(mem, mem') BY <1>1, SameMemory
<1>6. CASE /\ cur' = [cur EXCEPT !.list = cur.read \o cur.list]
           /\ tree' = [tree EXCEPT !.cells = @ \o cur.read \o cur.list]
           /\ pc' = "deflt"
  <2> DEFINE s == cur.read \o cur.list
  <2>1. s \in Lists /\ Length(s) = Length(cur.read) + Length(cur.list)
        /\ Length(cur.read) \in Nat /\ Length(cur.list) \in Nat
    BY <1>2, <1>4, TimesJoined, LengthOf, TimesNat
  <2>3. tree' = [tree EXCEPT !.cells = @ \o s]
    <3>1. (tree.cells \o cur.read) \o cur.list = tree.cells \o s
      <4>1. tree.cells \in Lists BY <1>2 DEF IsLeft
      <4> QED BY <1>2, <4>1, JoinedTwice
    <3> QED BY <1>6, <3>1
  <2>4. ToSet(s) = ToSet(cur.read) \cup ToSet(cur.list) BY <1>2, SetOfJoined
  <2> HIDE DEF s
  <2>5. IsLeft(tree') /\ ToSet(s) \subseteq ToSet(tree'.cells)
    BY <1>2, <2>1, <2>3, TreeCells
  <2>6. cur'.decl = cur.decl /\ cur'.list = s /\ cur'.read = cur.read /\ cur'.left = cur.left
        /\ cur'.deflt = cur.deflt /\ cur'.held = cur.held /\ IsStmt(cur')
    BY <1>2, <1>6, <2>1 DEF IsStmt, s
  <2>7. InStage' BY <1>1, <1>2, <1>6, <2>5, <2>6 DEF InStage, Stages, Working
  <2>8. InLoop' BY <1>6 DEF InLoop, Looping
  <2>9. SetLists' BY <1>1, <1>5, <2>4, <2>6 DEF SetLists
  <2>10. ListHeld' = <<>> /\ ReadHeld' = <<>> BY <1>6 DEF ListHeld, ReadHeld
  <2>11. ASSUME NEW x \in Numbered
         PROVE  Times(x, ListHeld) + Times(x, ReadHeld) = Times(x, s) + Times(x, ListHeld') + Times(x, ReadHeld')
    <3>1. Times(x, s) = Times(x, cur.read) + Times(x, cur.list)
      BY <1>2, TimesJoined DEF s
    <3>2. Times(x, <<>>) = 0 /\ Times(x, cur.read) \in Nat /\ Times(x, cur.list) \in Nat
      BY <1>2, EmptyList, TimesNat
    <3> QED BY <1>3, <2>10, <3>1, <3>2
  <2>12. Length(ListHeld) + Length(ReadHeld) = Length(s) + Length(ListHeld') + Length(ReadHeld')
    BY <1>3, <2>1, <2>10, EmptyList
  <2>13. Quiet BY <1>1, <1>6 DEF Quiet
  <2>14. InMemory' BY <2>1, <2>3, <2>6, <2>7, <2>11, <2>12, <2>13, CellsMoved
  <2> QED BY <2>7, <2>8, <2>9, <2>14, <1>8 DEF Inv, Onward
<1>7. CASE /\ cur' = [cur EXCEPT !.left = 1]
           /\ tree' = [tree EXCEPT !.cells = @ \o cur.read]
           /\ pc' = "front"
  <2>5. IsLeft(tree') /\ ToSet(cur.read) \subseteq ToSet(tree'.cells)
    BY <1>2, <1>7, TreeCells
  <2>6. cur'.decl = cur.decl /\ cur'.list = cur.list /\ cur'.read = cur.read /\ cur'.left = 1
        /\ cur'.deflt = cur.deflt /\ cur'.held = cur.held /\ IsStmt(cur')
    BY <1>2, <1>7 DEF IsStmt
  <2>7. InStage' BY <1>1, <1>2, <1>7, <2>5, <2>6 DEF InStage, Stages, Working
  <2>8. InLoop' BY <1>7 DEF InLoop, Looping
  <2>9. SetLists' BY <1>1, <1>5, <2>6 DEF SetLists
  <2>10. ListHeld' = cur.list /\ ReadHeld' = <<>>
    BY <1>7, <2>6 DEF ListHeld, ReadHeld
  <2>11. ASSUME NEW x \in Numbered
         PROVE  Times(x, ListHeld) + Times(x, ReadHeld) = Times(x, cur.read) + Times(x, ListHeld') + Times(x, ReadHeld')
    <3>2. Times(x, <<>>) = 0 /\ Times(x, cur.read) \in Nat /\ Times(x, cur.list) \in Nat
      BY <1>2, EmptyList, TimesNat
    <3> QED BY <1>3, <2>10, <3>2
  <2>12. Length(ListHeld) + Length(ReadHeld) = Length(cur.read) + Length(ListHeld') + Length(ReadHeld')
    <3>1. Length(cur.read) \in Nat /\ Length(cur.list) \in Nat /\ Length(<<>>) = 0
      BY <1>2, <1>4, TimesNat, EmptyList
    <3> QED BY <1>3, <2>10, <3>1
  <2>13. Quiet BY <1>1, <1>7 DEF Quiet
  <2>14. InMemory' BY <1>2, <1>7, <2>6, <2>7, <2>11, <2>12, <2>13, CellsMoved
  <2> QED BY <2>7, <2>8, <2>9, <2>14, <1>8 DEF Inv, Onward
<1> QED BY <1>6, <1>7 DEF ListNode

\* The list after i_entry_list_add becomes a node.
LEMMA FrontDone ==
  ASSUME Inv, pc = "front", tree' = [tree EXCEPT !.cells = @ \o cur.list], pc' = "deflt",
         UNCHANGED <<mem, cur, syms, carried>>
  PROVE  Onward
<1>2. /\ cur.list \in Lists /\ IsStmt(cur) /\ IsLeft(tree) /\ AreSymbols(syms)
      /\ cur.held = Nothing /\ cur.decl \in Decls /\ cur.decl.kind \in {"para1", "set2"} /\ cur.deflt = 0
  BY DEF Inv, InStage, IsStmt, Working
<1>3. ListHeld = cur.list /\ ReadHeld = <<>> /\ ListHeld' = <<>> /\ ReadHeld' = <<>>
  BY DEF ListHeld, ReadHeld
<1>4. IsLeft(tree') /\ ToSet(cur.list) \subseteq ToSet(tree'.cells)
  BY <1>2, TreeCells
<1>5. InStage' BY <1>2, <1>4 DEF InStage, Stages, Working
<1>6. InLoop' /\ SetLists' BY DEF Inv, SetLists, InLoop, Looping
<1>7. InMemory'
  <2>1. Quiet BY DEF Quiet
  <2>2. ASSUME NEW x \in Numbered
         PROVE  Times(x, ListHeld) + Times(x, ReadHeld) = Times(x, cur.list) + Times(x, ListHeld') + Times(x, ReadHeld')
    <3>1. Times(x, <<>>) = 0 /\ Times(x, cur.list) \in Nat
      BY <1>2, EmptyList, TimesNat
    <3> QED BY <1>3, <3>1
  <2>3. Length(ListHeld) + Length(ReadHeld) = Length(cur.list) + Length(ListHeld') + Length(ReadHeld')
    <3>1. Length(cur.list) \in Nat /\ Length(<<>>) = 0
      BY <1>2, TimesNat, EmptyList
    <3> QED BY <1>3, <3>1
  <2>4. cur'.held = cur.held OBVIOUS
  <2> QED BY <1>2, <1>5, <2>1, <2>2, <2>3, <2>4, CellsMoved
<1>8. Keeps(mem, mem') BY SameMemory
<1> QED BY <1>5, <1>6, <1>7, <1>8 DEF Inv, Onward

\* the end of a phase of the take-down
LEMMA PhaseOver ==
  ASSUME Inv, UNCHANGED <<mem, tree, syms, cur, carried>>,
         (pc = "exit" /\ pc' = "symbols") \/ (pc = "symbols" /\ syms = <<>> /\ pc' = "stores")
  PROVE  Onward
<1>1. InStage' BY DEF Inv, InStage, Stages, Working
<1>2. InLoop' /\ SetLists' BY DEF InLoop, SetLists, Looping
<1>3. InMemory' BY <1>1, Still DEF Quiet, ListHeld, ReadHeld
<1>4. Keeps(mem, mem') BY SameMemory
<1> QED BY <1>1, <1>2, <1>3, <1>4 DEF Inv, Onward

\* A parameter without a default.
LEMMA NoDefault ==
  ASSUME Inv, pc = "deflt", pc' = "begin", UNCHANGED <<mem, tree, cur, syms, carried>>
  PROVE  Onward
<1>1. InStage' BY DEF Inv, InStage, Stages, Working
<1>2. InLoop' /\ SetLists' BY DEF Inv, InLoop, SetLists, Looping
<1>3. InMemory' BY <1>1, Still DEF Quiet, ListHeld, ReadHeld
<1>4. Keeps(mem, mem') BY SameMemory
<1> QED BY <1>1, <1>2, <1>3, <1>4 DEF Inv, Onward

\* The loop over the index set ends.
LEMMA LoopEnds ==
  ASSUME Inv, LoopOver, pc' = "idle", cur' = NoStmt, UNCHANGED <<mem, syms, tree, carried>>
  PROVE  Onward
<1>1. pc \in Working \ {"list", "front"} /\ pc # "none" BY DEF LoopOver, Working
<1>2. InStage' BY EmptyPlaces DEF Inv, InStage, Stages, Working
<1>3. InLoop' /\ SetLists' BY DEF InLoop, SetLists, Looping
<1>4. InMemory'
  <2>1. cur'.held = cur.held BY <1>1, EmptyPlaces DEF Inv, InStage
  <2>2. ListHeld' = ListHeld /\ ReadHeld' = ReadHeld
    BY <1>1 DEF ListHeld, ReadHeld, Working
  <2> QED BY <1>1, <1>2, <2>1, <2>2, Still DEF Quiet
<1>5. Keeps(mem, mem') BY SameMemory
<1> QED BY <1>2, <1>3, <1>4, <1>5 DEF Inv, Onward

\* ---- steps that take or give back memory

\* An entry of a list: held by its node and by the list.
LEMMA ListEntryMade ==
  ASSUME NEW m, NEW f, NEW g, NEW l, NEW b, Sound(m, f, g, l, b), NEW item, IsKey(item.key),
         item.type \in {"NUMB", "STRG", "SET", "VAR"}
  PROVE  LET n == list_data_new(NodeEntry(m, item), NewEnt(m))
             e == NewEnt(m)
             t == NewTup(m)
         IN  /\ Sound(n, More(More(f, e), e), More(g, t), l + 1, b) /\ Keeps(m, n)
             /\ e \in Numbered /\ t \in Numbered /\ n.ent[e].type = item.type
             /\ n.ent[e].val = item.val /\ Key(n, e) = item.key
<1> DEFINE k == NodeEntry(m, item)
           e == NewEnt(m)
           t == NewTup(m)
           n == list_data_new(k, e)
<1>1. /\ Sound(k, More(f, e), More(g, t), l, b) /\ Keeps(m, k)
      /\ e \in Numbered /\ f[e] = 0 /\ t \in Numbered /\ k.ent[e].type = item.type
      /\ k.ent[e].val = item.val /\ Key(k, e) = item.key
  BY EntryMade DEF NodeEntry
<1>2. f \in [Nat -> Nat] /\ g \in [Nat -> Nat] /\ e \in Nat /\ t \in Nat
  BY <1>1, Living DEF Numbered
<1> HIDE DEF k, e, t
<1>3. More(f, e)[e] > 0 /\ More(f, e) \in [Nat -> Nat] /\ \A x \in Nat : More(f, e)[x] = f[x] + Hit(x, e)
  BY <1>2, MoreAt
<1>4. Sound(n, More(More(f, e), e), More(g, t), l + 1, b) /\ Keeps(k, n)
  BY <1>1, <1>2, <1>3, CellMade
<1> HIDE DEF n
<1> DEFINE p == More(f, e)
           q == More(p, e)
<1>5. p \in [Nat -> Nat] /\ p[e] > 0 BY <1>3
<1> HIDE DEF p
<1>6. \A x \in Nat : q[x] = p[x] + Hit(x, e) BY <1>2, <1>5, MoreAt
<1> HIDE DEF q
<1>7. DOMAIN k.ent = {x \in Nat : p[x] > 0} /\ DOMAIN n.ent = {x \in Nat : q[x] > 0}
      /\ DOMAIN m.ent = {x \in Nat : f[x] > 0}
  BY SMTT(30), <1>1, <1>4, Living DEF p, q
<1>8. \A x \in Nat : p[x] \in Nat /\ f[x] \in Nat /\ Hit(x, e) \in Nat /\ p[x] = f[x] + Hit(x, e)
  BY <1>2, <1>3, <1>5 DEF Hit, p
<1>9. DOMAIN m.ent \subseteq DOMAIN k.ent /\ DOMAIN k.ent \subseteq DOMAIN n.ent /\ e \in DOMAIN k.ent
  BY ONLY <1>2, <1>5, <1>6, <1>7, <1>8
<1>10. Keeps(m, n) BY <1>1, <1>4, <1>9, KeepsOn
<1>11. n.ent[e].type = item.type /\ n.ent[e].val = item.val /\ Key(n, e) = item.key
  BY <1>1, <1>4, <1>9 DEF Keeps
<1> QED BY <1>1, <1>4, <1>10, <1>11 DEF k, e, t, n

\* The books of the next state.
LEMMA Renewed ==
  ASSUME Inv, InStage', pc # "none", pc' # "none", UNCHANGED <<syms, carried>>, Keeps(mem, mem'),
         Sound(mem', Refs(Places'), TupRefs(Places'), CellCount(Places'), carried)
  PROVE  /\ InMemory'
         /\ \A e \in HeldBy(Places) \cap HeldBy(Places') :
              mem'.ent[e].type = mem.ent[e].type /\ mem'.ent[e].val = mem.ent[e].val
<1>1. Plain(Places) /\ Plain(Places') BY PlainNow, PlainThen DEF Inv
<1>2. Ledger(mem, Places, carried) /\ Tables(mem, syms)
  BY DEF Inv, InMemory, Tables
<1>3. Places'.ss = syms BY PlacesThen DEF PlacesAre
<1>4. Ledger(mem', Places', carried) BY DEF Ledger
<1> DEFINE h == Places
           k == Places'
           n == mem'
<1>5. /\ Plain(h) /\ Plain(k) /\ Ledger(mem, h, carried) /\ Ledger(n, k, carried) /\ k.ss = syms
      /\ Keeps(mem, n)
  BY <1>1, <1>2, <1>3, <1>4
<1> HIDE DEF h, k, n
<1>6. Tables(n, syms) BY <1>2, <1>5, TablesKept
<1>7. \A e \in HeldBy(h) \cap HeldBy(k) : e \in DOMAIN mem.ent /\ e \in DOMAIN n.ent
  BY <1>5, Alive
<1>8. \A e \in HeldBy(h) \cap HeldBy(k) : n.ent[e].type = mem.ent[e].type /\ n.ent[e].val = mem.ent[e].val
  BY <1>5, <1>7 DEF Keeps
<1>9. InMemory' BY <1>4, <1>6 DEF InMemory, Tables, n
<1> QED BY <1>8, <1>9 DEF h, k, n

\* The books of this state.
LEMMA TheBooks ==
  ASSUME Inv, pc # "none"
  PROVE  /\ Sound(mem, Refs(Places), TupRefs(Places), CellCount(Places), carried)
         /\ Plain(Places) /\ Refs(Places) \in [Nat -> Nat] /\ TupRefs(Places) \in [Nat -> Nat]
         /\ CellCount(Places) \in Nat
<1>1. Plain(Places) BY PlainNow DEF Inv
<1> QED BY <1>1, Booked DEF Inv, InMemory, Ledger

Types == {"NUMB", "STRG", "SET", "VAR"}

\* What the grammar allows in a list.
LEMMA ItemsOf ==
  ASSUME NEW d \in Decls, d.kind \in {"para1", "set2"}
  PROVE  /\ Len(d.items) \in Nat
         /\ \A i \in 1 .. Len(d.items) :
              /\ IsKey(d.items[i].key) /\ (d.items[i].type # "NAME" => d.items[i].type \in Types)
              /\ d.kind = "set2" => d.items[i].type = "SET"
         /\ Len(HeadItems(d)) \in Nat
         /\ \A i \in 1 .. Len(HeadItems(d)) :
              /\ IsKey(HeadItems(d)[i].key) /\ HeadItems(d)[i].type \in Types
              /\ d.kind = "set2" => HeadItems(d)[i].type = "SET"
         /\ d.deflt # <<>> => IsKey(d.deflt[1].key) /\ d.deflt[1].type \in Types
<1>1. IsDecl(d) BY SymbolTableAssumption
<1>2. ASSUME NEW s, NEW types, IsItems(s, types)
      PROVE  Len(s) \in Nat /\ \A i \in 1 .. Len(s) : IsItem(s[i], types)
  BY <1>2 DEF IsItems
<1>3. /\ Len(d.items) \in Nat
      /\ \A i \in 1 .. Len(d.items) : IsItem(d.items[i], IF d.kind = "set2" THEN {"SET"} ELSE Values \cup {"NAME"})
      /\ Len(HeadItems(d)) \in Nat
      /\ \A i \in 1 .. Len(HeadItems(d)) : IsItem(HeadItems(d)[i], IF d.kind = "set2" THEN {"SET"} ELSE Values \cup {"SET"})
      /\ d.deflt # <<>> => IsItem(d.deflt[1], Values)
  <2>1. /\ IsItems(d.items, IF d.kind = "set2" THEN {"SET"} ELSE Values \cup {"NAME"})
        /\ IsItems(HeadItems(d), IF d.kind = "set2" THEN {"SET"} ELSE Values \cup {"SET"})
        /\ d.deflt # <<>> => IsItem(d.deflt[1], Values)
    BY <1>1 DEF IsDecl
  <2> QED BY <1>2, <2>1
<1> QED BY <1>3 DEF IsItem, Values, Types

\* a tuple, and a tuple with an entry, that a node gets
LEMMA TreeTuple ==
  ASSUME IsLeft(tree), NEW t \in Numbered, NEW e \in Numbered
  PROVE  /\ tree' = [tree EXCEPT !.tup = Append(@, t)] =>
              /\ IsLeft(tree') /\ tree'.tup = Append(tree.tup, t) /\ tree'.ent = tree.ent /\ tree'.cells = tree.cells
         /\ tree' = [tree EXCEPT !.tup = Append(@, t), !.ent = Append(@, e)] =>
              /\ IsLeft(tree') /\ tree'.tup = Append(tree.tup, t) /\ tree'.ent = Append(tree.ent, e)
              /\ tree'.cells = tree.cells
         /\ tree.tup \in Lists /\ tree.ent \in Lists /\ tree.cells \in Lists
<1>1. tree = [tup |-> tree.tup, ent |-> tree.ent, cells |-> tree.cells]
      /\ tree.tup \in Lists /\ tree.ent \in Lists /\ tree.cells \in Lists
  BY DEF IsLeft
<1>2. Append(tree.tup, t) \in Lists /\ Append(tree.ent, e) \in Lists
  BY <1>1, TimesGrow
<1>3. ASSUME tree' = [tree EXCEPT !.tup = Append(@, t)]
      PROVE  /\ IsLeft(tree') /\ tree'.tup = Append(tree.tup, t) /\ tree'.ent = tree.ent /\ tree'.cells = tree.cells
  <2>1. tree' = [tup |-> Append(tree.tup, t), ent |-> tree.ent, cells |-> tree.cells]
    BY <1>1, <1>3
  <2>2. tree'.tup = Append(tree.tup, t) /\ tree'.ent = tree.ent /\ tree'.cells = tree.cells
        /\ tree' = [tup |-> tree'.tup, ent |-> tree'.ent, cells |-> tree'.cells]
    BY <2>1
  <2> QED BY <1>1, <1>2, <2>2 DEF IsLeft
<1>4. ASSUME tree' = [tree EXCEPT !.tup = Append(@, t), !.ent = Append(@, e)]
      PROVE  /\ IsLeft(tree') /\ tree'.tup = Append(tree.tup, t) /\ tree'.ent = Append(tree.ent, e)
             /\ tree'.cells = tree.cells
  <2>1. tree' = [tup |-> Append(tree.tup, t), ent |-> Append(tree.ent, e), cells |-> tree.cells]
    BY <1>1, <1>4
  <2>2. tree'.tup = Append(tree.tup, t) /\ tree'.ent = Append(tree.ent, e) /\ tree'.cells = tree.cells
        /\ tree' = [tup |-> tree'.tup, ent |-> tree'.ent, cells |-> tree'.cells]
    BY <2>1
  <2> QED BY <1>1, <1>2, <2>2 DEF IsLeft
<1> QED BY <1>1, <1>3, <1>4

\* The item a node is about.
LEMMA ItemNow ==
  ASSUME cur.decl \in Decls, cur.decl.kind \in {"para1", "set2"}, cur.left \in Nat, cur.left > 0,
         cur.left <= Len(cur.decl.items), NEW item, item = cur.decl.items[cur.left]
  PROVE  /\ IsKey(item.key) /\ (item.type # "NAME" => item.type \in Types)
         /\ (cur.decl.kind = "set2" => item.type = "SET") /\ Len(cur.decl.items) \in Nat
<1>1. PICK d : d = cur.decl OBVIOUS
<1>2. d \in Decls /\ d.kind \in {"para1", "set2"} /\ item = d.items[cur.left] /\ cur.left <= Len(d.items)
  BY <1>1
<1>3. Len(d.items) \in Nat BY <1>2, ItemsOf
<1>4. cur.left \in 1 .. Len(d.items) BY <1>2, <1>3
<1> QED BY <1>1, <1>2, <1>3, <1>4, ItemsOf

\* i_entry and its list cell.
LEMMA EntryNodeKeeps ==
  ASSUME Inv, pc = "list", cur.left > 0, NEW item, item = cur.decl.items[cur.left], item.type # "NAME",
         mem' = list_data_new(NodeEntry(mem, item), NewEnt(mem)),
         tree' = [tree EXCEPT !.tup = Append(@, NewTup(mem)), !.ent = Append(@, NewEnt(mem))],
         cur' = [cur EXCEPT !.list = <<NewEnt(mem)>> \o @, !.left = @ - 1],
         UNCHANGED <<syms, pc, err, carried, stmts, sessions>>
  PROVE  Onward
<1> DEFINE e == NewEnt(mem)
           t == NewTup(mem)
           h == Places
           k == Places'
<1>1. /\ cur.list \in Lists /\ cur.read \in Lists /\ IsStmt(cur) /\ IsLeft(tree) /\ AreSymbols(syms)
      /\ cur.held = Nothing /\ cur.decl \in Decls /\ cur.decl.kind \in {"para1", "set2"} /\ cur.deflt = 0
      /\ cur.left \in Nat /\ cur.left <= Len(cur.decl.items) /\ pc # "none"
  BY DEF Inv, InStage, IsStmt, Working
<1>2. IsKey(item.key) /\ item.type \in Types /\ (cur.decl.kind = "set2" => item.type = "SET")
      /\ Len(cur.decl.items) \in Nat
  BY <1>1, ItemNow
<1>3. Sound(mem, Refs(h), TupRefs(h), CellCount(h), carried) /\ Plain(h)
  BY <1>1, TheBooks
<1>4. /\ Sound(mem', More(More(Refs(h), e), e), More(TupRefs(h), t), CellCount(h) + 1, carried) /\ Keeps(mem, mem')
      /\ e \in Numbered /\ t \in Numbered /\ mem'.ent[e].type = item.type
  <2> DEFINE f == Refs(h)
             g == TupRefs(h)
             l == CellCount(h)
  <2>1. Sound(mem, f, g, l, carried) BY <1>3
  <2> HIDE DEF f, g, l
  <2>2. /\ Sound(mem', More(More(f, e), e), More(g, t), l + 1, carried) /\ Keeps(mem, mem')
        /\ e \in Numbered /\ t \in Numbered /\ mem'.ent[e].type = item.type
    BY <1>2, <2>1, ListEntryMade DEF Types
  <2> QED BY <2>2 DEF f, g, l
<1> HIDE DEF e, t
<1>5. /\ IsLeft(tree') /\ tree'.tup = Append(tree.tup, t) /\ tree'.ent = Append(tree.ent, e) /\ tree'.cells = tree.cells
      /\ tree.tup \in Lists /\ tree.ent \in Lists /\ tree.cells \in Lists
  BY <1>1, <1>4, TreeTuple DEF e, t
<1>6. <<e>> \o cur.list \in Lists BY <1>1, <1>4, TimesGrow
<1>7. /\ cur'.decl = cur.decl /\ cur'.list = <<e>> \o cur.list /\ cur'.read = cur.read /\ cur'.left = cur.left - 1
      /\ cur'.deflt = cur.deflt /\ cur'.held = cur.held /\ IsStmt(cur')
  <2>1. cur' = [decl |-> cur.decl, list |-> <<e>> \o cur.list, read |-> cur.read, left |-> cur.left - 1,
                deflt |-> cur.deflt, held |-> cur.held]
    BY <1>1 DEF IsStmt, e
  <2>2. cur.left - 1 \in Nat /\ cur.read \in Lists /\ cur.deflt \in Nat /\ IsLeft(cur.held)
    BY <1>1 DEF IsStmt
  <2> QED BY ONLY <1>6, <2>1, <2>2 DEF IsStmt
<1>8. InStage'
  <2>1. cur'.left <= Len(cur'.decl.items) BY <1>1, <1>2, <1>7
  <2> QED BY <1>1, <1>5, <1>7, <2>1 DEF InStage, Stages, Working
<1>9. InLoop' BY DEF InLoop, Looping
<1>10. Plain(k) BY <1>8, PlainThen
<1>11. /\ h.tr = tree /\ h.he = cur.held /\ h.ls = cur.list /\ h.rd = cur.read /\ h.ss = syms
       /\ k.tr = tree' /\ k.he = cur.held /\ k.ls = <<e>> \o cur.list /\ k.rd = cur.read /\ k.ss = syms
  <2>1. ListHeld = cur.list /\ ReadHeld = cur.read /\ ListHeld' = <<e>> \o cur.list /\ ReadHeld' = cur.read
    BY <1>7 DEF ListHeld, ReadHeld
  <2> QED BY <1>7, <2>1, PlacesNow, PlacesThen DEF PlacesAre
<1> HIDE DEF h, k
<1>12. ASSUME NEW x \in Numbered PROVE Nodes(k, x) = Nodes(h, x) + Hit(x, e) + Hit(x, e)
  <2>1. InNodes(h, x) BY <1>3, Parts
  <2>2. Hit(x, e) \in Nat /\ Times(x, k.tr.ent) = Times(x, h.tr.ent) + Hit(x, e)
        /\ Times(x, k.ls) = Times(x, h.ls) + Hit(x, e)
    <3>1. Hit(x, e) \in Nat /\ Times(x, Append(tree.ent, e)) = Times(x, tree.ent) + Hit(x, e)
      BY <1>4, <1>5, TimesGrow
    <3>2. Times(x, <<e>> \o cur.list) = Times(x, cur.list) + Hit(x, e)
      BY <1>1, <1>4, TimesGrow
    <3> QED BY <1>5, <1>11, <3>1, <3>2
  <2>3. k.tr.cells = h.tr.cells /\ k.he = h.he /\ k.rd = h.rd BY <1>5, <1>11
  <2> QED BY ONLY <2>1, <2>2, <2>3 DEF Nodes, InNodes
<1>13. Lens(k) = Lens(h) + 1
  <2>1. NodeCells(h) BY <1>3, <1>4, Parts
  <2>2. Length(k.ls) = Length(h.ls) + 1 BY SMTT(30), <1>1, <1>4, <1>11, LengthOf
  <2>3. k.tr.cells = h.tr.cells /\ k.he = h.he /\ k.rd = h.rd BY <1>5, <1>11
  <2> QED BY ONLY <2>1, <2>2, <2>3 DEF Lens, NodeCells
<1>15. k.ss = h.ss BY <1>11
<1>16. Refs(k) = More(More(Refs(h), e), e)
  BY <1>3, <1>4, <1>10, <1>12, <1>15, NodeGainedTwice
<1>17. TupRefs(k) = More(TupRefs(h), t)
  <2>1. Plain(h) /\ Plain(k) /\ t \in Numbered /\ k.tr.tup = Append(h.tr.tup, t) /\ k.he.tup = h.he.tup
    BY <1>3, <1>4, <1>5, <1>10, <1>11
  <2> QED BY ONLY <2>1, TupleGiven
<1>18. CellCount(k) = CellCount(h) + 1
  <2>1. Lens(h) \in Nat /\ CellCount(h) \in Nat /\ CellCount(k) = CellCount(h) + (Lens(k) - Lens(h))
    BY <1>3, <1>10, <1>15, CellsDiffer
  <2> QED BY <1>13, <2>1
<1>19. InMemory' /\ \A x \in HeldBy(h) \cap HeldBy(k) : mem'.ent[x].type = mem.ent[x].type
  <2>1. Sound(mem', Refs(Places'), TupRefs(Places'), CellCount(Places'), carried)
    BY <1>4, <1>16, <1>17, <1>18 DEF k
  <2>2. pc' # "none" /\ UNCHANGED <<syms, carried>> BY <1>1
  <2> QED BY <1>1, <1>4, <1>8, <2>1, <2>2, Renewed DEF h, k
<1>20. SetLists'
  <2>1. ToSet(<<e>> \o cur.list) = ToSet(cur.list) \cup {e}
    <3>1. <<e>> \in Lists /\ ToSet(<<e>>) = {e} BY <1>4 DEF Lists, ToSet
    <3> QED BY <1>1, <3>1, SetOfJoined
  <2>2. ASSUME cur.decl.kind = "set2", NEW x \in ToSet(cur.list) \cup ToSet(cur.read)
        PROVE  mem'.ent[x].type = "SET"
    <3>1. x \in HeldBy(h) \cap HeldBy(k) BY <1>11, <2>1, <2>2 DEF HeldBy
    <3>2. mem.ent[x].type = "SET" BY <2>2 DEF Inv, SetLists
    <3> QED BY <1>19, <3>1, <3>2
  <2>3. cur.decl.kind = "set2" => mem'.ent[e].type = "SET" BY <1>2, <1>4
  <2> QED BY <1>7, <2>1, <2>2, <2>3 DEF SetLists
<1> QED BY <1>8, <1>9, <1>19, <1>20, <1>4 DEF Inv, Onward

\* i_entry refuses a name as a value: error 133.
LEMMA EntryNodeError ==
  ASSUME Inv, pc = "list", cur.left > 0, NEW item, item = cur.decl.items[cur.left],
         mem' = tuple_new(mem, item.key), tree' = [tree EXCEPT !.tup = Append(@, NewTup(mem))],
         Fail(133, LeftLists), UNCHANGED syms
  PROVE  Onward
<1> DEFINE t == NewTup(mem)
           h == Places
           k == Places'
<1>1. /\ cur.list \in Lists /\ cur.read \in Lists /\ IsStmt(cur) /\ IsLeft(tree) /\ AreSymbols(syms)
      /\ cur.held = Nothing /\ cur.decl \in Decls /\ cur.decl.kind \in {"para1", "set2"}
      /\ cur.left \in Nat /\ cur.left <= Len(cur.decl.items) /\ pc # "none"
  BY DEF Inv, InStage, IsStmt, Working
<1>2. IsKey(item.key) BY <1>1, ItemNow
<1>3. Sound(mem, Refs(h), TupRefs(h), CellCount(h), carried) /\ Plain(h)
  BY <1>1, TheBooks
<1>4. Sound(mem', Refs(h), More(TupRefs(h), t), CellCount(h), carried) /\ Keeps(mem, mem') /\ t \in Numbered
  <2> DEFINE f == Refs(h)
             g == TupRefs(h)
             l == CellCount(h)
  <2>1. Sound(mem, f, g, l, carried) BY <1>3
  <2> HIDE DEF f, g, l
  <2>2. Sound(mem', f, More(g, t), l, carried) /\ Keeps(mem, mem') /\ t \in Numbered
    BY <1>2, <2>1, TupleMade
  <2> QED BY <2>2 DEF f, g, l
<1> HIDE DEF t
<1>5. /\ IsLeft(tree') /\ tree'.tup = Append(tree.tup, t) /\ tree'.ent = tree.ent /\ tree'.cells = tree.cells
      /\ tree.tup \in Lists /\ tree.ent \in Lists /\ tree.cells \in Lists
  BY <1>1, <1>4, TreeTuple DEF t
<1>6. /\ cur.list \o cur.read \in Lists /\ Length(cur.list \o cur.read) = Length(cur.list) + Length(cur.read)
      /\ Length(cur.list) \in Nat /\ Length(cur.read) \in Nat /\ IsLeft(LeftLists)
      /\ LeftLists.tup = <<>> /\ LeftLists.ent = <<>> /\ LeftLists.cells = cur.list \o cur.read
  <2>1. LeftLists = [tup |-> <<>>, ent |-> <<>>, cells |-> cur.list \o cur.read]
    BY DEF LeftLists
  <2>2. cur.list \o cur.read \in Lists /\ Length(cur.list \o cur.read) = Length(cur.list) + Length(cur.read)
        /\ Length(cur.list) \in Nat /\ Length(cur.read) \in Nat
    BY <1>1, <1>4, TimesJoined, LengthOf, TimesNat
  <2>3. IsLeft(LeftLists) BY <2>1, <2>2, EmptyList DEF IsLeft
  <2> QED BY <2>1, <2>2, <2>3
<1>7. /\ InStage' /\ InLoop' /\ SetLists'
      /\ cur'.held = LeftLists /\ ListHeld' = <<>> /\ ReadHeld' = <<>>
      /\ pc' = "exit" /\ carried' = carried
  BY <1>1, <1>5, <1>6, Failed
<1>8. Plain(k) BY <1>7, PlainThen
<1>9. /\ h.tr = tree /\ h.he = Nothing /\ h.ls = cur.list /\ h.rd = cur.read /\ h.ss = syms
      /\ k.tr = tree' /\ k.he = LeftLists /\ k.ls = <<>> /\ k.rd = <<>> /\ k.ss = syms
  <2>1. ListHeld = cur.list /\ ReadHeld = cur.read BY DEF ListHeld, ReadHeld
  <2> QED BY <1>1, <1>7, <2>1, PlacesNow, PlacesThen DEF PlacesAre
<1> HIDE DEF h, k
<1>10. ASSUME NEW x \in Numbered PROVE Nodes(k, x) = Nodes(h, x)
  <2>1. /\ Times(x, cur.list) \in Nat /\ Times(x, cur.read) \in Nat
        /\ Times(x, tree.ent) \in Nat /\ Times(x, tree.cells) \in Nat
        /\ Times(x, cur.list \o cur.read) = Times(x, cur.list) + Times(x, cur.read)
    BY SMTT(30), <1>1, <1>5, TimesJoined, TimesNat
  <2>2. Times(x, <<>>) = 0 BY EmptyList
  <2>3. Nodes(h, x) = Times(x, tree.ent) + Times(x, <<>>) + Times(x, tree.cells) + Times(x, <<>>)
                      + Times(x, cur.list) + Times(x, cur.read)
    BY <1>9 DEF Nodes, Nothing
  <2>4. Nodes(k, x) = Times(x, tree.ent) + Times(x, <<>>) + Times(x, tree.cells) + Times(x, cur.list \o cur.read)
                      + Times(x, <<>>) + Times(x, <<>>)
    BY <1>5, <1>6, <1>9 DEF Nodes
  <2> QED BY ONLY <2>1, <2>2, <2>3, <2>4
<1>11. Lens(k) = Lens(h)
  <2>1. Length(tree.cells) \in Nat /\ Length(<<>>) = 0
    BY <1>4, <1>5, EmptyList, TimesNat
  <2>2. Lens(h) = Length(tree.cells) + Length(<<>>) + Length(cur.list) + Length(cur.read)
    BY <1>9 DEF Lens, Nothing
  <2>3. Lens(k) = Length(tree.cells) + Length(cur.list \o cur.read) + Length(<<>>) + Length(<<>>)
    BY <1>5, <1>6, <1>9 DEF Lens
  <2> QED BY ONLY <1>6, <2>1, <2>2, <2>3
<1>13. k.ss = h.ss BY <1>9
<1>14. Refs(k) = Refs(h)
  <2>1. ASSUME NEW x \in Numbered PROVE Holders(k, x) = Holders(h, x)
    <3>1. /\ Nodes(h, x) \in Nat /\ Holders(h, x) \in Nat
          /\ Holders(k, x) = Holders(h, x) + (Nodes(k, x) - Nodes(h, x))
      BY <1>3, <1>8, <1>13, NodesDiffer
    <3> QED BY <1>10, <3>1
  <2> QED BY <1>3, <1>8, <2>1, RefsSame
<1>15. TupRefs(k) = More(TupRefs(h), t)
  <2>1. Plain(h) /\ Plain(k) /\ t \in Numbered /\ k.tr.tup = Append(h.tr.tup, t) /\ k.he.tup = h.he.tup
    BY <1>3, <1>4, <1>5, <1>6, <1>8, <1>9 DEF Nothing
  <2> QED BY ONLY <2>1, TupleGiven
<1>16. CellCount(k) = CellCount(h)
  <2>1. Lens(h) \in Nat /\ CellCount(h) \in Nat /\ CellCount(k) = CellCount(h) + (Lens(k) - Lens(h))
    BY <1>3, <1>8, <1>13, CellsDiffer
  <2> QED BY <1>11, <2>1
<1>17. InMemory'
  <2>1. Sound(mem', Refs(Places'), TupRefs(Places'), CellCount(Places'), carried)
    BY <1>4, <1>14, <1>15, <1>16 DEF k
  <2>2. pc' # "none" /\ UNCHANGED <<syms, carried>> BY <1>7
  <2> QED BY <1>1, <1>4, <1>7, <2>1, <2>2, Renewed
<1> QED BY <1>7, <1>17, <1>4 DEF Inv, Onward

\* i_entry, whatever the item is.
LEMMA EntryNodeStep ==
  ASSUME Inv, EntryNode
  PROVE  Onward
<1> DEFINE item == cur.decl.items[cur.left]
<1>1. pc = "list" /\ cur.left > 0 BY DEF EntryNode
<1>2. CASE /\ item.type = "NAME" /\ mem' = tuple_new(mem, item.key)
           /\ tree' = [tree EXCEPT !.tup = Append(@, NewTup(mem))]
           /\ Fail(133, LeftLists) /\ UNCHANGED syms
  <2>1. PICK x : x = item OBVIOUS
  <2> HIDE DEF item
  <2>2. x = cur.decl.items[cur.left] /\ mem' = tuple_new(mem, x.key)
    BY <1>2, <2>1 DEF item
  <2> QED BY <1>1, <1>2, <2>2, EntryNodeError
<1>3. CASE /\ item.type # "NAME" /\ mem' = list_data_new(NodeEntry(mem, item), NewEnt(mem))
           /\ tree' = [tree EXCEPT !.tup = Append(@, NewTup(mem)), !.ent = Append(@, NewEnt(mem))]
           /\ cur' = [cur EXCEPT !.list = <<NewEnt(mem)>> \o @, !.left = @ - 1]
           /\ UNCHANGED <<syms, pc, err, carried, stmts, sessions>>
  <2>1. PICK x : x = item OBVIOUS
  <2>2. x = cur.decl.items[cur.left] /\ mem' = list_data_new(NodeEntry(mem, x), NewEnt(mem)) /\ x.type # "NAME"
    BY <1>3, <2>1
  <2> HIDE DEF item
  <2> QED BY <1>1, <1>3, <2>2, EntryNodeKeeps
<1> QED BY <1>2, <1>3 DEF EntryNode

\* A cell of a list of the statement is new.
LEMMA OneCellMore ==
  ASSUME Inv, InStage', pc # "none", pc' # "none", UNCHANGED <<syms, carried, tree>>, cur'.held = cur.held,
         NEW e \in Numbered, Keeps(mem, mem'),
         Sound(mem', More(Refs(Places), e), TupRefs(Places), CellCount(Places) + 1, carried),
         \/ ListHeld' = <<e>> \o ListHeld /\ ReadHeld' = ReadHeld
         \/ ListHeld' = ListHeld /\ ReadHeld' = Append(ReadHeld, e)
  PROVE  /\ InMemory'
         /\ \A x \in HeldBy(Places) \cap HeldBy(Places') :
              mem'.ent[x].type = mem.ent[x].type /\ mem'.ent[x].val = mem.ent[x].val
<1> DEFINE h == Places
           k == Places'
<1>1. Plain(h) /\ Plain(k) BY PlainNow, PlainThen DEF Inv
<1>2. /\ h.tr = tree /\ h.he = cur.held /\ h.ls = ListHeld /\ h.rd = ReadHeld /\ h.ss = syms
      /\ k.tr = tree /\ k.he = cur.held /\ k.ls = ListHeld' /\ k.rd = ReadHeld' /\ k.ss = syms
  BY PlacesNow, PlacesThen DEF PlacesAre
<1> HIDE DEF h, k
<1>3. ListHeld \in Lists /\ ReadHeld \in Lists BY <1>1, <1>2 DEF Plain
<1>4. ASSUME NEW x \in Numbered PROVE Nodes(k, x) = Nodes(h, x) + Hit(x, e)
  <2>1. InNodes(h, x) BY <1>1, Parts
  <2>2. /\ Times(x, <<e>> \o ListHeld) = Times(x, ListHeld) + Hit(x, e)
        /\ Times(x, Append(ReadHeld, e)) = Times(x, ReadHeld) + Hit(x, e)
        /\ Hit(x, e) \in Nat
    BY <1>3, TimesGrow
  <2>3. \/ Times(x, k.ls) = Times(x, h.ls) + Hit(x, e) /\ Times(x, k.rd) = Times(x, h.rd)
        \/ Times(x, k.ls) = Times(x, h.ls) /\ Times(x, k.rd) = Times(x, h.rd) + Hit(x, e)
    BY <1>2, <2>2
  <2>4. k.tr = h.tr /\ k.he = h.he BY <1>2
  <2> QED BY ONLY <2>1, <2>2, <2>3, <2>4 DEF Nodes, InNodes
<1>5. Lens(k) = Lens(h) + 1
  <2>1. NodeCells(h) BY <1>1, Parts
  <2>2. /\ Length(<<e>> \o ListHeld) = Length(ListHeld) + 1
        /\ Length(Append(ReadHeld, e)) = Length(ReadHeld) + 1
    BY <1>3, LengthOf
  <2>3. \/ Length(k.ls) = Length(h.ls) + 1 /\ Length(k.rd) = Length(h.rd)
        \/ Length(k.ls) = Length(h.ls) /\ Length(k.rd) = Length(h.rd) + 1
    BY <1>2, <2>2
  <2>4. k.tr = h.tr /\ k.he = h.he BY <1>2
  <2> QED BY ONLY <2>1, <2>3, <2>4 DEF Lens, NodeCells
<1>6. k.ss = h.ss /\ k.tr.tup = h.tr.tup /\ k.he.tup = h.he.tup BY <1>2
<1>7. Refs(k) = More(Refs(h), e) BY <1>1, <1>4, <1>6, NodeGained
<1>8. TupRefs(k) = TupRefs(h) BY <1>6, TupRefsSame
<1>9. CellCount(k) = CellCount(h) + 1
  <2>1. Lens(h) \in Nat /\ CellCount(h) \in Nat /\ CellCount(k) = CellCount(h) + (Lens(k) - Lens(h))
    BY <1>1, <1>6, CellsDiffer
  <2> QED BY <1>5, <2>1
<1>10. Sound(mem', Refs(Places'), TupRefs(Places'), CellCount(Places'), carried)
  BY <1>7, <1>8, <1>9 DEF h, k
<1> QED BY <1>10, Renewed

\* i_entry_list_add puts an entry that was read in front.
LEMMA InFrontMore ==
  ASSUME Inv, pc = "front", cur.left <= Len(cur.read), mem' = list_data_new(mem, cur.read[cur.left]),
         cur' = [cur EXCEPT !.list = <<cur.read[cur.left]>> \o @, !.left = @ + 1],
         UNCHANGED <<tree, pc, syms, carried>>
  PROVE  Onward
<1> DEFINE e == cur.read[cur.left]
           h == Places
<1>1. /\ cur.list \in Lists /\ cur.read \in Lists /\ IsStmt(cur) /\ IsLeft(tree) /\ AreSymbols(syms)
      /\ cur.held = Nothing /\ cur.decl \in Decls /\ cur.decl.kind \in {"para1", "set2"} /\ cur.deflt = 0
      /\ cur.left \in Nat /\ cur.left # 0 /\ ToSet(cur.read) \subseteq ToSet(tree.cells) /\ pc # "none"
  BY DEF Inv, InStage, IsStmt, Working
<1>2. e \in ToSet(cur.read) /\ e \in Numbered
  <2>1. cur.left \in DOMAIN cur.read BY <1>1 DEF Lists
  <2> QED BY <1>1, <2>1 DEF Lists, ToSet
<1>3. h.tr = tree /\ ListHeld = cur.list /\ ReadHeld = <<>> /\ h.ls = ListHeld
  BY PlacesNow DEF PlacesAre, ListHeld, ReadHeld
<1>4. Refs(h)[e] > 0
  <2>1. e \in HeldBy(h) BY <1>1, <1>2, <1>3 DEF HeldBy
  <2>2. Plain(h) /\ Ledger(mem, h, carried) BY <1>1, TheBooks DEF Ledger
  <2> HIDE DEF e, h
  <2> QED BY <2>1, <2>2, Alive
<1>5. Sound(mem, Refs(h), TupRefs(h), CellCount(h), carried) BY <1>1, TheBooks
<1>6. Sound(mem', More(Refs(h), e), TupRefs(h), CellCount(h) + 1, carried) /\ Keeps(mem, mem')
  <2> DEFINE f == Refs(h)
             g == TupRefs(h)
             l == CellCount(h)
  <2>1. Sound(mem, f, g, l, carried) /\ f[e] > 0 /\ e \in Nat
    BY <1>2, <1>4, <1>5 DEF Numbered
  <2>2. mem' = list_data_new(mem, e) OBVIOUS
  <2> HIDE DEF f, g, l, e
  <2>3. Sound(mem', More(f, e), g, l + 1, carried) /\ Keeps(mem, mem')
    BY <2>1, <2>2, CellMade
  <2> QED BY <2>3 DEF f, g, l
<1>7. /\ cur'.decl = cur.decl /\ cur'.list = <<e>> \o cur.list /\ cur'.read = cur.read /\ cur'.left = cur.left + 1
      /\ cur'.deflt = cur.deflt /\ cur'.held = cur.held /\ IsStmt(cur')
  <2>1. <<e>> \o cur.list \in Lists BY <1>1, <1>2, TimesGrow
  <2>2. cur' = [decl |-> cur.decl, list |-> <<e>> \o cur.list, read |-> cur.read, left |-> cur.left + 1,
                deflt |-> cur.deflt, held |-> cur.held]
    BY <1>1 DEF IsStmt
  <2>3. cur.left + 1 \in Nat /\ cur.read \in Lists /\ cur.deflt \in Nat /\ IsLeft(cur.held)
    BY <1>1 DEF IsStmt
  <2> QED BY ONLY <2>1, <2>2, <2>3 DEF IsStmt
<1> HIDE DEF e, h
<1>8. InStage'
  <2>1. cur'.left # 0 BY <1>1, <1>7
  <2> QED BY <1>1, <1>7, <2>1 DEF InStage, Stages, Working
<1>9. InLoop'
  <2>1. pc' \notin Looping BY DEF Looping
  <2> QED BY ONLY <2>1 DEF InLoop
<1>10. ListHeld' = <<e>> \o ListHeld /\ ReadHeld' = ReadHeld
  BY SMTT(30), <1>3, <1>7 DEF ListHeld, ReadHeld
<1>11. /\ InMemory'
       /\ \A x \in HeldBy(Places) \cap HeldBy(Places') : mem'.ent[x].type = mem.ent[x].type
  BY <1>1, <1>2, <1>6, <1>7, <1>8, <1>10, OneCellMore DEF h
<1>12. SetLists'
  <2>1. ToSet(<<e>> \o cur.list) = ToSet(cur.list) \cup {e}
    <3>1. <<e>> \in Lists /\ ToSet(<<e>>) = {e} BY <1>2 DEF Lists, ToSet
    <3> QED BY <1>1, <3>1, SetOfJoined
  <2>2. Places'.tr = tree /\ Places'.ls = <<e>> \o cur.list /\ Places.tr = tree /\ Places.ls = cur.list
    BY <1>3, <1>10, PlacesNow, PlacesThen DEF PlacesAre
  <2>3. ASSUME cur.decl.kind = "set2", NEW x \in ToSet(cur.list) \cup ToSet(cur.read)
        PROVE  mem'.ent[x].type = "SET"
    <3>1. x \in HeldBy(Places) \cap HeldBy(Places')
      BY <1>1, <2>1, <2>2, <2>3 DEF HeldBy
    <3>2. mem.ent[x].type = "SET" BY <2>3 DEF Inv, SetLists
    <3> QED BY <1>11, <3>1, <3>2
  <2> QED BY <1>2, <1>7, <2>1, <2>3 DEF SetLists
<1> QED BY <1>8, <1>9, <1>11, <1>12, <1>6 DEF Inv, Onward

\* i_entry_list_add, one entry or the end of them.
LEMMA InFrontStep ==
  ASSUME Inv, InFront
  PROVE  Onward
BY InFrontMore, FrontDone DEF InFront

\* i_read makes an entry and appends it.
LEMMA ReadEntryStep ==
  ASSUME Inv, ReadEntry
  PROVE  Onward
<1> DEFINE e == NewEnt(mem)
           h == Places
           item == HeadItems(cur.decl)[Len(cur.read) + 1]
<1>1. /\ cur.list \in Lists /\ cur.read \in Lists /\ IsStmt(cur) /\ IsLeft(tree) /\ AreSymbols(syms)
      /\ cur.held = Nothing /\ cur.decl \in Decls /\ cur.decl.kind \in {"para1", "set2"} /\ cur.deflt = 0
      /\ cur.left \in Nat /\ cur.left <= Len(cur.decl.items) /\ pc = "list" /\ pc # "none"
  BY DEF Inv, InStage, IsStmt, Working, ReadEntry
<1>2. /\ mem' = ReadItem(mem, item) /\ cur' = [cur EXCEPT !.read = Append(@, e)]
      /\ UNCHANGED <<syms, tree, pc, carried>> /\ Len(cur.read) < Len(HeadItems(cur.decl))
  BY DEF ReadEntry
<1>3. IsKey(item.key) /\ item.type \in Types /\ (cur.decl.kind = "set2" => item.type = "SET")
  <2>1. PICK d : d = cur.decl OBVIOUS
  <2>2. PICK n : n = Len(cur.read) + 1 OBVIOUS
  <2>3. d \in Decls /\ d.kind \in {"para1", "set2"} /\ item = HeadItems(d)[n] /\ n <= Len(HeadItems(d)) /\ n \in Nat /\ n >= 1
    <3>1. Len(cur.read) \in Nat BY <1>1 DEF Lists
    <3>2. d \in Decls /\ d.kind \in {"para1", "set2"} /\ Len(HeadItems(d)) \in Nat
      BY <1>1, <2>1, ItemsOf
    <3> QED BY <1>2, <2>1, <2>2, <3>1, <3>2
  <2>4. n \in 1 .. Len(HeadItems(d)) BY <2>3, ItemsOf
  <2> QED BY <2>1, <2>3, <2>4, ItemsOf
<1>4. Sound(mem, Refs(h), TupRefs(h), CellCount(h), carried) BY <1>1, TheBooks
<1>5. /\ Sound(mem', More(Refs(h), e), TupRefs(h), CellCount(h) + 1, carried) /\ Keeps(mem, mem')
      /\ e \in Numbered /\ mem'.ent[e].type = item.type
  <2> DEFINE f == Refs(h)
             g == TupRefs(h)
             l == CellCount(h)
  <2>1. Sound(mem, f, g, l, carried) BY <1>4
  <2> HIDE DEF f, g, l, item
  <2>3. Sound(mem', More(f, e), g, l + 1, carried) /\ Keeps(mem, mem') /\ e \in Numbered /\ mem'.ent[e].type = item.type
    BY <1>2, <1>3, <2>1, ItemRead DEF Types
  <2> QED BY <2>3 DEF f, g, l
<1> HIDE DEF e, item
<1>6. Append(cur.read, e) \in Lists BY <1>1, <1>5, TimesGrow
<1>7. /\ cur'.decl = cur.decl /\ cur'.list = cur.list /\ cur'.read = Append(cur.read, e) /\ cur'.left = cur.left
      /\ cur'.deflt = cur.deflt /\ cur'.held = cur.held /\ IsStmt(cur')
  <2>1. cur' = [decl |-> cur.decl, list |-> cur.list, read |-> Append(cur.read, e), left |-> cur.left,
                deflt |-> cur.deflt, held |-> cur.held]
    BY <1>1, <1>2 DEF IsStmt
  <2> QED BY ONLY <1>1, <1>6, <2>1 DEF IsStmt
<1> HIDE DEF h
<1>8. InStage' BY <1>1, <1>2, <1>7 DEF InStage, Stages, Working
<1>9. InLoop' BY <1>1, <1>2 DEF InLoop, Looping
<1>10. ListHeld' = ListHeld /\ ReadHeld' = Append(ReadHeld, e) /\ ListHeld = cur.list /\ ReadHeld = cur.read
  BY <1>1, <1>2, <1>7 DEF ListHeld, ReadHeld
<1>11. /\ InMemory'
       /\ \A x \in HeldBy(Places) \cap HeldBy(Places') : mem'.ent[x].type = mem.ent[x].type
  BY <1>1, <1>2, <1>5, <1>7, <1>8, <1>10, OneCellMore DEF h
<1>12. SetLists'
  <2>1. ToSet(Append(cur.read, e)) = ToSet(cur.read) \cup {e}
    <3>1. <<e>> \in Lists /\ ToSet(<<e>>) = {e} /\ Append(cur.read, e) = cur.read \o <<e>>
      BY <1>1, <1>5 DEF Lists, ToSet
    <3> QED BY <1>1, <3>1, SetOfJoined
  <2>2. Places'.rd = Append(cur.read, e) /\ Places'.ls = cur.list /\ Places.rd = cur.read /\ Places.ls = cur.list
    BY <1>10, PlacesNow, PlacesThen DEF PlacesAre
  <2>3. ASSUME cur.decl.kind = "set2", NEW x \in ToSet(cur.list) \cup ToSet(cur.read)
        PROVE  mem'.ent[x].type = "SET"
    <3>1. x \in HeldBy(Places) \cap HeldBy(Places')
      BY <2>1, <2>2, <2>3 DEF HeldBy
    <3>2. mem.ent[x].type = "SET" BY <1>1, <2>3 DEF Inv, SetLists
    <3> QED BY <1>11, <3>1, <3>2
  <2>4. ASSUME cur'.decl.kind = "set2", NEW x \in ToSet(cur'.list) \cup ToSet(cur'.read)
        PROVE  mem'.ent[x].type = "SET"
    <3>1. cur.decl.kind = "set2" /\ x \in ToSet(cur.list) \cup ToSet(cur.read) \cup {e}
      BY ONLY <1>7, <2>1, <2>4
    <3> QED BY ONLY <1>3, <1>5, <2>3, <3>1
  <2>5. /\ \A x \in ToSet(cur'.list) : cur'.decl.kind = "set2" => mem'.ent[x].type = "SET"
        /\ \A x \in ToSet(cur'.read) : cur'.decl.kind = "set2" => mem'.ent[x].type = "SET"
    BY ONLY <2>4
  <2> QED BY ONLY <2>5, Zenon DEF SetLists
<1> QED BY <1>8, <1>9, <1>11, <1>12, <1>5 DEF Inv, Onward

\* par_default makes the entry of the default.
LEMMA DefaultMade ==
  ASSUME Inv, pc = "deflt", pc' = "begin", NEW item, item = cur.decl.deflt[1], cur.decl.deflt # <<>>,
         mem' = NodeEntry(mem, item),
         tree' = [tree EXCEPT !.tup = Append(@, NewTup(mem)), !.ent = Append(@, NewEnt(mem))],
         cur' = [cur EXCEPT !.deflt = NewEnt(mem)],
         UNCHANGED <<syms, carried>>
  PROVE  Onward
<1> DEFINE e == NewEnt(mem)
           t == NewTup(mem)
           h == Places
           k == Places'
<1>1. /\ cur.list \in Lists /\ cur.read \in Lists /\ IsStmt(cur) /\ IsLeft(tree) /\ AreSymbols(syms)
      /\ cur.held = Nothing /\ cur.decl \in Decls /\ cur.decl.kind \in {"para1", "set2"}
      /\ cur.left \in Nat /\ ToSet(cur.list) \subseteq ToSet(tree.cells) /\ pc # "none"
  BY DEF Inv, InStage, IsStmt, Working
<1>2. IsKey(item.key) /\ item.type \in Types BY <1>1, ItemsOf
<1>3. Sound(mem, Refs(h), TupRefs(h), CellCount(h), carried) /\ Plain(h)
  BY <1>1, TheBooks
<1>4. /\ Sound(mem', More(Refs(h), e), More(TupRefs(h), t), CellCount(h), carried) /\ Keeps(mem, mem')
      /\ e \in Numbered /\ t \in Numbered
  <2> DEFINE f == Refs(h)
             g == TupRefs(h)
             l == CellCount(h)
  <2>1. Sound(mem, f, g, l, carried) BY <1>3
  <2> HIDE DEF f, g, l
  <2>2. /\ Sound(mem', More(f, e), More(g, t), l, carried) /\ Keeps(mem, mem') /\ e \in Numbered /\ t \in Numbered
    BY <1>2, <2>1, EntryMade DEF Types, NodeEntry
  <2> QED BY <2>2 DEF f, g, l
<1> HIDE DEF e, t
<1>5. /\ IsLeft(tree') /\ tree'.tup = Append(tree.tup, t) /\ tree'.ent = Append(tree.ent, e) /\ tree'.cells = tree.cells
      /\ tree.tup \in Lists /\ tree.ent \in Lists /\ tree.cells \in Lists
  BY <1>1, <1>4, TreeTuple DEF e, t
<1>7. /\ cur'.decl = cur.decl /\ cur'.list = cur.list /\ cur'.read = cur.read /\ cur'.left = cur.left
      /\ cur'.deflt = e /\ cur'.held = cur.held /\ IsStmt(cur')
  BY <1>1, <1>4 DEF IsStmt, e, Numbered
<1>8. InStage'
  <2>1. e \in ToSet(Append(tree.ent, e))
    <3>1. Times(e, Append(tree.ent, e)) = Times(e, tree.ent) + Hit(e, e) /\ Append(tree.ent, e) \in Lists
          /\ Times(e, tree.ent) \in Nat
      BY <1>4, <1>5, TimesGrow
    <3>2. Times(e, Append(tree.ent, e)) > 0 BY <3>1 DEF Hit
    <3> QED BY <3>1, <3>2, TimesEnds
  <2> QED BY <1>1, <1>5, <1>7, <2>1 DEF InStage, Stages, Working
<1>9. InLoop' BY DEF InLoop, Looping
<1>10. Plain(k) BY <1>8, PlainThen
<1>11. /\ h.tr = tree /\ h.he = cur.held /\ h.ls = <<>> /\ h.rd = <<>> /\ h.ss = syms
       /\ k.tr = tree' /\ k.he = cur.held /\ k.ls = <<>> /\ k.rd = <<>> /\ k.ss = syms
  <2>1. ListHeld = <<>> /\ ReadHeld = <<>> /\ ListHeld' = <<>> /\ ReadHeld' = <<>>
    BY DEF ListHeld, ReadHeld
  <2> QED BY <1>7, <2>1, PlacesNow, PlacesThen DEF PlacesAre
<1> HIDE DEF h, k
<1>12. ASSUME NEW x \in Numbered PROVE Nodes(k, x) = Nodes(h, x) + Hit(x, e)
  <2>1. InNodes(h, x) BY <1>3, Parts
  <2>2. Hit(x, e) \in Nat /\ Times(x, k.tr.ent) = Times(x, h.tr.ent) + Hit(x, e)
    <3>1. Hit(x, e) \in Nat /\ Times(x, Append(tree.ent, e)) = Times(x, tree.ent) + Hit(x, e)
      BY <1>4, <1>5, TimesGrow
    <3> QED BY <1>5, <1>11, <3>1
  <2>3. k.tr.cells = h.tr.cells /\ k.he = h.he /\ k.rd = h.rd /\ k.ls = h.ls
    BY <1>5, <1>11
  <2> QED BY ONLY <2>1, <2>2, <2>3 DEF Nodes, InNodes
<1>13. Lens(k) = Lens(h) BY <1>5, <1>11 DEF Lens
<1>15. k.ss = h.ss BY <1>11
<1>16. Refs(k) = More(Refs(h), e) BY <1>3, <1>4, <1>10, <1>12, <1>15, NodeGained
<1>17. TupRefs(k) = More(TupRefs(h), t)
  <2>1. Plain(h) /\ Plain(k) /\ t \in Numbered /\ k.tr.tup = Append(h.tr.tup, t) /\ k.he.tup = h.he.tup
    BY <1>3, <1>4, <1>5, <1>10, <1>11
  <2> QED BY ONLY <2>1, TupleGiven
<1>18. CellCount(k) = CellCount(h)
  <2>1. Lens(h) \in Nat /\ CellCount(h) \in Nat /\ CellCount(k) = CellCount(h) + (Lens(k) - Lens(h))
    BY <1>3, <1>10, <1>15, CellsDiffer
  <2> QED BY <1>13, <2>1
<1>19. InMemory' /\ \A x \in HeldBy(h) \cap HeldBy(k) : mem'.ent[x].type = mem.ent[x].type
  <2>1. Sound(mem', Refs(Places'), TupRefs(Places'), CellCount(Places'), carried)
    BY <1>4, <1>16, <1>17, <1>18 DEF k
  <2>2. pc' # "none" /\ UNCHANGED <<syms, carried>> OBVIOUS
  <2> QED BY <1>1, <1>4, <1>8, <2>1, <2>2, Renewed DEF h, k
<1>20. SetLists'
  <2>1. ASSUME cur.decl.kind = "set2", NEW x \in ToSet(cur.list)
        PROVE  mem'.ent[x].type = "SET"
    <3>1. x \in HeldBy(h) \cap HeldBy(k) BY <1>1, <1>5, <1>11, <2>1 DEF HeldBy
    <3>2. mem.ent[x].type = "SET" BY <2>1 DEF Inv, SetLists
    <3> QED BY <1>19, <3>1, <3>2
  <2> QED BY <1>7, <2>1 DEF SetLists
<1> QED BY <1>8, <1>9, <1>19, <1>20, <1>4 DEF Inv, Onward

\* par_default, if there is one.
LEMMA DefaultStep ==
  ASSUME Inv, Default
  PROVE  Onward
<1>1. CASE cur.decl.deflt = <<>> BY <1>1, NoDefault DEF Default
<1>2. CASE cur.decl.deflt # <<>>
  <2>1. PICK item : item = cur.decl.deflt[1] OBVIOUS
  <2>2. /\ mem' = NodeEntry(mem, item)
        /\ tree' = [tree EXCEPT !.tup = Append(@, NewTup(mem)), !.ent = Append(@, NewEnt(mem))]
        /\ cur' = [cur EXCEPT !.deflt = NewEnt(mem)]
        /\ UNCHANGED <<syms, carried>> /\ pc = "deflt" /\ pc' = "begin"
    BY <1>2, <2>1 DEF Default
  <2> QED BY <1>2, <2>1, <2>2, DefaultMade
<1> QED BY <1>1, <1>2

\* ---- steps that change the symbols

\* The books of the next state when the symbols change.
LEMMA RenewedSymbols ==
  ASSUME Inv, InStage', pc # "none", pc' # "none", carried' = carried, Keeps(mem, mem'), Tables(mem, syms'),
         Sound(mem', Refs(Places'), TupRefs(Places'), CellCount(Places'), carried)
  PROVE  /\ InMemory'
         /\ \A e \in HeldBy(Places) \cap HeldBy(Places') :
              mem'.ent[e].type = mem.ent[e].type /\ mem'.ent[e].val = mem.ent[e].val
<1> DEFINE h == Places
           k == Places'
           n == mem'
<1>1. Plain(h) /\ Plain(k) BY PlainNow, PlainThen DEF Inv
<1>2. Ledger(mem, h, carried) /\ Ledger(n, k, carried) /\ Keeps(mem, n)
  BY DEF Inv, InMemory, Ledger
<1>3. k.ss = syms' BY PlacesThen DEF PlacesAre
<1>4. Tables(n, syms')
  <2>1. Tables(mem, k.ss) BY <1>3
  <2> HIDE DEF h, k, n
  <2> QED BY <1>1, <1>2, <1>3, <2>1, TablesKept
<1>5. InMemory' BY <1>2, <1>4 DEF InMemory, Tables
<1>6. \A e \in HeldBy(h) \cap HeldBy(k) : e \in DOMAIN mem.ent /\ e \in DOMAIN n.ent
  <2> HIDE DEF h, k, n
  <2> QED BY <1>1, <1>2, Alive
<1>7. \A e \in HeldBy(h) \cap HeldBy(k) : n.ent[e].type = mem.ent[e].type /\ n.ent[e].val = mem.ent[e].val
  BY <1>2, <1>6 DEF Keeps
<1> QED BY <1>5, <1>7

\* symbol_new has an empty table.
LEMMA NewSymbol ==
  ASSUME NEW name, NEW type, NEW iset, NEW deflt \in Nat
  PROVE  LET r == symbol_new(name, type, iset, deflt) IN
         /\ IsSymbol(r) /\ r.type = type /\ r.iset = iset /\ r.entry = <<>> /\ r.hash = <<>> /\ r.deflt = deflt
         /\ \A m : TableOf(m, r)
<1> DEFINE r == symbol_new(name, type, iset, deflt)
<1>1. r = [name |-> name, type |-> type, iset |-> iset, size |-> 1, extend |-> SYMBOL_EXTEND_SIZE,
           entry |-> <<>>, hash |-> <<>>, deflt |-> deflt]
  BY DEF symbol_new
<1> HIDE DEF r
<1>2. r.type = type /\ r.iset = iset /\ r.entry = <<>> /\ r.hash = <<>> /\ r.deflt = deflt /\ r.size = 1
      /\ r.extend = SYMBOL_EXTEND_SIZE
  BY <1>1
<1>3. r = [name |-> r.name, type |-> r.type, iset |-> r.iset, size |-> r.size, extend |-> r.extend,
           entry |-> r.entry, hash |-> r.hash, deflt |-> r.deflt]
  BY <1>1
<1>4. SYMBOL_EXTEND_SIZE \in Numbered /\ <<>> \in Lists
  BY EmptyList, SymbolTableAssumption DEF Numbered
<1>5. IsSymbol(r) BY <1>2, <1>3, <1>4 DEF IsSymbol
<1>6. ASSUME NEW m PROVE TableOf(m, r)
  <2>1. Reverse(<<>>) = <<>> BY DEF Reverse
  <2>2. DOMAIN r.entry = {} /\ Len(r.entry) = 0 BY <1>2
  <2> QED BY <1>2, <2>1, <2>2 DEF TableOf
<1> QED BY <1>2, <1>5, <1>6 DEF r

\* the symbols with one more
LEMMA AppendedSymbol ==
  ASSUME NEW ss, AreSymbols(ss), NEW r, IsSymbol(r), NEW m, Tables(m, ss), TableOf(m, r)
  PROVE  /\ AreSymbols(Append(ss, r)) /\ Tables(m, Append(ss, r)) /\ Append(ss, r) # <<>>
         /\ Append(ss, r)[Len(Append(ss, r))] = r
<1>1. PICK T : ss \in Seq(T) /\ \A s \in T : IsSymbol(s) BY DEF AreSymbols
<1> DEFINE new == Append(ss, r)
<1>2. /\ DOMAIN ss = 1 .. Len(ss) /\ Len(ss) \in Nat /\ DOMAIN new = 1 .. Len(ss) + 1 /\ Len(new) = Len(ss) + 1
      /\ new[Len(ss) + 1] = r /\ \A i \in 1 .. Len(ss) : new[i] = ss[i]
  BY <1>1
<1>3. AreSymbols(new)
  <2>1. 1 \in Numbered BY DEF Numbered
  <2> QED BY <2>1, OneSymbolMore
<1> HIDE DEF new
<1>4. Tables(m, new) BY <1>2 DEF Tables
<1>5. new # <<>> BY <1>2
<1> QED BY <1>2, <1>3, <1>4, <1>5 DEF new

\* What a statement begins with, by its kind.
Beginning(type, iset, next) ==
  /\ next \in Looping \cup {"finish"}
  /\ next = "by list" => cur.decl.kind \in {"para1", "set2"}
  /\ next = "by index" => cur.decl.kind = "para1"
  /\ next = "each" => cur.decl.kind \in {"set1", "para2", "var"}
  /\ next # "finish" =>
       /\ cur.decl.kind # "set2" => iset = cur.decl.iset
       /\ cur.decl.kind \in {"para1", "para2"} => type = "ERR"
       /\ cur.decl.kind \in {"set1", "set2"} => type = "SET"
       /\ cur.decl.kind = "var" => type = "VAR"

\* The symbol of a statement is made and its loop begins.
LEMMA BegunKeeps ==
  ASSUME Inv, pc = "begin", NEW type, NEW iset, NEW next, Beginning(type, iset, next), Begun(type, iset, next)
  PROVE  Onward
<1> DEFINE h == Places
           k == Places'
           d == cur.deflt
           r == symbol_new(cur.decl.name, type, iset, d)
<1>1. /\ cur.list \in Lists /\ cur.read \in Lists /\ IsStmt(cur) /\ IsLeft(tree) /\ AreSymbols(syms)
      /\ cur.held = Nothing /\ cur.decl \in Decls /\ d \in Nat
      /\ ToSet(cur.list) \subseteq ToSet(tree.cells) /\ pc # "none" /\ (d # 0 => d \in ToSet(tree.ent))
  BY DEF Inv, InStage, IsStmt, Working
<1>2. /\ syms' = Append(syms, r) /\ mem' = SymbolMem(mem, d) /\ cur' = [cur EXCEPT !.left = 1] /\ pc' = next
      /\ tree' = tree /\ carried' = carried
  BY DEF Begun
<1>3. /\ IsSymbol(r) /\ r.type = type /\ r.iset = iset /\ r.entry = <<>> /\ r.hash = <<>> /\ r.deflt = d
      /\ TableOf(mem, r)
  BY <1>1, NewSymbol
<1>4. Sound(mem, Refs(h), TupRefs(h), CellCount(h), carried) /\ Plain(h) /\ Ledger(mem, h, carried)
      /\ CellCount(h) \in Nat
  BY <1>1, TheBooks DEF Ledger
<1> HIDE DEF r
<1>5. AreSymbols(syms') /\ Tables(mem, syms') /\ syms' # <<>> /\ syms'[Len(syms')] = r
  <2>1. Tables(mem, syms) BY <1>1 DEF Inv, InMemory, Tables
  <2> QED BY <1>1, <1>2, <1>3, <2>1, AppendedSymbol
<1>6. /\ cur'.decl = cur.decl /\ cur'.list = cur.list /\ cur'.read = cur.read /\ cur'.left = 1
      /\ cur'.deflt = cur.deflt /\ cur'.held = cur.held /\ IsStmt(cur')
  BY <1>1, <1>2 DEF IsStmt
<1>7. InStage'
  BY <1>1, <1>2, <1>5, <1>6 DEF Beginning, InStage, Stages, Working, Looping
<1>8. /\ h.tr = tree /\ h.he = cur.held /\ h.ls = <<>> /\ h.rd = <<>> /\ h.ss = syms
      /\ k.tr = tree /\ k.he = cur.held /\ k.ls = <<>> /\ k.rd = <<>> /\ k.ss = Append(syms, r)
  <2>1. ListHeld = <<>> /\ ReadHeld = <<>> /\ ListHeld' = <<>> /\ ReadHeld' = <<>>
    BY <1>2 DEF ListHeld, ReadHeld, Beginning, Looping
  <2> QED BY <1>2, <1>6, <2>1, PlacesNow, PlacesThen DEF PlacesAre
<1>9. d # 0 => d \in Numbered /\ Refs(h)[d] > 0 /\ d \in DOMAIN mem.ent
  <2>1. d # 0 => d \in HeldBy(h) BY <1>1, <1>8 DEF HeldBy
  <2> HIDE DEF h, d
  <2> QED BY <1>4, <2>1, Alive
<1> HIDE DEF h, k, d
<1>10. /\ Plain(k) /\ TupRefs(k) = TupRefs(h)
       /\ \A x \in Numbered : Holders(k, x) = Holders(h, x) + Times(x, r.entry) + Hit(x, r.deflt)
       /\ CellCount(k) = CellCount(h) + Length(r.hash)
  <2>1. SameNodes(h, k) /\ k.ss = Append(h.ss, r) BY <1>8 DEF SameNodes
  <2> QED BY <1>3, <1>4, <2>1, SymbolAppended
<1>11. CellCount(k) = CellCount(h) BY <1>3, <1>4, <1>10, EmptyList
<1>12. ASSUME NEW x \in Numbered PROVE Holders(k, x) = Holders(h, x) + Hit(x, d) /\ Holders(h, x) \in Nat
  <2>1. Holders(h, x) \in Nat /\ Times(x, <<>>) = 0 BY <1>4, Booked, EmptyList
  <2>2. Holders(k, x) = Holders(h, x) + Times(x, <<>>) + Hit(x, d)
    BY <1>3, <1>10
  <2>3. Hit(x, d) \in Nat BY DEF Hit
  <2> QED BY ONLY <2>1, <2>2, <2>3
<1>13. Sound(mem', Refs(k), TupRefs(k), CellCount(k), carried) /\ Keeps(mem, mem')
  <2>1. CASE d = 0
    <3>1. mem' = mem BY <1>2, <2>1 DEF SymbolMem
    <3>2. ASSUME NEW x \in Numbered PROVE Holders(k, x) = Holders(h, x)
      <4>1. Hit(x, d) = 0 BY <2>1 DEF Hit, Numbered
      <4> QED BY <1>12, <4>1
    <3>3. Refs(k) = Refs(h) BY <1>4, <1>10, <3>2, RefsSame
    <3>4. Keeps(mem, mem) BY DEF Keeps
    <3> QED BY <1>4, <1>10, <1>11, <3>1, <3>3, <3>4
  <2>2. CASE d # 0
    <3>1. mem' = entry_copy(mem, d) BY <1>2, <2>2 DEF SymbolMem
    <3>2. Refs(k) = More(Refs(h), d) BY <1>4, <1>9, <1>10, <1>12, <2>2, RefsMore
    <3> DEFINE f == Refs(h)
               g == TupRefs(h)
               l == CellCount(h)
    <3>3. Sound(mem, f, g, l, carried) /\ d \in DOMAIN mem.ent
      BY <1>4, <1>9, <2>2
    <3> HIDE DEF f, g, l
    <3>4. Sound(mem', More(f, d), g, l, carried) /\ Keeps(mem, mem')
      BY <3>1, <3>3, SoundCopy
    <3> QED BY <1>10, <1>11, <3>2, <3>4 DEF f, g, l
  <2> QED BY <2>1, <2>2
<1>14. InMemory' /\ \A x \in HeldBy(h) \cap HeldBy(k) : mem'.ent[x].type = mem.ent[x].type
  <2>1. Sound(mem', Refs(Places'), TupRefs(Places'), CellCount(Places'), carried)
    BY <1>13 DEF k
  <2>2. pc' # "none" /\ carried' = carried BY <1>2 DEF Beginning, Looping
  <2> QED BY <1>1, <1>5, <1>7, <1>13, <2>1, <2>2, RenewedSymbols DEF h, k
<1>15. SetLists'
  <2>1. ASSUME cur.decl.kind = "set2", NEW x \in ToSet(cur.list)
        PROVE  mem'.ent[x].type = "SET"
    <3>1. x \in HeldBy(h) \cap HeldBy(k) BY <1>1, <1>8, <2>1 DEF HeldBy
    <3>2. mem.ent[x].type = "SET" BY <2>1 DEF Inv, SetLists
    <3> QED BY <1>14, <3>1, <3>2
  <2>2. pc' \notin {"list", "front"} BY <1>2 DEF Beginning, Looping
  <2> QED BY <1>6, <2>1, <2>2 DEF SetLists
<1>16. InLoop'
  <2>1. This' = r BY <1>5 DEF This
  <2>2. DOMAIN r.entry = {} BY <1>3
  <2>3. pc' \in Looping => pc' # "finish" BY DEF Looping
  <2>4. pc' \in Looping => cur'.left # 0 BY <1>6
  <2>5. pc' \in Looping =>
           /\ cur'.decl.kind # "set2" => This'.iset = cur'.decl.iset
           /\ cur'.decl.kind \in {"para1", "para2"} /\ cur'.left = 1 => This'.entry = <<>> /\ This'.type = "ERR"
           /\ cur'.decl.kind \in {"set1", "set2"} => This'.type = "SET"
           /\ cur'.decl.kind = "var" => This'.type = "VAR"
    BY <1>2, <1>3, <1>6, <2>1, <2>3 DEF Beginning
  <2>6. \A i \in DOMAIN This'.entry : mem'.ent[This'.entry[i]].val = <<Lower(cur'.decl), Upper(cur'.decl)>>
    BY <2>1, <2>2
  <2> QED BY <1>5, <2>4, <2>5, <2>6 DEF InLoop
<1> QED BY <1>7, <1>14, <1>15, <1>16, <1>13 DEF Inv, Onward

\* i_newsym_para1 up to its loop, with error 132 for an empty file.
LEMMA NewPara1Step ==
  ASSUME Inv, i_newsym_para1
  PROVE  Onward
<1>1. pc = "begin" /\ cur.decl.kind = "para1" /\ pc \in Working \ {"list", "front"}
  BY DEF i_newsym_para1, Working
<1>2. CASE Begun(IF cur.deflt = 0 THEN "ERR" ELSE mem.ent[cur.deflt].type, cur.decl.iset, "finish")
  <2>1. PICK type : type = IF cur.deflt = 0 THEN "ERR" ELSE mem.ent[cur.deflt].type
    OBVIOUS
  <2>2. Begun(type, cur.decl.iset, "finish") /\ Beginning(type, cur.decl.iset, "finish")
    BY <1>1, <1>2, <2>1 DEF Beginning
  <2> QED BY <1>1, <2>2, BegunKeeps
<1>3. CASE Refused(135) BY <1>1, <1>3, RefusedKeeps
<1>4. CASE Begun("ERR", cur.decl.iset, IF ByIndex THEN "by index" ELSE "by list")
  <2>1. PICK next : next = IF ByIndex THEN "by index" ELSE "by list" OBVIOUS
  <2>2. Begun("ERR", cur.decl.iset, next) /\ Beginning("ERR", cur.decl.iset, next)
    BY <1>1, <1>4, <2>1 DEF Beginning, Looping
  <2> QED BY <1>1, <2>2, BegunKeeps
<1> QED BY <1>2, <1>3, <1>4 DEF i_newsym_para1

\* i_newsym_set2 up to its loop.
LEMMA NewSet2Step ==
  ASSUME Inv, i_newsym_set2
  PROVE  Onward
<1>1. pc = "begin" /\ cur.decl.kind = "set2" /\ pc \in Working \ {"list", "front"}
  BY DEF i_newsym_set2, Working
<1>2. CASE Refused(197) BY <1>1, <1>2, RefusedKeeps
<1>3. CASE Begun("SET", IF cur.decl.iset = << <<>> >> THEN ListIndex ELSE cur.decl.iset, "by list")
  <2>1. PICK iset : iset = IF cur.decl.iset = << <<>> >> THEN ListIndex ELSE cur.decl.iset
    OBVIOUS
  <2>2. Begun("SET", iset, "by list") /\ Beginning("SET", iset, "by list")
    BY <1>1, <1>3, <2>1 DEF Beginning, Looping
  <2> QED BY <1>1, <2>2, BegunKeeps
<1> QED BY <1>2, <1>3 DEF i_newsym_set2

\* i_newsym_set1, i_newsym_para2 and i_newsym_var up to their loops.
LEMMA NewEachStep ==
  ASSUME Inv, i_newsym_each
  PROVE  Onward
<1>1. pc = "begin" /\ cur.decl.kind \in {"set1", "para2", "var"} /\ pc \in Working \ {"list", "front"}
  BY DEF i_newsym_each, Working
<1> DEFINE kind == CASE cur.decl.kind = "set1" -> "SET" [] cur.decl.kind = "para2" -> "ERR" [] cur.decl.kind = "var" -> "VAR"
<1>2. CASE Refused(197) BY <1>1, <1>2, RefusedKeeps
<1>3. CASE Refused(135) BY <1>1, <1>3, RefusedKeeps
<1>4. CASE Begun(kind, cur.decl.iset, "each")
  <2>1. PICK type : type = kind OBVIOUS
  <2>2. /\ cur.decl.kind = "set1" => type = "SET"
        /\ cur.decl.kind = "para2" => type = "ERR"
        /\ cur.decl.kind = "var" => type = "VAR"
    BY <2>1
  <2>3. Begun(type, cur.decl.iset, "each") BY <1>4, <2>1
  <2> HIDE DEF kind
  <2>4. Beginning(type, cur.decl.iset, "each")
    BY <1>1, <2>2 DEF Beginning, Looping
  <2> QED BY <1>1, <2>3, <2>4, BegunKeeps
<1> QED BY <1>2, <1>3, <1>4 DEF i_newsym_each

\* The symbol of the statement and the others.
LEMMA TheSymbol ==
  ASSUME NEW ss, AreSymbols(ss), ss # <<>>, NEW r, IsSymbol(r)
  PROVE  /\ Len(ss) \in DOMAIN ss /\ IsSymbol(ss[Len(ss)])
         /\ LET new == [ss EXCEPT ![Len(ss)] = r] IN
            /\ AreSymbols(new) /\ new # <<>> /\ Len(new) = Len(ss) /\ new[Len(new)] = r
            /\ \A i \in DOMAIN new : i \in DOMAIN ss /\ (i # Len(ss) => new[i] = ss[i])
<1>1. PICK T : ss \in Seq(T) /\ \A s \in T : IsSymbol(s) BY DEF AreSymbols
<1>2. /\ DOMAIN ss = 1 .. Len(ss) /\ Len(ss) \in Nat /\ Len(ss) \in DOMAIN ss /\ \A i \in DOMAIN ss : ss[i] \in T
  BY <1>1
<1> DEFINE new == [ss EXCEPT ![Len(ss)] = r]
<1>3. new \in Seq(T \cup {r}) /\ \A s \in T \cup {r} : IsSymbol(s) BY <1>1, <1>2
<1>4. DOMAIN new = DOMAIN ss /\ new[Len(ss)] = r /\ \A i \in DOMAIN ss : i # Len(ss) => new[i] = ss[i]
  BY <1>2
<1> HIDE DEF new
<1>5. AreSymbols(new) BY <1>3 DEF AreSymbols
<1>6. Len(new) = Len(ss) /\ new # <<>> BY <1>2, <1>3, <1>4
<1> QED BY <1>1, <1>2, <1>4, <1>5, <1>6 DEF new

\* The last symbol is one.
LEMMA LastIsSymbol ==
  ASSUME NEW ss, AreSymbols(ss), ss # <<>>
  PROVE  Len(ss) \in DOMAIN ss /\ IsSymbol(ss[Len(ss)])
<1>1. PICK T : ss \in Seq(T) /\ \A s \in T : IsSymbol(s) BY DEF AreSymbols
<1>2. Len(ss) \in DOMAIN ss /\ ss[Len(ss)] \in T BY <1>1
<1> QED BY <1>1, <1>2

\* The entry e has gone from a local into the last symbol: r for s, places k for h.
Filled(h, m, e, g, b, s, k, n, r) ==
  /\ Sound(n, Refs(k), g, CellCount(k), b) /\ Keeps(m, n) /\ Plain(k) /\ TupRefs(k) = TupRefs(h)
  /\ IsSymbol(r) /\ TableOf(n, r) /\ r.iset = s.iset
  /\ r.type = IF s.type = "ERR" /\ s.entry = <<>> THEN m.ent[e].type ELSE s.type
  /\ \A i \in DOMAIN r.entry : r.entry[i] = e \/ \E j \in DOMAIN s.entry : r.entry[i] = s.entry[j]

\* A symbol gets an entry that m knows and nobody else holds yet.
LEMMA SymbolFilled ==
  ASSUME NEW h, Plain(h), h.ss # <<>>, NEW m, NEW e \in Numbered, NEW g, NEW b,
         Sound(m, More(Refs(h), e), g, CellCount(h), b),
         NEW s, s = h.ss[Len(h.ss)], TableOf(m, s), Fits(m, s, e),
         \A i \in DOMAIN s.entry : Refs(h)[s.entry[i]] > 0,
         NEW k, SameNodes(h, k), k.ss = [h.ss EXCEPT ![Len(h.ss)] = AddSym(m, s, e)]
  PROVE  Filled(h, m, e, g, b, s, k, AddMem(m, s, e), AddSym(m, s, e))
<1> DEFINE n == AddMem(m, s, e)
           r == AddSym(m, s, e)
           d == Duplicate(m, s, e)
           f == Refs(h)
           l == CellCount(h)
<1>1. f \in [Nat -> Nat] /\ l \in Nat BY Booked
<1>2. IsSymbol(s) BY LastIsSymbol DEF Plain
<1>3. s.entry \in Lists /\ s.hash \in Lists BY <1>2 DEF IsSymbol
<1>4. Sound(m, More(f, e), g, l, b) OBVIOUS
<1>5. \A i \in DOMAIN s.entry : f[s.entry[i]] > 0 OBVIOUS
<1> HIDE DEF f, l
<1>6. /\ Keeps(m, n) /\ IsSymbol(r) /\ TableOf(n, r)
      /\ r.name = s.name /\ r.iset = s.iset /\ r.deflt = s.deflt
      /\ d => Sound(n, f, g, l, b) /\ r.entry = s.entry /\ r.hash = s.hash /\ r.type = s.type /\ s.entry # <<>>
      /\ ~ d => /\ Sound(n, More(f, e), g, l + 1, b) /\ r.type = m.ent[e].type
                /\ r.entry = Append(s.entry, e) /\ r.hash = <<e>> \o s.hash
  <2>1. TableOf(m, s) /\ Fits(m, s, e) /\ e \in Numbered OBVIOUS
  <2> QED
    <3>1. EntryIn(m, f, g, l, b, s, e, n, r, d)
      BY <1>1, <1>2, <1>4, <1>5, <2>1, EntryAdded
    <3> HIDE DEF n, r, d
    <3> QED BY <3>1 DEF EntryIn
<1> HIDE DEF n, d
<1>7. k.ss = [h.ss EXCEPT ![Len(h.ss)] = r] OBVIOUS
<1> HIDE DEF r
<1>8. /\ Plain(k) /\ TupRefs(k) = TupRefs(h)
      /\ \A x \in Numbered : Holders(k, x) = Holders(h, x) + Times(x, r.entry) - Times(x, s.entry)
      /\ CellCount(k) = CellCount(h) + Length(r.hash) - Length(s.hash)
  BY <1>6, <1>7, SymbolChanged
<1>9. \A x \in Numbered : Holders(h, x) \in Nat /\ Times(x, s.entry) \in Nat
  BY <1>3, Booked, TimesNat
<1>10. Length(s.hash) \in Nat /\ Length(<<e>> \o s.hash) = Length(s.hash) + 1
  BY <1>3, TimesNat, LengthOf
<1>11. ASSUME d
       PROVE  Sound(n, Refs(k), g, CellCount(k), b) /\ r.type = s.type /\ s.entry # <<>>
              /\ \A i \in DOMAIN r.entry : \E j \in DOMAIN s.entry : r.entry[i] = s.entry[j]
  <2>1. \A x \in Numbered : Holders(k, x) = Holders(h, x)
    BY <1>6, <1>8, <1>9, <1>11
  <2>2. Refs(k) = f BY <1>8, <2>1, RefsSame DEF f
  <2>3. CellCount(k) = l BY <1>1, <1>6, <1>8, <1>10, <1>11 DEF l
  <2> QED BY <1>6, <1>11, <2>2, <2>3
<1>12. ASSUME ~ d
       PROVE  Sound(n, Refs(k), g, CellCount(k), b) /\ r.type = m.ent[e].type
              /\ \A i \in DOMAIN r.entry : r.entry[i] = e \/ \E j \in DOMAIN s.entry : r.entry[i] = s.entry[j]
  <2>1. ASSUME NEW x \in Numbered PROVE Holders(k, x) = Holders(h, x) + Hit(x, e)
    <3>1. Times(x, Append(s.entry, e)) = Times(x, s.entry) + Hit(x, e) /\ Hit(x, e) \in Nat
      BY ZenonT(60), <1>3, TimesGrow
    <3>2. Holders(k, x) = Holders(h, x) + Times(x, Append(s.entry, e)) - Times(x, s.entry)
      BY <1>6, <1>8, <1>12
    <3> QED BY <1>9, <3>1, <3>2
  <2>2. Refs(k) = More(f, e) BY <1>8, <2>1, RefsMore DEF f
  <2>3. CellCount(k) = l + 1
    <3>1. Length(r.hash) = Length(s.hash) + 1 BY <1>6, <1>10, <1>12
    <3> QED BY <1>1, <1>8, <1>10, <3>1 DEF l
  <2>4. \A i \in DOMAIN Append(s.entry, e) : Append(s.entry, e)[i] = e \/ \E j \in DOMAIN s.entry : Append(s.entry, e)[i] = s.entry[j]
    BY <1>3, AppendAt
  <2> QED
    <3>1. Sound(n, Refs(k), g, CellCount(k), b) /\ r.type = m.ent[e].type /\ r.entry = Append(s.entry, e)
      BY <1>6, <1>12, <2>2, <2>3
    <3>2. \A i \in DOMAIN r.entry : r.entry[i] = e \/ \E j \in DOMAIN s.entry : r.entry[i] = s.entry[j]
      BY <2>4, <3>1
    <3> QED BY <3>1, <3>2
<1>13. r.type = IF s.type = "ERR" /\ s.entry = <<>> THEN m.ent[e].type ELSE s.type
  <2>1. CASE d BY <1>11, <2>1
  <2>2. CASE ~ d BY <1>12, <2>2 DEF Fits
  <2> QED BY <2>1, <2>2
<1> QED BY <1>6, <1>8, <1>11, <1>12, <1>13 DEF n, r, Filled

\* How the memory with the entry added becomes that of the next state.
Settles(n, g) ==
  \A f, l : Sound(n, f, g, l, carried) =>
    Sound(mem', f, TupRefs(Places), l, carried) /\ Keeps(n, mem') /\ mem'.ent = n.ent

\* Any loop that hands a sound entry to symbol_add_entry.
LEMMA AddedKeeps ==
  ASSUME Inv, pc \in Looping, NEW m, NEW e \in Numbered, NEW g,
         Sound(m, More(Refs(Places), e), g, CellCount(Places), carried), Keeps(mem, m),
         Fits(m, This, e), Added(m, e), Settles(AddMem(m, This, e), g),
         cur.decl.kind = "var" => m.ent[e].val = <<Lower(cur.decl), Upper(cur.decl)>>
  PROVE  Onward
<1> DEFINE h == Places
           k == Places'
           s == This
           n == AddMem(m, s, e)
           r == AddSym(m, s, e)
<1>1. /\ cur.list \in Lists /\ cur.read \in Lists /\ IsStmt(cur) /\ IsLeft(tree) /\ AreSymbols(syms)
      /\ cur.held = Nothing /\ cur.decl \in Decls /\ pc # "none" /\ syms # <<>> /\ cur.left \in Nat /\ cur.left # 0
      /\ pc \in Working
  BY DEF Inv, InStage, InLoop, IsStmt, Working, Looping
<1>2. Sound(mem, Refs(h), TupRefs(h), CellCount(h), carried) /\ Plain(h) /\ Ledger(mem, h, carried)
      /\ Refs(h) \in [Nat -> Nat]
  BY <1>1, TheBooks DEF Ledger
<1>3. syms' = [syms EXCEPT ![Len(syms)] = r] /\ cur' = [cur EXCEPT !.left = @ + 1]
      /\ UNCHANGED <<tree, pc, err, carried, stmts, sessions>>
  BY DEF Added, This
<1>4. s = syms[Len(syms)] /\ Len(syms) \in DOMAIN syms /\ IsSymbol(s)
  BY <1>1, LastIsSymbol DEF This
<1>5. /\ cur'.decl = cur.decl /\ cur'.list = cur.list /\ cur'.read = cur.read /\ cur'.left = cur.left + 1
      /\ cur'.deflt = cur.deflt /\ cur'.held = cur.held /\ IsStmt(cur')
  BY <1>1, <1>3 DEF IsStmt
<1>6. /\ h.tr = tree /\ h.he = cur.held /\ h.ls = <<>> /\ h.rd = <<>> /\ h.ss = syms
      /\ k.tr = tree /\ k.he = cur.held /\ k.ls = <<>> /\ k.rd = <<>> /\ k.ss = syms'
  <2>1. ListHeld = <<>> /\ ReadHeld = <<>> /\ ListHeld' = <<>> /\ ReadHeld' = <<>>
    BY <1>3 DEF ListHeld, ReadHeld, Looping
  <2> QED BY <1>3, <1>5, <2>1, PlacesNow, PlacesThen DEF PlacesAre
<1>7. Tables(mem, syms) /\ TableOf(mem, s)
  BY <1>1, <1>4 DEF Inv, InMemory, Tables
<1>8. SameNodes(h, k) /\ k.ss = [h.ss EXCEPT ![Len(h.ss)] = r] /\ s = h.ss[Len(h.ss)] /\ h.ss # <<>>
  BY <1>1, <1>3, <1>4, <1>6 DEF SameNodes
<1> HIDE DEF h, k, s
<1>9. \A i \in DOMAIN s.entry : s.entry[i] \in Numbered /\ Refs(h)[s.entry[i]] > 0 /\ s.entry[i] \in DOMAIN mem.ent
  BY <1>2, <1>4, <1>6, Alive
<1>10. /\ DOMAIN mem.ent = {x \in Nat : Refs(h)[x] > 0}
       /\ DOMAIN m.ent = {x \in Nat : More(Refs(h), e)[x] > 0}
       /\ DOMAIN mem.ent \subseteq DOMAIN m.ent /\ e \in DOMAIN m.ent
  <2> DEFINE f == Refs(h)
             p == More(f, e)
             l == CellCount(h)
             g0 == TupRefs(h)
  <2>1. Sound(mem, f, g0, l, carried) /\ Sound(m, p, g, l, carried) /\ f \in [Nat -> Nat] /\ e \in Nat
    BY <1>2 DEF Numbered, h
  <2> HIDE DEF f, l, g0
  <2>2. p[e] > 0 /\ \A x \in Nat : p[x] = f[x] + Hit(x, e) BY <2>1, MoreAt
  <2> HIDE DEF p
  <2>3. DOMAIN mem.ent = {x \in Nat : f[x] > 0} /\ DOMAIN m.ent = {x \in Nat : p[x] > 0}
    BY <2>1, Living
  <2>4. \A x \in Nat : Hit(x, e) \in Nat /\ f[x] \in Nat BY <2>1 DEF Hit
  <2> QED BY <2>1, <2>2, <2>3, <2>4 DEF f, p
<1>11. TableOf(m, s) BY <1>7, <1>9, <1>10, TableKept
<1>12. /\ Sound(n, Refs(k), g, CellCount(k), carried) /\ Keeps(m, n) /\ Plain(k) /\ TupRefs(k) = TupRefs(h)
       /\ IsSymbol(r) /\ TableOf(n, r) /\ r.iset = s.iset
       /\ r.type = IF s.type = "ERR" /\ s.entry = <<>> THEN m.ent[e].type ELSE s.type
       /\ \A i \in DOMAIN r.entry : r.entry[i] = e \/ \E j \in DOMAIN s.entry : r.entry[i] = s.entry[j]
  <2>1. Sound(m, More(Refs(h), e), g, CellCount(h), carried) /\ Fits(m, s, e)
    BY DEF h, s
  <2>2. \A i \in DOMAIN s.entry : Refs(h)[s.entry[i]] > 0 BY <1>9
  <2>3. Filled(h, m, e, g, carried, s, k, n, r)
    BY <1>2, <1>8, <1>11, <2>1, <2>2, SymbolFilled
  <2> HIDE DEF n, r
  <2> QED BY <2>3 DEF Filled
<1>13. Settles(n, g) BY DEF n, s
<1> HIDE DEF n, r
<1>14. Sound(mem', Refs(k), TupRefs(k), CellCount(k), carried) /\ Keeps(n, mem') /\ mem'.ent = n.ent
  BY <1>12, <1>13 DEF Settles, h
<1>15. Keeps(mem, n) BY <1>10, <1>12, KeepsOn
<1>16. Keeps(mem, mem') BY <1>14, <1>15, KeepsOn
<1>17. /\ AreSymbols(syms') /\ syms' # <<>> /\ Len(syms') = Len(syms) /\ syms'[Len(syms')] = r
       /\ \A i \in DOMAIN syms' : i \in DOMAIN syms /\ (i # Len(syms) => syms'[i] = syms[i])
  BY ZenonT(60), <1>1, <1>3, <1>12, TheSymbol
<1>18. InStage'
  BY <1>1, <1>3, <1>5, <1>17 DEF Inv, InStage, Stages, Working, Looping
<1>19. Ledger(mem', k, carried) BY <1>14 DEF Ledger
<1>20. \A i \in DOMAIN syms' : \A j \in DOMAIN syms'[i].entry :
         /\ syms'[i].entry[j] \in Numbered /\ syms'[i].entry[j] \in DOMAIN mem'.ent
  <2> DEFINE q == mem'
             ss == syms'
  <2>1. Ledger(q, k, carried) /\ k.ss = ss BY <1>6, <1>19 DEF k
  <2> HIDE DEF q, ss
  <2>2. \A i \in DOMAIN ss : \A j \in DOMAIN ss[i].entry : ss[i].entry[j] \in Numbered /\ ss[i].entry[j] \in DOMAIN q.ent
    BY <1>12, <2>1, Alive
  <2> QED BY <2>2 DEF q, ss
<1>21. \A i \in DOMAIN syms' : TableOf(mem', syms'[i])
  <2> SUFFICES ASSUME NEW i \in DOMAIN syms' PROVE TableOf(mem', syms'[i])
    OBVIOUS
  <2>1. \A j \in DOMAIN syms'[i].entry : syms'[i].entry[j] \in DOMAIN mem'.ent
    BY <1>20
  <2>2. CASE i = Len(syms)
    <3>1. syms'[i] = r BY <1>17, <2>2
    <3> QED BY <1>12, <1>14, <2>1, <3>1, TableKept
  <2>3. CASE i # Len(syms)
    <3>1. syms'[i] = syms[i] /\ i \in DOMAIN syms BY <1>17, <2>3
    <3>2. TableOf(mem, syms[i]) BY <1>7, <3>1 DEF Tables
    <3> QED BY <1>16, <2>1, <3>1, <3>2, TableKept
  <2> QED BY <2>2, <2>3
<1>22. InMemory'
  <2>1. pc' # "none" /\ carried' = carried BY <1>1, <1>3
  <2> QED BY <1>19, <1>21, <2>1 DEF InMemory, k
<1>23. SetLists'
  <2>1. ASSUME cur.decl.kind = "set2", pc = "by list", NEW x \in ToSet(cur.list)
        PROVE  mem'.ent[x].type = "SET"
    <3>1. x \in HeldBy(h) \cap HeldBy(k)
      <4>1. ToSet(cur.list) \subseteq ToSet(tree.cells) BY <2>1 DEF Inv, InStage
      <4> QED BY <1>6, <2>1, <4>1 DEF HeldBy, h, k
    <3>2. mem.ent[x].type = "SET" BY <2>1 DEF Inv, SetLists
    <3>3. x \in DOMAIN mem.ent BY <1>2, <3>1, Alive
    <3>4. x \in DOMAIN mem'.ent
      <4> DEFINE q == mem'
      <4>1. Ledger(q, k, carried) BY <1>19
      <4> HIDE DEF q
      <4>2. x \in DOMAIN q.ent BY <1>12, <3>1, <4>1, Alive
      <4> QED BY <4>2 DEF q
    <3> QED BY <1>16, <3>2, <3>3, <3>4 DEF Keeps
  <2> QED BY <1>3, <1>5, <2>1 DEF SetLists, Looping
<1>24. InLoop'
  <2>1. This' = r BY <1>17 DEF This
  <2>2. cur'.left # 0 /\ cur'.left # 1 BY <1>1, <1>5
  <2>3. /\ cur.decl.kind # "set2" => s.iset = cur.decl.iset
        /\ cur.decl.kind \in {"set1", "set2"} => s.type = "SET"
        /\ cur.decl.kind = "var" =>
             /\ s.type = "VAR"
             /\ \A i \in DOMAIN s.entry : mem.ent[s.entry[i]].val = <<Lower(cur.decl), Upper(cur.decl)>>
    BY DEF Inv, InLoop, s
  <2>4. /\ cur.decl.kind # "set2" => r.iset = cur.decl.iset
        /\ cur.decl.kind \in {"set1", "set2"} => r.type = "SET"
        /\ cur.decl.kind = "var" => r.type = "VAR"
    BY <1>12, <2>3
  <2>5. ASSUME cur.decl.kind = "var", NEW i \in DOMAIN r.entry
        PROVE  mem'.ent[r.entry[i]].val = <<Lower(cur.decl), Upper(cur.decl)>>
    <3>1. r.entry[i] \in DOMAIN mem'.ent /\ mem'.ent = n.ent
      <4>1. Len(syms') \in DOMAIN syms' BY <1>17, LastIsSymbol
      <4> QED BY <1>14, <1>17, <1>20, <4>1
    <3>2. CASE r.entry[i] = e
      <4>1. n.ent[e].val = m.ent[e].val BY <1>10, <1>12, <3>1, <3>2 DEF Keeps
      <4> QED BY <2>5, <3>1, <3>2, <4>1
    <3>3. CASE \E j \in DOMAIN s.entry : r.entry[i] = s.entry[j]
      <4>1. PICK j \in DOMAIN s.entry : r.entry[i] = s.entry[j] BY <3>3
      <4>2. s.entry[j] \in DOMAIN mem.ent /\ mem.ent[s.entry[j]].val = <<Lower(cur.decl), Upper(cur.decl)>>
        BY <1>9, <2>3, <2>5
      <4>3. n.ent[s.entry[j]].val = mem.ent[s.entry[j]].val
        BY <1>15, <3>1, <4>1, <4>2 DEF Keeps
      <4> QED BY <3>1, <4>1, <4>2, <4>3
    <3> QED BY <1>12, <3>2, <3>3
  <2>6. cur'.decl.kind = "var" =>
          \A i \in DOMAIN This'.entry : mem'.ent[This'.entry[i]].val = <<Lower(cur'.decl), Upper(cur'.decl)>>
    BY <1>5, <2>1, <2>5
  <2> QED BY <1>5, <1>17, <2>1, <2>2, <2>4, <2>6 DEF InLoop
<1> QED BY <1>18, <1>22, <1>23, <1>24, <1>16 DEF Inv, Onward

\* A member of a list.
LEMMA EntryAt ==
  ASSUME NEW s \in Lists, NEW i \in Nat, i # 0, i <= Len(s)
  PROVE  i \in DOMAIN s /\ s[i] \in ToSet(s) /\ s[i] \in Numbered
<1>1. i \in DOMAIN s /\ s[i] \in Numbered BY DEF Lists
<1> QED BY <1>1 DEF ToSet

\* the entry of the list a loop is at
LEMMA ListEntry ==
  ASSUME Inv, pc \in {"by list", "by index"}, cur.left <= Len(cur.list)
  PROVE  LET e == cur.list[cur.left] IN
         /\ e \in ToSet(cur.list) /\ e \in Numbered /\ e \in DOMAIN mem.ent /\ mem.ent[e].type \in Types
<1> DEFINE e == cur.list[cur.left]
           h == Places
<1>1. /\ cur.list \in Lists /\ ToSet(cur.list) \subseteq ToSet(tree.cells) /\ pc # "none"
      /\ cur.left \in Nat /\ cur.left # 0
  BY DEF Inv, InStage, InLoop, IsStmt, Looping
<1>2. e \in ToSet(cur.list)
  <2>1. PICK u, i : u = cur.list /\ i = cur.left OBVIOUS
  <2>2. u[i] \in ToSet(u) BY <1>1, <2>1, EntryAt
  <2> QED BY <2>1, <2>2
<1>3. Plain(h) /\ Ledger(mem, h, carried) BY <1>1, TheBooks DEF Ledger
<1>4. e \in HeldBy(h) BY <1>1, <1>2, PlacesNow DEF HeldBy, PlacesAre
<1>5. e \in Numbered /\ e \in DOMAIN mem.ent
  <2> HIDE DEF h, e
  <2> QED BY <1>3, <1>4, Alive
<1>6. mem.ent[e].type \in Types
  <2>1. IsEnt(mem.ent[e]) BY <1>3, <1>5 DEF Ledger, Sound, IsMem, Objects
  <2>2. ASSUME NEW x, IsEnt(x) PROVE x.type \in Types
    <3>0. PICK r \in Nat \ {0}, t \in Nat, type \in Types : \E v : x = [refc |-> r, tuple |-> t, type |-> type, val |-> v]
      BY <2>2 DEF IsEnt, Types
    <3>1. PICK v : x = [refc |-> r, tuple |-> t, type |-> type, val |-> v]
      BY <3>0
    <3> QED BY ONLY <3>1
  <2> QED BY <2>1, <2>2
<1> QED BY <1>2, <1>5, <1>6

\* No index error means the index is in the set.
LEMMA IndexFits ==
  ASSUME NEW iset, NEW key, IndexError(iset, key) = 0
  PROVE  key \in ToSet(iset)
<1> DEFINE A == iset # <<>> /\ Len(key) # Len(iset[1])
           B == iset # <<>> /\ Len(key) = Len(iset[1]) /\ (\E i \in DOMAIN key : key[i][1] # iset[1][i][1])
           C == key \in ToSet(iset)
<1>1. (CASE A -> 188 [] B -> 198 [] OTHER -> IF C THEN 0 ELSE IF cur.decl.kind = "set2" THEN 131 ELSE 134) = 0
  BY DEF IndexError
<1> HIDE DEF A, B, C
<1>2. C BY <1>1
<1> QED BY <1>2 DEF C

\* insert_param_list_by_list and i_newsym_set2 add a copy of the entry of the list.
LEMMA ListEntryAdded ==
  ASSUME Inv, pc = "by list", cur.left <= Len(cur.list), NEW e, e = cur.list[cur.left],
         IndexError(This.iset, Key(mem, e)) = 0, cur.decl.kind = "para1" => ~ TypeError(mem, e),
         mem' = AddMem(entry_copy(mem, e), This, e), Added(entry_copy(mem, e), e)
  PROVE  Onward
<1> DEFINE m == entry_copy(mem, e)
           h == Places
<1>1. e \in ToSet(cur.list) /\ e \in Numbered /\ e \in DOMAIN mem.ent
  BY ListEntry
<1>2. pc # "none" /\ pc \in Looping /\ cur.decl.kind \in {"para1", "set2"} /\ cur.left # 0 /\ cur.left \in Nat
  BY DEF Inv, InStage, InLoop, IsStmt, Looping
<1>3. Sound(mem, Refs(h), TupRefs(h), CellCount(h), carried) BY <1>2, TheBooks
<1>4. Sound(m, More(Refs(h), e), TupRefs(h), CellCount(h), carried) /\ Keeps(mem, m) /\ DOMAIN m.ent = DOMAIN mem.ent
  <2> DEFINE f == Refs(h)
             g == TupRefs(h)
             l == CellCount(h)
  <2>1. Sound(mem, f, g, l, carried) BY <1>3
  <2> HIDE DEF f, g, l
  <2>2. Sound(m, More(f, e), g, l, carried) /\ Keeps(mem, m) /\ DOMAIN m.ent = DOMAIN mem.ent
    BY <1>1, <2>1, SoundCopy
  <2> QED BY <2>2 DEF f, g, l
<1> HIDE DEF m
<1>5. Key(m, e) = Key(mem, e) /\ m.ent[e].type = mem.ent[e].type
  BY <1>1, <1>4 DEF Keeps
<1>6. Key(mem, e) \in ToSet(This.iset) BY IndexFits
<1>7. Fits(m, This, e)
  <2>1. CASE cur.decl.kind = "set2"
    <3>1. This.type = "SET" BY <1>2, <2>1 DEF Inv, InLoop
    <3>2. mem.ent[e].type = "SET" BY <1>1, <2>1 DEF Inv, SetLists
    <3> QED BY <1>5, <1>6, <3>1, <3>2 DEF Fits
  <2>2. CASE cur.decl.kind = "para1"
    <3>1. CASE cur.left = 1
      <4>1. This.entry = <<>> /\ This.type = "ERR"
        BY <1>2, <2>2, <3>1 DEF Inv, InLoop
      <4> QED BY <1>5, <1>6, <4>1 DEF Fits
    <3>2. CASE cur.left # 1
      <4>1. This.type = mem.ent[e].type
        <5>1. cur.left > 1
          <6>1. cur.left \in Nat /\ cur.left # 0 /\ cur.left # 1 BY <1>2, <3>2
          <6> QED BY ONLY <6>1
        <5>2. ~ TypeError(mem, e) BY <2>2
        <5> QED BY ONLY <5>1, <5>2 DEF TypeError
      <4> QED BY <1>5, <1>6, <4>1 DEF Fits
    <3> QED BY <3>1, <3>2
  <2> QED BY <1>2, <2>1, <2>2
<1>8. Settles(AddMem(m, This, e), TupRefs(h))
  <2>1. mem' = AddMem(m, This, e) BY DEF m
  <2>2. Keeps(mem', mem') BY DEF Keeps
  <2> QED BY <2>1, <2>2 DEF Settles
<1>9. Added(m, e) BY DEF m
<1>10. cur.decl.kind # "var" BY <1>2
<1> QED BY <1>1, <1>2, <1>4, <1>7, <1>8, <1>9, <1>10, AddedKeeps

\* One entry of a list, with its errors.
LEMMA AddByListStep ==
  ASSUME Inv, AddByList
  PROVE  Onward
<1>1. PICK e : e = cur.list[cur.left] OBVIOUS
<1>2. PICK n : n = IndexError(This.iset, Key(mem, e)) OBVIOUS
<1>3. pc = "by list" /\ cur.left <= Len(cur.list) /\ pc \in Working \ {"list", "front"}
  BY DEF AddByList, Working
<1>4. \/ Refused(n) \/ Refused(173)
      \/ /\ n = 0 /\ (cur.decl.kind = "para1" => ~ TypeError(mem, e))
         /\ mem' = AddMem(entry_copy(mem, e), This, e) /\ Added(entry_copy(mem, e), e)
  BY <1>1, <1>2 DEF AddByList
<1>5. CASE Refused(n) BY <1>3, <1>5, RefusedKeeps
<1>6. CASE Refused(173) BY <1>3, <1>6, RefusedKeeps
<1>7. CASE /\ n = 0 /\ (cur.decl.kind = "para1" => ~ TypeError(mem, e))
           /\ mem' = AddMem(entry_copy(mem, e), This, e) /\ Added(entry_copy(mem, e), e)
  BY <1>1, <1>2, <1>3, <1>7, ListEntryAdded
<1> QED BY <1>4, <1>5, <1>6, <1>7

\* a key of the symbol that is filled
LEMMA LoopKey ==
  ASSUME Inv, pc \in Looping, cur.decl.kind # "set2", cur.left <= Len(This.iset)
  PROVE  IsKey(This.iset[cur.left]) /\ This.iset[cur.left] \in ToSet(This.iset)
<1>1. PICK d, i : d = cur.decl /\ i = cur.left OBVIOUS
<1>2. d \in Decls /\ This.iset = d.iset /\ i \in Nat /\ i # 0 /\ i <= Len(d.iset)
  BY <1>1 DEF Inv, InStage, InLoop, IsStmt, Working, Looping
<1>3. IsKey(d.iset) /\ \A j \in DOMAIN d.iset : IsKey(d.iset[j])
  BY <1>2, SymbolTableAssumption DEF IsDecl
<1>4. PICK T : d.iset \in Seq(T) BY <1>3 DEF IsKey
<1>5. DOMAIN d.iset = 1 .. Len(d.iset) /\ Len(d.iset) \in Nat BY <1>4
<1>6. i \in DOMAIN d.iset BY <1>2, <1>5
<1>7. d.iset[i] \in ToSet(d.iset) BY <1>6 DEF ToSet
<1> QED BY <1>1, <1>2, <1>3, <1>6, <1>7

\* A tuple, or a tuple and an entry, are left in the frame of a statement.
FrameOf(h, k, t, es) ==
  /\ Plain(h) /\ Plain(k) /\ k.ss = h.ss
  /\ \A x \in Numbered : Nodes(k, x) = Nodes(h, x) + Times(x, es)
  /\ Lens(k) = Lens(h)
  /\ \A x \in Nat : Tups(k, x) = Tups(h, x) + Hit(x, t)

\* An error inside a loop leaves its locals behind.
LEMMA FrameLeft ==
  ASSUME Inv, pc \in Looping, NEW t \in Numbered, NEW es \in Lists, NEW n,
         Fail(n, Left(<<t>>, es)), UNCHANGED <<syms, tree>>
  PROVE  /\ FrameOf(Places, Places', t, es)
         /\ InStage' /\ InLoop' /\ SetLists' /\ pc' # "none" /\ carried' = carried
<1> DEFINE h == Places
           k == Places'
           left == Left(<<t>>, es)
<1>1. /\ IsStmt(cur) /\ IsLeft(tree) /\ AreSymbols(syms) /\ cur.held = Nothing /\ pc # "none"
      /\ tree.tup \in Lists /\ tree.ent \in Lists /\ tree.cells \in Lists
  BY DEF Inv, InStage, IsStmt, Working, Looping, IsLeft
<1>2. /\ <<>> \in Lists /\ Length(<<>>) = 0 /\ (\A x : Times(x, <<>>) = 0)
      /\ <<t>> \in Lists /\ (\A x : Times(x, <<t>>) = Hit(x, t))
  <2>1. <<t>> \in Lists BY DEF Lists
  <2> QED BY <2>1, EmptyList, TimesOne
<1>3. left = [tup |-> <<t>>, ent |-> es, cells |-> <<>>] BY DEF Left
<1> HIDE DEF left
<1>4. left.tup = <<t>> /\ left.ent = es /\ left.cells = <<>> /\ IsLeft(left)
  BY <1>2, <1>3 DEF IsLeft
<1>5. IsLeft(tree') /\ AreSymbols(syms') BY <1>1
<1>6. Fail(n, left) BY DEF left
<1>7. /\ InStage' /\ InLoop' /\ SetLists' /\ cur'.held = left /\ ListHeld' = <<>> /\ ReadHeld' = <<>>
      /\ pc' = "exit" /\ carried' = carried
  BY <1>4, <1>5, <1>6, Failed
<1>8. Plain(h) /\ Plain(k) BY <1>1, <1>7, TheBooks, PlainThen
<1>9. /\ h.tr = tree /\ h.he = Nothing /\ h.ls = <<>> /\ h.rd = <<>> /\ h.ss = syms
      /\ k.tr = tree /\ k.he = left /\ k.ls = <<>> /\ k.rd = <<>> /\ k.ss = syms
  <2>1. ListHeld = <<>> /\ ReadHeld = <<>> BY DEF ListHeld, ReadHeld, Looping
  <2> QED BY <1>1, <1>7, <2>1, PlacesNow, PlacesThen DEF PlacesAre
<1> HIDE DEF h, k
<1>10. ASSUME NEW x \in Numbered PROVE Nodes(k, x) = Nodes(h, x) + Times(x, es)
  <2>1. Times(x, tree.ent) \in Nat /\ Times(x, tree.cells) \in Nat /\ Times(x, es) \in Nat
    BY <1>1, TimesNat
  <2>2. Times(x, <<>>) = 0 BY <1>2
  <2>3. Nodes(h, x) = Times(x, tree.ent) + Times(x, <<>>) + Times(x, tree.cells) + Times(x, <<>>)
                      + Times(x, <<>>) + Times(x, <<>>)
    BY <1>9 DEF Nodes, Nothing
  <2>4. Nodes(k, x) = Times(x, tree.ent) + Times(x, es) + Times(x, tree.cells) + Times(x, <<>>)
                      + Times(x, <<>>) + Times(x, <<>>)
    BY <1>4, <1>9 DEF Nodes
  <2> QED BY ONLY <2>1, <2>2, <2>3, <2>4
<1>11. Lens(k) = Lens(h) BY <1>4, <1>9 DEF Lens, Nothing
<1>12. ASSUME NEW x \in Nat PROVE Tups(k, x) = Tups(h, x) + Hit(x, t)
  <2>1. Times(x, tree.tup) \in Nat /\ Hit(x, t) \in Nat
    BY <1>1, TimesNat DEF Hit
  <2>2. Times(x, <<>>) = 0 /\ Times(x, <<t>>) = Hit(x, t) BY <1>2
  <2>3. Tups(h, x) = Times(x, tree.tup) + Times(x, <<>>) /\ Tups(k, x) = Times(x, tree.tup) + Times(x, <<t>>)
    BY <1>4, <1>9 DEF Tups, Nothing
  <2> QED BY ONLY <2>1, <2>2, <2>3
<1>13. k.ss = h.ss BY <1>9
<1> QED BY <1>7, <1>8, <1>10, <1>11, <1>12, <1>13 DEF FrameOf, h, k

\* An error with the tuple of the loop in hand.
LEMMA TupleLost ==
  ASSUME Inv, pc \in Looping, NEW key, IsKey(key), mem' = tuple_new(mem, key), NEW n,
         Fail(n, Left(<<NewTup(mem)>>, <<>>)), UNCHANGED <<syms, tree>>
  PROVE  Onward
<1> DEFINE h == Places
           k == Places'
           t == NewTup(mem)
<1>1. pc # "none" BY DEF Looping
<1>2. Sound(mem, Refs(h), TupRefs(h), CellCount(h), carried) /\ Plain(h)
  BY <1>1, TheBooks
<1>3. Sound(mem', Refs(h), More(TupRefs(h), t), CellCount(h), carried) /\ Keeps(mem, mem') /\ t \in Numbered
  <2> DEFINE f == Refs(h)
             g == TupRefs(h)
             l == CellCount(h)
  <2>1. Sound(mem, f, g, l, carried) BY <1>2
  <2> HIDE DEF f, g, l
  <2>2. Sound(mem', f, More(g, t), l, carried) /\ Keeps(mem, mem') /\ t \in Numbered
    BY <2>1, TupleMade
  <2> QED BY <2>2 DEF f, g, l
<1>4. FrameOf(h, k, t, <<>>) /\ InStage' /\ InLoop' /\ SetLists' /\ pc' # "none" /\ carried' = carried
  BY <1>3, EmptyList, FrameLeft
<1> HIDE DEF h, k, t
<1>5. /\ Plain(k) /\ k.ss = h.ss /\ Lens(k) = Lens(h)
      /\ \A x \in Numbered : Nodes(k, x) = Nodes(h, x) + Times(x, <<>>)
      /\ \A x \in Nat : Tups(k, x) = Tups(h, x) + Hit(x, t)
  BY <1>4 DEF FrameOf
<1>6. Refs(k) = Refs(h)
  <2>1. ASSUME NEW x \in Numbered PROVE Holders(k, x) = Holders(h, x)
    <3>1. /\ Nodes(h, x) \in Nat /\ Holders(h, x) \in Nat
          /\ Holders(k, x) = Holders(h, x) + (Nodes(k, x) - Nodes(h, x))
      BY <1>2, <1>5, NodesDiffer
    <3>2. Nodes(k, x) = Nodes(h, x) + Times(x, <<>>) /\ Times(x, <<>>) = 0
      BY <1>5, EmptyList
    <3> QED BY <3>1, <3>2
  <2> QED BY <1>2, <1>5, <2>1, RefsSame
<1>7. TupRefs(k) = More(TupRefs(h), t) BY <1>2, <1>3, <1>5, TupGained
<1>8. CellCount(k) = CellCount(h)
  <2>1. Lens(h) \in Nat /\ CellCount(h) \in Nat /\ CellCount(k) = CellCount(h) + (Lens(k) - Lens(h))
    BY <1>2, <1>5, CellsDiffer
  <2> QED BY <1>5, <2>1
<1>9. InMemory'
  <2>1. Sound(mem', Refs(Places'), TupRefs(Places'), CellCount(Places'), carried)
    BY <1>3, <1>6, <1>7, <1>8 DEF k
  <2> QED BY <1>1, <1>3, <1>4, <2>1, Renewed
<1> QED BY <1>4, <1>9, <1>3 DEF Inv, Onward

\* The entry for the next key: a memory with one entry and one tuple more.
LEMMA LoopEntry ==
  ASSUME Inv, pc # "none", NEW key, IsKey(key), NEW type \in Types, NEW val, NEW m,
         m = entry_new(tuple_new(mem, key), NewTup(mem), type, val)
  PROVE  /\ Sound(m, More(Refs(Places), NewEnt(mem)), More(TupRefs(Places), NewTup(mem)), CellCount(Places), carried)
         /\ Keeps(mem, m) /\ NewEnt(mem) \in Numbered /\ NewTup(mem) \in Numbered
         /\ m.ent[NewEnt(mem)].type = type /\ m.ent[NewEnt(mem)].val = val /\ Key(m, NewEnt(mem)) = key
<1> DEFINE f == Refs(Places)
           g == TupRefs(Places)
           l == CellCount(Places)
<1>1. Sound(mem, f, g, l, carried) BY TheBooks
<1> HIDE DEF f, g, l
<1>2. type \in {"NUMB", "STRG", "SET", "VAR"} BY DEF Types
<1>3. /\ Sound(m, More(f, NewEnt(mem)), More(g, NewTup(mem)), l, carried)
      /\ Keeps(mem, m) /\ NewEnt(mem) \in Numbered /\ NewTup(mem) \in Numbered
      /\ m.ent[NewEnt(mem)].type = type /\ m.ent[NewEnt(mem)].val = val /\ Key(m, NewEnt(mem)) = key
  BY <1>1, <1>2, EntryMade
<1> QED BY <1>3 DEF f, g, l

\* An error with the tuple and the entry in hand.
LEMMA EntryLost ==
  ASSUME Inv, pc \in Looping, NEW key, IsKey(key), NEW type \in Types, NEW val,
         mem' = entry_new(tuple_new(mem, key), NewTup(mem), type, val), NEW n,
         Fail(n, Left(<<NewTup(mem)>>, <<NewEnt(mem)>>)), UNCHANGED <<syms, tree>>
  PROVE  Onward
<1> DEFINE h == Places
           k == Places'
           t == NewTup(mem)
           e == NewEnt(mem)
<1>1. pc # "none" BY DEF Looping
<1>2. Plain(h) BY <1>1, TheBooks
<1>3. /\ Sound(mem', More(Refs(h), e), More(TupRefs(h), t), CellCount(h), carried) /\ Keeps(mem, mem')
      /\ t \in Numbered /\ e \in Numbered
  BY <1>1, LoopEntry
<1>4. <<e>> \in Lists BY <1>3 DEF Lists
<1>5. FrameOf(h, k, t, <<e>>) /\ InStage' /\ InLoop' /\ SetLists' /\ pc' # "none" /\ carried' = carried
  BY <1>3, <1>4, FrameLeft
<1> HIDE DEF h, k, t, e
<1>6. /\ Plain(k) /\ k.ss = h.ss /\ Lens(k) = Lens(h)
      /\ \A x \in Numbered : Nodes(k, x) = Nodes(h, x) + Times(x, <<e>>)
      /\ \A x \in Nat : Tups(k, x) = Tups(h, x) + Hit(x, t)
  BY <1>5 DEF FrameOf
<1>7. Refs(k) = More(Refs(h), e)
  <2>1. ASSUME NEW x \in Numbered PROVE Nodes(k, x) = Nodes(h, x) + Hit(x, e)
    BY <1>6, TimesOne
  <2> QED BY <1>2, <1>3, <1>6, <2>1, NodeGained
<1>8. TupRefs(k) = More(TupRefs(h), t) BY <1>2, <1>3, <1>6, TupGained
<1>9. CellCount(k) = CellCount(h)
  <2>1. Lens(h) \in Nat /\ CellCount(h) \in Nat /\ CellCount(k) = CellCount(h) + (Lens(k) - Lens(h))
    BY <1>2, <1>6, CellsDiffer
  <2> QED BY <1>6, <2>1
<1>10. InMemory'
  <2>1. Sound(mem', Refs(Places'), TupRefs(Places'), CellCount(Places'), carried)
    BY <1>3, <1>7, <1>8, <1>9 DEF k
  <2> QED BY <1>1, <1>3, <1>5, <2>1, Renewed
<1> QED BY <1>5, <1>10, <1>3 DEF Inv, Onward

\* The tuple of the loop is given back.
LEMMA TupleSettles ==
  ASSUME Inv, pc # "none", NEW t \in Numbered, NEW n, mem' = tuple_free(n, t)
  PROVE  Settles(n, More(TupRefs(Places), t))
<1> DEFINE g == TupRefs(Places)
<1>1. g \in [Nat -> Nat] /\ t \in Nat BY TheBooks DEF Numbered
<1>2. SUFFICES ASSUME NEW f, NEW l, Sound(n, f, More(g, t), l, carried)
               PROVE  Sound(mem', f, g, l, carried) /\ Keeps(n, mem') /\ mem'.ent = n.ent
  BY DEF Settles
<1> HIDE DEF g
<1>3. More(g, t)[t] > 0 /\ Less(More(g, t), t) = g BY <1>1, MoreAt, LessMore
<1>4. Sound(mem', f, Less(More(g, t), t), l, carried) /\ Keeps(n, mem') /\ mem'.ent = n.ent
  BY <1>1, <1>2, <1>3, TupleGone
<1> QED BY <1>3, <1>4

\* The entry for the next key goes into the table.
LEMMA NewKeeps ==
  ASSUME Inv, pc \in Looping, cur.decl.kind # "set2", NEW key, IsKey(key), key \in ToSet(This.iset),
         NEW type \in Types, NEW val, NEW m, m = entry_new(tuple_new(mem, key), NewTup(mem), type, val),
         AddNew(m, NewTup(mem), NewEnt(mem)),
         cur.decl.kind \in {"para1", "para2"} => ~ TypeError(m, NewEnt(mem)),
         cur.decl.kind = "set1" => type = "SET",
         cur.decl.kind = "var" => type = "VAR" /\ val = <<Lower(cur.decl), Upper(cur.decl)>>
  PROVE  Onward
<1> DEFINE e == NewEnt(mem)
           t == NewTup(mem)
<1>0. pc # "none" BY DEF Looping
<1>1. /\ Sound(m, More(Refs(Places), e), More(TupRefs(Places), t), CellCount(Places), carried)
      /\ Keeps(mem, m) /\ e \in Numbered /\ t \in Numbered
      /\ m.ent[e].type = type /\ m.ent[e].val = val /\ Key(m, e) = key
  BY <1>0, LoopEntry
<1>2. mem' = tuple_free(AddMem(m, This, e), t) /\ Added(m, e) BY DEF AddNew
<1>3. Settles(AddMem(m, This, e), More(TupRefs(Places), t))
  BY <1>0, <1>1, <1>2, TupleSettles
<1>4. cur.decl.kind \in {"para1", "para2", "set1", "var"} /\ cur.left \in Nat /\ cur.left # 0
  <2>1. cur.decl \in Decls /\ cur.left \in Nat /\ cur.left # 0
    BY DEF Inv, InStage, InLoop, IsStmt, Working, Looping
  <2>2. cur.decl.kind \in {"para1", "set2", "set1", "para2", "var"}
    BY <2>1, SymbolTableAssumption DEF IsDecl
  <2> QED BY <2>1, <2>2
<1>5. m.ent[e].type = IF This.type = "ERR" /\ This.entry = <<>> THEN m.ent[e].type ELSE This.type
  <2>1. CASE cur.decl.kind \in {"para1", "para2"} /\ cur.left = 1
    BY <2>1 DEF Inv, InLoop
  <2>2. CASE cur.decl.kind \in {"para1", "para2"} /\ cur.left # 1
    <3>1. cur.left > 1 BY ONLY <1>4, <2>2
    <3>2. ~ TypeError(m, e) BY <2>2
    <3>3. This.type = m.ent[e].type BY ONLY <3>1, <3>2 DEF TypeError
    <3> QED BY <3>3
  <2>3. CASE cur.decl.kind = "set1"
    <3>1. This.type = "SET" BY <2>3 DEF Inv, InLoop
    <3> QED BY <1>1, <2>3, <3>1
  <2>4. CASE cur.decl.kind = "var"
    <3>1. This.type = "VAR" BY <2>4 DEF Inv, InLoop
    <3> QED BY <1>1, <2>4, <3>1
  <2> QED BY <1>4, <2>1, <2>2, <2>3, <2>4
<1>6. Fits(m, This, e) BY <1>1, <1>5 DEF Fits
<1>7. cur.decl.kind = "var" => m.ent[e].val = <<Lower(cur.decl), Upper(cur.decl)>>
  BY <1>1
<1> HIDE DEF e, t
<1> QED BY <1>1, <1>2, <1>3, <1>6, <1>7, AddedKeeps

\* The same with the test of the type, error 173.
LEMMA TypedKeeps ==
  ASSUME Inv, pc \in Looping, cur.decl.kind \in {"para1", "para2"}, NEW key, IsKey(key), key \in ToSet(This.iset),
         NEW type \in Types, NEW val,
         AddTyped(entry_new(tuple_new(mem, key), NewTup(mem), type, val), NewTup(mem), NewEnt(mem))
  PROVE  Onward
<1>1. PICK m : m = entry_new(tuple_new(mem, key), NewTup(mem), type, val)
  OBVIOUS
<1>2. \/ TypeError(m, NewEnt(mem)) /\ mem' = m /\ Fail(173, Left(<<NewTup(mem)>>, <<NewEnt(mem)>>)) /\ UNCHANGED <<syms, tree>>
      \/ ~ TypeError(m, NewEnt(mem)) /\ AddNew(m, NewTup(mem), NewEnt(mem))
  BY <1>1 DEF AddTyped
<1>3. CASE mem' = m /\ Fail(173, Left(<<NewTup(mem)>>, <<NewEnt(mem)>>)) /\ UNCHANGED <<syms, tree>>
  BY <1>1, <1>3, EntryLost
<1>4. CASE ~ TypeError(m, NewEnt(mem)) /\ AddNew(m, NewTup(mem), NewEnt(mem))
  BY <1>1, <1>4, NewKeeps
<1> QED BY <1>2, <1>3, <1>4

\* One round of insert_param_list_by_index.
LEMMA AddByIndexStep ==
  ASSUME Inv, AddByIndex
  PROVE  Onward
<1>1. pc = "by index" /\ cur.left <= Len(cur.list) /\ cur.left <= Len(This.iset) /\ pc \in Looping
  BY DEF AddByIndex, Looping
<1>2. cur.decl.kind = "para1" BY <1>1 DEF Inv, InStage
<1>3. PICK e, key : e = cur.list[cur.left] /\ key = This.iset[cur.left] OBVIOUS
<1>4. IsKey(key) /\ key \in ToSet(This.iset) BY <1>1, <1>2, <1>3, LoopKey
<1>5. mem.ent[e].type \in Types BY <1>1, <1>3, ListEntry
<1>6. PICK type, val : type = mem.ent[e].type /\ val = mem.ent[e].val OBVIOUS
<1>7. AddTyped(entry_new(tuple_new(mem, key), NewTup(mem), type, val), NewTup(mem), NewEnt(mem))
  BY <1>3, <1>6 DEF AddByIndex
<1> QED BY <1>1, <1>2, <1>4, <1>5, <1>6, <1>7, TypedKeeps

\* One round of i_newsym_para2.
LEMMA AddPara2Step ==
  ASSUME Inv, AddPara2
  PROVE  Onward
<1>1. pc = "each" /\ cur.decl.kind = "para2" /\ cur.left <= Len(This.iset) /\ pc \in Looping
  BY DEF AddPara2, Looping
<1>2. PICK d, i, key : d = cur.decl /\ i = cur.left /\ key = This.iset[i]
  OBVIOUS
<1>3. IsKey(key) /\ key \in ToSet(This.iset) BY <1>1, <1>2, LoopKey
<1>4. d.vals[i][1] \in Values \cup {"NAME"}
  <2>1. d \in Decls /\ d.kind = "para2" /\ This.iset = d.iset /\ i \in Nat /\ i # 0 /\ i <= Len(d.iset)
    BY <1>1, <1>2 DEF Inv, InStage, InLoop, IsStmt, Working, Looping
  <2>2. IsKey(d.iset) /\ \A j \in DOMAIN d.iset : d.vals[j][1] \in Values \cup {"NAME"}
    BY <2>1, SymbolTableAssumption DEF IsDecl
  <2>3. PICK T : d.iset \in Seq(T) BY <2>2 DEF IsKey
  <2>4. i \in DOMAIN d.iset BY <2>1, <2>3
  <2> QED BY <2>2, <2>4
<1>5. PICK type, val : type = d.vals[i][1] /\ val = d.vals[i][2] OBVIOUS
<1>6. \/ /\ mem' = tuple_new(mem, key)
         /\ Fail(133, Left(<<NewTup(mem)>>, <<>>)) /\ UNCHANGED <<syms, tree>>
      \/ /\ type # "NAME"
         /\ AddTyped(entry_new(tuple_new(mem, key), NewTup(mem), type, val), NewTup(mem), NewEnt(mem))
  BY <1>2, <1>5 DEF AddPara2
<1>7. CASE mem' = tuple_new(mem, key) /\ Fail(133, Left(<<NewTup(mem)>>, <<>>)) /\ UNCHANGED <<syms, tree>>
  BY <1>1, <1>3, <1>7, TupleLost
<1>8. CASE /\ type # "NAME"
           /\ AddTyped(entry_new(tuple_new(mem, key), NewTup(mem), type, val), NewTup(mem), NewEnt(mem))
  <2>1. type \in Types BY <1>4, <1>5, <1>8 DEF Types, Values
  <2> QED BY <1>1, <1>3, <1>8, <2>1, TypedKeeps
<1> QED BY <1>6, <1>7, <1>8

\* One round of i_newsym_set1.
LEMMA AddSet1Step ==
  ASSUME Inv, AddSet1
  PROVE  Onward
<1>1. pc = "each" /\ cur.decl.kind = "set1" /\ cur.left <= Len(This.iset) /\ pc \in Looping
  BY DEF AddSet1, Looping
<1>2. PICK key, val : key = This.iset[cur.left] /\ val = cur.decl.vals[cur.left]
  OBVIOUS
<1>3. IsKey(key) /\ key \in ToSet(This.iset) BY <1>1, <1>2, LoopKey
<1>4. PICK m : m = entry_new(tuple_new(mem, key), NewTup(mem), "SET", val)
  OBVIOUS
<1>5. AddNew(m, NewTup(mem), NewEnt(mem)) BY <1>2, <1>4 DEF AddSet1
<1>6. "SET" \in Types BY DEF Types
<1> QED BY <1>1, <1>3, <1>4, <1>5, <1>6, NewKeeps

\* One round of i_newsym_var, with error 141 for bounds that cross.
LEMMA AddVarStep ==
  ASSUME Inv, AddVar
  PROVE  Onward
<1>1. pc = "each" /\ cur.decl.kind = "var" /\ cur.left <= Len(This.iset) /\ pc \in Looping
  BY DEF AddVar, Looping
<1>2. PICK key, val : key = This.iset[cur.left] /\ val = <<Lower(cur.decl), Upper(cur.decl)>>
  OBVIOUS
<1>3. IsKey(key) /\ key \in ToSet(This.iset) BY <1>1, <1>2, LoopKey
<1>4. PICK m : m = entry_new(tuple_new(mem, key), NewTup(mem), "VAR", val)
  OBVIOUS
<1>5. \/ /\ mem' = tuple_new(mem, key)
         /\ Fail(141, Left(<<NewTup(mem)>>, <<>>)) /\ UNCHANGED <<syms, tree>>
      \/ AddNew(m, NewTup(mem), NewEnt(mem))
  BY <1>2, <1>4 DEF AddVar
<1>6. CASE mem' = tuple_new(mem, key) /\ Fail(141, Left(<<NewTup(mem)>>, <<>>)) /\ UNCHANGED <<syms, tree>>
  BY <1>1, <1>3, <1>6, TupleLost
<1>7. CASE AddNew(m, NewTup(mem), NewEnt(mem))
  <2>1. "VAR" \in Types BY DEF Types
  <2> QED BY <1>1, <1>2, <1>3, <1>4, <1>7, <2>1, NewKeeps
<1> QED BY <1>5, <1>6, <1>7

\* A key that was fetched in vain is given back when the loop ends.
LEMMA KeyReturned ==
  ASSUME Inv, pc = "by index", cur.left <= Len(This.iset), pc' = "idle", cur' = NoStmt,
         mem' = tuple_free(tuple_new(mem, This.iset[cur.left]), NewTup(mem)), UNCHANGED <<syms, tree, carried>>
  PROVE  Onward
<1>1. pc \in Looping /\ pc # "none" /\ cur.decl.kind = "para1" /\ cur.held = Nothing
  BY DEF Inv, InStage, Looping, Working
<1>2. InStage' BY EmptyPlaces DEF Inv, InStage, Stages, Working
<1>3. InLoop' /\ SetLists' BY DEF InLoop, SetLists, Looping
<1>4. Places' = Places
  <2>1. ListHeld = <<>> /\ ReadHeld = <<>> /\ ListHeld' = <<>> /\ ReadHeld' = <<>>
    BY DEF ListHeld, ReadHeld
  <2>2. cur'.held = cur.held BY <1>1, EmptyPlaces
  <2> QED BY <2>1, <2>2 DEF Places
<1> DEFINE f == Refs(Places)
           g == TupRefs(Places)
           l == CellCount(Places)
           t == NewTup(mem)
           n == tuple_new(mem, This.iset[cur.left])
<1>5. Sound(mem, f, g, l, carried) /\ g \in [Nat -> Nat] BY <1>1, TheBooks
<1>6. IsKey(This.iset[cur.left]) BY <1>1, LoopKey
<1>7. mem' = tuple_free(n, t) OBVIOUS
<1>8. Sound(mem', f, g, l, carried) /\ Keeps(mem, mem')
  <2> HIDE DEF f, g, l
  <2>1. Sound(n, f, More(g, t), l, carried) /\ Keeps(mem, n) /\ t \in Numbered /\ n.ent = mem.ent
    BY <1>5, <1>6, TupleMade
  <2> HIDE DEF n, t
  <2>2. More(g, t)[t] > 0 /\ Less(More(g, t), t) = g /\ t \in Nat
    BY <1>5, <2>1, MoreAt, LessMore DEF Numbered
  <2>3. Sound(mem', f, Less(More(g, t), t), l, carried) /\ Keeps(n, mem')
    BY <1>7, <2>1, <2>2, TupleGone
  <2>4. Keeps(mem, mem') BY <2>1, <2>3, KeepsOn
  <2> QED BY <2>2, <2>3, <2>4
<1>9. Sound(mem', Refs(Places'), TupRefs(Places'), CellCount(Places'), carried)
  BY <1>4, <1>8
<1>10. InMemory' BY <1>1, <1>2, <1>8, <1>9, Renewed
<1> QED BY <1>2, <1>3, <1>10, <1>8 DEF Inv, Onward

\* The end of a loop; with more indices than values one tuple is fetched and given back.
LEMMA FinishStep ==
  ASSUME Inv, Finish
  PROVE  Onward
<1>1. LoopOver /\ pc' = "idle" /\ cur' = NoStmt /\ UNCHANGED <<syms, tree, carried>>
  BY DEF Finish
<1>2. CASE pc = "by index" /\ cur.left <= Len(This.iset)
  <2>1. mem' = tuple_free(tuple_new(mem, This.iset[cur.left]), NewTup(mem))
    BY <1>2 DEF Finish
  <2> QED BY <1>1, <1>2, <2>1, KeyReturned
<1>3. CASE ~ (pc = "by index" /\ cur.left <= Len(This.iset))
  <2>1. mem' = mem BY <1>3 DEF Finish
  <2> QED BY <1>1, <2>1, LoopEnds
<1> QED BY <1>2, <1>3

\* A definition of the command line: the entry of the empty tuple is the table.
LEMMA ParamKeeps ==
  ASSUME Inv, pc = "args", NEW name, NEW type \in Types, NEW val, NEW m, NEW s, NEW n, NEW r,
         m = entry_new(tuple_new(mem, <<>>), NewTup(mem), type, val),
         s = symbol_new(name, "ERR", << <<>> >>, 0),
         n = AddMem(m, s, NewEnt(mem)), r = AddSym(m, s, NewEnt(mem)),
         syms' = Append(syms, r), mem' = tuple_free(n, NewTup(mem)), UNCHANGED <<tree, cur, pc, carried>>
  PROVE  Onward
<1> DEFINE h == Places
           k == Places'
           e == NewEnt(mem)
           t == NewTup(mem)
<1>1. /\ pc # "none" /\ AreSymbols(syms) /\ IsStmt(cur) /\ cur = NoStmt
  BY DEF Inv, InStage
<1>2. /\ Sound(mem, Refs(h), TupRefs(h), CellCount(h), carried) /\ Plain(h) /\ Ledger(mem, h, carried)
      /\ Refs(h) \in [Nat -> Nat]
  BY <1>1, TheBooks DEF Ledger
<1>3. IsKey(<<>>) BY DEF IsKey, ToSet
<1>4. /\ Sound(m, More(Refs(h), e), More(TupRefs(h), t), CellCount(h), carried)
      /\ Keeps(mem, m) /\ e \in Numbered /\ t \in Numbered /\ Key(m, e) = <<>>
  BY <1>1, <1>3, LoopEntry
<1>5. Settles(n, More(TupRefs(h), t)) BY <1>1, <1>4, TupleSettles
<1>6. /\ h.tr = tree /\ h.he = cur.held /\ h.ls = ListHeld /\ h.rd = ReadHeld /\ h.ss = syms
      /\ k.tr = tree /\ k.he = cur.held /\ k.ls = ListHeld /\ k.rd = ReadHeld /\ k.ss = syms'
  <2>1. ListHeld' = ListHeld /\ ReadHeld' = ReadHeld BY DEF ListHeld, ReadHeld
  <2> QED BY <2>1, PlacesNow, PlacesThen DEF PlacesAre
<1>7. /\ IsSymbol(s) /\ s.type = "ERR" /\ s.iset = << <<>> >> /\ s.entry = <<>> /\ s.hash = <<>> /\ s.deflt = 0
      /\ TableOf(m, s)
  <2>1. 0 \in Nat OBVIOUS
  <2> QED BY <2>1, NewSymbol
<1> HIDE DEF h, k, e, t
<1>8. Fits(m, s, e)
  <2>1. <<>> \in ToSet(<< <<>> >>) BY DEF ToSet
  <2> QED BY <1>4, <1>7, <2>1 DEF Fits
<1>9. /\ Keeps(m, n) /\ IsSymbol(r) /\ TableOf(n, r) /\ r.deflt = 0
      /\ Sound(n, More(Refs(h), e), More(TupRefs(h), t), CellCount(h) + 1, carried)
      /\ r.entry = Append(<<>>, e) /\ r.hash = <<e>> \o <<>>
  <2>1. \A i \in DOMAIN s.entry : Refs(h)[s.entry[i]] > 0 BY <1>7
  <2>2. PICK f, g, l, d : f = Refs(h) /\ g = More(TupRefs(h), t) /\ l = CellCount(h) /\ d = Duplicate(m, s, e)
    OBVIOUS
  <2>3. f \in [Nat -> Nat] /\ Sound(m, More(f, e), g, l, carried) /\ \A i \in DOMAIN s.entry : f[s.entry[i]] > 0
    BY <1>2, <1>4, <2>1, <2>2
  <2>4. EntryIn(m, f, g, l, carried, s, e, AddMem(m, s, e), AddSym(m, s, e), Duplicate(m, s, e))
    BY <1>4, <1>7, <1>8, <2>3, EntryAdded
  <2>5. EntryIn(m, f, g, l, carried, s, e, n, r, d) BY <2>2, <2>4 DEF e
  <2>6. /\ Keeps(m, n) /\ IsSymbol(r) /\ TableOf(n, r) /\ r.deflt = s.deflt
        /\ ~ d /\ Sound(n, More(f, e), g, l + 1, carried) /\ r.entry = Append(s.entry, e) /\ r.hash = <<e>> \o s.hash
    BY ONLY <1>7, <2>5 DEF EntryIn
  <2> QED BY <1>7, <2>2, <2>6
<1>10. k.ss = Append(h.ss, r) /\ SameNodes(h, k) BY <1>6 DEF SameNodes
<1>11. /\ Plain(k) /\ TupRefs(k) = TupRefs(h)
       /\ \A x \in Numbered : Holders(k, x) = Holders(h, x) + Times(x, r.entry) + Hit(x, r.deflt)
       /\ CellCount(k) = CellCount(h) + Length(r.hash)
  <2>1. Plain(h) /\ IsSymbol(r) BY <1>2, <1>9
  <2> QED BY <1>10, <2>1, SymbolAppended
<1>12. Refs(k) = More(Refs(h), e)
  <2>1. ASSUME NEW x \in Numbered PROVE Holders(k, x) = Holders(h, x) + Hit(x, e)
    <3>1. Times(x, Append(<<>>, e)) = Times(x, <<>>) + Hit(x, e) /\ Hit(x, e) \in Nat /\ Times(x, <<>>) = 0
      BY <1>4, EmptyList, TimesGrow
    <3>2. Hit(x, 0) = 0 BY DEF Hit, Numbered
    <3>3. Holders(k, x) = Holders(h, x) + Times(x, Append(<<>>, e)) + Hit(x, 0)
      BY <1>9, <1>11
    <3>4. Holders(h, x) \in Nat BY <1>2, Booked
    <3> QED BY ONLY <3>1, <3>2, <3>3, <3>4
  <2> QED BY <1>2, <1>4, <1>11, <2>1, RefsMore
<1>13. CellCount(k) = CellCount(h) + 1
  <2>1. Length(<<e>> \o <<>>) = 0 + 1 BY <1>4, EmptyList, LengthOf
  <2> QED BY <1>9, <1>11, <2>1
<1>14. Sound(mem', Refs(k), TupRefs(k), CellCount(k), carried) /\ Keeps(n, mem') /\ mem'.ent = n.ent
  <2>1. Sound(n, Refs(k), More(TupRefs(h), t), CellCount(k), carried)
    BY <1>9, <1>12, <1>13
  <2> QED BY <1>5, <1>11, <2>1 DEF Settles, h
<1>15. Keeps(mem, mem') /\ DOMAIN mem.ent \subseteq DOMAIN mem'.ent
  <2> DEFINE f == Refs(h)
             p == More(f, e)
             l == CellCount(h)
             g0 == TupRefs(h)
             g == More(g0, t)
  <2>1. /\ Sound(mem, f, g0, l, carried) /\ Sound(m, p, g, l, carried) /\ Sound(n, p, g, l + 1, carried)
        /\ f \in [Nat -> Nat] /\ e \in Nat
    BY <1>2, <1>4, <1>9 DEF Numbered
  <2> HIDE DEF f, l, g0, g
  <2>2. p[e] > 0 /\ \A x \in Nat : p[x] = f[x] + Hit(x, e) BY <2>1, MoreAt
  <2> HIDE DEF p
  <2>3. /\ DOMAIN mem.ent = {x \in Nat : f[x] > 0} /\ DOMAIN m.ent = {x \in Nat : p[x] > 0}
        /\ DOMAIN n.ent = {x \in Nat : p[x] > 0}
    BY <2>1, Living
  <2>4. \A x \in Nat : Hit(x, e) \in Nat /\ f[x] \in Nat BY <2>1 DEF Hit
  <2>5. DOMAIN mem.ent \subseteq DOMAIN m.ent /\ DOMAIN n.ent = DOMAIN m.ent
    <3>1. \A x \in Nat : f[x] > 0 => p[x] > 0 BY ONLY <2>2, <2>4
    <3> QED BY ONLY <2>3, <3>1
  <2>6. Keeps(mem, n) BY <1>4, <1>9, <2>5, KeepsOn
  <2>7. Keeps(mem, mem') BY <1>14, <2>6, KeepsOn
  <2> QED BY <1>14, <2>5, <2>7
<1>16. Tables(mem', syms') /\ AreSymbols(syms')
  <2> DEFINE q == mem'
  <2>1. Tables(mem, syms) BY <1>1 DEF Inv, InMemory, Tables
  <2>2. \A i \in DOMAIN syms : \A j \in DOMAIN syms[i].entry : syms[i].entry[j] \in DOMAIN mem.ent
    BY <2>1 DEF Tables, TableOf
  <2>3. Keeps(mem, q) /\ Keeps(n, q) /\ q.ent = n.ent /\ DOMAIN mem.ent \subseteq DOMAIN q.ent
    BY <1>14, <1>15
  <2> HIDE DEF q
  <2>4. Tables(q, syms)
    <3>1. ASSUME NEW i \in DOMAIN syms PROVE TableOf(q, syms[i])
      <4>1. TableOf(mem, syms[i]) /\ \A j \in DOMAIN syms[i].entry : syms[i].entry[j] \in DOMAIN q.ent
        BY <2>1, <2>2, <2>3 DEF Tables
      <4> QED BY <2>3, <4>1, TableKept
    <3> QED BY <3>1 DEF Tables
  <2>5. TableOf(q, r)
    <3>1. \A j \in DOMAIN r.entry : r.entry[j] \in DOMAIN q.ent
      BY <1>9, <2>3 DEF TableOf
    <3> QED BY <1>9, <2>3, <3>1, TableKept
  <2>6. Tables(q, Append(syms, r)) /\ AreSymbols(Append(syms, r))
    BY <1>1, <1>9, <2>4, <2>5, AppendedSymbol
  <2> QED BY <2>6 DEF q
<1>17. InStage' /\ InLoop' /\ SetLists'
  BY <1>1, <1>16 DEF Inv, InStage, InLoop, SetLists, Looping, Working, NoStmt
<1>18. InMemory'
  <2>1. Sound(mem', Refs(Places'), TupRefs(Places'), CellCount(Places'), carried)
    BY <1>14 DEF k
  <2>2. pc' # "none" /\ carried' = carried BY <1>1
  <2> QED BY <1>16, <2>1, <2>2 DEF InMemory, Ledger, Tables
<1> QED BY <1>17, <1>18, <1>15 DEF Inv, Onward

\* zpl_add_parameter: an entry of a key without elements.
LEMMA ParamStep ==
  ASSUME Inv, NEW p \in Params, zpl_add_parameter(p)
  PROVE  Onward
<1>1. p.type \in Types BY SymbolTableAssumption DEF Values, Types
<1>2. PICK m, s : /\ m = entry_new(tuple_new(mem, <<>>), NewTup(mem), p.type, p.val)
                  /\ s = symbol_new(p.name, "ERR", << <<>> >>, 0)
  OBVIOUS
<1>3. PICK n, r : n = AddMem(m, s, NewEnt(mem)) /\ r = AddSym(m, s, NewEnt(mem))
  OBVIOUS
<1>4. /\ pc = "args" /\ syms' = Append(syms, r) /\ mem' = tuple_free(n, NewTup(mem))
      /\ UNCHANGED <<tree, cur, pc, carried>>
  BY <1>2, <1>3 DEF zpl_add_parameter, ParamAdded
<1> QED BY <1>1, <1>2, <1>3, <1>4, ParamKeeps

\* ---- the end of a session

\* One thing less in the nodes.
LEMMA Shorter ==
  ASSUME NEW x, IsLeft(x)
  PROVE  /\ x.cells # <<>> => LET y == [x EXCEPT !.cells = Tail(@)] IN
              IsLeft(y) /\ y.tup = x.tup /\ y.ent = x.ent /\ y.cells = Tail(x.cells)
         /\ x.ent # <<>> => LET y == [x EXCEPT !.ent = Tail(@)] IN
              IsLeft(y) /\ y.tup = x.tup /\ y.ent = Tail(x.ent) /\ y.cells = x.cells
         /\ x.tup # <<>> => LET y == [x EXCEPT !.tup = Tail(@)] IN
              IsLeft(y) /\ y.tup = Tail(x.tup) /\ y.ent = x.ent /\ y.cells = x.cells
<1>1. /\ x = [tup |-> x.tup, ent |-> x.ent, cells |-> x.cells]
      /\ x.tup \in Lists /\ x.ent \in Lists /\ x.cells \in Lists
  BY DEF IsLeft
<1>2. \A s \in Lists : s # <<>> => Tail(s) \in Lists BY DEF Lists
<1>3. ASSUME x.cells # <<>>
      PROVE  LET y == [x EXCEPT !.cells = Tail(@)] IN
             IsLeft(y) /\ y.tup = x.tup /\ y.ent = x.ent /\ y.cells = Tail(x.cells)
  <2>1. PICK z, y : z = Tail(x.cells) /\ y = [x EXCEPT !.cells = z] OBVIOUS
  <2>2. z \in Lists BY <1>1, <1>2, <1>3, <2>1
  <2>3. y = [tup |-> x.tup, ent |-> x.ent, cells |-> z] BY ONLY <1>1, <2>1
  <2>4. y.tup = x.tup /\ y.ent = x.ent /\ y.cells = z BY ONLY <2>3
  <2>5. y = [tup |-> y.tup, ent |-> y.ent, cells |-> y.cells] BY ONLY <2>3, <2>4
  <2>6. IsLeft(y) BY <1>1, <2>2, <2>4, <2>5 DEF IsLeft
  <2> QED BY <2>1, <2>4, <2>6
<1>4. ASSUME x.ent # <<>>
      PROVE  LET y == [x EXCEPT !.ent = Tail(@)] IN
             IsLeft(y) /\ y.tup = x.tup /\ y.ent = Tail(x.ent) /\ y.cells = x.cells
  <2>1. PICK z, y : z = Tail(x.ent) /\ y = [x EXCEPT !.ent = z] OBVIOUS
  <2>2. z \in Lists BY <1>1, <1>2, <1>4, <2>1
  <2>3. y = [tup |-> x.tup, ent |-> z, cells |-> x.cells] BY ONLY <1>1, <2>1
  <2>4. y.tup = x.tup /\ y.ent = z /\ y.cells = x.cells BY ONLY <2>3
  <2>5. y = [tup |-> y.tup, ent |-> y.ent, cells |-> y.cells] BY ONLY <2>3, <2>4
  <2>6. IsLeft(y) BY <1>1, <2>2, <2>4, <2>5 DEF IsLeft
  <2> QED BY <2>1, <2>4, <2>6
<1>5. ASSUME x.tup # <<>>
      PROVE  LET y == [x EXCEPT !.tup = Tail(@)] IN
             IsLeft(y) /\ y.tup = Tail(x.tup) /\ y.ent = x.ent /\ y.cells = x.cells
  <2>1. PICK z, y : z = Tail(x.tup) /\ y = [x EXCEPT !.tup = z] OBVIOUS
  <2>2. z \in Lists BY <1>1, <1>2, <1>5, <2>1
  <2>3. y = [tup |-> z, ent |-> x.ent, cells |-> x.cells] BY ONLY <1>1, <2>1
  <2>4. y.tup = z /\ y.ent = x.ent /\ y.cells = x.cells BY ONLY <2>3
  <2>5. y = [tup |-> y.tup, ent |-> y.ent, cells |-> y.cells] BY ONLY <2>3, <2>4
  <2>6. IsLeft(y) BY <1>1, <2>2, <2>4, <2>5 DEF IsLeft
  <2> QED BY <2>1, <2>4, <2>6
<1> QED BY <1>3, <1>4, <1>5

\* A list without its first.
LEMMA TailOf ==
  ASSUME NEW s \in Lists, s # <<>>
  PROVE  /\ s[1] \in Numbered /\ Tail(s) \in Lists
         /\ Length(Tail(s)) \in Nat /\ Length(s) = Length(Tail(s)) + 1
         /\ \A x : Times(x, s) = Times(x, Tail(s)) + Hit(x, s[1]) /\ Times(x, Tail(s)) \in Nat
                   /\ Hit(x, s[1]) \in Nat
<1>1. s[1] \in Numbered /\ Tail(s) \in Lists BY TimesEnds
<1>2. Length(Tail(s)) \in Nat /\ Length(s) = Length(Tail(s)) + 1
  BY <1>1, LengthOf
<1>3. \A x : Times(x, s) = Times(x, Tail(s)) + Hit(x, s[1]) BY TimesEnds
<1>4. \A x : Times(x, Tail(s)) \in Nat BY <1>1, TimesNat
<1> QED BY <1>1, <1>2, <1>3, <1>4 DEF Hit

\* A node gives back what it holds.
LEMMA FreedKeeps ==
  ASSUME Inv, pc = "exit", pc' = "exit", UNCHANGED <<syms, cur, carried>>, IsLeft(tree'), Keeps(mem, mem'),
         Sound(mem', Refs(Places'), TupRefs(Places'), CellCount(Places'), carried)
  PROVE  Onward
<1>1. InStage' BY DEF Inv, InStage, Working
<1>2. InLoop' /\ SetLists' BY DEF InLoop, SetLists, Looping
<1>3. InMemory' BY <1>1, Renewed
<1> QED BY <1>1, <1>2, <1>3 DEF Inv, Onward

\* the places before and after
LEMMA FreedPlaces ==
  ASSUME Inv, pc = "exit", pc' = "exit", UNCHANGED <<syms, cur, carried>>, IsLeft(tree')
  PROVE  LET h == Places
             k == Places'
         IN  /\ Sound(mem, Refs(h), TupRefs(h), CellCount(h), carried) /\ Plain(h) /\ Plain(k) /\ k.ss = h.ss
             /\ h.tr = tree /\ h.he = cur.held /\ h.ls = <<>> /\ h.rd = <<>>
             /\ k.tr = tree' /\ k.he = cur.held /\ k.ls = <<>> /\ k.rd = <<>>
             /\ cur.held.ent \in Lists /\ cur.held.cells \in Lists /\ cur.held.tup \in Lists
             /\ tree.ent \in Lists /\ tree.cells \in Lists /\ tree.tup \in Lists
<1>1. InStage' BY DEF Inv, InStage, Working
<1>2. ListHeld = <<>> /\ ReadHeld = <<>> /\ ListHeld' = <<>> /\ ReadHeld' = <<>>
  BY DEF ListHeld, ReadHeld
<1>3. IsLeft(cur.held) /\ IsLeft(tree) BY DEF Inv, InStage, IsStmt
<1>4. PlacesAre(Places, tree, cur.held, <<>>, <<>>, syms) /\ PlacesAre(Places', tree', cur.held, <<>>, <<>>, syms)
  BY <1>2, PlacesNow, PlacesThen
<1>5. Plain(Places') /\ Plain(Places) /\ Sound(mem, Refs(Places), TupRefs(Places), CellCount(Places), carried)
  BY <1>1, PlainThen, TheBooks
<1> QED BY <1>3, <1>4, <1>5 DEF PlacesAre, IsLeft

\* prog_free frees a cell of a list.
LEMMA CellFreed ==
  ASSUME Inv, pc = "exit", pc' = "exit", UNCHANGED <<syms, cur, carried>>, tree.cells # <<>>,
         mem' = list_data_free(mem, tree.cells[1]), tree' = [tree EXCEPT !.cells = Tail(@)]
  PROVE  Onward
<1> DEFINE h == Places
           k == Places'
           e == tree.cells[1]
<1>1. IsLeft(tree') /\ tree'.tup = tree.tup /\ tree'.ent = tree.ent /\ tree'.cells = Tail(tree.cells)
  BY Shorter DEF Inv, InStage
<1>2. /\ Sound(mem, Refs(h), TupRefs(h), CellCount(h), carried) /\ Plain(h) /\ Plain(k) /\ k.ss = h.ss
      /\ h.tr = tree /\ h.he = cur.held /\ h.ls = <<>> /\ h.rd = <<>>
      /\ k.tr = tree' /\ k.he = cur.held /\ k.ls = <<>> /\ k.rd = <<>>
      /\ cur.held.ent \in Lists /\ cur.held.cells \in Lists /\ cur.held.tup \in Lists
      /\ tree.ent \in Lists /\ tree.cells \in Lists /\ tree.tup \in Lists
  BY <1>1, FreedPlaces
<1>3. /\ e \in Numbered /\ Tail(tree.cells) \in Lists
      /\ Length(Tail(tree.cells)) \in Nat /\ Length(tree.cells) = Length(Tail(tree.cells)) + 1
      /\ \A x : Times(x, tree.cells) = Times(x, Tail(tree.cells)) + Hit(x, e) /\ Times(x, Tail(tree.cells)) \in Nat
                /\ Hit(x, e) \in Nat
  BY <1>2, TailOf
<1> HIDE DEF h, k, e
<1>4. ASSUME NEW x \in Numbered PROVE Nodes(h, x) = Nodes(k, x) + Hit(x, e)
  <2>1. /\ Times(x, tree.ent) \in Nat /\ Times(x, cur.held.ent) \in Nat /\ Times(x, cur.held.cells) \in Nat
        /\ Times(x, <<>>) = 0
    BY <1>2, TimesNat, EmptyList
  <2>2. /\ Times(x, tree.cells) = Times(x, Tail(tree.cells)) + Hit(x, e) /\ Times(x, Tail(tree.cells)) \in Nat
        /\ Hit(x, e) \in Nat
    BY <1>3
  <2>3. Nodes(h, x) = Times(x, tree.ent) + Times(x, cur.held.ent) + Times(x, tree.cells) + Times(x, cur.held.cells)
                      + Times(x, <<>>) + Times(x, <<>>)
    BY <1>2 DEF Nodes
  <2>4. Nodes(k, x) = Times(x, tree.ent) + Times(x, cur.held.ent) + Times(x, Tail(tree.cells)) + Times(x, cur.held.cells)
                      + Times(x, <<>>) + Times(x, <<>>)
    BY <1>1, <1>2 DEF Nodes
  <2> QED BY ONLY <2>1, <2>2, <2>3, <2>4
<1>5. Lens(h) = Lens(k) + 1
  <2>1. Length(<<>>) = 0 /\ Length(cur.held.cells) \in Nat
    BY <1>2, TimesNat, EmptyList
  <2>2. Lens(h) = Length(tree.cells) + Length(cur.held.cells) + Length(<<>>) + Length(<<>>)
    BY <1>2 DEF Lens
  <2>3. Lens(k) = Length(Tail(tree.cells)) + Length(cur.held.cells) + Length(<<>>) + Length(<<>>)
    BY <1>1, <1>2 DEF Lens
  <2>4. Length(Tail(tree.cells)) \in Nat /\ Length(tree.cells) = Length(Tail(tree.cells)) + 1
    BY <1>3
  <2> QED BY ONLY <2>1, <2>2, <2>3, <2>4
<1>6. h.ss = k.ss BY <1>2
<1>7. Less(Refs(h), e) = Refs(k) /\ Refs(h)[e] > 0
  BY <1>2, <1>3, <1>4, <1>6, NodeGained
<1>8. TupRefs(k) = TupRefs(h) BY <1>1, <1>2 DEF TupRefs
<1>9. CellCount(h) = CellCount(k) + 1 /\ CellCount(k) \in Nat
  <2>1. Lens(k) \in Nat /\ CellCount(k) \in Nat /\ CellCount(h) = CellCount(k) + (Lens(h) - Lens(k))
    BY <1>2, <1>6, CellsDiffer
  <2> QED BY <1>5, <2>1
<1>10. Sound(mem', Refs(k), TupRefs(k), CellCount(k), carried) /\ Keeps(mem, mem')
  <2>1. PICK f, g, l : f = Refs(h) /\ g = TupRefs(h) /\ l = CellCount(h) OBVIOUS
  <2>2. Sound(mem, f, g, l, carried) /\ e \in Nat /\ f[e] > 0 /\ l > 0
    BY <1>2, <1>3, <1>7, <1>9, <2>1 DEF Numbered
  <2>3. mem' = list_data_free(mem, e) BY DEF e
  <2>4. Sound(mem', Less(f, e), g, l - 1, carried) /\ Keeps(mem, mem')
    BY <2>2, <2>3, CellGone
  <2>5. l - 1 = CellCount(k) BY <1>9, <2>1
  <2> QED BY <1>7, <1>8, <2>1, <2>4, <2>5
<1>11. Sound(mem', Refs(Places'), TupRefs(Places'), CellCount(Places'), carried)
  BY <1>10 DEF k
<1> QED BY <1>1, <1>10, <1>11, FreedKeeps

\* prog_free frees an entry of a node.
LEMMA EntryFreed ==
  ASSUME Inv, pc = "exit", pc' = "exit", UNCHANGED <<syms, cur, carried>>, tree.ent # <<>>,
         mem' = entry_free(mem, tree.ent[1]), tree' = [tree EXCEPT !.ent = Tail(@)]
  PROVE  Onward
<1> DEFINE h == Places
           k == Places'
           e == tree.ent[1]
<1>1. IsLeft(tree') /\ tree'.tup = tree.tup /\ tree'.ent = Tail(tree.ent) /\ tree'.cells = tree.cells
  BY Shorter DEF Inv, InStage
<1>2. /\ Sound(mem, Refs(h), TupRefs(h), CellCount(h), carried) /\ Plain(h) /\ Plain(k) /\ k.ss = h.ss
      /\ h.tr = tree /\ h.he = cur.held /\ h.ls = <<>> /\ h.rd = <<>>
      /\ k.tr = tree' /\ k.he = cur.held /\ k.ls = <<>> /\ k.rd = <<>>
      /\ cur.held.ent \in Lists /\ cur.held.cells \in Lists /\ cur.held.tup \in Lists
      /\ tree.ent \in Lists /\ tree.cells \in Lists /\ tree.tup \in Lists
  BY <1>1, FreedPlaces
<1>3. /\ e \in Numbered /\ Tail(tree.ent) \in Lists
      /\ \A x : Times(x, tree.ent) = Times(x, Tail(tree.ent)) + Hit(x, e) /\ Times(x, Tail(tree.ent)) \in Nat
                /\ Hit(x, e) \in Nat
  BY <1>2, TailOf
<1> HIDE DEF h, k, e
<1>4. ASSUME NEW x \in Numbered PROVE Nodes(h, x) = Nodes(k, x) + Hit(x, e)
  <2>1. /\ Times(x, tree.cells) \in Nat /\ Times(x, cur.held.ent) \in Nat /\ Times(x, cur.held.cells) \in Nat
        /\ Times(x, <<>>) = 0
    BY <1>2, TimesNat, EmptyList
  <2>2. /\ Times(x, tree.ent) = Times(x, Tail(tree.ent)) + Hit(x, e) /\ Times(x, Tail(tree.ent)) \in Nat
        /\ Hit(x, e) \in Nat
    BY <1>3
  <2>3. Nodes(h, x) = Times(x, tree.ent) + Times(x, cur.held.ent) + Times(x, tree.cells) + Times(x, cur.held.cells)
                      + Times(x, <<>>) + Times(x, <<>>)
    BY <1>2 DEF Nodes
  <2>4. Nodes(k, x) = Times(x, Tail(tree.ent)) + Times(x, cur.held.ent) + Times(x, tree.cells) + Times(x, cur.held.cells)
                      + Times(x, <<>>) + Times(x, <<>>)
    BY <1>1, <1>2 DEF Nodes
  <2> QED BY ONLY <2>1, <2>2, <2>3, <2>4
<1>5. Lens(h) = Lens(k) BY <1>1, <1>2 DEF Lens
<1>6. h.ss = k.ss BY <1>2
<1>7. Less(Refs(h), e) = Refs(k) /\ Refs(h)[e] > 0
  BY <1>2, <1>3, <1>4, <1>6, NodeGained
<1>8. TupRefs(k) = TupRefs(h) BY <1>1, <1>2 DEF TupRefs
<1>9. CellCount(h) = CellCount(k)
  <2>1. Lens(k) \in Nat /\ CellCount(k) \in Nat /\ CellCount(h) = CellCount(k) + (Lens(h) - Lens(k))
    BY <1>2, <1>6, CellsDiffer
  <2> QED BY <1>5, <2>1
<1>10. Sound(mem', Refs(k), TupRefs(k), CellCount(k), carried) /\ Keeps(mem, mem')
  <2>1. PICK f, g, l : f = Refs(h) /\ g = TupRefs(h) /\ l = CellCount(h) OBVIOUS
  <2>2. Sound(mem, f, g, l, carried) /\ e \in Nat /\ f[e] > 0
    BY <1>2, <1>3, <1>7, <2>1 DEF Numbered
  <2>3. mem' = entry_free(mem, e) BY DEF e
  <2>4. Sound(mem', Less(f, e), g, l, carried) /\ Keeps(mem, mem')
    BY <2>2, <2>3, SoundEntFree
  <2> QED BY <1>7, <1>8, <1>9, <2>1, <2>4
<1>11. Sound(mem', Refs(Places'), TupRefs(Places'), CellCount(Places'), carried)
  BY <1>10 DEF k
<1> QED BY <1>1, <1>10, <1>11, FreedKeeps

\* prog_free frees a tuple of a node.
LEMMA TupleFreed ==
  ASSUME Inv, pc = "exit", pc' = "exit", UNCHANGED <<syms, cur, carried>>, tree.tup # <<>>,
         mem' = tuple_free(mem, tree.tup[1]), tree' = [tree EXCEPT !.tup = Tail(@)]
  PROVE  Onward
<1> DEFINE h == Places
           k == Places'
           t == tree.tup[1]
<1>1. IsLeft(tree') /\ tree'.tup = Tail(tree.tup) /\ tree'.ent = tree.ent /\ tree'.cells = tree.cells
  BY Shorter DEF Inv, InStage
<1>2. /\ Sound(mem, Refs(h), TupRefs(h), CellCount(h), carried) /\ Plain(h) /\ Plain(k) /\ k.ss = h.ss
      /\ h.tr = tree /\ h.he = cur.held /\ h.ls = <<>> /\ h.rd = <<>>
      /\ k.tr = tree' /\ k.he = cur.held /\ k.ls = <<>> /\ k.rd = <<>>
      /\ cur.held.tup \in Lists /\ tree.tup \in Lists
  BY <1>1, FreedPlaces
<1>3. /\ t \in Numbered
      /\ \A x : Times(x, tree.tup) = Times(x, Tail(tree.tup)) + Hit(x, t) /\ Times(x, Tail(tree.tup)) \in Nat
                /\ Hit(x, t) \in Nat
  BY <1>2, TailOf
<1> HIDE DEF h, k, t
<1>4. \A x \in Numbered : Nodes(k, x) = Nodes(h, x) BY <1>1, <1>2 DEF Nodes
<1>5. Lens(k) = Lens(h) BY <1>1, <1>2 DEF Lens
<1>6. k.ss = h.ss BY <1>2
<1>7. Refs(k) = Refs(h)
  <2>1. ASSUME NEW x \in Numbered PROVE Holders(k, x) = Holders(h, x)
    <3>1. /\ Nodes(h, x) \in Nat /\ Holders(h, x) \in Nat
          /\ Holders(k, x) = Holders(h, x) + (Nodes(k, x) - Nodes(h, x))
      BY <1>2, <1>6, NodesDiffer
    <3> QED BY <1>4, <3>1
  <2> QED BY <1>2, <2>1, RefsSame
<1>8. ASSUME NEW x \in Nat PROVE Tups(h, x) = Tups(k, x) + Hit(x, t)
  <2>1. Times(x, cur.held.tup) \in Nat BY <1>2, TimesNat
  <2>2. /\ Times(x, tree.tup) = Times(x, Tail(tree.tup)) + Hit(x, t) /\ Times(x, Tail(tree.tup)) \in Nat
        /\ Hit(x, t) \in Nat
    BY <1>3
  <2>3. /\ Tups(h, x) = Times(x, tree.tup) + Times(x, cur.held.tup)
        /\ Tups(k, x) = Times(x, Tail(tree.tup)) + Times(x, cur.held.tup)
    BY <1>1, <1>2 DEF Tups
  <2> QED BY ONLY <2>1, <2>2, <2>3
<1>9. Less(TupRefs(h), t) = TupRefs(k) /\ TupRefs(h)[t] > 0
  BY <1>2, <1>3, <1>8, TupGained
<1>10. CellCount(k) = CellCount(h)
  <2>1. Lens(h) \in Nat /\ CellCount(h) \in Nat /\ CellCount(k) = CellCount(h) + (Lens(k) - Lens(h))
    BY <1>2, <1>6, CellsDiffer
  <2> QED BY <1>5, <2>1
<1>11. Sound(mem', Refs(k), TupRefs(k), CellCount(k), carried) /\ Keeps(mem, mem')
  <2>1. PICK f, g, l : f = Refs(h) /\ g = TupRefs(h) /\ l = CellCount(h) OBVIOUS
  <2>2. Sound(mem, f, g, l, carried) /\ t \in Nat /\ g[t] > 0
    BY <1>2, <1>3, <1>9, <2>1 DEF Numbered
  <2>3. mem' = tuple_free(mem, t) BY DEF t
  <2>4. Sound(mem', f, Less(g, t), l, carried) /\ Keeps(mem, mem')
    BY <2>2, <2>3, TupleGone
  <2> QED BY <1>7, <1>9, <1>10, <2>1, <2>4
<1>12. Sound(mem', Refs(Places'), TupRefs(Places'), CellCount(Places'), carried)
  BY <1>11 DEF k
<1> QED BY <1>1, <1>11, <1>12, FreedKeeps

\* prog_free, one object or the end of them.
LEMMA ProgFreeStep ==
  ASSUME Inv, prog_free
  PROVE  Onward
<1>1. pc = "exit" /\ UNCHANGED <<syms, cur, carried>> BY DEF prog_free
<1>2. \/ /\ tree.cells # <<>> /\ mem' = list_data_free(mem, tree.cells[1])
         /\ tree' = [tree EXCEPT !.cells = Tail(@)] /\ pc' = pc
      \/ tree.ent # <<>> /\ mem' = entry_free(mem, tree.ent[1]) /\ tree' = [tree EXCEPT !.ent = Tail(@)] /\ pc' = pc
      \/ tree.tup # <<>> /\ mem' = tuple_free(mem, tree.tup[1]) /\ tree' = [tree EXCEPT !.tup = Tail(@)] /\ pc' = pc
      \/ pc' = "symbols" /\ UNCHANGED <<mem, tree>>
  BY DEF prog_free
<1> QED BY <1>1, <1>2, CellFreed, EntryFreed, TupleFreed, PhaseOver

\* A list without its last.
LEMMA FrontOf ==
  ASSUME NEW s \in Lists, s # <<>>
  PROVE  /\ Front(s) \in Lists /\ Last(s) \in Numbered /\ Len(Front(s)) \in Nat /\ Len(s) = Len(Front(s)) + 1
         /\ \A i \in DOMAIN Front(s) : i \in DOMAIN s /\ Front(s)[i] = s[i]
         /\ Last(s) = s[Len(s)] /\ Len(s) \in DOMAIN s
         /\ \A x : Times(x, s) = Times(x, Front(s)) + Hit(x, Last(s)) /\ Times(x, Front(s)) \in Nat
<1>1. Front(s) \in Lists /\ s[Len(s)] \in Numbered BY TimesEnds
<1>2. Last(s) = s[Len(s)] BY DEF Last
<1>3. \A x : Times(x, s) = Times(x, Front(s)) + Hit(x, s[Len(s)]) /\ Times(x, Front(s)) \in Nat
  BY <1>1, TimesEnds, TimesNat
<1>4. /\ Len(Front(s)) \in Nat /\ Len(s) = Len(Front(s)) + 1 /\ Len(s) \in DOMAIN s
      /\ \A i \in DOMAIN Front(s) : i \in DOMAIN s /\ Front(s)[i] = s[i]
  <2>1. s \in Seq(Numbered) /\ Len(s) \in Nat /\ Len(s) # 0 /\ DOMAIN s = 1 .. Len(s)
    BY DEF Lists
  <2>2. Front(s) \in Seq(Numbered) /\ Len(Front(s)) = Len(s) - 1 /\ \A i \in 1 .. Len(s) - 1 : Front(s)[i] = s[i]
    BY <2>1 DEF Front
  <2>3. DOMAIN Front(s) = 1 .. Len(s) - 1 BY <2>2
  <2> QED BY <2>1, <2>2, <2>3
<1> QED BY <1>1, <1>2, <1>3, <1>4

\* A table without its last entry.
Shortened(m, s, r) ==
  /\ IsSymbol(r) /\ TableOf(m, r) /\ r.entry = Front(s.entry) /\ r.hash = Tail(s.hash) /\ r.deflt = s.deflt
  /\ s.hash # <<>>

\* A symbol without its last entry still agrees with its table.
LEMMA SymbolShortened ==
  ASSUME NEW m, NEW s, IsSymbol(s), TableOf(m, s), s.entry # <<>>
  PROVE  Shortened(m, s, OneEntryLess(s))
<1>1. PICK r, a, c : r = OneEntryLess(s) /\ a = Front(s.entry) /\ c = Tail(s.hash)
  OBVIOUS
<1>2. /\ s = [name |-> s.name, type |-> s.type, iset |-> s.iset, size |-> s.size, extend |-> s.extend,
              entry |-> s.entry, hash |-> s.hash, deflt |-> s.deflt]
      /\ s.entry \in Lists /\ s.hash \in Lists /\ s.deflt \in Nat /\ s.size \in Nat /\ s.extend \in Numbered
  BY DEF IsSymbol
<1>3. /\ a \in Lists /\ Len(a) \in Nat /\ Len(s.entry) = Len(a) + 1
      /\ \A i \in DOMAIN a : i \in DOMAIN s.entry /\ a[i] = s.entry[i]
  BY <1>1, <1>2, FrontOf
<1>4. s.hash = Reverse(s.entry) /\ c = Reverse(a) /\ Len(s.hash) = Len(s.entry) /\ c \in Lists
  <2>1. s.hash = Reverse(s.entry) /\ 1 \in Numbered BY DEF TableOf, Numbered
  <2>2. Reverse(Front(s.entry)) = Tail(Reverse(s.entry)) /\ Len(Reverse(s.entry)) = Len(s.entry)
    BY <1>2, <2>1, ReverseGrown
  <2>3. Reverse(a) \in Lists BY <1>3, <2>1, ReverseGrown
  <2> QED BY <1>1, <2>1, <2>2, <2>3
<1>5. s.hash # <<>> BY <1>3, <1>4
<1>6. r = [name |-> s.name, type |-> s.type, iset |-> s.iset, size |-> s.size, extend |-> s.extend,
           entry |-> a, hash |-> c, deflt |-> s.deflt]
  <2>1. r = [s EXCEPT !.entry = a, !.hash = c] BY <1>1 DEF OneEntryLess
  <2> QED BY ONLY <1>2, <2>1
<1>7. /\ r.name = s.name /\ r.type = s.type /\ r.iset = s.iset /\ r.size = s.size /\ r.extend = s.extend
      /\ r.entry = a /\ r.hash = c /\ r.deflt = s.deflt
  BY ONLY <1>6
<1>8. r = [name |-> r.name, type |-> r.type, iset |-> r.iset, size |-> r.size, extend |-> r.extend,
           entry |-> r.entry, hash |-> r.hash, deflt |-> r.deflt]
  BY ONLY <1>6, <1>7
<1>9. IsSymbol(r) BY <1>2, <1>3, <1>4, <1>7, <1>8 DEF IsSymbol
<1>10. TableOf(m, r)
  <2>1. /\ Len(s.entry) <= s.size
        /\ \A i, j \in DOMAIN s.entry : Key(m, s.entry[i]) = Key(m, s.entry[j]) => i = j
        /\ \A i \in DOMAIN s.entry : /\ s.entry[i] \in DOMAIN m.ent
                                     /\ Key(m, s.entry[i]) \in ToSet(s.iset)
                                     /\ m.ent[s.entry[i]].type = s.type
    BY DEF TableOf
  <2>2. Len(a) <= r.size BY <1>2, <1>3, <1>7, <2>1
  <2>3. \A i, j \in DOMAIN a : Key(m, a[i]) = Key(m, a[j]) => i = j
    BY <1>3, <2>1
  <2>4. \A i \in DOMAIN a : a[i] \in DOMAIN m.ent /\ Key(m, a[i]) \in ToSet(r.iset) /\ m.ent[a[i]].type = r.type
    BY <1>3, <1>7, <2>1
  <2> QED BY <1>4, <1>7, <2>2, <2>3, <2>4 DEF TableOf
<1> QED BY <1>1, <1>5, <1>7, <1>9, <1>10 DEF Shortened

\* What symbol_exit leaves is in stage.
LEMMA ExitStage ==
  ASSUME Inv, pc = "symbols", pc' = "symbols", UNCHANGED <<tree, cur, carried>>, AreSymbols(syms')
  PROVE  InStage' /\ InLoop' /\ SetLists' /\ pc # "none" /\ pc' # "none"
BY DEF Inv, InStage, InLoop, SetLists, Working, Looping

\* What symbol_exit starts from.
LEMMA ExitPlaces ==
  ASSUME Inv, pc = "symbols", pc' = "symbols", UNCHANGED <<tree, cur, carried>>, AreSymbols(syms')
  PROVE  LET h == Places
             k == Places'
         IN  /\ Sound(mem, Refs(h), TupRefs(h), CellCount(h), carried) /\ Plain(h) /\ Plain(k)
             /\ h.ss = syms /\ k.ss = syms' /\ SameNodes(h, k) /\ SameNodes(k, h)
             /\ Tables(mem, syms) /\ AreSymbols(syms)
<1>1. InStage' /\ pc # "none" BY ExitStage
<1>2. ListHeld' = ListHeld /\ ReadHeld' = ReadHeld BY DEF ListHeld, ReadHeld
<1>3. PlacesAre(Places, tree, cur.held, ListHeld, ReadHeld, syms) /\ PlacesAre(Places', tree, cur.held, ListHeld, ReadHeld, syms')
  BY <1>2, PlacesNow, PlacesThen
<1>4. Plain(Places') /\ Plain(Places) /\ Sound(mem, Refs(Places), TupRefs(Places), CellCount(Places), carried)
  BY <1>1, PlainThen, TheBooks
<1>5. Tables(mem, syms) /\ AreSymbols(syms)
  BY <1>1 DEF Inv, InMemory, InStage, Tables
<1> QED BY <1>3, <1>4, <1>5 DEF PlacesAre, SameNodes

\* symbol_exit frees one entry with its cell of the hash.
LEMMA LastEntryFreed ==
  ASSUME Inv, pc = "symbols", pc' = "symbols", UNCHANGED <<tree, cur, carried>>, syms # <<>>, This.entry # <<>>,
         mem' = hash_elem_free(entry_free(mem, Last(This.entry))),
         syms' = [syms EXCEPT ![Len(syms)] = OneEntryLess(@)]
  PROVE  Onward
<1> DEFINE h == Places
           k == Places'
           s == syms[Len(syms)]
           r == OneEntryLess(s)
           e == Last(s.entry)
<1>1. AreSymbols(syms) /\ Tables(mem, syms)
  BY DEF Inv, InStage, InMemory, Tables
<1>2. Len(syms) \in DOMAIN syms /\ IsSymbol(s) /\ TableOf(mem, s) /\ s.entry # <<>>
  BY <1>1, LastIsSymbol DEF Tables, This
<1>3. Shortened(mem, s, r) BY <1>2, SymbolShortened
<1>4. syms' = [syms EXCEPT ![Len(syms)] = r] OBVIOUS
<1>5. mem' = hash_elem_free(entry_free(mem, e)) BY DEF This
<1> HIDE DEF h, k, s, r, e
<1>6. /\ IsSymbol(r) /\ TableOf(mem, r) /\ r.entry = Front(s.entry) /\ r.hash = Tail(s.hash) /\ r.deflt = s.deflt
      /\ s.hash # <<>> /\ s.entry \in Lists /\ s.hash \in Lists
  BY <1>2, <1>3 DEF Shortened, IsSymbol
<1>7. /\ AreSymbols(syms') /\ Len(syms') = Len(syms) /\ syms'[Len(syms')] = r
      /\ \A i \in DOMAIN syms' : i \in DOMAIN syms /\ (i # Len(syms) => syms'[i] = syms[i])
  <2>1. PICK ss : ss = syms OBVIOUS
  <2>2. AreSymbols(ss) /\ ss # <<>> /\ IsSymbol(r) /\ syms' = [ss EXCEPT ![Len(ss)] = r]
    BY <1>1, <1>4, <1>6, <2>1
  <2>3. LET new == [ss EXCEPT ![Len(ss)] = r] IN
        /\ AreSymbols(new) /\ Len(new) = Len(ss) /\ new[Len(new)] = r
        /\ \A i \in DOMAIN new : i \in DOMAIN ss /\ (i # Len(ss) => new[i] = ss[i])
    BY ONLY <2>2, TheSymbol
  <2> QED BY <2>1, <2>2, <2>3
<1>8. /\ Sound(mem, Refs(h), TupRefs(h), CellCount(h), carried) /\ Plain(h) /\ Plain(k)
      /\ h.ss = syms /\ k.ss = syms' /\ SameNodes(h, k)
  BY <1>7, ExitPlaces DEF h, k
<1>9. k.ss = [h.ss EXCEPT ![Len(h.ss)] = r] /\ s = h.ss[Len(h.ss)] /\ h.ss # <<>>
  BY <1>4, <1>8 DEF s
<1>10. /\ TupRefs(k) = TupRefs(h)
       /\ \A x \in Numbered : Holders(k, x) = Holders(h, x) + Times(x, r.entry) - Times(x, s.entry)
       /\ CellCount(k) = CellCount(h) + Length(r.hash) - Length(s.hash)
  <2>1. r.deflt = h.ss[Len(h.ss)].deflt /\ IsSymbol(r) /\ Plain(h) /\ SameNodes(h, k)
    BY <1>6, <1>8, <1>9
  <2> QED BY <1>9, <2>1, SymbolChanged
<1>11. /\ e \in Numbered
       /\ \A x : Times(x, s.entry) = Times(x, Front(s.entry)) + Hit(x, e) /\ Times(x, Front(s.entry)) \in Nat
  BY <1>2, <1>6, FrontOf DEF e
<1>12. Less(Refs(h), e) = Refs(k) /\ Refs(h)[e] > 0
  <2>1. ASSUME NEW x \in Numbered PROVE Holders(h, x) = Holders(k, x) + Hit(x, e)
    <3>1. Holders(k, x) = Holders(h, x) + Times(x, r.entry) - Times(x, s.entry) /\ r.entry = Front(s.entry)
      BY <1>6, <1>10
    <3>2. Times(x, s.entry) = Times(x, Front(s.entry)) + Hit(x, e) /\ Times(x, Front(s.entry)) \in Nat
      BY <1>11
    <3>3. Holders(h, x) \in Nat /\ Hit(x, e) \in Nat BY <1>8, Booked DEF Hit
    <3> QED BY ONLY <3>1, <3>2, <3>3
  <2> QED BY <1>8, <1>11, <2>1, RefsMore
<1>13. CellCount(h) = CellCount(k) + 1 /\ CellCount(k) \in Nat
  <2>1. Length(s.hash) = Length(Tail(s.hash)) + 1 /\ Length(Tail(s.hash)) \in Nat
    BY <1>6, TailOf
  <2>2. CellCount(h) \in Nat /\ CellCount(k) \in Nat BY <1>8, Booked
  <2> QED BY <1>6, <1>10, <2>1, <2>2
<1>14. Sound(mem', Refs(k), TupRefs(k), CellCount(k), carried) /\ Keeps(mem, mem')
  <2>1. PICK f, g, l, n : f = Refs(h) /\ g = TupRefs(h) /\ l = CellCount(h) /\ n = entry_free(mem, e)
    OBVIOUS
  <2>2. Sound(mem, f, g, l, carried) /\ e \in Nat /\ f[e] > 0 /\ l > 0
    BY <1>8, <1>11, <1>12, <1>13, <2>1 DEF Numbered
  <2>3. Sound(n, Less(f, e), g, l, carried) /\ Keeps(mem, n)
    BY <2>1, <2>2, SoundEntFree
  <2>4. mem' = hash_elem_free(n) BY <1>5, <2>1
  <2>5. Sound(mem', Less(f, e), g, l - 1, carried) /\ Keeps(n, mem')
    BY <2>2, <2>3, <2>4, HashCells
  <2>6. l - 1 = CellCount(k) BY <1>13, <2>1
  <2>7. mem'.ent = n.ent BY <2>2, <2>3, <2>4, SoundCells DEF hash_elem_free
  <2>8. Keeps(mem, mem') BY <2>3, <2>5, <2>7, KeepsOn
  <2> QED BY <1>10, <1>12, <2>1, <2>5, <2>6, <2>8
<1>15. Tables(mem, syms')
  <2> SUFFICES ASSUME NEW i \in DOMAIN syms' PROVE TableOf(mem, syms'[i])
    BY DEF Tables
  <2>1. CASE i = Len(syms) BY <1>6, <1>7, <2>1
  <2>2. CASE i # Len(syms) BY <1>1, <1>7, <2>2 DEF Tables
  <2> QED BY <2>1, <2>2
<1>16. InStage' /\ InLoop' /\ SetLists' /\ pc # "none" /\ pc' # "none"
  BY <1>7, ExitStage
<1>17. InMemory'
  <2>1. Sound(mem', Refs(Places'), TupRefs(Places'), CellCount(Places'), carried)
    BY <1>14 DEF k
  <2>2. carried' = carried OBVIOUS
  <2> QED BY <1>14, <1>15, <1>16, <2>1, <2>2, RenewedSymbols
<1> QED BY <1>16, <1>17, <1>14 DEF Inv, Onward

\* symbol_exit frees a symbol and its default.
LEMMA LastSymbolFreed ==
  ASSUME Inv, pc = "symbols", pc' = "symbols", UNCHANGED <<tree, cur, carried>>, syms # <<>>, This.entry = <<>>,
         mem' = IF This.deflt = 0 THEN mem ELSE entry_free(mem, This.deflt), syms' = Front(syms)
  PROVE  Onward
<1> DEFINE h == Places
           k == Places'
           s == syms[Len(syms)]
           d == s.deflt
<1>1. AreSymbols(syms) /\ Tables(mem, syms)
  BY DEF Inv, InStage, InMemory, Tables
<1>2. Len(syms) \in DOMAIN syms /\ IsSymbol(s) /\ TableOf(mem, s) /\ s.entry = <<>>
  BY <1>1, LastIsSymbol DEF Tables, This
<1>3. AreSymbols(syms') /\ syms = Append(syms', s) BY <1>1, <1>2, LastSymbol
<1>4. mem' = IF d = 0 THEN mem ELSE entry_free(mem, d) BY DEF This
<1> HIDE DEF h, k, s, d
<1>5. d \in Nat /\ s.deflt = d /\ s.hash = <<>>
  <2>1. Reverse(<<>>) = <<>> BY EmptyList, ReverseGrown DEF Reverse
  <2> QED BY <1>2, <2>1 DEF IsSymbol, TableOf, d
<1>6. /\ Sound(mem, Refs(h), TupRefs(h), CellCount(h), carried) /\ Plain(h) /\ Plain(k)
      /\ h.ss = syms /\ k.ss = syms' /\ SameNodes(k, h)
  BY <1>3, ExitPlaces DEF h, k
<1>7. h.ss = Append(k.ss, s) BY <1>3, <1>6
<1>8. /\ TupRefs(h) = TupRefs(k)
      /\ \A x \in Numbered : Holders(h, x) = Holders(k, x) + Times(x, s.entry) + Hit(x, s.deflt)
      /\ CellCount(h) = CellCount(k) + Length(s.hash)
  BY <1>2, <1>6, <1>7, SymbolAppended
<1>9. ASSUME NEW x \in Numbered PROVE Holders(h, x) = Holders(k, x) + Hit(x, d) /\ Holders(k, x) \in Nat
  <2>1. Holders(h, x) = Holders(k, x) + Times(x, <<>>) + Hit(x, d)
    BY <1>2, <1>5, <1>8
  <2>2. Times(x, <<>>) = 0 /\ Holders(k, x) \in Nat /\ Hit(x, d) \in Nat
    BY <1>6, EmptyList, Booked DEF Hit
  <2> QED BY ONLY <2>1, <2>2
<1>10. CellCount(h) = CellCount(k)
  <2>1. Length(<<>>) = 0 /\ CellCount(k) \in Nat BY <1>6, EmptyList, Booked
  <2> QED BY <1>5, <1>8, <2>1
<1>11. Sound(mem', Refs(k), TupRefs(k), CellCount(k), carried) /\ Keeps(mem, mem')
  <2>1. CASE d = 0
    <3>1. ASSUME NEW x \in Numbered PROVE Holders(k, x) = Holders(h, x)
      <4>1. Hit(x, d) = 0 BY <2>1 DEF Hit, Numbered
      <4> QED BY <1>9, <4>1
    <3>2. Refs(k) = Refs(h) BY <1>6, <3>1, RefsSame
    <3>3. mem' = mem /\ Keeps(mem, mem) BY <1>4, <2>1 DEF Keeps
    <3> QED BY <1>6, <1>8, <1>10, <3>2, <3>3
  <2>2. CASE d # 0
    <3>1. d \in Numbered BY <1>5, <2>2 DEF Numbered
    <3>2. Less(Refs(h), d) = Refs(k) /\ Refs(h)[d] > 0
      BY <1>6, <1>9, <3>1, RefsMore
    <3>3. PICK f, g, l : f = Refs(h) /\ g = TupRefs(h) /\ l = CellCount(h)
      OBVIOUS
    <3>4. Sound(mem, f, g, l, carried) /\ d \in Nat /\ f[d] > 0 /\ mem' = entry_free(mem, d)
      BY <1>4, <1>5, <1>6, <2>2, <3>2, <3>3
    <3>5. Sound(mem', Less(f, d), g, l, carried) /\ Keeps(mem, mem')
      BY <3>4, SoundEntFree
    <3> QED BY <1>8, <1>10, <3>2, <3>3, <3>5
  <2> QED BY <2>1, <2>2
<1>12. Tables(mem, syms')
  <2>1. PICK T : syms \in Seq(T) BY <1>1 DEF AreSymbols
  <2>2. \A i \in DOMAIN syms' : i \in DOMAIN syms /\ syms'[i] = syms[i]
    BY <2>1 DEF Front
  <2> QED BY <1>1, <2>2 DEF Tables
<1>13. InStage' /\ InLoop' /\ SetLists' /\ pc # "none" /\ pc' # "none"
  BY <1>3, ExitStage
<1>14. InMemory'
  <2>1. Sound(mem', Refs(Places'), TupRefs(Places'), CellCount(Places'), carried)
    BY <1>11 DEF k
  <2>2. carried' = carried OBVIOUS
  <2> QED BY <1>11, <1>12, <1>13, <2>1, <2>2, RenewedSymbols
<1> QED BY <1>13, <1>14, <1>11 DEF Inv, Onward

\* symbol_exit, one entry, one symbol or the end of them.
LEMMA SymbolExitStep ==
  ASSUME Inv, symbol_exit
  PROVE  Onward
<1>1. pc = "symbols" /\ UNCHANGED <<tree, cur, carried>> BY DEF symbol_exit
<1>2. \/ /\ syms # <<>> /\ This.entry # <<>>
         /\ mem' = hash_elem_free(entry_free(mem, Last(This.entry)))
         /\ syms' = [syms EXCEPT ![Len(syms)] = OneEntryLess(@)] /\ pc' = pc
      \/ /\ syms # <<>> /\ This.entry = <<>>
         /\ mem' = IF This.deflt = 0 THEN mem ELSE entry_free(mem, This.deflt)
         /\ syms' = Front(syms) /\ pc' = pc
      \/ syms = <<>> /\ pc' = "stores" /\ UNCHANGED <<mem, syms>>
  BY DEF symbol_exit
<1> QED BY <1>1, <1>2, LastEntryFreed, LastSymbolFreed, PhaseOver

\* ---- a session starts and ends

\* Without symbols there are no places in them.
LEMMA NoSymbols ==
  /\ AreSymbols(<<>>)
  /\ \A x : Cardinality(EntryPlaces(<<>>, x)) = 0 /\ Cardinality(DefaultPlaces(<<>>, x)) = 0
  /\ Cardinality(HashPlaces(<<>>)) = 0
<1>1. AreSymbols(<<>>)
  <2>1. PICK T : T = {} OBVIOUS
  <2>2. <<>> \in Seq(T) /\ \A s \in T : IsSymbol(s) BY <2>1
  <2> QED BY <2>2 DEF AreSymbols
<1>2. Cardinality({}) = 0 BY FS_EmptySet
<1>3. (\A x : EntryPlaces(<<>>, x) = {} /\ DefaultPlaces(<<>>, x) = {}) /\ HashPlaces(<<>>) = {}
  BY DEF EntryPlaces, DefaultPlaces, HashPlaces
<1> QED BY <1>1, <1>2, <1>3

\* Nothing holds anything.
NoPlaces == [tr |-> Nothing, he |-> Nothing, ls |-> <<>>, rd |-> <<>>, ss |-> <<>>]
Zero     == [x \in Nat |-> 0]

\* A session begins with one symbol that holds nothing.
LEMMA NothingHeld ==
  ASSUME NEW k, PlacesAre(k, Nothing, Nothing, <<>>, <<>>, <<symbol_new(Internal, "VAR", << <<>> >>, 0)>>)
  PROVE  /\ Refs(k) = Zero /\ TupRefs(k) = Zero /\ CellCount(k) = 0 /\ AreSymbols(k.ss)
         /\ \A m : Tables(m, k.ss)
<1> DEFINE h == NoPlaces
           r == symbol_new(Internal, "VAR", << <<>> >>, 0)
<1>1. IsSymbol(r) /\ r.entry = <<>> /\ r.hash = <<>> /\ r.deflt = 0 /\ \A m : TableOf(m, r)
  <2>1. 0 \in Nat OBVIOUS
  <2> QED BY <2>1, NewSymbol
<1>2. <<>> \in Lists /\ Length(<<>>) = 0 /\ (\A x : Times(x, <<>>) = 0)
  BY EmptyList
<1>3. h.tr = Nothing /\ h.he = Nothing /\ h.ls = <<>> /\ h.rd = <<>> /\ h.ss = <<>>
  BY DEF NoPlaces
<1>4. k.tr = Nothing /\ k.he = Nothing /\ k.ls = <<>> /\ k.rd = <<>> /\ k.ss = <<r>>
  BY DEF PlacesAre
<1>5. <<r>> = Append(<<>>, r) OBVIOUS
<1> HIDE DEF r, h
<1>6. Plain(h) BY <1>2, <1>3, EmptyPlaces, NoSymbols DEF Plain
<1>7. SameNodes(h, k) /\ k.ss = Append(h.ss, r)
  BY <1>3, <1>4, <1>5 DEF SameNodes
<1>8. /\ Plain(k) /\ TupRefs(k) = TupRefs(h)
      /\ \A x \in Numbered : Holders(k, x) = Holders(h, x) + Times(x, r.entry) + Hit(x, r.deflt)
      /\ CellCount(k) = CellCount(h) + Length(r.hash)
  BY <1>1, <1>6, <1>7, SymbolAppended
<1>9. Nothing.tup = <<>> /\ Nothing.ent = <<>> /\ Nothing.cells = <<>>
  BY DEF Nothing
<1>10. ASSUME NEW x \in Numbered PROVE Holders(k, x) = 0
  <2>1. Holders(h, x) = 0 BY <1>2, <1>3, <1>9, NoSymbols DEF Holders
  <2>2. Holders(k, x) = Holders(h, x) + Times(x, <<>>) + Hit(x, 0) BY <1>1, <1>8
  <2>3. Times(x, <<>>) = 0 /\ Hit(x, 0) = 0 BY <1>2 DEF Hit, Numbered
  <2> QED BY ONLY <2>1, <2>2, <2>3
<1>11. Refs(k) = Zero BY <1>10 DEF Refs, Zero, Numbered
<1>12. TupRefs(k) = Zero BY <1>2, <1>4, <1>9 DEF TupRefs, Zero
<1>13. CellCount(k) = 0
  <2>1. CellCount(h) = 0 BY <1>2, <1>3, <1>9, NoSymbols DEF CellCount
  <2> QED BY <1>1, <1>2, <1>8, <2>1
<1>14. AreSymbols(k.ss) BY <1>8 DEF Plain
<1>15. \A m : Tables(m, k.ss) BY <1>1, <1>4 DEF Tables
<1> QED BY <1>11, <1>12, <1>13, <1>14, <1>15

\* The memory of a new session.
LEMMA FreshSound ==
  ASSUME NEW m, m.elem = EmptyPool, m.numb = EmptyPool, m.blk.count \in Int
  PROVE  Sound(FreshMem(m), Zero, Zero, 0, m.blk.count)
<1> DEFINE n == FreshMem(m)
           b == m.blk.count
<1>1. /\ n.blk = blk_init(m.blk) /\ n.elem = EmptyPool /\ n.numb = numb_init(EmptyPool)
      /\ n.tup = <<>> /\ n.ent = <<>> /\ Shape(n)
  BY DEF FreshMem, Shape
<1> HIDE DEF n
<1>2. /\ DOMAIN <<>> = {} /\ Cardinality({}) = 0 /\ IsFiniteSet({})
      /\ ElemPlaces(<<>>) = {} /\ NumbPlaces(<<>>) = {} /\ Numbers(<<>>) = {}
  BY FS_EmptySet DEF ElemPlaces, NumbPlaces, Numbers
<1>3. Objects(<<>>, <<>>) BY <1>2 DEF Objects
<1>4. Counted(<<>>, <<>>, Zero, Zero)
  <2>1. Zero \in [Nat -> Nat] /\ \A x \in Nat : Zero[x] = 0 BY DEF Zero
  <2> QED BY <1>2, <2>1 DEF Counted
<1>5. Good(EmptyPool, 0, 0) BY DEF Good, Pool, Conserved, EmptyPool
<1>6. Good(n.blk, 0, b) /\ Chained(n.blk)
  <2>1. n.blk = [free |-> 0, cells |-> 0, block |-> 0, count |-> b]
    BY <1>1 DEF blk_init, EmptyPool
  <2>2. n.blk \in Pool BY <2>1 DEF Pool
  <2> QED BY <2>1, <2>2 DEF Good, Conserved, Chained
<1>7. Good(n.numb, 4, 0)
  <2>1. [EmptyPool EXCEPT !.count = EmptyPool.count] = EmptyPool
    BY DEF EmptyPool
  <2>2. n.numb = Drawn(EmptyPool, NUMB_STORE_SIZE, 4)
    BY <1>1, <2>1 DEF numb_init, numb_new
  <2>3. NUMB_STORE_SIZE \in Nat \ {0} /\ 0 \in Nat /\ 0 \in Int /\ 4 \in Nat
    BY StoreSizes
  <2>4. Good(Drawn(EmptyPool, NUMB_STORE_SIZE, 4), 0 + 4, 0)
    BY <1>5, <2>3, PoolDrawn
  <2>5. 0 + 4 = 4 OBVIOUS
  <2> QED BY <2>2, <2>4, <2>5
<1>8. /\ Cardinality(DOMAIN n.tup) + 0 = 0 /\ Cardinality(ElemPlaces(n.tup)) = 0
      /\ 4 + Cardinality(NumbPlaces(n.tup)) + Cardinality(Numbers(n.ent)) = 4
  <2>1. Cardinality(DOMAIN n.tup) = 0 /\ Cardinality(ElemPlaces(n.tup)) = 0
    BY <1>1, <1>2
  <2>2. Cardinality(NumbPlaces(n.tup)) = 0 /\ Cardinality(Numbers(n.ent)) = 0
    BY <1>1, <1>2
  <2> QED BY ONLY <2>1, <2>2
<1>9. IsMem(n) /\ Counted(n.tup, n.ent, Zero, Zero)
  BY <1>1, <1>3, <1>4 DEF IsMem
<1>10. Good(n.elem, 0, 0) BY <1>1, <1>5
<1>11. Sound(n, Zero, Zero, 0, b) BY <1>6, <1>7, <1>8, <1>9, <1>10 DEF Sound
<1> QED BY <1>11 DEF n

\* zpl_read starts the stores.
LEMMA StartStep ==
  ASSUME Inv, Start
  PROVE  Onward
<1>1. /\ pc = "none" /\ mem' = FreshMem(mem) /\ carried' = mem.blk.count /\ pc' = "args"
      /\ syms' = <<symbol_new(Internal, "VAR", << <<>> >>, 0)>> /\ tree' = Nothing /\ cur' = NoStmt
  BY DEF Start
<1>2. mem.elem = EmptyPool /\ mem.numb = EmptyPool /\ mem.blk.count \in Int
  BY <1>1 DEF Inv, InMemory, NoMemory
<1>3. Sound(mem', Zero, Zero, 0, carried') BY <1>1, <1>2, FreshSound
<1>4. ListHeld' = <<>> /\ ReadHeld' = <<>> /\ cur'.held = Nothing
  BY <1>1, EmptyPlaces DEF ListHeld, ReadHeld
<1> DEFINE k == Places'
<1>5. PlacesAre(k, Nothing, Nothing, <<>>, <<>>, <<symbol_new(Internal, "VAR", << <<>> >>, 0)>>) /\ k.ss = syms'
  BY <1>1, <1>4, PlacesThen DEF PlacesAre
<1> HIDE DEF k
<1>6. Refs(k) = Zero /\ TupRefs(k) = Zero /\ CellCount(k) = 0 /\ AreSymbols(syms') /\ Tables(mem', syms')
  BY <1>5, NothingHeld
<1>7. InMemory' BY <1>1, <1>3, <1>6 DEF InMemory, Ledger, Tables, k
<1>8. InStage' BY <1>1, <1>6, EmptyPlaces DEF InStage, Stages, Working
<1>9. InLoop' /\ SetLists' BY <1>1 DEF InLoop, SetLists, Looping, NoStmt
<1>10. Keeps(mem, mem') BY <1>1 DEF Inv, InMemory, NoMemory, Keeps
<1> QED BY <1>7, <1>8, <1>9, <1>10 DEF Inv, Onward

\* stores_exit, when nothing is left to free.
LEMMA StoresExitStep ==
  ASSUME Inv, stores_exit
  PROVE  Onward
<1>1. /\ pc = "stores" /\ pc' = "none" /\ cur' = NoStmt /\ UNCHANGED <<syms, tree>>
      /\ mem' = [blk |-> blk_exit(mem.blk), elem |-> elem_exit(mem.elem), numb |-> numb_exit(mem.numb),
                 tup |-> <<>>, ent |-> <<>>]
  BY DEF stores_exit
<1>2. syms = <<>> /\ IsLeft(tree) BY <1>1 DEF Inv, InStage
<1>3. mem.blk.count \in Int
  <2>1. Sound(mem, Refs(Places), TupRefs(Places), CellCount(Places), carried)
    BY <1>1, TheBooks
  <2>2. mem.blk \in Pool BY <2>1 DEF Sound, Good
  <2> QED BY <2>2 DEF Pool
<1>4. InMemory'
  BY <1>1, <1>2, <1>3 DEF InMemory, NoMemory, blk_exit, elem_exit, numb_exit
<1>5. InStage'
  BY <1>1, <1>2, EmptyPlaces, NoSymbols DEF InStage, Stages, Working
<1>6. InLoop' /\ SetLists' BY <1>1 DEF InLoop, SetLists, Looping, NoStmt
<1>7. Keeps(mem, mem') BY <1>1 DEF Keeps
<1> QED BY <1>4, <1>5, <1>6, <1>7 DEF Inv, Onward

\* Before the first session there is no memory.
LEMMA AtFirst ==
  ASSUME Init
  PROVE  Inv
<1>1. InStage BY EmptyPlaces, NoSymbols DEF Init, InStage, Stages, Working
<1>2. InLoop /\ SetLists BY DEF Init, InLoop, SetLists, Looping, NoStmt
<1>3. InMemory BY DEF Init, InMemory, NoMemory, EmptyPool
<1> QED BY <1>1, <1>2, <1>3 DEF Inv

\* What holds is kept by every action of every statement.
LEMMA OneStep ==
  ASSUME Inv, Next
  PROVE  Onward
<1>1. CASE Start BY <1>1, StartStep
<1>2. ASSUME NEW p \in Params, zpl_add_parameter(p) PROVE Onward
  BY <1>2, ParamStep
<1>3. CASE Load BY <1>3, LoadKeeps
<1>4. ASSUME NEW d \in Decls, Declare(d) PROVE Onward BY <1>4, DeclareKeeps
<1>5. CASE EntryNode BY <1>5, EntryNodeStep
<1>6. CASE MatrixError BY <1>6, MatrixErrorKeeps
<1>7. CASE ReadEntry BY <1>7, ReadEntryStep
<1>8. CASE ListNode BY <1>8, ListNodeKeeps
<1>9. CASE InFront BY <1>9, InFrontStep
<1>10. CASE TupleList BY <1>10, TupleListKeeps
<1>11. CASE Default BY <1>11, DefaultStep
<1>12. CASE i_newsym_para1 BY <1>12, NewPara1Step
<1>13. CASE i_newsym_set2 BY <1>13, NewSet2Step
<1>14. CASE i_newsym_each BY <1>14, NewEachStep
<1>15. CASE AddByList BY <1>15, AddByListStep
<1>16. CASE AddByIndex BY <1>16, AddByIndexStep
<1>17. CASE AddPara2 BY <1>17, AddPara2Step
<1>18. CASE AddSet1 BY <1>18, AddSet1Step
<1>19. CASE AddVar BY <1>19, AddVarStep
<1>20. CASE Finish BY <1>20, FinishStep
<1>21. ASSUME NEW s \in ToSet(syms), NEW key \in Keys, Use(s, key) PROVE Onward
  BY <1>21, UseKeeps
<1>22. CASE EndOfProgram BY <1>22, EndOfProgramKeeps
<1>23. CASE prog_free BY <1>23, ProgFreeStep
<1>24. CASE symbol_exit BY <1>24, SymbolExitStep
<1>25. CASE stores_exit BY <1>25, StoresExitStep
<1> QED BY <1>1, <1>2, <1>3, <1>4, <1>5, <1>6, <1>7, <1>8, <1>9, <1>10, <1>11, <1>12, <1>13,
     <1>14, <1>15, <1>16, <1>17, <1>18, <1>19, <1>20, <1>21, <1>22, <1>23, <1>24, <1>25 DEF Next

\* A step that changes nothing changes no place.
LEMMA NoStep ==
  ASSUME Inv, UNCHANGED vars
  PROVE  Inv'
<1>1. UNCHANGED <<mem, syms, tree, cur, pc, carried>> BY DEF vars
<1>2. Places' = Places BY <1>1 DEF Places, ListHeld, ReadHeld
<1>3. InMemory' BY <1>1, <1>2 DEF Inv, InMemory, Ledger, NoMemory
<1>4. InStage' /\ InLoop' /\ SetLists'
  BY ZenonT(60), <1>1 DEF Inv, InStage, InLoop, SetLists, This
<1> QED BY <1>3, <1>4 DEF Inv

\* The inductive invariant holds in every session, for all programs, numbers of
\* sessions and sizes of the stores: where a statement is says what it holds
\* (InStage), a loop fills the symbol it made (InLoop), lists of a set hold
\* sets (SetLists), and the ledger of the places that hold references is what
\* the counts of tuple.c, entry.c, list.c, hash.c and the three stores say,
\* while every table agrees with its hash (InMemory).
THEOREM Accounted == Spec => []Inv
<1>1. Init => Inv BY AtFirst
<1>2. Inv /\ [Next]_vars => Inv' BY OneStep, NoStep DEF Onward
<1> QED BY <1>1, <1>2, PTL DEF Spec

\* No entry outlives its tuple, every entry has a reference and a value of a
\* known type, and no symbol has more entries than room for them or an entry
\* that was freed (symbol_add_entry, entry_free, tuple_free).
THEOREM EntriesTyped == Spec => []TypeOK
<1>1. Inv => TypeOK
  <2> SUFFICES ASSUME Inv PROVE TypeOK OBVIOUS
  <2>1. pc \in Stages BY DEF Inv, InStage
  <2>2. CASE pc = "none"
    BY <2>1, <2>2 DEF Inv, InMemory, NoMemory, TypeOK, Stages
  <2>3. CASE pc # "none"
    <3>1. Objects(mem.tup, mem.ent) /\ \A i \in DOMAIN syms : TableOf(mem, syms[i])
      BY <2>3, TheBooks DEF Sound, IsMem, Inv, InMemory
    <3>2. ASSUME NEW e \in DOMAIN mem.ent
          PROVE  /\ mem.ent[e].tuple \in DOMAIN mem.tup /\ mem.ent[e].refc > 0
                 /\ mem.ent[e].type \in {"NUMB", "STRG", "SET", "VAR"}
      <4>1. IsEnt(mem.ent[e]) /\ mem.ent[e].tuple \in DOMAIN mem.tup
        BY <3>1 DEF Objects
      <4>0. PICK r \in Nat \ {0}, t \in Nat, type \in {"NUMB", "STRG", "SET", "VAR"} :
              \E v : mem.ent[e] = [refc |-> r, tuple |-> t, type |-> type, val |-> v]
        BY <4>1 DEF IsEnt
      <4>2. PICK v : mem.ent[e] = [refc |-> r, tuple |-> t, type |-> type, val |-> v]
        BY <4>0
      <4>3. mem.ent[e].refc = r /\ mem.ent[e].type = type BY ONLY <4>2
      <4> QED BY <4>1, <4>3
    <3>3. \A i \in DOMAIN syms : /\ Len(syms[i].entry) <= syms[i].size
                                 /\ ToSet(syms[i].entry) \subseteq DOMAIN mem.ent
      BY <3>1 DEF TableOf, ToSet
    <3> QED BY <2>1, <3>2, <3>3 DEF TypeOK, Stages
  <2> QED BY <2>2, <2>3
<1> QED BY <1>1, Accounted, PTL

\* The reference count of every entry and tuple is the number of places that
\* hold it, and the cells in use of blkmem.c, elem.c and numbgmp.c are those of
\* the live objects, in the middle of every statement, after an error and while
\* the session is taken down: no use after free, no double free, and no leak but
\* of what the code leaves in abandoned frames.
THEOREM CellsAndReferencesExact == Spec => []MemoryExact
<1>1. Inv => MemoryExact
  <2> SUFFICES ASSUME Inv PROVE MemoryExact OBVIOUS
  <2>1. CASE pc = "none"
    BY <2>1 DEF Inv, InMemory, NoMemory, MemoryExact, RefsExact, PoolsExact
  <2>2. CASE pc # "none"
    <3> DEFINE h == Places
    <3>1. Sound(mem, Refs(h), TupRefs(h), CellCount(h), carried) /\ Plain(h)
      BY <2>2, TheBooks
    <3>2. h.tr = tree /\ h.he = cur.held /\ h.ls = ListHeld /\ h.rd = ReadHeld /\ h.ss = syms
      BY PlacesNow DEF PlacesAre
    <3> HIDE DEF h
    <3>3. Counted(mem.tup, mem.ent, Refs(h), TupRefs(h)) /\ Objects(mem.tup, mem.ent)
      BY <3>1 DEF Sound, IsMem
    <3>4. ASSUME NEW e \in DOMAIN mem.ent PROVE mem.ent[e].refc = EntryHolders(e)
      <4>1. e \in Numbered /\ e \in Nat BY <3>3 DEF Objects, Numbered
      <4>2. mem.ent[e].refc = Refs(h)[e] /\ Refs(h)[e] = Holders(h, e)
        BY <3>1, <3>3, <4>1, Booked DEF Counted
      <4>3. Holders(h, e) = EntryHolders(e)
        BY <3>2 DEF Holders, EntryHolders, Holds, Times
      <4> QED BY <4>2, <4>3
    <3>5. ASSUME NEW t \in DOMAIN mem.tup PROVE mem.tup[t].refc = TupleHolders(t)
      <4>1. t \in Nat BY <3>3 DEF Objects
      <4>2. mem.tup[t].refc = TupRefs(h)[t] + Cardinality(Users(mem.ent, t))
        BY <3>3, <4>1 DEF Counted
      <4>3. TupRefs(h)[t] = Times(t, tree.tup) + Times(t, cur.held.tup)
        BY <3>2, <4>1 DEF TupRefs
      <4> QED BY <4>2, <4>3 DEF TupleHolders, Holds, Times
    <3>6. CellCount(h) = ListCells + Cardinality(HashPlaces(syms))
      BY <3>2 DEF CellCount, ListCells, Length
    <3>7. PoolsExact
      <4>1. /\ Conserved(mem.blk, Cardinality(DOMAIN mem.tup) + CellCount(h), carried)
            /\ Conserved(mem.elem, Cardinality(ElemPlaces(mem.tup)), 0)
            /\ Conserved(mem.numb, 4 + Cardinality(NumbPlaces(mem.tup)) + Cardinality(Numbers(mem.ent)), 0)
        BY <3>1 DEF Sound, Good
      <4>2. Cardinality(DOMAIN mem.tup) + CellCount(h)
              = Cardinality(DOMAIN mem.tup) + ListCells + Cardinality(HashPlaces(syms))
        <5>1. Cardinality(DOMAIN mem.tup) \in Nat BY <3>1, Cells
        <5>2. ListCells \in Nat /\ Cardinality(HashPlaces(syms)) \in Nat
          <6>1. /\ NodeCells(h) /\ Cardinality(HashPlaces(h.ss)) \in Nat
            <7>1. 1 \in Numbered BY DEF Numbered
            <7> QED BY <3>1, <7>1, Parts
          <6>2. /\ Len(tree.cells) \in Nat /\ Len(cur.held.cells) \in Nat /\ Len(ListHeld) \in Nat
                /\ Len(ReadHeld) \in Nat /\ Cardinality(HashPlaces(syms)) \in Nat
            BY <3>2, <6>1 DEF Length, NodeCells
          <6>3. \A a, b, c, d \in Nat : a + b + c + d \in Nat OBVIOUS
          <6>4. Len(tree.cells) + Len(cur.held.cells) + Len(ListHeld) + Len(ReadHeld) \in Nat
            BY ONLY <6>2, <6>3
          <6> QED BY ONLY <6>2, <6>4 DEF ListCells
        <5> QED BY <3>6, <5>1, <5>2
      <4> QED BY <4>1, <4>2 DEF PoolsExact
    <3> QED BY <3>4, <3>5, <3>7 DEF MemoryExact, RefsExact
  <2> QED BY <2>1, <2>2
<1> QED BY <1>1, Accounted, PTL

\* The array of entries and the hash of a symbol say the same: they mirror each
\* other, no key comes twice, every key is in the index set and every value has
\* the type of the symbol (symbol_add_entry and its callers); for all growth
\* steps of the array, all declarations and all errors between.
THEOREM TablesAgree == Spec => []TableOK
<1>1. Inv => TableOK
  <2> SUFFICES ASSUME Inv, NEW i \in DOMAIN syms
               PROVE  /\ syms[i].hash = Reverse(syms[i].entry)
                      /\ IsInjective([j \in DOMAIN syms[i].entry |-> Key(mem, syms[i].entry[j])])
                      /\ \A e \in ToSet(syms[i].entry) : /\ Key(mem, e) \in ToSet(syms[i].iset)
                                                         /\ mem.ent[e].type = syms[i].type
    BY DEF TableOK
  <2>1. TableOf(mem, syms[i]) BY DEF Inv, InMemory
  <2>2. IsInjective([j \in DOMAIN syms[i].entry |-> Key(mem, syms[i].entry[j])])
    BY <2>1 DEF IsInjective, TableOf
  <2> QED BY <2>1, <2>2 DEF TableOf, ToSet
<1> QED BY <1>1, Accounted, PTL

\* Rounding to the integers inside keeps the integers the bounds admit.
LEMMA Rounded ==
  ASSUME NEW x \in Int, NEW n \in Int
  PROVE  /\ (2 * ((x + 1) \div 2)) % 2 = 0 /\ (2 * (x \div 2)) % 2 = 0
         /\ 2 * ((x + 1) \div 2) <= 2 * n <=> x <= 2 * n
         /\ 2 * n <= 2 * (x \div 2) <=> 2 * n <= x
OBVIOUS

\* A bound in halves; infinite ones have no value.
IsBound(b) == b[2] \in Int /\ (b[1] # "value" => b[2] = 0)
\* So does rounding the bounds of an integer variable, infinite ones included.
LEMMA BoundsRounded ==
  ASSUME NEW low, IsBound(low), NEW up, IsBound(up)
  PROVE  /\ Ceil(low)[2] % 2 = 0 /\ Floor(up)[2] % 2 = 0
         /\ \A n \in Int : Admits(Ceil(low), Floor(up), n) <=> Admits(low, up, n)
<1>1. /\ Ceil(low)[2] % 2 = 0 /\ Ceil(low)[1] = low[1]
      /\ \A n \in Int : low[1] = "value" => (Ceil(low)[2] <= 2 * n <=> low[2] <= 2 * n)
  <2>1. CASE low[1] = "value"
    <3>1. Ceil(low)[1] = "value" /\ Ceil(low)[2] = 2 * ((low[2] + 1) \div 2)
      BY <2>1 DEF Ceil
    <3>2. low[2] \in Int BY DEF IsBound
    <3>3. \A n \in Int : 2 * ((low[2] + 1) \div 2) <= 2 * n <=> low[2] <= 2 * n
      BY <3>2, Rounded
    <3>4. (2 * ((low[2] + 1) \div 2)) % 2 = 0 BY <3>2, 0 \in Int, Rounded
    <3> QED BY <2>1, <3>1, <3>3, <3>4
  <2>2. CASE low[1] # "value" BY <2>2 DEF Ceil, IsBound
  <2> QED BY <2>1, <2>2
<1>2. /\ Floor(up)[2] % 2 = 0 /\ Floor(up)[1] = up[1]
      /\ \A n \in Int : up[1] = "value" => (2 * n <= Floor(up)[2] <=> 2 * n <= up[2])
  <2>1. CASE up[1] = "value"
    <3>1. Floor(up)[1] = "value" /\ Floor(up)[2] = 2 * (up[2] \div 2)
      BY <2>1 DEF Floor
    <3>2. up[2] \in Int BY DEF IsBound
    <3>3. \A n \in Int : 2 * n <= 2 * (up[2] \div 2) <=> 2 * n <= up[2]
      BY <3>2, Rounded
    <3>4. (2 * (up[2] \div 2)) % 2 = 0 BY <3>2, 0 \in Int, Rounded
    <3> QED BY <2>1, <3>1, <3>3, <3>4
  <2>2. CASE up[1] # "value" BY <2>2 DEF Floor, IsBound
  <2> QED BY <2>1, <2>2
<1> QED BY <1>1, <1>2 DEF Admits

\* The bounds that i_newsym_var stores for an integer variable are integers and
\* admit the integers that the bounds written admit; the bounds of a real
\* variable are those written.
THEOREM SameIntegers == Spec => []IntegerPoints
<1>1. Inv => IntegerPoints
  <2> SUFFICES ASSUME Inv, pc = "each", cur.decl.kind = "var", NEW e \in ToSet(This.entry)
               PROVE  IF cur.decl.class = "con" THEN mem.ent[e].val = <<cur.decl.lower, cur.decl.upper>>
                      ELSE /\ \A i \in 1 .. 2 : mem.ent[e].val[i][2] % 2 = 0
                           /\ \A n \in -3 .. 3 : Admits(mem.ent[e].val[1], mem.ent[e].val[2], n)
                                                 <=> Admits(cur.decl.lower, cur.decl.upper, n)
    BY DEF IntegerPoints
  <2>1. PICK d : d = cur.decl OBVIOUS
  <2>2. d \in Decls /\ d.kind = "var" /\ mem.ent[e].val = <<Lower(d), Upper(d)>>
    BY <2>1 DEF Inv, InStage, InLoop, Working, Looping, ToSet
  <2>3. IsBound(d.lower) /\ IsBound(d.upper)
    BY <2>2, SymbolTableAssumption DEF IsDecl, IsBound
  <2>4. CASE d.class = "con" BY <2>1, <2>2, <2>4 DEF Lower, Upper
  <2>5. CASE d.class # "con"
    <3>1. mem.ent[e].val = <<Ceil(d.lower), Floor(d.upper)>>
      BY <2>2, <2>5 DEF Lower, Upper
    <3>2. mem.ent[e].val[1] = Ceil(d.lower) /\ mem.ent[e].val[2] = Floor(d.upper)
      BY <3>1
    <3>3. /\ Ceil(d.lower)[2] % 2 = 0 /\ Floor(d.upper)[2] % 2 = 0
          /\ \A n \in Int : Admits(Ceil(d.lower), Floor(d.upper), n) <=> Admits(d.lower, d.upper, n)
      BY <2>3, BoundsRounded
    <3>4. \A i \in 1 .. 2 : mem.ent[e].val[i][2] % 2 = 0 BY <3>2, <3>3
    <3>5. \A n \in -3 .. 3 : Admits(mem.ent[e].val[1], mem.ent[e].val[2], n) <=> Admits(d.lower, d.upper, n)
      BY <3>2, <3>3
    <3> QED BY <2>1, <2>5, <3>4, <3>5
  <2> QED BY <2>4, <2>5
<1> QED BY <1>1, Accounted, PTL
-----------------------------------------------------------------------------
\* ---- the table as a partial function, the promise of Bindings

\* The parts of the refinement mapping, for any memory and list of symbols.
BoundIn(m, s) == [key \in {Key(m, e) : e \in ToSet(s.entry)} |-> m.ent[hash_lookup_entry(m, s.hash, key)].val]
SymbolIn(ss, name) == ss[SelectInSeq(ss, LAMBDA s : s.name = name)]
TableIn(m, ss) == [n \in {s.name : s \in ToSet(ss)} |-> BoundIn(m, SymbolIn(ss, n))]

\* The mapping is made of its parts.
LEMMA TableNow == Table = IF pc = "symbols" THEN <<>> ELSE TableIn(mem, syms)
BY DEF Table, Bound, Symbol, TableIn, BoundIn, SymbolIn

\* The same after a step.
LEMMA TableThen == Table' = IF pc' = "symbols" THEN <<>> ELSE TableIn(mem', syms')
BY DEF Table, Bound, Symbol, TableIn, BoundIn, SymbolIn, SelectInSeq, hash_lookup_entry, Key

\* Without symbols the table is empty.
LEMMA EmptyTable ==
  ASSUME NEW m
  PROVE  TableIn(m, <<>>) = <<>>
BY DEF TableIn, ToSet

\* A lookup that succeeds returns an entry of the chain with the key.
LEMMA FoundAt ==
  ASSUME NEW m, NEW chain \in Lists, NEW key, NEW i \in DOMAIN chain, Key(m, chain[i]) = key
  PROVE  \E j \in DOMAIN chain : hash_lookup_entry(m, chain, key) = chain[j] /\ Key(m, chain[j]) = key
<1> DEFINE I == {k \in 1 .. Len(chain) : Key(m, chain[k]) = key}
           n == IF I # {} THEN Min(I) ELSE 0
<1>1. hash_lookup_entry(m, chain, key) = IF n = 0 THEN 0 ELSE chain[n]
  BY DEF hash_lookup_entry, SelectInSeq
<1>2. I # {} /\ I \in SUBSET Nat BY DEF Lists
<1>3. Min(I) \in I
  <2> HIDE DEF I
  <2>1. PICK k \in I : \A j \in I : k <= j BY <1>2, Least
  <2> QED BY <2>1 DEF Min
<1>4. n = Min(I) /\ n \in DOMAIN chain /\ Key(m, chain[n]) = key /\ n # 0
  BY <1>2, <1>3 DEF Lists
<1> QED BY <1>1, <1>4

\* The hash of a table finds its entries.
LEMMA HashFinds ==
  ASSUME NEW m, NEW s, IsSymbol(s), TableOf(m, s), NEW j \in DOMAIN s.entry
  PROVE  hash_lookup_entry(m, s.hash, Key(m, s.entry[j])) = s.entry[j]
<1>1. s.entry \in Lists /\ s.hash \in Lists /\ s.hash = Reverse(s.entry)
      /\ \A i, k \in DOMAIN s.entry : Key(m, s.entry[i]) = Key(m, s.entry[k]) => i = k
  BY DEF IsSymbol, TableOf
<1>2. /\ DOMAIN s.entry = 1 .. Len(s.entry) /\ Len(s.entry) \in Nat /\ DOMAIN s.hash = 1 .. Len(s.entry)
      /\ \A i \in 1 .. Len(s.entry) : s.hash[i] = s.entry[(Len(s.entry) - i) + 1]
  BY <1>1 DEF Lists, Reverse
<1>3. (Len(s.entry) - j) + 1 \in DOMAIN s.hash /\ s.hash[(Len(s.entry) - j) + 1] = s.entry[j]
  BY <1>2, MirrorAt
<1>4. PICK i \in DOMAIN s.hash : /\ hash_lookup_entry(m, s.hash, Key(m, s.entry[j])) = s.hash[i]
                                 /\ Key(m, s.hash[i]) = Key(m, s.entry[j])
  BY <1>1, <1>3, FoundAt
<1>5. (Len(s.entry) - i) + 1 \in DOMAIN s.entry /\ s.hash[i] = s.entry[(Len(s.entry) - i) + 1]
  <2>1. i \in 1 .. Len(s.entry) BY <1>2
  <2>2. (Len(s.entry) - i) + 1 \in 1 .. Len(s.entry) BY ONLY <1>2, <2>1
  <2> QED BY <1>2, <2>1, <2>2
<1> QED BY <1>1, <1>4, <1>5

\* What a symbol binds: the keys of its entries to their values.
LEMMA BoundAt ==
  ASSUME NEW m, NEW s, IsSymbol(s), TableOf(m, s)
  PROVE  /\ DOMAIN BoundIn(m, s) = {Key(m, s.entry[j]) : j \in DOMAIN s.entry}
         /\ \A j \in DOMAIN s.entry : BoundIn(m, s)[Key(m, s.entry[j])] = m.ent[s.entry[j]].val
         /\ BoundIn(m, s) = [key \in DOMAIN BoundIn(m, s) |-> BoundIn(m, s)[key]]
<1>1. \A j \in DOMAIN s.entry : hash_lookup_entry(m, s.hash, Key(m, s.entry[j])) = s.entry[j]
  BY HashFinds
<1>2. ToSet(s.entry) = {s.entry[j] : j \in DOMAIN s.entry} BY DEF ToSet
<1> QED BY <1>1, <1>2 DEF BoundIn

\* A table that is kept binds what it bound.
LEMMA BoundKept ==
  ASSUME NEW m, NEW n, Keeps(m, n), NEW s, IsSymbol(s), TableOf(m, s), TableOf(n, s)
  PROVE  BoundIn(n, s) = BoundIn(m, s)
<1>1. \A j \in DOMAIN s.entry : Key(n, s.entry[j]) = Key(m, s.entry[j]) /\ n.ent[s.entry[j]].val = m.ent[s.entry[j]].val
  BY DEF TableOf, Keeps
<1> DEFINE f == BoundIn(m, s)
           g == BoundIn(n, s)
<1>2. /\ DOMAIN f = {Key(m, s.entry[j]) : j \in DOMAIN s.entry}
      /\ \A j \in DOMAIN s.entry : f[Key(m, s.entry[j])] = m.ent[s.entry[j]].val
      /\ f = [key \in DOMAIN f |-> f[key]]
  BY BoundAt
<1>3. /\ DOMAIN g = {Key(n, s.entry[j]) : j \in DOMAIN s.entry}
      /\ \A j \in DOMAIN s.entry : g[Key(n, s.entry[j])] = n.ent[s.entry[j]].val
      /\ g = [key \in DOMAIN g |-> g[key]]
  BY BoundAt
<1> HIDE DEF f, g
<1>4. DOMAIN f = DOMAIN g /\ \A key \in DOMAIN f : f[key] = g[key]
  BY <1>1, <1>2, <1>3
<1>5. f = g BY <1>2, <1>3, <1>4
<1> QED BY <1>5 DEF f, g

\* A table that got an entry binds one key more.
LEMMA BoundGrown ==
  ASSUME NEW m, NEW n, Keeps(m, n), NEW s, IsSymbol(s), TableOf(m, s),
         NEW r, IsSymbol(r), TableOf(n, r), NEW e \in Numbered, r.entry = Append(s.entry, e)
  PROVE  /\ Key(n, e) \notin DOMAIN BoundIn(m, s)
         /\ BoundIn(n, r) = With(BoundIn(m, s), Key(n, e), n.ent[e].val)
<1> DEFINE f == BoundIn(m, s)
           g == BoundIn(n, r)
           k == Len(s.entry) + 1
<1>1. s.entry \in Lists /\ r.entry \in Lists BY DEF IsSymbol
<1>2. /\ DOMAIN r.entry = DOMAIN s.entry \cup {k} /\ k \notin DOMAIN s.entry
      /\ r.entry[k] = e /\ \A i \in DOMAIN s.entry : r.entry[i] = s.entry[i]
  BY <1>1, AppendAt
<1> HIDE DEF k
<1>3. \A j \in DOMAIN s.entry : Key(n, s.entry[j]) = Key(m, s.entry[j]) /\ n.ent[s.entry[j]].val = m.ent[s.entry[j]].val
  <2>1. \A j \in DOMAIN s.entry : s.entry[j] \in DOMAIN m.ent BY DEF TableOf
  <2>2. \A j \in DOMAIN r.entry : r.entry[j] \in DOMAIN n.ent BY DEF TableOf
  <2>3. \A j \in DOMAIN s.entry : s.entry[j] \in DOMAIN n.ent BY <1>2, <2>2
  <2> QED BY <2>1, <2>3 DEF Keeps
<1>4. \A j \in DOMAIN s.entry : Key(m, s.entry[j]) # Key(n, e)
  <2>1. \A i, j \in DOMAIN r.entry : Key(n, r.entry[i]) = Key(n, r.entry[j]) => i = j
    BY DEF TableOf
  <2> QED BY <1>2, <1>3, <2>1
<1>5. /\ DOMAIN f = {Key(m, s.entry[j]) : j \in DOMAIN s.entry}
      /\ \A j \in DOMAIN s.entry : f[Key(m, s.entry[j])] = m.ent[s.entry[j]].val
      /\ f = [key \in DOMAIN f |-> f[key]]
  <2>1. TableOf(m, s) /\ IsSymbol(s) OBVIOUS
  <2> QED BY ONLY <2>1, BoundAt
<1>6. /\ DOMAIN g = {Key(n, r.entry[j]) : j \in DOMAIN r.entry}
      /\ \A j \in DOMAIN r.entry : g[Key(n, r.entry[j])] = n.ent[r.entry[j]].val
      /\ g = [key \in DOMAIN g |-> g[key]]
  <2>1. TableOf(n, r) /\ IsSymbol(r) OBVIOUS
  <2> QED BY ONLY <2>1, BoundAt
<1> HIDE DEF f, g
<1>7. DOMAIN g = DOMAIN f \cup {Key(n, e)} /\ Key(n, e) \notin DOMAIN f
  BY <1>2, <1>3, <1>4, <1>5, <1>6
<1>8. g[Key(n, e)] = n.ent[e].val /\ \A key \in DOMAIN f : g[key] = f[key]
  BY <1>2, <1>3, <1>5, <1>6
<1>9. g = With(f, Key(n, e), n.ent[e].val) BY <1>6, <1>7, <1>8 DEF With
<1> QED BY <1>7, <1>9 DEF f, g

\* Names say which symbol is meant.
Distinct(ss) == \A i, j \in DOMAIN ss : ss[i].name = ss[j].name => i = j

\* A symbol is found by its name.
LEMMA SymbolAt ==
  ASSUME NEW ss, AreSymbols(ss), Distinct(ss), NEW i \in DOMAIN ss
  PROVE  SymbolIn(ss, ss[i].name) = ss[i]
<1> DEFINE name == ss[i].name
           I == {k \in 1 .. Len(ss) : ss[k].name = name}
           n == IF I # {} THEN Min(I) ELSE 0
<1>1. PICK T : ss \in Seq(T) BY DEF AreSymbols
<1>2. DOMAIN ss = 1 .. Len(ss) /\ Len(ss) \in Nat BY <1>1
<1>3. SymbolIn(ss, name) = ss[n] BY DEF SymbolIn, SelectInSeq
<1>4. I # {} /\ I \in SUBSET Nat BY <1>2
<1>5. Min(I) \in I
  <2> HIDE DEF I
  <2>1. PICK k \in I : \A j \in I : k <= j BY <1>4, Least
  <2> QED BY <2>1 DEF Min
<1>6. n \in DOMAIN ss /\ ss[n].name = ss[i].name BY <1>2, <1>4, <1>5
<1>7. n = i BY <1>6 DEF Distinct
<1> QED BY <1>3, <1>7

\* What the table of a list of symbols binds.
Tabled(t, m, ss) ==
  /\ DOMAIN t = {ss[i].name : i \in DOMAIN ss}
  /\ \A i \in DOMAIN ss : t[ss[i].name] = BoundIn(m, ss[i])
  /\ t = [n \in DOMAIN t |-> t[n]]
LEMMA TableAt ==
  ASSUME NEW m, NEW ss, AreSymbols(ss), Distinct(ss)
  PROVE  Tabled(TableIn(m, ss), m, ss)
<1>1. \A i \in DOMAIN ss : SymbolIn(ss, ss[i].name) = ss[i] BY SymbolAt
<1>2. {s.name : s \in ToSet(ss)} = {ss[i].name : i \in DOMAIN ss} BY DEF ToSet
<1> QED BY <1>1, <1>2 DEF TableIn, Tabled

\* Two tables with the same names and values are the same.
LEMMA SameTable ==
  ASSUME NEW m, NEW n, Keeps(m, n), NEW ss, AreSymbols(ss), Distinct(ss), Tables(m, ss), Tables(n, ss)
  PROVE  TableIn(n, ss) = TableIn(m, ss)
<1> DEFINE f == TableIn(m, ss)
           g == TableIn(n, ss)
<1>1. Tabled(f, m, ss) /\ Tabled(g, n, ss) BY TableAt
<1> HIDE DEF f, g
<1>2. ASSUME NEW i \in DOMAIN ss
      PROVE  BoundIn(n, ss[i]) = BoundIn(m, ss[i])
  <2>1. IsSymbol(ss[i]) BY DEF AreSymbols
  <2>2. TableOf(m, ss[i]) /\ TableOf(n, ss[i]) BY DEF Tables
  <2> QED BY <2>1, <2>2, BoundKept
<1>3. DOMAIN f = DOMAIN g /\ \A x \in DOMAIN f : f[x] = g[x]
  BY <1>1, <1>2 DEF Tabled
<1>4. f = g BY <1>1, <1>3 DEF Tabled
<1> QED BY <1>4 DEF f, g

\* Where the names are after one more.
Grows(ss, r) ==
  /\ DOMAIN Append(ss, r) = DOMAIN ss \cup {Len(ss) + 1} /\ Len(ss) + 1 \notin DOMAIN ss
  /\ Append(ss, r)[Len(ss) + 1] = r /\ \A i \in DOMAIN ss : Append(ss, r)[i] = ss[i]
LEMMA SymbolGrows ==
  ASSUME NEW ss, AreSymbols(ss), NEW r
  PROVE  Grows(ss, r)
<1>1. PICK T : ss \in Seq(T) BY DEF AreSymbols
<1> QED BY <1>1 DEF Grows

\* What TableNamed and TableChanged assume and show, each as one fact.
NamedIn(m, n, ss, r, new) ==
  /\ Keeps(m, n) /\ AreSymbols(ss) /\ Distinct(ss) /\ Tables(m, ss)
  /\ \A i \in DOMAIN ss : ss[i].name # r.name
  /\ new = Append(ss, r) /\ AreSymbols(new) /\ Distinct(new) /\ Tables(n, new)

NamedTable(m, n, ss, r, new) ==
  /\ r.name \notin DOMAIN TableIn(m, ss)
  /\ TableIn(n, new) = With(TableIn(m, ss), r.name, BoundIn(n, r))

ChangedIn(m, n, ss, k, r, new) ==
  /\ Keeps(m, n) /\ AreSymbols(ss) /\ Distinct(ss) /\ Tables(m, ss)
  /\ k \in DOMAIN ss /\ r.name = ss[k].name
  /\ new = [ss EXCEPT ![k] = r] /\ AreSymbols(new) /\ Distinct(new) /\ Tables(n, new)

ChangedTable(m, n, ss, k, r, new) ==
  /\ r.name \in DOMAIN TableIn(m, ss) /\ TableIn(m, ss)[r.name] = BoundIn(m, ss[k])
  /\ TableIn(n, new) = [TableIn(m, ss) EXCEPT ![r.name] = BoundIn(n, r)]

\* A new symbol is a new name, with what its table binds.
LEMMA TableNamed ==
  ASSUME NEW m, NEW n, NEW ss, NEW r, NEW new, NamedIn(m, n, ss, r, new)
  PROVE  NamedTable(m, n, ss, r, new)
<1> USE DEF NamedIn, NamedTable
<1> DEFINE f == TableIn(m, ss)
           g == TableIn(n, new)
           k == Len(ss) + 1
<1>1. Tabled(f, m, ss) /\ Tabled(g, n, new) BY TableAt
<1> HIDE DEF f, g
<1>2. /\ DOMAIN new = DOMAIN ss \cup {k} /\ k \notin DOMAIN ss
      /\ new[k] = r /\ \A i \in DOMAIN ss : new[i] = ss[i]
  BY SymbolGrows DEF Grows
<1> HIDE DEF k
<1>3. ASSUME NEW i \in DOMAIN ss
      PROVE  BoundIn(n, ss[i]) = BoundIn(m, ss[i])
  <2>1. IsSymbol(ss[i]) BY DEF AreSymbols
  <2>2. TableOf(m, ss[i]) /\ TableOf(n, ss[i]) BY <1>2 DEF Tables
  <2> QED BY <2>1, <2>2, BoundKept
<1>4. DOMAIN g = DOMAIN f \cup {r.name} /\ r.name \notin DOMAIN f
  BY <1>1, <1>2 DEF Tabled
<1>5. g[r.name] = BoundIn(n, r) /\ \A x \in DOMAIN f : g[x] = f[x]
  BY <1>1, <1>2, <1>3 DEF Tabled
<1>6. g = With(f, r.name, BoundIn(n, r)) BY <1>1, <1>4, <1>5 DEF Tabled, With
<1> QED BY <1>4, <1>6 DEF f, g

\* One symbol changed, of the same name: one name has another value.
LEMMA TableChanged ==
  ASSUME NEW m, NEW n, NEW ss, NEW k, NEW r, NEW new, ChangedIn(m, n, ss, k, r, new)
  PROVE  ChangedTable(m, n, ss, k, r, new)
<1> USE DEF ChangedIn, ChangedTable
<1> DEFINE f == TableIn(m, ss)
           g == TableIn(n, new)
<1>1. Tabled(f, m, ss) /\ Tabled(g, n, new) BY TableAt
<1> HIDE DEF f, g
<1>2. /\ DOMAIN new = DOMAIN ss /\ new[k] = r /\ \A i \in DOMAIN ss : i # k => new[i] = ss[i]
  OBVIOUS
<1>3. ASSUME NEW i \in DOMAIN ss, i # k
      PROVE  BoundIn(n, ss[i]) = BoundIn(m, ss[i]) /\ ss[i].name # r.name
  <2>1. IsSymbol(ss[i]) BY DEF AreSymbols
  <2>2. TableOf(m, ss[i]) /\ TableOf(n, ss[i]) BY <1>2, <1>3 DEF Tables
  <2>3. ss[i].name # r.name BY <1>3 DEF Distinct
  <2> QED BY <2>1, <2>2, <2>3, BoundKept
<1>4. DOMAIN g = DOMAIN f /\ r.name \in DOMAIN f /\ f[r.name] = BoundIn(m, ss[k])
  BY <1>1, <1>2 DEF Tabled
<1>5. g[r.name] = BoundIn(n, r) /\ \A x \in DOMAIN f : x # r.name => g[x] = f[x]
  BY <1>1, <1>2, <1>3 DEF Tabled
<1>6. g = [f EXCEPT ![r.name] = BoundIn(n, r)] BY <1>1, <1>4, <1>5 DEF Tabled
<1> QED BY <1>4, <1>6 DEF f, g

\* The name of a symbol is its own, and the one a statement will give is free.
Names ==
  /\ Distinct(syms)
  /\ pc \in {"list", "front", "deflt", "begin"} => \A i \in DOMAIN syms : syms[i].name # cur.decl.name

\* What a step may do to the symbols: nothing, a new one, an entry for the last one.
Unmarked == syms' = syms
Enlisted ==
  \E r : /\ syms' = Append(syms, r) /\ \A i \in DOMAIN syms : syms[i].name # r.name
         /\ r.entry = <<>> \/ \E e \in Numbered : r.entry = Append(<<>>, e)
Entered ==
  /\ syms # <<>>
  /\ \E r : /\ syms' = [syms EXCEPT ![Len(syms)] = r] /\ r.name = This.name
            /\ r.entry = This.entry \/ \E e \in Numbered : r.entry = Append(This.entry, e)

\* New objects have numbers.
LEMMA NewNumbers ==
  ASSUME Inv, pc # "none"
  PROVE  NewEnt(mem) \in Numbered /\ NewTup(mem) \in Numbered
<1> DEFINE f == Refs(Places)
           g == TupRefs(Places)
           l == CellCount(Places)
<1>1. Sound(mem, f, g, l, carried) BY TheBooks
<1> HIDE DEF f, g, l
<1>2. IsKey(<<>>) BY DEF IsKey
<1> QED BY <1>1, <1>2, EntryMade, TupleMade, "NUMB" \in {"NUMB", "STRG", "SET", "VAR"}

\* symbol_add_entry on the last symbol.
LEMMA AddedEnters ==
  ASSUME Inv, pc \in Looping, NEW m, NEW e \in Numbered, Added(m, e)
  PROVE  Entered
<1>1. syms # <<>> /\ AreSymbols(syms) BY DEF Inv, InStage, InLoop
<1>2. IsSymbol(This) BY <1>1, LastIsSymbol DEF This
<1> DEFINE r == AddSym(m, This, e)
<1>3. syms' = [syms EXCEPT ![Len(syms)] = r] BY DEF Added, This
<1>4. SymAdded(m, This, e, r, Duplicate(m, This, e)) BY <1>2, AddSymOf
<1> HIDE DEF r
<1>5. r.name = This.name /\ (r.entry = This.entry \/ r.entry = Append(This.entry, e))
  BY <1>4 DEF SymAdded
<1> QED BY <1>1, <1>3, <1>5 DEF Entered

\* A new symbol, as yet without entries.
LEMMA BegunEnlists ==
  ASSUME Names, pc = "begin", NEW type, NEW iset, NEW next, Begun(type, iset, next)
  PROVE  Enlisted
<1> DEFINE r == symbol_new(cur.decl.name, type, iset, cur.deflt)
<1>1. syms' = Append(syms, r) /\ r.name = cur.decl.name /\ r.entry = <<>>
  BY DEF Begun, symbol_new
<1>2. \A i \in DOMAIN syms : syms[i].name # r.name BY <1>1 DEF Names
<1> HIDE DEF r
<1> QED BY <1>1, <1>2 DEF Enlisted

\* zpl_add_parameter makes a symbol with one entry.
LEMMA ParamEnlists ==
  ASSUME Inv, NEW p \in Params, zpl_add_parameter(p)
  PROVE  Enlisted
<1> DEFINE s == symbol_new(p.name, "ERR", << <<>> >>, 0)
           e == NewEnt(mem)
<1>1. PICK m : m = entry_new(tuple_new(mem, <<>>), NewTup(mem), p.type, p.val)
  OBVIOUS
<1>2. pc = "args" /\ syms' = Append(syms, AddSym(m, s, e)) /\ ~ Used(p.name)
  BY <1>1 DEF zpl_add_parameter, ParamAdded
<1>3. e \in Numbered BY <1>2, NewNumbers
<1>4. /\ s.name = p.name /\ s.entry = <<>>
      /\ s.entry \in Lists /\ s.hash \in Lists /\ s.deflt \in Nat /\ s.size \in Nat /\ s.extend \in Numbered
      /\ s = [name |-> s.name, type |-> s.type, iset |-> s.iset, size |-> s.size, extend |-> s.extend,
              entry |-> s.entry, hash |-> s.hash, deflt |-> s.deflt]
  BY SymbolTableAssumption, EmptyList DEF symbol_new, Numbered
<1> HIDE DEF s, e
<1>5. IsSymbol(s) BY <1>4 DEF IsSymbol
<1> DEFINE r == AddSym(m, s, e)
<1>6. SymAdded(m, s, e, r, Duplicate(m, s, e)) BY <1>3, <1>5, AddSymOf
<1>7. syms' = Append(syms, r) BY <1>2
<1> HIDE DEF r
<1>8. r.name = p.name /\ (r.entry = <<>> \/ r.entry = Append(<<>>, e))
  BY <1>4, <1>6 DEF SymAdded
<1>9. \A i \in DOMAIN syms : syms[i].name # r.name BY <1>2, <1>8 DEF Used, ToSet
<1> QED BY <1>3, <1>7, <1>8, <1>9 DEF Enlisted

\* A new entry of a loop.
LEMMA NewEnters ==
  ASSUME Inv, pc \in Looping, NEW m, AddNew(m, NewTup(mem), NewEnt(mem))
  PROVE  Entered
<1>1. NewEnt(mem) \in Numbered BY NewNumbers DEF Looping
<1> QED BY <1>1, AddedEnters DEF AddNew

\* What each action does to the symbols.
Stirs ==
  \/ Unmarked /\ pc \notin {"none", "symbols"} /\ pc' # "symbols"
  \/ Enlisted /\ pc \notin {"none", "symbols"} /\ pc' \notin {"symbols", "list", "front", "deflt", "begin"}
  \/ Entered /\ pc \in Looping /\ pc' = pc
  \/ Start
  \/ syms' = syms /\ pc' = "symbols"
  \/ pc = "symbols" /\ pc' \in {"symbols", "stores"} /\ symbol_exit

\* Every action does one of these.
LEMMA AllStir ==
  ASSUME Inv, Names, Next
  PROVE  Stirs
<1>1. ASSUME NEW p \in Params, zpl_add_parameter(p) PROVE Stirs
  <2>1. pc = "args" /\ pc' = "args" BY <1>1 DEF zpl_add_parameter
  <2> QED BY <1>1, <2>1, ParamEnlists DEF Stirs
<1>2. CASE Load \/ EndOfProgram \/ \E s \in ToSet(syms) : \E key \in Keys : Use(s, key)
  <2>1. syms' = syms /\ pc \in {"args", "idle"} /\ pc' \in {"idle", "exit", "asserted"}
    BY <1>2 DEF Load, EndOfProgram, Use
  <2> QED BY <2>1 DEF Stirs, Unmarked
<1>3. ASSUME NEW d \in Decls, Declare(d) PROVE Stirs
  <2>1. syms' = syms /\ pc = "idle" /\ pc' \in {"idle", "exit", "list", "begin"}
    BY <1>3 DEF Declare
  <2> QED BY <2>1 DEF Stirs, Unmarked
<1>4. CASE EntryNode \/ MatrixError \/ ReadEntry \/ ListNode \/ InFront \/ TupleList \/ Default
  <2>1. syms' = syms /\ pc \in {"list", "front", "deflt"}
    BY <1>4 DEF EntryNode, MatrixError, ReadEntry, ListNode, InFront, TupleList, Default, HeadRead
  <2>2. pc' \in {"list", "front", "deflt", "begin", "exit", "asserted"}
    BY <1>4 DEF EntryNode, MatrixError, ReadEntry, ListNode, InFront, TupleList, Default, HeadRead, Fail
  <2> QED BY <2>1, <2>2 DEF Stirs, Unmarked
<1>5. ASSUME NEW n, Refused(n), pc \notin {"none", "symbols"} PROVE Stirs
  <2>1. syms' = syms /\ pc' = "exit" BY <1>5 DEF Refused, Fail
  <2> QED BY <1>5, <2>1 DEF Stirs, Unmarked
<1>6. ASSUME NEW type, NEW iset, NEW next, pc = "begin", next \in Looping \cup {"finish"}, Begun(type, iset, next) PROVE Stirs
  <2>1. pc' \in Looping \cup {"finish"} BY <1>6 DEF Begun
  <2> QED BY <1>6, <2>1, BegunEnlists DEF Stirs, Looping
<1>7. CASE i_newsym_para1 \/ i_newsym_set2 \/ i_newsym_each
  <2>1. pc = "begin" BY <1>7 DEF i_newsym_para1, i_newsym_set2, i_newsym_each
  <2>2. \/ \E n : Refused(n)
        \/ \E type, iset, next : next \in Looping \cup {"finish"} /\ Begun(type, iset, next)
    BY <1>7 DEF i_newsym_para1, i_newsym_set2, i_newsym_each, Looping
  <2> QED BY <1>5, <1>6, <2>1, <2>2
<1>8. ASSUME pc \in Looping, Entered, pc' = pc PROVE Stirs BY <1>8 DEF Stirs
<1>9. CASE AddByList
  <2>1. pc \in Looping BY <1>9 DEF AddByList, Looping
  <2>2. \/ \E n : Refused(n)
        \/ Added(entry_copy(mem, cur.list[cur.left]), cur.list[cur.left])
    BY <1>9 DEF AddByList
  <2>3. cur.list[cur.left] \in Numbered
    <3>1. cur.list \in Lists /\ cur.left \in Nat /\ cur.left # 0 /\ cur.left <= Len(cur.list)
      BY <1>9, <2>1 DEF Inv, InStage, InLoop, IsStmt, AddByList
    <3> QED BY <3>1 DEF Lists
  <2>4. CASE Added(entry_copy(mem, cur.list[cur.left]), cur.list[cur.left])
    BY <1>8, <2>1, <2>3, <2>4, AddedEnters DEF Added
  <2> QED BY <1>5, <2>1, <2>2, <2>4 DEF Looping
<1>10. ASSUME NEW n, NEW held, Fail(n, held), pc \in Looping, syms' = syms PROVE Stirs
  BY <1>10 DEF Stirs, Unmarked, Fail, Looping
<1>11. ASSUME NEW m, AddNew(m, NewTup(mem), NewEnt(mem)), pc \in Looping PROVE Stirs
  <2>1. pc' = pc BY <1>11 DEF AddNew, Added
  <2> QED BY <1>8, <1>11, <2>1, NewEnters
<1>12. ASSUME NEW m, AddTyped(m, NewTup(mem), NewEnt(mem)), pc \in Looping PROVE Stirs
  BY <1>10, <1>11, <1>12 DEF AddTyped
<1>13. CASE AddByIndex \/ AddPara2 \/ AddSet1 \/ AddVar
  <2>1. pc \in Looping
    BY <1>13 DEF AddByIndex, AddPara2, AddSet1, AddVar, Looping
  <2>2. \/ \E m : AddTyped(m, NewTup(mem), NewEnt(mem)) \/ AddNew(m, NewTup(mem), NewEnt(mem))
        \/ \E n, held : Fail(n, held) /\ syms' = syms
    BY <1>13 DEF AddByIndex, AddPara2, AddSet1, AddVar
  <2> QED BY <1>10, <1>11, <1>12, <2>1, <2>2
<1>14. CASE Finish
  <2>1. syms' = syms /\ pc' = "idle" /\ pc \in Looping \cup {"finish"}
    BY <1>14 DEF Finish, LoopOver, Looping
  <2> QED BY <2>1 DEF Stirs, Unmarked, Looping
<1>15. CASE prog_free
  <2>1. syms' = syms /\ pc = "exit" /\ (pc' = "symbols" \/ pc' = pc)
    BY <1>15 DEF prog_free
  <2> QED BY <2>1 DEF Stirs, Unmarked
<1>16. CASE symbol_exit
  <2>1. pc = "symbols" /\ pc' \in {"symbols", "stores"} BY <1>16 DEF symbol_exit
  <2> QED BY <1>16, <2>1 DEF Stirs
<1>17. CASE stores_exit BY <1>17 DEF stores_exit, Stirs, Unmarked
<1>18. CASE Start BY <1>18 DEF Stirs
<1> QED BY <1>1, <1>2, <1>3, <1>4, <1>7, <1>9, <1>13, <1>14, <1>15, <1>16, <1>17, <1>18 DEF Next

\* A statement that gives a name keeps to the name it found free.
Naming == {"list", "front", "deflt", "begin"}
LEMMA SameDecl ==
  ASSUME Inv, Next, pc' \in Naming
  PROVE  \/ pc \in Naming /\ cur'.decl = cur.decl
         \/ \A i \in DOMAIN syms : syms[i].name # cur'.decl.name
<1>1. cur = [decl |-> cur.decl, list |-> cur.list, read |-> cur.read, left |-> cur.left, deflt |-> cur.deflt, held |-> cur.held]
  BY DEF Inv, InStage, IsStmt
<1>2. ASSUME NEW d \in Decls, Declare(d)
      PROVE  \A i \in DOMAIN syms : syms[i].name # cur'.decl.name
  <2>1. pc = "idle" /\ cur = NoStmt BY <1>2 DEF Declare, Inv, InStage
  <2>2. ~ Used(d.name) /\ cur' = [NoStmt EXCEPT !.decl = d, !.left = IF d.kind \in {"para1", "set2"} THEN Len(d.items) ELSE 0]
    BY <1>2, <2>1 DEF Declare, Naming
  <2>3. cur'.decl = d BY <2>2 DEF NoStmt
  <2> QED BY <2>2, <2>3 DEF Used, ToSet
<1>3. CASE EntryNode \/ MatrixError \/ ReadEntry \/ ListNode \/ InFront \/ TupleList \/ Default
  <2>1. pc \in Naming
    BY <1>3 DEF EntryNode, MatrixError, ReadEntry, ListNode, InFront, TupleList, Default, HeadRead, Naming
  <2>2. CASE EntryNode BY <1>1, <2>2 DEF EntryNode, Fail, Naming
  <2>3. CASE MatrixError \/ TupleList
    BY <2>3 DEF MatrixError, TupleList, Fail, Naming
  <2>4. CASE ReadEntry BY <1>1, <2>4 DEF ReadEntry
  <2>8. \A x, y : /\ [cur EXCEPT !.list = x].decl = cur.decl /\ [cur EXCEPT !.left = x].decl = cur.decl
                  /\ [cur EXCEPT !.deflt = x].decl = cur.decl /\ [cur EXCEPT !.list = x, !.left = y].decl = cur.decl
    BY <1>1
  <2>5. CASE ListNode
    <3>1. (\E x : cur' = [cur EXCEPT !.list = x]) \/ cur' = [cur EXCEPT !.left = 1]
      BY <2>5 DEF ListNode
    <3> QED BY <2>1, <2>8, <3>1
  <2>6. CASE InFront
    <3>1. (\E x, y : cur' = [cur EXCEPT !.list = x, !.left = y]) \/ cur' = cur
      BY <2>6 DEF InFront
    <3>2. ASSUME NEW x, NEW y, cur' = [cur EXCEPT !.list = x, !.left = y] PROVE cur'.decl = cur.decl
      BY <2>8, <3>2
    <3> QED BY <2>1, <3>1, <3>2
  <2>7. CASE Default
    <3>1. (\E x : cur' = [cur EXCEPT !.deflt = x]) \/ cur' = cur
      BY <2>7 DEF Default
    <3> QED BY <2>1, <2>8, <3>1
  <2> QED BY <1>3, <2>1, <2>2, <2>3, <2>4, <2>5, <2>6, <2>7
<1>4. ASSUME NEW n, NEW held, Fail(n, held) PROVE FALSE BY <1>4 DEF Fail, Naming
<1>5. ASSUME NEW n, Refused(n) PROVE FALSE BY <1>5 DEF Refused, Fail, Naming
<1>6. ASSUME NEW m, NEW e, Added(m, e), pc \in Looping PROVE FALSE
  BY <1>6 DEF Added, Naming, Looping
<1>7. CASE i_newsym_para1 \/ i_newsym_set2 \/ i_newsym_each
  <2>1. ASSUME NEW type, NEW iset, NEW next, next \in Looping \cup {"finish"}, Begun(type, iset, next) PROVE FALSE
    BY <2>1 DEF Begun, Naming, Looping
  <2>2. \/ \E n : Refused(n)
        \/ \E type, iset, next : next \in Looping \cup {"finish"} /\ Begun(type, iset, next)
    BY <1>7 DEF i_newsym_para1, i_newsym_set2, i_newsym_each, Looping
  <2> QED BY <1>5, <2>1, <2>2
<1>8. CASE AddByList \/ AddByIndex \/ AddPara2 \/ AddSet1 \/ AddVar
  <2>1. pc \in Looping
    BY <1>8 DEF AddByList, AddByIndex, AddPara2, AddSet1, AddVar, Looping
  <2>2. \/ \E n : Refused(n)
        \/ \E n, held : Fail(n, held)
        \/ \E m, e : Added(m, e)
    BY <1>8 DEF AddByList, AddByIndex, AddPara2, AddSet1, AddVar, AddTyped, AddNew
  <2> QED BY <1>4, <1>5, <1>6, <2>1, <2>2
<1>9. CASE Start \/ Load \/ Finish \/ EndOfProgram \/ prog_free \/ symbol_exit \/ stores_exit
  BY <1>9 DEF Start, Load, Finish, EndOfProgram, prog_free, symbol_exit, stores_exit, Naming
<1>10. ASSUME NEW p \in Params, zpl_add_parameter(p) PROVE FALSE
  BY <1>10 DEF zpl_add_parameter, Naming
<1>11. ASSUME NEW s, NEW key, Use(s, key) PROVE FALSE BY <1>11 DEF Use, Naming
<1> QED BY <1>2, <1>3, <1>7, <1>8, <1>9, <1>10, <1>11 DEF Next

\* The names after the last symbol has changed or has gone.
LEMMA NamesShorter ==
  ASSUME NEW ss, AreSymbols(ss), Distinct(ss), ss # <<>>
  PROVE  /\ Distinct(Front(ss))
         /\ \A r : r.name = ss[Len(ss)].name => Distinct([ss EXCEPT ![Len(ss)] = r])
<1>1. PICK T : ss \in Seq(T) BY DEF AreSymbols
<1>2. DOMAIN ss = 1 .. Len(ss) /\ Len(ss) \in Nat BY <1>1
<1>3. \A i \in DOMAIN Front(ss) : i \in DOMAIN ss /\ Front(ss)[i] = ss[i]
  BY <1>1 DEF Front
<1> QED BY <1>2, <1>3 DEF Distinct

\* Names are never given twice in a session (the guards of zpl_add_parameter and Declare).
LEMMA NamesStep ==
  ASSUME Inv, Onward, Names, Next
  PROVE  Names'
<1>1. Distinct(syms')
  <2>0. Stirs /\ AreSymbols(syms) /\ Distinct(syms)
    BY AllStir DEF Inv, InStage, Names
  <2>1. CASE syms' = syms BY <2>1 DEF Names
  <2>2. CASE Enlisted
    <3>1. PICK r : syms' = Append(syms, r) /\ \A i \in DOMAIN syms : syms[i].name # r.name
      BY <2>2 DEF Enlisted
    <3>2. Grows(syms, r) BY <2>0, SymbolGrows
    <3> QED BY <2>0, <3>1, <3>2 DEF Grows, Distinct
  <2>3. CASE Entered
    <3>1. PICK r : syms' = [syms EXCEPT ![Len(syms)] = r] /\ r.name = syms[Len(syms)].name /\ syms # <<>>
      BY <2>3 DEF Entered, This
    <3> QED BY <2>0, <3>1, NamesShorter
  <2>4. CASE Start BY <2>4 DEF Start, Distinct
  <2>5. CASE symbol_exit
    <3>1. CASE syms # <<>> /\ syms' = [syms EXCEPT ![Len(syms)] = OneEntryLess(@)]
      <4>1. IsSymbol(syms[Len(syms)]) BY <2>0, <3>1, LastIsSymbol
      <4>2. PICK r : r = OneEntryLess(syms[Len(syms)]) OBVIOUS
      <4>3. r.name = syms[Len(syms)].name
        BY <4>1, <4>2 DEF OneEntryLess, IsSymbol
      <4>4. syms' = [syms EXCEPT ![Len(syms)] = r] BY <3>1, <4>2
      <4>5. Distinct([syms EXCEPT ![Len(syms)] = r])
        BY ONLY <2>0, <3>1, <4>3, NamesShorter
      <4> QED BY <4>4, <4>5
    <3>2. CASE syms # <<>> /\ syms' = Front(syms) BY <2>0, <3>2, NamesShorter
    <3> QED BY <2>1, <2>5, <3>1, <3>2 DEF symbol_exit
  <2> QED BY <2>0, <2>1, <2>2, <2>3, <2>4, <2>5 DEF Stirs, Unmarked
<1>2. ASSUME pc' \in Naming, NEW i \in DOMAIN syms' PROVE syms'[i].name # cur'.decl.name
  <2>1. syms' = syms
    BY <1>2, AllStir DEF Stirs, Unmarked, Naming, Looping, Start
  <2> QED BY <1>2, <2>1, SameDecl DEF Names, Naming
<1> QED BY <1>1, <1>2 DEF Names, Naming

\* The tables and names before and after a step.
Steady ==
  /\ AreSymbols(syms) /\ Distinct(syms) /\ AreSymbols(syms') /\ Distinct(syms') /\ Keeps(mem, mem')
  /\ pc # "none" => Tables(mem, syms)
  /\ pc' # "none" => Tables(mem', syms')
  /\ pc' = "none" => syms' = <<>>
LEMMA StepSteady ==
  ASSUME Inv, Onward, Names, Names'
  PROVE  Steady
<1>1. AreSymbols(syms) /\ AreSymbols(syms') /\ Keeps(mem, mem')
  BY DEF Inv, InStage, Onward
<1>2. (pc # "none" => Tables(mem, syms)) /\ (pc' # "none" => Tables(mem', syms')) /\ (pc' = "none" => syms' = <<>>)
  BY DEF Inv, InMemory, Onward, Tables
<1>3. Distinct(syms) /\ Distinct(syms') BY DEF Names
<1> QED BY <1>1, <1>2, <1>3 DEF Steady

\* A symbol without entries binds nothing; one with an entry binds its key.
LEMMA BoundFirst ==
  ASSUME NEW n, NEW r, IsSymbol(r), TableOf(n, r)
  PROVE  /\ r.entry = <<>> => BoundIn(n, r) = <<>>
         /\ \A e \in Numbered : r.entry = Append(<<>>, e) => BoundIn(n, r) = With(<<>>, Key(n, e), n.ent[e].val)
<1>1. r.entry = <<>> => BoundIn(n, r) = <<>> BY DEF BoundIn, ToSet
<1>2. ASSUME NEW e \in Numbered, r.entry = Append(<<>>, e)
      PROVE  BoundIn(n, r) = With(<<>>, Key(n, e), n.ent[e].val)
  <2> DEFINE g == BoundIn(n, r)
  <2>1. /\ DOMAIN g = {Key(n, r.entry[j]) : j \in DOMAIN r.entry}
        /\ \A j \in DOMAIN r.entry : g[Key(n, r.entry[j])] = n.ent[r.entry[j]].val
        /\ g = [key \in DOMAIN g |-> g[key]]
    BY BoundAt
  <2> HIDE DEF g
  <2>2. DOMAIN r.entry = {1} /\ r.entry[1] = e BY <1>2
  <2>3. g = With(<<>>, Key(n, e), n.ent[e].val) BY <2>1, <2>2 DEF With
  <2> QED BY <2>3 DEF g
<1> QED BY <1>1, <1>2

\* An action that leaves the symbols alone leaves the table alone.
LEMMA UnmarkedStutters ==
  ASSUME Steady, Unmarked, pc \notin {"none", "symbols"}, pc' # "symbols"
  PROVE  Table' = Table
<1>1. CASE pc' = "none" /\ syms = <<>>
  BY <1>1, EmptyTable, TableNow, TableThen DEF Unmarked
<1>2. CASE pc' # "none"
  BY <1>2, SameTable, TableNow, TableThen DEF Steady, Unmarked
<1> QED BY <1>1, <1>2 DEF Steady, Unmarked

\* The Bindings step of a new symbol: its name, or its name with one value.
LEMMA EnlistedBinds ==
  ASSUME Steady, Enlisted, pc \notin {"none", "symbols"}, pc' \notin {"none", "symbols"}
  PROVE  \E n \in DOMAIN Table' : \/ Abstract!NewName(n)
                                  \/ \E key \in DOMAIN Table'[n] : Abstract!NewScalar(n, key, Table'[n][key])
<1>1. PICK r : /\ syms' = Append(syms, r) /\ \A i \in DOMAIN syms : syms[i].name # r.name
               /\ r.entry = <<>> \/ \E e \in Numbered : r.entry = Append(<<>>, e)
  BY DEF Enlisted
<1> DEFINE f == TableIn(mem, syms)
           g == TableIn(mem', syms')
           b == BoundIn(mem', r)
<1>2. Table = f /\ Table' = g BY TableNow, TableThen
<1>3. r.name \notin DOMAIN f /\ g = With(f, r.name, b)
  <2>1. PICK new, n : new = syms' /\ n = mem' OBVIOUS
  <2>2. /\ Keeps(mem, n) /\ AreSymbols(syms) /\ Distinct(syms) /\ Tables(mem, syms)
        /\ new = Append(syms, r) /\ AreSymbols(new) /\ Distinct(new) /\ Tables(n, new)
    BY <1>1, <2>1 DEF Steady
  <2>3. NamedIn(mem, n, syms, r, new) BY <1>1, <2>2 DEF NamedIn
  <2>4. NamedTable(mem, n, syms, r, new) BY <2>3, TableNamed
  <2> QED BY <2>1, <2>4 DEF NamedTable
<1>4. IsSymbol(r) /\ TableOf(mem', r)
  <2>1. Grows(syms, r) BY SymbolGrows DEF Steady
  <2>2. Len(syms) + 1 \in DOMAIN syms' /\ syms'[Len(syms) + 1] = r
    BY <1>1, <2>1 DEF Grows
  <2> QED BY <2>2 DEF Steady, Tables, AreSymbols
<1> HIDE DEF f, g
<1>5. CASE r.entry = <<>>
  <2>1. b = <<>> BY <1>4, <1>5, BoundFirst
  <2>2. r.name \in DOMAIN g BY <1>3 DEF With
  <2>3. Abstract!NewName(r.name)
    BY <1>2, <1>3, <2>1 DEF Abstract!NewName, Abstract!With, With
  <2> QED BY <1>2, <2>2, <2>3
<1>6. ASSUME NEW e \in Numbered, r.entry = Append(<<>>, e)
      PROVE  \E n \in DOMAIN Table' : \E key \in DOMAIN Table'[n] : Abstract!NewScalar(n, key, Table'[n][key])
  <2> DEFINE key == Key(mem', e)
             val == mem'.ent[e].val
  <2>1. b = With(<<>>, key, val) BY <1>4, <1>6, BoundFirst
  <2> HIDE DEF key, val, b
  <2>2. r.name \in DOMAIN g /\ g[r.name] = b /\ key \in DOMAIN b /\ b[key] = val
    BY <1>3, <2>1 DEF With
  <2>3. Abstract!NewScalar(r.name, key, val)
    BY <1>2, <1>3, <2>1 DEF Abstract!NewScalar, Abstract!With, With
  <2> QED BY <1>2, <2>2, <2>3
<1> QED BY <1>1, <1>5, <1>6

\* The Bindings step of symbol_add_entry: one key more, or none for a duplicate.
LEMMA EnteredBinds ==
  ASSUME Steady, Entered, pc \notin {"none", "symbols"}, pc' \notin {"none", "symbols"}
  PROVE  \/ Table' = Table
         \/ \E n \in DOMAIN Table' : \E key \in DOMAIN Table'[n] : Abstract!Bind(n, key, Table'[n][key])
<1> DEFINE k == Len(syms)
           s == syms[k]
<1>1. PICK r : /\ syms' = [syms EXCEPT ![k] = r] /\ r.name = s.name
               /\ r.entry = s.entry \/ \E e \in Numbered : r.entry = Append(s.entry, e)
  BY DEF Entered, This
<1> DEFINE f == TableIn(mem, syms)
           g == TableIn(mem', syms')
           b == BoundIn(mem', r)
           c == BoundIn(mem, s)
<1>2. Table = f /\ Table' = g BY TableNow, TableThen
<1>3. k \in DOMAIN syms /\ IsSymbol(s) /\ TableOf(mem, s)
  BY LastIsSymbol DEF Steady, Entered, Tables
<1>4. r.name \in DOMAIN f /\ f[r.name] = c /\ g = [f EXCEPT ![r.name] = b]
  <2>1. PICK new, n : new = syms' /\ n = mem' OBVIOUS
  <2>2. /\ Keeps(mem, n) /\ AreSymbols(syms) /\ Distinct(syms) /\ Tables(mem, syms)
        /\ new = [syms EXCEPT ![k] = r] /\ AreSymbols(new) /\ Distinct(new) /\ Tables(n, new)
    BY <1>1, <2>1 DEF Steady
  <2> HIDE DEF k
  <2>3. ChangedIn(mem, n, syms, k, r, new) BY <1>1, <1>3, <2>2 DEF ChangedIn
  <2>4. ChangedTable(mem, n, syms, k, r, new) BY <2>3, TableChanged
  <2> QED BY <2>1, <2>4 DEF ChangedTable
<1>5. IsSymbol(r) /\ TableOf(mem', r)
  <2>1. k \in DOMAIN syms' /\ syms'[k] = r BY <1>1, <1>3
  <2> QED BY <2>1 DEF Steady, Tables, AreSymbols
<1>6. f = [x \in DOMAIN f |-> f[x]] BY DEF TableIn
<1>7. Keeps(mem, mem') BY DEF Steady
<1> HIDE DEF f, g, s
<1>8. CASE r.entry = s.entry
  <2>1. b = c
    <3>1. DOMAIN b = DOMAIN c /\ (\A x \in DOMAIN b : b[x] = c[x]) /\ b = [x \in DOMAIN b |-> b[x]] /\ c = [x \in DOMAIN c |-> c[x]]
      <4>1. /\ DOMAIN b = {Key(mem', r.entry[j]) : j \in DOMAIN r.entry}
            /\ \A j \in DOMAIN r.entry : b[Key(mem', r.entry[j])] = mem'.ent[r.entry[j]].val
            /\ b = [key \in DOMAIN b |-> b[key]]
        BY <1>5, BoundAt
      <4>2. /\ DOMAIN c = {Key(mem, s.entry[j]) : j \in DOMAIN s.entry}
            /\ \A j \in DOMAIN s.entry : c[Key(mem, s.entry[j])] = mem.ent[s.entry[j]].val
            /\ c = [key \in DOMAIN c |-> c[key]]
        BY <1>3, BoundAt
      <4>3. \A j \in DOMAIN s.entry : Key(mem', s.entry[j]) = Key(mem, s.entry[j]) /\ mem'.ent[s.entry[j]].val = mem.ent[s.entry[j]].val
        BY <1>3, <1>5, <1>7, <1>8 DEF TableOf, Keeps
      <4> HIDE DEF b, c
      <4> QED BY <1>8, <4>1, <4>2, <4>3
    <3> HIDE DEF b, c
    <3> QED BY <3>1
  <2>2. g = f BY <1>4, <1>6, <2>1
  <2> QED BY <1>2, <2>2
<1>9. ASSUME NEW e \in Numbered, r.entry = Append(s.entry, e)
      PROVE  \E n \in DOMAIN Table' : \E key \in DOMAIN Table'[n] : Abstract!Bind(n, key, Table'[n][key])
  <2> DEFINE key == Key(mem', e)
             val == mem'.ent[e].val
  <2>1. key \notin DOMAIN c /\ b = With(c, key, val)
    BY <1>3, <1>5, <1>7, <1>9, BoundGrown
  <2> HIDE DEF key, val, b, c
  <2>2. r.name \in DOMAIN g /\ g[r.name] = b /\ key \in DOMAIN b /\ b[key] = val
    BY <1>4, <2>1 DEF With
  <2>3. Abstract!Bind(r.name, key, val)
    BY <1>2, <1>4, <2>1 DEF Abstract!Bind, Abstract!With, With
  <2> QED BY <1>2, <2>2, <2>3
<1> QED BY <1>1, <1>8, <1>9

\* The Bindings step of a session that starts: the internal variable.
LEMMA StartBinds ==
  ASSUME Inv, Steady, Start
  PROVE  \E n \in DOMAIN Table' : Abstract!NewName(n)
<1> DEFINE r == symbol_new(Internal, "VAR", << <<>> >>, 0)
           g == TableIn(mem', syms')
<1>1. pc = "none" /\ pc' = "args" /\ syms' = <<r>> /\ syms = <<>>
  BY DEF Start, Inv, InMemory
<1>2. Table = <<>> /\ Table' = g BY <1>1, TableNow, TableThen, EmptyTable
<1>3. Tabled(g, mem', syms') /\ DOMAIN syms' = {1} /\ syms'[1] = r
  <2>1. PICK n, new : n = mem' /\ new = syms' OBVIOUS
  <2>2. AreSymbols(new) /\ Distinct(new) BY <2>1 DEF Steady
  <2> HIDE DEF r
  <2>3. Tabled(TableIn(n, new), n, new) BY <2>2, TableAt
  <2> QED BY <1>1, <2>1, <2>3
<1>4. BoundIn(mem', r) = <<>> BY DEF BoundIn, symbol_new, ToSet
<1> HIDE DEF r, g
<1>5. DOMAIN g = {r.name} /\ g[r.name] = <<>> /\ g = [x \in DOMAIN g |-> g[x]]
  BY <1>3, <1>4 DEF Tabled
<1>6. Abstract!NewName(r.name) BY <1>2, <1>5 DEF Abstract!NewName, Abstract!With
<1> QED BY <1>2, <1>5, <1>6

\* Declarations bind names to partial functions as Bindings says: nothing that is
\* bound is bound again or lost before the session ends (symbol_new,
\* symbol_add_entry, hash_lookup_entry), whatever is freed or fails meanwhile.
THEOREM BindingsKept == Spec => Refines
<1>1. Init => Abstract!Init
  <2> SUFFICES ASSUME Init PROVE Table = <<>> BY DEF Abstract!Init
  <2> QED BY TableNow, EmptyTable DEF Init
<1>2. Init => Names BY DEF Init, Names, Distinct
<1>3. Inv /\ Names /\ [Next]_vars => Names'
  <2>1. ASSUME Inv, Names, Next PROVE Names' BY <2>1, OneStep, NamesStep
  <2>2. ASSUME Names, UNCHANGED vars PROVE Names'
    BY <2>2 DEF Names, vars, Distinct
  <2> QED BY <2>1, <2>2
<1>4. Inv /\ Names /\ Names' /\ [Next]_vars => [Abstract!Next]_Table
  <2>1. ASSUME UNCHANGED vars PROVE Table' = Table
    BY <2>1, TableNow, TableThen DEF vars
  <2>2. ASSUME Inv, Names, Names', Next PROVE Abstract!Next \/ Table' = Table
    <3>1. Onward /\ Steady /\ Stirs BY <2>2, OneStep, StepSteady, AllStir
    <3>2. CASE Unmarked /\ pc \notin {"none", "symbols"} /\ pc' # "symbols"
      BY <3>1, <3>2, UnmarkedStutters
    <3>3. CASE Enlisted /\ pc \notin {"none", "symbols"} /\ pc' \notin {"symbols", "list", "front", "deflt", "begin"}
      <4>1. pc' # "none"
        <5>1. ASSUME pc' = "none" PROVE FALSE
          <6>1. syms' = <<>> /\ AreSymbols(syms) BY <3>1, <5>1 DEF Steady
          <6>2. PICK r : syms' = Append(syms, r) BY <3>3 DEF Enlisted
          <6> QED BY <6>1, <6>2, SymbolGrows DEF Grows
        <5> QED BY <5>1
      <4> QED BY <3>1, <3>3, <4>1, EnlistedBinds DEF Abstract!Next
    <3>4. CASE Entered /\ pc \in Looping /\ pc' = pc
      BY <3>1, <3>4, EnteredBinds DEF Abstract!Next, Looping
    <3>5. CASE Start BY <2>2, <3>1, <3>5, StartBinds DEF Abstract!Next
    <3>6. CASE syms' = syms /\ pc' = "symbols"
      BY <3>6, TableThen DEF Abstract!Next, Abstract!SessionEnds
    <3>7. CASE pc = "symbols" /\ pc' \in {"symbols", "stores"} /\ symbol_exit
      <4>1. Table' = <<>>
        <5>1. pc' = "stores" => syms' = <<>> BY <3>7 DEF symbol_exit
        <5> QED BY <3>7, <5>1, TableThen, EmptyTable
      <4> QED BY <4>1 DEF Abstract!Next, Abstract!SessionEnds
    <3> QED BY <3>1, <3>2, <3>3, <3>4, <3>5, <3>6, <3>7 DEF Stirs
  <2> QED BY <2>1, <2>2
<1>5. Spec => []Inv BY Accounted
<1> QED BY <1>1, <1>2, <1>3, <1>4, <1>5, PTL DEF Spec, Refines, Abstract!Spec
-----------------------------------------------------------------------------
\* ---- what a lookup finds is what the declaration says

\* The entry e of memory m is what x says.
Says(m, e, x) == m.ent[e].val = x.val /\ m.ent[e].type = x.type /\ Key(m, e) = x.key

\* What is kept says what it said.
LEMMA SaysOn ==
  ASSUME NEW m, NEW n, Keeps(m, n), NEW e, e \in DOMAIN m.ent, e \in DOMAIN n.ent, NEW x, Says(m, e, x)
  PROVE  Says(n, e, x)
BY DEF Keeps, Says

\* What the rounds of the loop of a statement want to add.
EachValue(d, i) ==
  CASE d.kind = "set1" -> d.vals[i] [] d.kind = "para2" -> d.vals[i][2] [] d.kind = "var" -> <<Lower(d), Upper(d)>>
Wanted(d, stage) ==
  IF stage = "by list" THEN [i \in DOMAIN Written(d) |-> [key |-> Written(d)[i].key, val |-> Written(d)[i].val]]
  ELSE [i \in DOMAIN d.iset |-> [key |-> d.iset[i], val |-> IF stage = "by index" THEN Written(d)[i].val ELSE EachValue(d, i)]]

\* After n rounds the keys of the rounds have entries, each the value of the
\* first round with its key.
IsFirst(w, j) == \A h \in 1 .. j - 1 : w[h].key # w[j].key
Gives(m, e, x) == Key(m, e) = x.key /\ m.ent[e].val = x.val
FirstWins(m, s, w, n) ==
  /\ \A j \in 1 .. n : \E i \in DOMAIN s.entry : Key(m, s.entry[i]) = w[j].key
  /\ \A i \in DOMAIN s.entry : \E j \in 1 .. n : IsFirst(w, j) /\ Gives(m, s.entry[i], w[j])

\* One round more: a new key gets its entry, a duplicate none.
LEMMA RoundMore ==
  ASSUME NEW m, NEW n, Keeps(m, n), NEW s, IsSymbol(s), TableOf(m, s), NEW r, TableOf(n, r),
         NEW e \in Numbered, NEW w, NEW k \in Nat \ {0}, FirstWins(m, s, w, k - 1),
         \/ r.entry = s.entry /\ \E i \in DOMAIN s.entry : Key(m, s.entry[i]) = w[k].key
         \/ r.entry = Append(s.entry, e) /\ Gives(n, e, w[k])
  PROVE  FirstWins(n, r, w, k)
<1>1. s.entry \in Lists BY DEF IsSymbol
<1>2. ASSUME NEW i \in DOMAIN s.entry, s.entry[i] \in DOMAIN n.ent
      PROVE  Key(n, s.entry[i]) = Key(m, s.entry[i]) /\ n.ent[s.entry[i]].val = m.ent[s.entry[i]].val
  BY <1>2 DEF TableOf, Keeps
<1>3. 1 .. k = (1 .. k - 1) \cup {k} /\ k \notin 1 .. k - 1 OBVIOUS
<1>4. /\ \A j \in 1 .. k - 1 : \E i \in DOMAIN s.entry : Key(m, s.entry[i]) = w[j].key
      /\ \A i \in DOMAIN s.entry : \E j \in 1 .. k - 1 : IsFirst(w, j) /\ Gives(m, s.entry[i], w[j])
  BY DEF FirstWins
<1>5. CASE r.entry = s.entry /\ \E i \in DOMAIN s.entry : Key(m, s.entry[i]) = w[k].key
  <2>1. \A i \in DOMAIN s.entry : s.entry[i] \in DOMAIN n.ent
    BY <1>5 DEF TableOf
  <2>2. \A i \in DOMAIN s.entry : Key(n, s.entry[i]) = Key(m, s.entry[i]) /\ n.ent[s.entry[i]].val = m.ent[s.entry[i]].val
    BY <1>2, <2>1
  <2>3. ASSUME NEW j \in 1 .. k PROVE \E i \in DOMAIN s.entry : Key(n, s.entry[i]) = w[j].key
    BY <1>3, <1>4, <1>5, <2>2
  <2>4. ASSUME NEW i \in DOMAIN s.entry PROVE \E j \in 1 .. k : IsFirst(w, j) /\ Gives(n, s.entry[i], w[j])
    <3>1. PICK j \in 1 .. k - 1 : IsFirst(w, j) /\ Gives(m, s.entry[i], w[j])
      BY <1>4
    <3>2. Gives(n, s.entry[i], w[j]) BY <2>2, <3>1 DEF Gives
    <3> QED BY <1>3, <3>1, <3>2
  <2> QED BY <1>5, <2>3, <2>4 DEF FirstWins
<1>6. CASE r.entry = Append(s.entry, e) /\ Gives(n, e, w[k])
  <2> DEFINE l == Len(s.entry) + 1
  <2>1. /\ DOMAIN r.entry = DOMAIN s.entry \cup {l} /\ l \notin DOMAIN s.entry
        /\ r.entry[l] = e /\ \A i \in DOMAIN s.entry : r.entry[i] = s.entry[i]
    BY <1>1, <1>6, AppendAt
  <2> HIDE DEF l
  <2>2. \A i \in DOMAIN s.entry : s.entry[i] \in DOMAIN n.ent
    BY <2>1 DEF TableOf
  <2>3. \A i \in DOMAIN s.entry : Key(n, s.entry[i]) = Key(m, s.entry[i]) /\ n.ent[s.entry[i]].val = m.ent[s.entry[i]].val
    BY <1>2, <2>2
  <2>4. ASSUME NEW j \in 1 .. k PROVE \E i \in DOMAIN r.entry : Key(n, r.entry[i]) = w[j].key
    <3>1. CASE j = k BY <1>6, <2>1, <3>1 DEF Gives
    <3>2. CASE j \in 1 .. k - 1 BY <1>4, <2>1, <2>3, <3>2
    <3> QED BY <1>3, <3>1, <3>2
  <2>5. IsFirst(w, k)
    <3>1. \A i \in DOMAIN s.entry : Key(n, s.entry[i]) # Key(n, e)
      BY <2>1 DEF TableOf
    <3> QED BY <1>4, <1>6, <2>3, <3>1 DEF IsFirst, Gives
  <2>6. ASSUME NEW i \in DOMAIN r.entry PROVE \E j \in 1 .. k : IsFirst(w, j) /\ Gives(n, r.entry[i], w[j])
    <3>1. CASE i = l BY <1>3, <1>6, <2>1, <2>5, <3>1
    <3>2. CASE i \in DOMAIN s.entry
      <4>1. PICK j \in 1 .. k - 1 : IsFirst(w, j) /\ Gives(m, s.entry[i], w[j])
        BY <1>4, <3>2
      <4>2. Gives(n, r.entry[i], w[j]) BY <2>1, <2>3, <3>2, <4>1 DEF Gives
      <4> QED BY <1>3, <4>1, <4>2
    <3> QED BY <2>1, <3>1, <3>2
  <2> QED BY <2>4, <2>6 DEF FirstWins
<1> QED BY <1>5, <1>6

\* Nothing is in a table before the first round.
LEMMA NoRound ==
  ASSUME NEW m, NEW s, s.entry = <<>>, NEW w
  PROVE  FirstWins(m, s, w, 0)
BY DEF FirstWins

\* A place is 0, or the first of its kind among n.
IsPlace(p, n, d, key) ==
  \/ p = 0 /\ \A i \in 1 .. n : d.iset[i] # key
  \/ p \in 1 .. n /\ d.iset[p] = key /\ \A i \in 1 .. p - 1 : d.iset[i] # key
IsLine(p, n, d, key) ==
  \/ p = 0 /\ \A i \in 1 .. n : Written(d)[i].key # key
  \/ p \in 1 .. n /\ Written(d)[p].key = key /\ \A i \in 1 .. p - 1 : Written(d)[i].key # key

\* The place of a key in an index set is its first place, or 0.
LEMMA PlaceAt ==
  ASSUME NEW d, NEW n \in Nat, DOMAIN d.iset = 1 .. n, Len(d.iset) = n, NEW key
  PROVE  IsPlace(Place(d, key), n, d, key)
<1> USE DEF IsPlace
<1> DEFINE I == {i \in 1 .. n : d.iset[i] = key}
           p == IF I # {} THEN Min(I) ELSE 0
<1>1. Place(d, key) = p BY DEF Place, SelectInSeq
<1>2. CASE I = {} BY <1>1, <1>2
<1>3. CASE I # {}
  <2>1. I \in SUBSET Nat OBVIOUS
  <2> HIDE DEF I
  <2>2. PICK k \in I : \A j \in I : k <= j BY <1>3, <2>1, Least
  <2>3. Min(I) \in I /\ \A j \in I : Min(I) <= j BY <2>2 DEF Min
  <2>4. Place(d, key) \in I /\ \A j \in I : Place(d, key) <= j
    BY <1>1, <1>3, <2>3
  <2>5. Place(d, key) \in 1 .. n /\ d.iset[Place(d, key)] = key BY <2>4 DEF I
  <2>6. ASSUME NEW i \in 1 .. Place(d, key) - 1 PROVE d.iset[i] # key
    BY <2>4, <2>5 DEF I
  <2> QED BY <2>5, <2>6
<1> QED BY <1>2, <1>3

\* The same for the entries of a list.
Line(d, key) == SelectInSeq(Written(d), LAMBDA x : x.key = key)
LEMMA WrittenFirst ==
  ASSUME NEW d, NEW n \in Nat, DOMAIN Written(d) = 1 .. n, Len(Written(d)) = n, NEW key
  PROVE  IsLine(Line(d, key), n, d, key)
<1> USE DEF IsLine
<1> DEFINE k == Line(d, key)
           I == {i \in 1 .. n : Written(d)[i].key = key}
           p == IF I # {} THEN Min(I) ELSE 0
<1>1. k = p BY DEF Line, SelectInSeq
<1> HIDE DEF k
<1>2. CASE I = {} BY <1>1, <1>2 DEF k
<1>3. CASE I # {}
  <2>1. I \in SUBSET Nat OBVIOUS
  <2> HIDE DEF I
  <2>2. PICK a \in I : \A j \in I : a <= j BY <1>3, <2>1, Least
  <2>3. Min(I) \in I /\ \A j \in I : Min(I) <= j BY <2>2 DEF Min
  <2>4. k \in I /\ \A j \in I : k <= j BY <1>1, <1>3, <2>3
  <2>5. k \in 1 .. n /\ Written(d)[k].key = key BY <2>4 DEF I
  <2>6. ASSUME NEW i \in 1 .. k - 1 PROVE Written(d)[i].key # key
    BY <2>4, <2>5 DEF I
  <2> QED BY <2>5, <2>6 DEF k
<1> QED BY <1>2, <1>3

\* The lines read H come last first, then the literals I.
LinesFirst(w, H, I) == /\ \A i \in 1 .. Len(H) : w[i] = H[(Len(H) - i) + 1]
                       /\ \A i \in 1 .. Len(I) : w[Len(H) + i] = I[i]

\* The order in which the entries of a list are compared.
LEMMA WrittenAt ==
  ASSUME NEW d, NEW H, NEW I, HeadItems(d) = H, d.items = I, H \in Seq(ToSet(H)), I \in Seq(ToSet(I))
  PROVE  /\ Len(H) \in Nat /\ Len(I) \in Nat /\ DOMAIN Written(d) = 1 .. Len(Written(d))
         /\ Len(Written(d)) = Len(H) + Len(I)
         /\ I = <<>> => Written(d) = H
         /\ I # <<>> => LinesFirst(Written(d), H, I)
<1>1. PICK T, U : H \in Seq(T) /\ I \in Seq(U)  OBVIOUS
<1>2. CASE I = <<>> BY <1>1, <1>2 DEF Written
<1>3. CASE I # <<>>
  <2> DEFINE R == Reverse(H)
  <2>1. Len(R) = Len(H) /\ R \in Seq(T) /\ \A i \in 1 .. Len(H) : R[i] = H[(Len(H) - i) + 1]
    BY <1>1 DEF Reverse
  <2> HIDE DEF R
  <2>2. Written(d) = R \o I BY <1>3 DEF Written, R
  <2>3. R \in Seq(T \cup U) /\ I \in Seq(T \cup U) BY <1>1, <2>1
  <2>4. /\ Len(R \o I) = Len(R) + Len(I) /\ DOMAIN (R \o I) = 1 .. Len(R) + Len(I)
        /\ \A i \in 1 .. Len(R) : (R \o I)[i] = R[i]
        /\ \A i \in 1 .. Len(I) : (R \o I)[Len(R) + i] = I[i]
        /\ Len(R) \in Nat /\ Len(I) \in Nat
    BY ONLY <2>3
  <2> QED BY ONLY <1>3, <2>1, <2>2, <2>4 DEF LinesFirst
<1> QED BY <1>2, <1>3

\* The list so far: the literals behind cur.left and the lines read.
ListTold ==
  pc = "list" =>
    /\ Len(cur.list) + cur.left = Len(cur.decl.items)
    /\ \A i \in DOMAIN cur.list : Says(mem, cur.list[i], cur.decl.items[cur.left + i])
    /\ Len(cur.read) <= Len(HeadItems(cur.decl))
    /\ \A i \in DOMAIN cur.read : Says(mem, cur.read[i], HeadItems(cur.decl)[i])

\* The lines in front of the literals.
FrontTold ==
  pc = "front" =>
    /\ cur.decl.items # <<>> /\ Len(cur.read) = Len(HeadItems(cur.decl)) /\ cur.left <= Len(cur.read) + 1
    /\ \A i \in DOMAIN cur.read : Says(mem, cur.read[i], HeadItems(cur.decl)[i])
    /\ Len(cur.list) + 1 = cur.left + Len(cur.decl.items)
    /\ \A i \in DOMAIN cur.list :
         Says(mem, cur.list[i], IF i < cur.left THEN HeadItems(cur.decl)[cur.left - i]
                                ELSE cur.decl.items[(i - cur.left) + 1])

\* The list in full.
ListsTold ==
  cur.decl.kind \in {"para1", "set2"} /\ pc \in {"deflt", "begin", "by list", "by index"} =>
    /\ Len(cur.list) = Len(Written(cur.decl))
    /\ \A i \in DOMAIN cur.list : Says(mem, cur.list[i], Written(cur.decl)[i])

\* The default.
IsDefault(d, m, e) ==
  IF d.kind \in {"para1", "set2"} /\ d.deflt # <<>> THEN e # 0 /\ m.ent[e].val = d.deflt[1].val ELSE e = 0
DefaultTold ==
  /\ pc = "begin" => IsDefault(cur.decl, mem, cur.deflt)
  /\ pc \in Looping \cup {"finish"} => syms # <<>> /\ IsDefault(cur.decl, mem, This.deflt)

\* The rounds of the loop, and which loop it is.
LoopTold ==
  /\ pc \in Looping => FirstWins(mem, This, Wanted(cur.decl, pc), cur.left - 1)
  /\ pc = "by list" => /\ cur.left <= Len(Written(cur.decl)) + 1 /\ ~ NoEntries(cur.decl)
                       /\ cur.decl.kind = "para1" => ~ Unkeyed(cur.decl)
                       /\ cur.decl.kind = "set2" /\ cur.decl.iset # << <<>> >> => This.iset = cur.decl.iset
  /\ pc = "by index" => /\ cur.left <= Len(Written(cur.decl)) + 1 /\ cur.left <= Len(cur.decl.iset) + 1
                        /\ ~ NoEntries(cur.decl) /\ Unkeyed(cur.decl)
  /\ pc = "each" => cur.left <= Len(cur.decl.iset) + 1
  /\ pc = "finish" => /\ cur.decl.kind = "para1" /\ This.entry = <<>>
                      /\ Written(cur.decl) = <<>> \/ NoEntries(cur.decl)

\* The strengthening that proves BindsAsWritten.
Told == ListTold /\ FrontTold /\ ListsTold /\ DefaultTold /\ LoopTold

\* A chain without the key gives no entry.
LEMMA NotThere ==
  ASSUME NEW m, NEW chain \in Lists, NEW key, \A i \in DOMAIN chain : Key(m, chain[i]) # key
  PROVE  hash_lookup_entry(m, chain, key) = 0
<1>1. DOMAIN chain = 1 .. Len(chain) BY DEF Lists
<1>2. {i \in 1 .. Len(chain) : Key(m, chain[i]) = key} = {} BY <1>1
<1> QED BY <1>2 DEF hash_lookup_entry, SelectInSeq

\* What symbol_lookup_entry finds: the entry with the key, or else the default.
LEMMA LookedUp ==
  ASSUME NEW s, IsSymbol(s), TableOf(mem, s), NEW key, key \in ToSet(s.iset)
  PROVE  /\ \A i \in DOMAIN s.entry : Key(mem, s.entry[i]) = key => Found(s, key) = <<mem.ent[s.entry[i]].val>>
         /\ (\A i \in DOMAIN s.entry : Key(mem, s.entry[i]) # key) =>
              Found(s, key) = IF s.deflt = 0 THEN <<>> ELSE <<mem.ent[s.deflt].val>>
<1>1. s.entry \in Lists /\ s.hash \in Lists /\ s.hash = Reverse(s.entry)
  BY DEF IsSymbol, TableOf
<1>2. ASSUME NEW i \in DOMAIN s.entry, Key(mem, s.entry[i]) = key
      PROVE  Found(s, key) = <<mem.ent[s.entry[i]].val>>
  <2>1. hash_lookup_entry(mem, s.hash, key) = s.entry[i] BY <1>2, HashFinds
  <2>2. s.entry[i] # 0 BY <1>1 DEF Lists, Numbered
  <2> QED BY <2>1, <2>2 DEF Found, symbol_lookup_entry
<1>3. ASSUME \A i \in DOMAIN s.entry : Key(mem, s.entry[i]) # key
      PROVE  Found(s, key) = IF s.deflt = 0 THEN <<>> ELSE <<mem.ent[s.deflt].val>>
  <2>1. /\ DOMAIN s.entry = 1 .. Len(s.entry) /\ Len(s.entry) \in Nat /\ DOMAIN s.hash = 1 .. Len(s.entry)
        /\ \A i \in 1 .. Len(s.entry) : s.hash[i] = s.entry[(Len(s.entry) - i) + 1]
    BY <1>1 DEF Lists, Reverse
  <2>2. ASSUME NEW i \in DOMAIN s.hash PROVE Key(mem, s.hash[i]) # key
    <3>1. (Len(s.entry) - i) + 1 \in DOMAIN s.entry BY <2>1, MirrorAt
    <3> QED BY <1>3, <2>1, <3>1
  <2>3. hash_lookup_entry(mem, s.hash, key) = 0 BY <1>1, <2>2, NotThere
  <2> QED BY <2>3 DEF Found, symbol_lookup_entry
<1> QED BY <1>2, <1>3

\* The first of n rounds with a key.
IsRound(w, n, key, j) == n \in Nat /\ j \in 1 .. n /\ w[j].key = key /\ IsFirst(w, j)

\* A key finds the value of its first round.
LEMMA FoundFirst ==
  ASSUME NEW s, IsSymbol(s), TableOf(mem, s), NEW w, NEW n, FirstWins(mem, s, w, n),
         NEW key, key \in ToSet(s.iset), NEW j, IsRound(w, n, key, j)
  PROVE  Found(s, key) = <<w[j].val>>
<1>0. n \in Nat /\ j \in 1 .. n /\ w[j].key = key /\ IsFirst(w, j)
  BY DEF IsRound
<1>1. PICK i \in DOMAIN s.entry : Key(mem, s.entry[i]) = key
  BY <1>0 DEF FirstWins
<1>2. PICK h \in 1 .. n : IsFirst(w, h) /\ Gives(mem, s.entry[i], w[h])
  BY DEF FirstWins
<1>3. w[h].key = key /\ w[h].val = mem.ent[s.entry[i]].val
  BY <1>1, <1>2 DEF Gives
<1>4. h = j BY <1>0, <1>2, <1>3 DEF IsFirst
<1> QED BY <1>1, <1>3, <1>4, LookedUp

\* A key without a round finds the default.
LEMMA FoundNone ==
  ASSUME NEW s, IsSymbol(s), TableOf(mem, s), NEW w, NEW n \in Nat, FirstWins(mem, s, w, n),
         NEW key, key \in ToSet(s.iset), \A j \in 1 .. n : w[j].key # key
  PROVE  Found(s, key) = IF s.deflt = 0 THEN <<>> ELSE <<mem.ent[s.deflt].val>>
<1>1. \A i \in DOMAIN s.entry : Key(mem, s.entry[i]) # key
  BY DEF FirstWins, Gives
<1> QED BY <1>1, LookedUp

\* The sequences of a declaration.
LEMMA DeclLists ==
  ASSUME NEW d \in Decls
  PROVE  /\ DOMAIN d.iset = 1 .. Len(d.iset) /\ Len(d.iset) \in Nat
         /\ <<>> \in ToSet(d.iset) => d.iset = << <<>> >>
         /\ d.kind \in {"para1", "set2"} =>
              /\ HeadItems(d) \in Seq(ToSet(HeadItems(d))) /\ d.items \in Seq(ToSet(d.items))
              /\ DOMAIN Written(d) = 1 .. Len(Written(d)) /\ Len(Written(d)) \in Nat
              /\ Len(Written(d)) = 0 <=> Written(d) = <<>>
<1>1. IsDecl(d) BY SymbolTableAssumption
<1>2. IsKey(d.iset) /\ (<<>> \in ToSet(d.iset) => d.iset = << <<>> >>)
  BY <1>1 DEF IsDecl
<1>3. DOMAIN d.iset = 1 .. Len(d.iset) /\ Len(d.iset) \in Nat
  <2>1. PICK T : d.iset \in Seq(T) BY <1>2 DEF IsKey
  <2> QED BY <2>1
<1>4. ASSUME d.kind \in {"para1", "set2"}
      PROVE  /\ HeadItems(d) \in Seq(ToSet(HeadItems(d))) /\ d.items \in Seq(ToSet(d.items))
             /\ DOMAIN Written(d) = 1 .. Len(Written(d)) /\ Len(Written(d)) \in Nat
             /\ Len(Written(d)) = 0 <=> Written(d) = <<>>
  <2>1. PICK H, I : H = HeadItems(d) /\ I = d.items OBVIOUS
  <2>2. H \in Seq(ToSet(H)) /\ I \in Seq(ToSet(I))
    BY <1>1, <1>4, <2>1 DEF IsDecl, IsItems
  <2>3. /\ Len(H) \in Nat /\ Len(I) \in Nat /\ DOMAIN Written(d) = 1 .. Len(Written(d))
        /\ Len(Written(d)) = Len(H) + Len(I)
    BY <2>1, <2>2, WrittenAt
  <2>4. Written(d) = <<>> => Len(Written(d)) = 0 OBVIOUS
  <2>5. ASSUME Len(Written(d)) = 0 PROVE Written(d) = <<>>
    <3>0. Len(H) \in Nat /\ Len(I) \in Nat /\ Len(H) + Len(I) = 0 BY <2>3, <2>5
    <3>1. Len(H) = 0 /\ Len(I) = 0 BY ONLY <3>0
    <3>2. H = <<>> /\ I = <<>> BY <2>2, <3>1
    <3> QED BY <2>1, <3>2 DEF Written
  <2> QED BY <2>1, <2>2, <2>3, <2>4, <2>5
<1> QED BY <1>2, <1>3, <1>4

\* The symbol a loop has filled.
LEMMA LoopSymbol ==
  ASSUME Inv, pc # "none", syms # <<>>
  PROVE  IsSymbol(This) /\ TableOf(mem, This)
<1>1. AreSymbols(syms) /\ \A i \in DOMAIN syms : TableOf(mem, syms[i])
  BY DEF Inv, InStage, InMemory
<1>2. Len(syms) \in DOMAIN syms /\ IsSymbol(syms[Len(syms)])
  BY <1>1, LastIsSymbol
<1> QED BY <1>1, <1>2 DEF This

\* The loop of a list is over.
LEMMA ListBinds ==
  ASSUME Inv, Told, pc = "by list", cur.left > Len(cur.list), NEW key \in ToSet(This.iset)
  PROVE  Found(This, key) = Answer(cur.decl, key)
<1>1. PICK d, s, n : d = cur.decl /\ s = This /\ n = cur.left - 1 OBVIOUS
<1>2. d \in Decls /\ d.kind \in {"para1", "set2"} /\ cur.left \in Nat /\ cur.left # 0
  BY <1>1 DEF Inv, InStage, InLoop, IsStmt, Working, Looping
<1>3. /\ DOMAIN Written(d) = 1 .. Len(Written(d)) /\ Len(Written(d)) \in Nat
      /\ <<>> \in ToSet(d.iset) => d.iset = << <<>> >>
  BY <1>2, DeclLists
<1>4. IsSymbol(s) /\ TableOf(mem, s)
  BY <1>1, LoopSymbol DEF Inv, InLoop, Looping
<1>14. PICK w : w = Wanted(d, "by list") OBVIOUS
<1>5. FirstWins(mem, s, w, n) /\ cur.left <= Len(Written(d)) + 1 /\ ~ NoEntries(d) /\ (d.kind = "para1" => ~ Unkeyed(d))
      /\ (d.kind = "set2" /\ d.iset # << <<>> >> => s.iset = d.iset)
  BY <1>1, <1>14 DEF Told, LoopTold, Looping
<1>6. n = Len(Written(d)) /\ Len(cur.list) = Len(Written(d))
  <2>1. Len(cur.list) = Len(Written(d)) BY <1>1, <1>2 DEF Told, ListsTold
  <2>2. n = cur.left - 1 /\ cur.left \in Nat /\ Len(Written(d)) \in Nat
        /\ cur.left <= Len(Written(d)) + 1 /\ cur.left > Len(Written(d))
    BY <1>1, <1>2, <1>3, <1>5, <2>1
  <2>3. n = Len(Written(d)) BY ONLY <2>2
  <2> QED BY <2>1, <2>3
<1>7. \A i \in 1 .. n : w[i].key = Written(d)[i].key /\ w[i].val = Written(d)[i].val
  BY <1>3, <1>6, <1>14 DEF Wanted
<1>8. ~ Unkeyed(d)
  <2> SUFFICES ASSUME d.kind = "set2", Unkeyed(d) PROVE FALSE BY <1>2, <1>5
  <2>1. Len(Written(d)) > 1 /\ Written(d)[1].key = <<>> /\ d.iset # << <<>> >>
    BY DEF Unkeyed
  <2>2. 1 \in 1 .. n /\ w[1].key = <<>>
    <3>1. 1 \in 1 .. n BY ONLY <1>3, <1>6, <2>1
    <3> QED BY <1>7, <2>1, <3>1
  <2>3. PICK i \in DOMAIN s.entry : Key(mem, s.entry[i]) = <<>>
    BY <1>5, <2>2 DEF FirstWins
  <2>4. <<>> \in ToSet(s.iset) BY <1>4, <2>3 DEF TableOf
  <2> QED BY <1>3, <1>5, <2>1, <2>4
<1>0. PICK k : k = Line(d, key) OBVIOUS
<1>9. First(d, key) = k BY <1>0, <1>8 DEF First, Line
<1>10. \/ k = 0 /\ \A i \in 1 .. n : Written(d)[i].key # key
       \/ k \in 1 .. n /\ Written(d)[k].key = key /\ \A i \in 1 .. k - 1 : Written(d)[i].key # key
  <2>1. n \in Nat /\ DOMAIN Written(d) = 1 .. n /\ Len(Written(d)) = n
    BY <1>3, <1>6
  <2>2. IsLine(Line(d, key), n, d, key) BY <2>1, WrittenFirst
  <2> QED BY <1>0, <2>2 DEF IsLine
<1>11. key \in ToSet(s.iset) /\ n \in Nat BY <1>1, <1>3, <1>6
<1>12. CASE k = 0 /\ \A i \in 1 .. n : Written(d)[i].key # key
  <2>1. \A j \in 1 .. n : w[j].key # key BY <1>7, <1>12
  <2>2. Found(s, key) = IF s.deflt = 0 THEN <<>> ELSE <<mem.ent[s.deflt].val>>
    BY <1>4, <1>5, <1>11, <2>1, FoundNone
  <2>3. IsDefault(d, mem, s.deflt) BY <1>1 DEF Told, DefaultTold, Looping
  <2>4. Answer(d, key) = IF d.deflt = <<>> THEN <<>> ELSE <<d.deflt[1].val>>
    BY <1>2, <1>9, <1>12 DEF Answer
  <2> QED BY <1>1, <1>2, <2>2, <2>3, <2>4 DEF IsDefault
<1>13. CASE k \in 1 .. n /\ Written(d)[k].key = key /\ \A i \in 1 .. k - 1 : Written(d)[i].key # key
  <2>4. n \in Nat /\ k \in 1 .. n BY <1>11, <1>13
  <2>0. k # 0 /\ k \in 1 .. n /\ \A i \in 1 .. k - 1 : i \in 1 .. n BY ONLY <2>4
  <2>1. w[k].key = key /\ w[k].val = Written(d)[k].val /\ IsFirst(w, k)
    <3>1. w[k].key = key /\ w[k].val = Written(d)[k].val BY <1>7, <1>13, <2>0
    <3>2. IsFirst(w, k) BY <1>7, <1>13, <2>0 DEF IsFirst
    <3> QED BY <3>1, <3>2
  <2>2. Found(s, key) = <<w[k].val>>
    <3>1. IsRound(w, n, key, k) BY <2>4, <2>1 DEF IsRound
    <3> QED BY ONLY <1>4, <1>5, <1>11, <3>1, FoundFirst
  <2>3. Answer(d, key) = <<Written(d)[k].val>>
    BY <1>2, <1>5, <1>9, <2>0 DEF Answer
  <2> QED BY <1>1, <2>1, <2>2, <2>3
<1> QED BY <1>10, <1>12, <1>13

\* A member of an index set has a place there.
LEMMA PlaceOf ==
  ASSUME NEW d \in Decls, NEW key \in ToSet(d.iset)
  PROVE  /\ Place(d, key) \in 1 .. Len(d.iset) /\ d.iset[Place(d, key)] = key
         /\ \A i \in 1 .. Place(d, key) - 1 : d.iset[i] # key
<1>1. DOMAIN d.iset = 1 .. Len(d.iset) /\ Len(d.iset) \in Nat BY DeclLists
<1>2. PICK n : n = Len(d.iset) OBVIOUS
<1>3. IsPlace(Place(d, key), n, d, key) BY <1>1, <1>2, PlaceAt
<1>4. \E i \in 1 .. n : d.iset[i] = key BY <1>1, <1>2 DEF ToSet
<1> QED BY <1>2, <1>3, <1>4 DEF IsPlace

\* The loop over values without keys is over.
LEMMA IndexBinds ==
  ASSUME Inv, Told, pc = "by index", cur.left > Len(cur.list) \/ cur.left > Len(This.iset), NEW key \in ToSet(This.iset)
  PROVE  Found(This, key) = Answer(cur.decl, key)
<1>1. PICK d, s, n, w, a, b, p : /\ d = cur.decl /\ s = This /\ n = cur.left - 1 /\ w = Wanted(d, "by index")
                                 /\ a = Len(Written(d)) /\ b = Len(d.iset) /\ p = Place(d, key)
  OBVIOUS
<1>2. d \in Decls /\ d.kind = "para1" /\ cur.left \in Nat /\ cur.left # 0 /\ s.iset = d.iset
  BY <1>1 DEF Inv, InStage, InLoop, IsStmt, Working, Looping
<1>3. DOMAIN d.iset = 1 .. b /\ b \in Nat /\ a \in Nat BY <1>1, <1>2, DeclLists
<1>4. IsSymbol(s) /\ TableOf(mem, s) /\ key \in ToSet(s.iset) /\ key \in ToSet(d.iset)
  BY <1>1, <1>2, LoopSymbol DEF Inv, InLoop, Looping
<1>5. FirstWins(mem, s, w, n) /\ cur.left <= a + 1 /\ cur.left <= b + 1 /\ ~ NoEntries(d) /\ Unkeyed(d)
  BY <1>1 DEF Told, LoopTold, Looping
<1>6. n \in Nat /\ n <= a /\ n <= b /\ (n = a \/ n = b)
  <2>1. Len(cur.list) = a BY <1>1, <1>2 DEF Told, ListsTold
  <2>2. n = cur.left - 1 /\ (cur.left > a \/ cur.left > b) BY <1>1, <1>2, <2>1
  <2> QED BY ONLY <1>2, <1>3, <1>5, <2>2
<1>7. \A i \in 1 .. b : w[i].key = d.iset[i] /\ w[i].val = Written(d)[i].val
  BY <1>1, <1>3 DEF Wanted
<1>8. p \in 1 .. b /\ d.iset[p] = key /\ \A i \in 1 .. p - 1 : d.iset[i] # key
  BY <1>1, <1>2, <1>4, PlaceOf
<1>9. First(d, key) = IF p <= a THEN p ELSE 0 BY <1>1, <1>5 DEF First
<1>10. CASE p <= a
  <2>1. p # 0 /\ p \in 1 .. n /\ p \in 1 .. b /\ \A i \in 1 .. p - 1 : i \in 1 .. b
    BY ONLY <1>3, <1>6, <1>8, <1>10
  <2>2. w[p].key = key /\ w[p].val = Written(d)[p].val /\ IsFirst(w, p)
    BY <1>7, <1>8, <2>1 DEF IsFirst
  <2>3. IsRound(w, n, key, p) BY <1>6, <2>1, <2>2 DEF IsRound
  <2>4. Found(s, key) = <<w[p].val>> BY ONLY <1>4, <1>5, <2>3, FoundFirst
  <2>5. Answer(d, key) = <<Written(d)[p].val>>
    BY <1>2, <1>5, <1>9, <1>10, <2>1 DEF Answer
  <2> QED BY <1>1, <2>2, <2>4, <2>5
<1>11. CASE ~ (p <= a)
  <2>1. \A j \in 1 .. n : j \in 1 .. p - 1 /\ j \in 1 .. b
    BY ONLY <1>3, <1>6, <1>8, <1>11
  <2>2. \A j \in 1 .. n : w[j].key # key BY <1>7, <1>8, <2>1
  <2>3. Found(s, key) = IF s.deflt = 0 THEN <<>> ELSE <<mem.ent[s.deflt].val>>
    BY ONLY <1>4, <1>5, <1>6, <2>2, FoundNone
  <2>4. IsDefault(d, mem, s.deflt) BY <1>1 DEF Told, DefaultTold, Looping
  <2>5. Answer(d, key) = IF d.deflt = <<>> THEN <<>> ELSE <<d.deflt[1].val>>
    BY <1>2, <1>9, <1>11 DEF Answer
  <2> QED BY <1>1, <1>2, <2>3, <2>4, <2>5 DEF IsDefault
<1> QED BY <1>10, <1>11

\* The loop over an index set is over.
LEMMA EachBinds ==
  ASSUME Inv, Told, pc = "each", cur.left > Len(This.iset), NEW key \in ToSet(This.iset)
  PROVE  Found(This, key) = Answer(cur.decl, key)
<1>1. PICK d, s, n, w, b, p : /\ d = cur.decl /\ s = This /\ n = cur.left - 1 /\ w = Wanted(d, "each")
                              /\ b = Len(d.iset) /\ p = Place(d, key)
  OBVIOUS
<1>2. d \in Decls /\ d.kind \in {"set1", "para2", "var"} /\ cur.left \in Nat /\ cur.left # 0 /\ s.iset = d.iset
  BY <1>1 DEF Inv, InStage, InLoop, IsStmt, Working, Looping
<1>3. DOMAIN d.iset = 1 .. b /\ b \in Nat BY <1>1, <1>2, DeclLists
<1>4. IsSymbol(s) /\ TableOf(mem, s) /\ key \in ToSet(s.iset) /\ key \in ToSet(d.iset)
  BY <1>1, <1>2, LoopSymbol DEF Inv, InLoop, Looping
<1>5. FirstWins(mem, s, w, n) /\ cur.left <= b + 1
  BY <1>1 DEF Told, LoopTold, Looping
<1>6. n \in Nat /\ n = b
  <2>1. n = cur.left - 1 /\ cur.left > b BY <1>1, <1>2
  <2> QED BY ONLY <1>2, <1>3, <1>5, <2>1
<1>7. \A i \in 1 .. b : w[i].key = d.iset[i] /\ w[i].val = EachValue(d, i)
  BY <1>1, <1>3 DEF Wanted
<1>8. p \in 1 .. b /\ d.iset[p] = key /\ \A i \in 1 .. p - 1 : d.iset[i] # key
  BY <1>1, <1>2, <1>4, PlaceOf
<1>9. p \in 1 .. n /\ \A i \in 1 .. p - 1 : i \in 1 .. b
  BY ONLY <1>3, <1>6, <1>8
<1>10. w[p].key = key /\ w[p].val = EachValue(d, p) /\ IsFirst(w, p)
  BY <1>7, <1>8, <1>9 DEF IsFirst
<1>11. IsRound(w, n, key, p) BY <1>6, <1>9, <1>10 DEF IsRound
<1>12. Found(s, key) = <<w[p].val>> BY ONLY <1>4, <1>5, <1>11, FoundFirst
<1>13. Answer(d, key) = <<EachValue(d, p)>> BY <1>1, <1>2 DEF Answer, EachValue
<1> QED BY <1>1, <1>10, <1>12, <1>13

\* A file without entries leaves the default.
LEMMA NoneBinds ==
  ASSUME Inv, Told, pc = "finish", NEW key \in ToSet(This.iset)
  PROVE  Found(This, key) = Answer(cur.decl, key)
<1>1. PICK d, s : d = cur.decl /\ s = This OBVIOUS
<1>2. /\ d \in Decls /\ d.kind = "para1" /\ s.entry = <<>> /\ syms # <<>>
      /\ Written(d) = <<>> \/ NoEntries(d)
      /\ IsDefault(d, mem, s.deflt)
  BY <1>1 DEF Inv, InStage, Working, Told, LoopTold, DefaultTold
<1>3. IsSymbol(s) /\ TableOf(mem, s) /\ key \in ToSet(s.iset)
  BY <1>1, <1>2, LoopSymbol
<1>4. Found(s, key) = IF s.deflt = 0 THEN <<>> ELSE <<mem.ent[s.deflt].val>>
  BY <1>2, <1>3, LookedUp
<1>5. Answer(d, key) = IF d.deflt = <<>> THEN <<>> ELSE <<d.deflt[1].val>>
  <2>1. CASE NoEntries(d) BY <1>2, <2>1 DEF Answer
  <2>2. CASE Written(d) = <<>>
    <3>1. First(d, key) = 0 BY <2>2 DEF First, Unkeyed, SelectInSeq
    <3> QED BY <1>2, <3>1 DEF Answer
  <2> QED BY <1>2, <2>1, <2>2
<1> QED BY <1>1, <1>2, <1>4, <1>5 DEF IsDefault

\* Every loop that is over has bound what the declaration says.
LEMMA ToldBinds ==
  ASSUME Inv, Told
  PROVE  BindsAsWritten
<1> SUFFICES ASSUME LoopOver, NEW key \in ToSet(This.iset) PROVE Found(This, key) = Answer(cur.decl, key)
  BY DEF BindsAsWritten
<1> QED BY ListBinds, IndexBinds, EachBinds, NoneBinds DEF LoopOver

\* The entries in the lists of a statement.
Listing == {"list", "front", "deflt", "begin", "by list", "by index"}
InLists == (IF pc \in Listing THEN ToSet(cur.list) ELSE {}) \cup (IF pc \in {"list", "front"} THEN ToSet(cur.read) ELSE {})

\* What is held is alive, before a step.
LEMMA HeldNow ==
  ASSUME Inv, pc # "none"
  PROVE  \A e \in HeldBy(Places) : e \in DOMAIN mem.ent
<1>1. Plain(Places) /\ Ledger(mem, Places, carried) BY TheBooks DEF Ledger
<1> QED BY <1>1, Alive

\* What is held is alive, after a step.
LEMMA HeldThen ==
  ASSUME Inv', pc' # "none"
  PROVE  \A e \in HeldBy(Places') : e \in DOMAIN mem'.ent
<1>1. Plain(Places') /\ Ledger(mem', Places', carried')
  BY PlainThen DEF Inv, InMemory
<1>2. PICK n, h, b : n = mem' /\ h = Places' /\ b = carried' OBVIOUS
<1>3. \A e \in HeldBy(h) : e \in DOMAIN n.ent BY <1>1, <1>2, Alive
<1> QED BY <1>2, <1>3

\* The lists hold their entries, or the nodes do.
LEMMA ListsNow ==
  ASSUME Inv
  PROVE  InLists \subseteq HeldBy(Places)
<1>1. HeldBy(Places) = ToSet(tree.ent) \cup ToSet(cur.held.ent) \cup ToSet(tree.cells) \cup ToSet(cur.held.cells)
                       \cup ToSet(ListHeld) \cup ToSet(ReadHeld)
  BY PlacesNow DEF HeldBy, PlacesAre
<1> QED BY <1>1 DEF InLists, Listing, ListHeld, ReadHeld, Inv, InStage

\* The same after a step.
LEMMA ListsThen ==
  ASSUME Inv'
  PROVE  InLists' \subseteq HeldBy(Places')
<1>1. HeldBy(Places') = ToSet(tree'.ent) \cup ToSet(cur'.held.ent) \cup ToSet(tree'.cells) \cup ToSet(cur'.held.cells)
                       \cup ToSet(ListHeld') \cup ToSet(ReadHeld')
  <2>1. PICK h : h = Places' OBVIOUS
  <2>2. PlacesAre(h, tree', cur'.held, ListHeld', ReadHeld', syms')
    BY <2>1, PlacesThen
  <2> QED BY <2>1, <2>2 DEF HeldBy, PlacesAre
<1> QED BY <1>1 DEF InLists, Listing, ListHeld, ReadHeld, Inv, InStage

\* An entry that stays in the lists says what it said.
LEMMA ListedSays ==
  ASSUME Inv, Onward, NEW e \in InLists, e \in InLists', NEW x, Says(mem, e, x)
  PROVE  Says(mem', e, x)
<1>1. pc # "none" /\ pc' # "none" BY DEF InLists, Listing
<1>2. e \in DOMAIN mem.ent BY <1>1, HeldNow, ListsNow
<1>3. e \in DOMAIN mem'.ent BY <1>1, HeldThen, ListsThen DEF Onward
<1> QED BY <1>2, <1>3, SaysOn DEF Onward

\* Between statements nothing is told.
LEMMA Resting ==
  ASSUME pc' \notin {"list", "front", "deflt", "begin", "by list", "by index", "each", "finish"}
  PROVE  Told'
BY DEF Told, ListTold, FrontTold, ListsTold, DefaultTold, LoopTold, Looping

\* A declaration is met: nothing is listed yet.
LEMMA DeclareTells ==
  ASSUME Inv, NEW d \in Decls, Declare(d)
  PROVE  Told'
<1>1. CASE pc' \in {"idle", "exit"} BY <1>1, Resting
<1>2. CASE pc' \in {"list", "begin"}
  <2>1. /\ pc' = (IF d.kind \in {"para1", "set2"} THEN "list" ELSE "begin")
        /\ cur' = [NoStmt EXCEPT !.decl = d, !.left = IF d.kind \in {"para1", "set2"} THEN Len(d.items) ELSE 0]
    BY <1>2 DEF Declare, Inv, InStage
  <2>2. /\ cur'.decl = d /\ cur'.list = <<>> /\ cur'.read = <<>> /\ cur'.deflt = 0
        /\ cur'.left = IF d.kind \in {"para1", "set2"} THEN Len(d.items) ELSE 0
    BY <2>1 DEF NoStmt
  <2>3. d.kind \in {"para1", "set2"} => Len(d.items) \in Nat /\ Len(HeadItems(d)) \in Nat
    BY ItemsOf
  <2>4. CASE d.kind \in {"para1", "set2"}
    <3>1. pc' = "list" /\ cur'.left = Len(d.items) BY <2>1, <2>2, <2>4
    <3>2. ListTold' BY <2>2, <2>3, <2>4, <3>1 DEF ListTold
    <3> QED BY <3>1, <3>2 DEF Told, FrontTold, ListsTold, DefaultTold, LoopTold, Looping
  <2>5. CASE d.kind \notin {"para1", "set2"}
    BY <2>1, <2>2, <2>5 DEF Told, ListTold, FrontTold, ListsTold, DefaultTold, LoopTold, Looping, IsDefault
  <2> QED BY <2>4, <2>5
<1> QED BY <1>1, <1>2 DEF Declare, Inv, InStage

\* One literal more, in front of those behind it.
LEMMA EntryNodeTells ==
  ASSUME Inv, Told, Onward, EntryNode
  PROVE  Told'
<1>1. CASE pc' = "exit" BY <1>1, Resting
<1>2. CASE pc' # "exit"
  <2>1. PICK item : item = cur.decl.items[cur.left] OBVIOUS
  <2>2. /\ pc = "list" /\ cur.left > 0 /\ item.type # "NAME" /\ pc' = "list"
        /\ mem' = list_data_new(NodeEntry(mem, item), NewEnt(mem))
        /\ cur' = [cur EXCEPT !.list = <<NewEnt(mem)>> \o @, !.left = @ - 1]
    BY <1>2, <2>1 DEF EntryNode, Fail
  <2>3. /\ cur.list \in Lists /\ cur.read \in Lists /\ IsStmt(cur) /\ cur.decl \in Decls
        /\ cur.decl.kind \in {"para1", "set2"} /\ cur.left \in Nat /\ cur.left <= Len(cur.decl.items) /\ pc # "none"
    BY <2>2 DEF Inv, InStage, IsStmt, Working
  <2>4. IsKey(item.key) /\ item.type \in Types
    <3>1. PICK d, l : d = cur.decl /\ l = cur.left OBVIOUS
    <3>2. Len(d.items) \in Nat /\ l \in Nat /\ l > 0 /\ l <= Len(d.items)
      BY <2>2, <2>3, <3>1, ItemsOf
    <3>3. l \in 1 .. Len(d.items) BY ONLY <3>2
    <3> QED BY <2>1, <2>2, <2>3, <3>1, <3>3, ItemsOf
  <2>5. PICK e : e = NewEnt(mem) OBVIOUS
  <2>6. e \in Numbered /\ Says(mem', e, item)
    <3>1. PICK f, g, l : Sound(mem, f, g, l, carried) BY <2>3, TheBooks
    <3> QED BY <2>2, <2>4, <2>5, <3>1, ListEntryMade DEF Types, Says
  <2>7. /\ cur'.decl = cur.decl /\ cur'.list = <<e>> \o cur.list /\ cur'.read = cur.read /\ cur'.left = cur.left - 1
    BY <2>2, <2>3, <2>5 DEF IsStmt
  <2>8. PICK s, n, d, l : s = cur.list /\ n = Len(cur.list) /\ d = cur.decl /\ l = cur.left
    OBVIOUS
  <2>9. /\ n + l = Len(d.items) /\ \A i \in DOMAIN s : Says(mem, s[i], d.items[l + i])
        /\ Len(cur.read) <= Len(HeadItems(d))
        /\ \A i \in DOMAIN cur.read : Says(mem, cur.read[i], HeadItems(d)[i])
    BY <2>2, <2>8 DEF Told, ListTold
  <2>10. /\ DOMAIN s = 1 .. n /\ n \in Nat /\ DOMAIN cur'.list = 1 .. n + 1 /\ Len(cur'.list) = n + 1
         /\ cur'.list[1] = e /\ \A i \in 1 .. n + 1 : i # 1 => i - 1 \in DOMAIN s /\ cur'.list[i] = s[i - 1]
    <3>1. s \in Lists /\ e \in Numbered /\ cur'.list = <<e>> \o s /\ n = Len(s)
      BY <2>3, <2>6, <2>7, <2>8
    <3> QED BY ONLY <3>1, PrependAt
  <2>11. ASSUME NEW i \in DOMAIN cur'.list PROVE Says(mem', cur'.list[i], d.items[(l - 1) + i])
    <3>1. CASE i = 1
      <4>1. (l - 1) + i = l BY <2>3, <2>8, <3>1
      <4> QED BY <2>1, <2>6, <2>8, <2>10, <3>1, <4>1
    <3>2. CASE i # 1
      <4>1. i - 1 \in DOMAIN s /\ cur'.list[i] = s[i - 1] BY <2>10, <3>2
      <4>2. (l - 1) + i = l + (i - 1) BY <2>3, <2>8, <2>10
      <4>3. Says(mem, s[i - 1], d.items[(l - 1) + i]) BY <2>9, <4>1, <4>2
      <4>4. cur'.list[i] \in InLists /\ cur'.list[i] \in InLists'
        BY <2>2, <2>8, <4>1 DEF InLists, Listing, ToSet
      <4>5. Says(mem, cur'.list[i], d.items[(l - 1) + i]) BY <4>1, <4>3
      <4> QED BY <4>4, <4>5, ListedSays
    <3> QED BY <3>1, <3>2
  <2>12. ASSUME NEW i \in DOMAIN cur.read PROVE Says(mem', cur.read[i], HeadItems(d)[i])
    <3>1. cur.read[i] \in InLists /\ cur.read[i] \in InLists'
      BY <2>2, <2>7 DEF InLists, Listing, ToSet
    <3> QED BY <2>9, <3>1, ListedSays
  <2>13. (n + 1) + (l - 1) = Len(d.items)
    <3>1. n \in Nat /\ l \in Nat /\ n + l = Len(d.items)
      BY <2>3, <2>8, <2>9, <2>10
    <3> QED BY ONLY <3>1
  <2>14. ListTold' BY <2>7, <2>8, <2>9, <2>10, <2>11, <2>12, <2>13 DEF ListTold
  <2> QED BY <2>2, <2>14 DEF Told, FrontTold, ListsTold, DefaultTold, LoopTold, Looping
<1> QED BY <1>1, <1>2

\* One line more, behind those read.
LEMMA ReadEntryTells ==
  ASSUME Inv, Told, Onward, ReadEntry
  PROVE  Told'
<1>1. PICK s, n, d, l, H, item : /\ s = cur.read /\ n = Len(cur.read) /\ d = cur.decl /\ l = cur.left
                                 /\ H = HeadItems(cur.decl) /\ item = HeadItems(cur.decl)[Len(cur.read) + 1]
  OBVIOUS
<1>2. PICK e : e = NewEnt(mem) OBVIOUS
<1>3. /\ pc = "list" /\ pc' = "list" /\ mem' = ReadItem(mem, item) /\ cur' = [cur EXCEPT !.read = Append(@, e)]
      /\ n < Len(H) /\ item = H[n + 1]
  BY <1>1, <1>2 DEF ReadEntry
<1>4. /\ cur.list \in Lists /\ cur.read \in Lists /\ IsStmt(cur) /\ d \in Decls
      /\ d.kind \in {"para1", "set2"} /\ pc # "none"
  BY <1>1, <1>3 DEF Inv, InStage, IsStmt, Working
<1>5. IsKey(item.key) /\ item.type \in Types
  <2>1. Len(HeadItems(d)) \in Nat /\ n \in Nat /\ n < Len(HeadItems(d))
    BY <1>1, <1>3, <1>4, ItemsOf DEF Lists
  <2>2. n + 1 \in 1 .. Len(HeadItems(d)) BY ONLY <2>1
  <2> QED BY <1>1, <1>4, <2>2, ItemsOf
<1>6. e \in Numbered /\ Says(mem', e, item)
  <2>1. PICK f, g, k : Sound(mem, f, g, k, carried) BY <1>4, TheBooks
  <2> QED BY <1>2, <1>3, <1>5, <2>1, ItemRead DEF Types, Says
<1>7. cur'.decl = d /\ cur'.list = cur.list /\ cur'.read = Append(s, e) /\ cur'.left = l
  BY <1>1, <1>3, <1>4 DEF IsStmt
<1>8. /\ Len(cur.list) + l = Len(d.items) /\ \A i \in DOMAIN cur.list : Says(mem, cur.list[i], d.items[l + i])
      /\ \A i \in DOMAIN s : Says(mem, s[i], H[i])
  BY <1>1, <1>3 DEF Told, ListTold
<1>9. /\ DOMAIN s = 1 .. n /\ n \in Nat /\ DOMAIN cur'.read = DOMAIN s \cup {n + 1} /\ cur'.read[n + 1] = e
      /\ \A i \in DOMAIN s : cur'.read[i] = s[i]
  <2>1. s \in Lists /\ e \in Numbered /\ cur'.read = Append(s, e) /\ n = Len(s)
    BY <1>1, <1>4, <1>6, <1>7
  <2> QED BY ONLY <2>1, AppendAt
<1>10. ASSUME NEW i \in DOMAIN cur'.read PROVE Says(mem', cur'.read[i], H[i])
  <2>1. CASE i = n + 1 BY <1>3, <1>6, <1>9, <2>1
  <2>2. CASE i \in DOMAIN s
    <3>1. cur'.read[i] \in InLists /\ cur'.read[i] \in InLists'
      BY <1>1, <1>3, <1>9, <2>2 DEF InLists, Listing, ToSet
    <3>2. Says(mem, cur'.read[i], H[i]) BY <1>8, <1>9, <2>2
    <3> QED BY <3>1, <3>2, ListedSays
  <2> QED BY <1>9, <2>1, <2>2
<1>11. ASSUME NEW i \in DOMAIN cur.list PROVE Says(mem', cur.list[i], d.items[l + i])
  <2>1. cur.list[i] \in InLists /\ cur.list[i] \in InLists'
    BY <1>3, <1>7 DEF InLists, Listing, ToSet
  <2> QED BY <1>8, <2>1, ListedSays
<1>12. Len(cur'.read) <= Len(H)
  <2>1. Len(cur'.read) = n + 1 /\ n \in Nat /\ n < Len(H) /\ Len(H) \in Nat
    <3>1. Len(cur'.read) = n + 1 BY <1>1, <1>4, <1>6, <1>7 DEF Lists
    <3> QED BY <1>1, <1>3, <1>4, <1>9, <3>1, ItemsOf
  <2> QED BY ONLY <2>1
<1>13. ListTold' BY <1>1, <1>7, <1>8, <1>10, <1>11, <1>12 DEF ListTold
<1> QED BY <1>3, <1>13 DEF Told, FrontTold, ListsTold, DefaultTold, LoopTold, Looping

\* The head has been read.
LEMMA HeadDone ==
  ASSUME Inv, Told, HeadRead
  PROVE  /\ Len(cur.read) = Len(HeadItems(cur.decl)) /\ Len(cur.list) = Len(cur.decl.items)
         /\ \A i \in DOMAIN cur.list : Says(mem, cur.list[i], cur.decl.items[i])
         /\ \A i \in DOMAIN cur.read : Says(mem, cur.read[i], HeadItems(cur.decl)[i])
<1>1. PICK d : d = cur.decl OBVIOUS
<1>2. pc = "list" /\ cur.left = 0 /\ (d.head.from \in {"read", "matrix"} => Len(cur.read) = Len(HeadItems(d)))
  BY <1>1 DEF HeadRead
<1>3. d \in Decls /\ d.kind \in {"para1", "set2"} /\ cur.read \in Lists /\ cur.list \in Lists
  BY <1>1, <1>2 DEF Inv, InStage, IsStmt, Working
<1>4. /\ Len(cur.list) + 0 = Len(d.items) /\ Len(cur.read) <= Len(HeadItems(d))
      /\ \A i \in DOMAIN cur.list : Says(mem, cur.list[i], d.items[0 + i])
      /\ \A i \in DOMAIN cur.read : Says(mem, cur.read[i], HeadItems(d)[i])
  BY <1>1, <1>2 DEF Told, ListTold
<1>5. DOMAIN cur.list = 1 .. Len(cur.list) /\ Len(cur.list) \in Nat /\ Len(cur.read) \in Nat
  BY <1>3 DEF Lists
<1>6. \A i \in DOMAIN cur.list : 0 + i = i BY <1>5
<1>7. Len(cur.read) = Len(HeadItems(d))
  <2>1. CASE d.head.from \notin {"read", "matrix"}
    <3>1. HeadItems(d) = <<>> BY <1>3, <2>1, SymbolTableAssumption DEF IsDecl
    <3>2. Len(HeadItems(d)) = 0 BY <3>1
    <3> QED BY <1>4, <1>5, <3>2
  <2> QED BY <1>2, <2>1
<1> QED BY <1>1, <1>4, <1>5, <1>6, <1>7

\* The list of a head alone, or of literals alone, is told.
LEMMA OneListTold ==
  ASSUME Inv, NEW d \in Decls, d.kind \in {"para1", "set2"}, NEW list \in Lists, NEW read \in Lists,
         NEW all, all = read \o list, read = <<>> \/ list = <<>>,
         Len(read) = Len(HeadItems(d)), Len(list) = Len(d.items), NEW m,
         \A i \in DOMAIN list : Says(m, list[i], d.items[i]),
         \A i \in DOMAIN read : Says(m, read[i], HeadItems(d)[i])
  PROVE  Len(all) = Len(Written(d)) /\ \A i \in DOMAIN all : Says(m, all[i], Written(d)[i])
<1>1. PICK H, I : H = HeadItems(d) /\ I = d.items OBVIOUS
<1>2. H \in Seq(ToSet(H)) /\ I \in Seq(ToSet(I)) BY <1>1, DeclLists
<1>3. /\ Len(Written(d)) = Len(H) + Len(I) /\ Len(H) \in Nat /\ Len(I) \in Nat
      /\ I = <<>> => Written(d) = H
      /\ I # <<>> => \A i \in 1 .. Len(I) : Written(d)[Len(H) + i] = I[i]
  BY <1>1, <1>2, WrittenAt DEF LinesFirst
<1>4. DOMAIN list = 1 .. Len(list) /\ DOMAIN read = 1 .. Len(read) BY DEF Lists
<1>5. CASE list = <<>>
  <2>1. Len(I) = 0 BY <1>1, <1>5
  <2>2. I = <<>> BY <1>2, <2>1
  <2>3. all = read BY <1>5 DEF Lists
  <2>4. Len(Written(d)) = Len(H) BY ONLY <1>3, <2>1
  <2> QED BY <1>1, <1>3, <2>2, <2>3, <2>4
<1>6. CASE list # <<>>
  <2>1. read = <<>> /\ all = list BY <1>6 DEF Lists
  <2>2. Len(H) = 0 BY <1>1, <2>1
  <2>3. I # <<>>
    <3>1. Len(list) # 0 BY <1>6 DEF Lists
    <3> QED BY <1>1, <3>1
  <2>4. \A i \in 1 .. Len(I) : Written(d)[i] = I[i]
    <3>1. \A i \in 1 .. Len(I) : Len(H) + i = i BY ONLY <1>3, <2>2
    <3> QED BY <1>3, <2>3, <3>1
  <2>5. Len(Written(d)) = Len(I) BY ONLY <1>3, <2>2
  <2> QED BY <1>1, <1>4, <2>1, <2>4, <2>5
<1> QED BY <1>5, <1>6

\* The list is made a list of the node, or its head goes in front.
LEMMA ListNodeTells ==
  ASSUME Inv, Told, Onward, ListNode
  PROVE  Told'
<1>1. PICK d, list, read : d = cur.decl /\ list = cur.list /\ read = cur.read
  OBVIOUS
<1>2. HeadRead /\ pc = "list" /\ mem' = mem BY DEF ListNode, HeadRead
<1>3. list \in Lists /\ read \in Lists /\ IsStmt(cur) /\ d \in Decls /\ d.kind \in {"para1", "set2"} /\ pc # "none"
  BY <1>1, <1>2 DEF Inv, InStage, IsStmt, Working
<1>4. /\ Len(read) = Len(HeadItems(d)) /\ Len(list) = Len(d.items)
      /\ \A i \in DOMAIN list : Says(mem, list[i], d.items[i])
      /\ \A i \in DOMAIN read : Says(mem, read[i], HeadItems(d)[i])
  BY <1>1, <1>2, HeadDone
<1>5. CASE read = <<>> \/ list = <<>>
  <2>1. cur' = [cur EXCEPT !.list = read \o list] /\ pc' = "deflt"
    BY <1>1, <1>5 DEF ListNode
  <2>2. cur'.decl = d /\ cur'.list = read \o list BY <1>1, <1>3, <2>1 DEF IsStmt
  <2>3. PICK all, m : all = read \o list /\ m = mem OBVIOUS
  <2>4. Len(all) = Len(Written(d)) /\ \A i \in DOMAIN all : Says(m, all[i], Written(d)[i])
    BY <1>3, <1>4, <1>5, <2>3, OneListTold
  <2>5. ListsTold' BY <1>2, <2>2, <2>3, <2>4 DEF ListsTold
  <2> QED BY <2>1, <2>5 DEF Told, ListTold, FrontTold, DefaultTold, LoopTold, Looping
<1>6. CASE read # <<>> /\ list # <<>>
  <2>1. cur' = [cur EXCEPT !.left = 1] /\ pc' = "front"
    BY <1>1, <1>6 DEF ListNode
  <2>2. cur'.decl = d /\ cur'.list = list /\ cur'.read = read /\ cur'.left = 1
    BY <1>1, <1>3, <2>1 DEF IsStmt
  <2>3. DOMAIN list = 1 .. Len(list) /\ Len(list) \in Nat /\ Len(read) \in Nat /\ Len(list) # 0
    BY <1>3, <1>6 DEF Lists
  <2>4. d.items # <<>> BY <1>4, <2>3
  <2>5. \A i \in DOMAIN list : ~ (i < 1) /\ (i - 1) + 1 = i BY ONLY <2>3
  <2>6. FrontTold' BY <1>2, <1>4, <2>2, <2>3, <2>4, <2>5 DEF FrontTold
  <2> QED BY <2>1, <2>6 DEF Told, ListTold, ListsTold, DefaultTold, LoopTold, Looping
<1> QED BY <1>5, <1>6

\* The last line in front of the first so far, or the list is complete.
LEMMA InFrontTells ==
  ASSUME Inv, Told, Onward, InFront
  PROVE  Told'
<1>1. PICK d, s, read, l, n, H, I : /\ d = cur.decl /\ s = cur.list /\ read = cur.read /\ l = cur.left
                                    /\ n = Len(cur.list) /\ H = HeadItems(cur.decl) /\ I = cur.decl.items
  OBVIOUS
<1>2. pc = "front" BY DEF InFront
<1>3. /\ s \in Lists /\ read \in Lists /\ IsStmt(cur) /\ d \in Decls /\ d.kind \in {"para1", "set2"}
      /\ l \in Nat /\ l # 0
  BY <1>1, <1>2 DEF Inv, InStage, IsStmt, Working
<1>4. /\ I # <<>> /\ Len(read) = Len(H) /\ l <= Len(read) + 1 /\ n + 1 = l + Len(I)
      /\ \A i \in DOMAIN read : Says(mem, read[i], H[i])
      /\ \A i \in DOMAIN s : Says(mem, s[i], IF i < l THEN H[l - i] ELSE I[(i - l) + 1])
  BY <1>1, <1>2 DEF Told, FrontTold
<1>5. /\ DOMAIN s = 1 .. n /\ n \in Nat /\ DOMAIN read = 1 .. Len(read) /\ Len(read) \in Nat
      /\ Len(H) \in Nat /\ Len(I) \in Nat
  <2>1. Len(H) \in Nat /\ Len(I) \in Nat BY <1>1, <1>3, ItemsOf
  <2> QED BY <1>1, <1>3, <2>1 DEF Lists
<1>6. CASE l <= Len(read)
  <2>1. PICK e : e = read[l] OBVIOUS
  <2>2. mem' = list_data_new(mem, e) /\ cur' = [cur EXCEPT !.list = <<e>> \o @, !.left = @ + 1] /\ pc' = "front"
    <3>1. cur.left <= Len(cur.read) /\ ~ (cur.left > Len(cur.read))
      BY ONLY <1>1, <1>3, <1>5, <1>6
    <3> QED BY <1>1, <2>1, <3>1 DEF InFront
  <2>3. cur'.decl = d /\ cur'.list = <<e>> \o s /\ cur'.read = read /\ cur'.left = l + 1
    BY <1>1, <1>3, <2>2 DEF IsStmt
  <2>4. l \in DOMAIN read /\ e \in Numbered /\ Says(mem, e, H[l])
    <3>1. l \in DOMAIN read BY ONLY <1>3, <1>5, <1>6
    <3> QED BY <1>3, <1>4, <2>1, <3>1, EntryAt DEF Lists
  <2>5. /\ DOMAIN cur'.list = 1 .. n + 1 /\ Len(cur'.list) = n + 1 /\ cur'.list[1] = e
        /\ \A i \in 1 .. n + 1 : i # 1 => i - 1 \in DOMAIN s /\ cur'.list[i] = s[i - 1]
    <3>1. s \in Lists /\ e \in Numbered /\ cur'.list = <<e>> \o s /\ n = Len(s)
      BY <1>1, <1>3, <2>3, <2>4
    <3>2. /\ DOMAIN (<<e>> \o s) = 1 .. Len(s) + 1 /\ Len(<<e>> \o s) = Len(s) + 1 /\ (<<e>> \o s)[1] = e
          /\ \A i \in 1 .. Len(s) + 1 : i # 1 => i - 1 \in DOMAIN s /\ (<<e>> \o s)[i] = s[i - 1]
      BY ONLY <3>1, PrependAt
    <3> QED BY ONLY <3>1, <3>2
  <2>6. ASSUME NEW i \in DOMAIN cur'.list
        PROVE  Says(mem', cur'.list[i], IF i < l + 1 THEN H[(l + 1) - i] ELSE I[(i - (l + 1)) + 1])
    <3>1. i \in 1 .. n + 1 BY <2>5
    <3>2. CASE i = 1
      <4>1. 1 < l + 1 /\ (l + 1) - 1 = l BY ONLY <1>3
      <4>2. Says(mem, cur'.list[i], H[l]) /\ cur'.list[i] = read[l]
        BY <2>1, <2>4, <2>5, <3>2
      <4>3. cur'.list[i] \in InLists /\ cur'.list[i] \in InLists'
        BY <1>1, <1>2, <2>2, <2>3, <2>4, <4>2 DEF InLists, Listing, ToSet
      <4>4. Says(mem', cur'.list[i], H[l]) BY <4>2, <4>3, ListedSays
      <4> QED BY <3>2, <4>1, <4>4
    <3>3. CASE i # 1
      <4>1. PICK j : j = i - 1 OBVIOUS
      <4>2. j \in DOMAIN s /\ cur'.list[i] = s[j] BY <2>5, <3>1, <3>3, <4>1
      <4>3. j \in Nat /\ i = j + 1 BY ONLY <3>1, <1>5, <4>1, <4>2
      <4>4. /\ i < l + 1 <=> j < l
            /\ (l + 1) - i = l - j /\ (i - (l + 1)) + 1 = (j - l) + 1
        BY ONLY <1>3, <4>3
      <4>5. Says(mem, s[j], IF i < l + 1 THEN H[(l + 1) - i] ELSE I[(i - (l + 1)) + 1])
        BY <1>4, <4>2, <4>4
      <4>6. cur'.list[i] \in InLists /\ cur'.list[i] \in InLists'
        BY <1>1, <1>2, <2>2, <4>2 DEF InLists, Listing, ToSet
      <4>7. Says(mem, cur'.list[i], IF i < l + 1 THEN H[(l + 1) - i] ELSE I[(i - (l + 1)) + 1])
        BY <4>2, <4>5
      <4>8. PICK x : x = IF i < l + 1 THEN H[(l + 1) - i] ELSE I[(i - (l + 1)) + 1]
        OBVIOUS
      <4>9. Says(mem', cur'.list[i], x) BY <4>6, <4>7, <4>8, ListedSays
      <4> QED BY <4>8, <4>9
    <3> QED BY <3>2, <3>3
  <2>7. ASSUME NEW i \in DOMAIN read PROVE Says(mem', read[i], H[i])
    <3>1. read[i] \in InLists /\ read[i] \in InLists'
      BY <1>1, <1>2, <2>2, <2>3 DEF InLists, Listing, ToSet
    <3> QED BY <1>4, <3>1, ListedSays
  <2>8. l + 1 <= Len(read) + 1 /\ (n + 1) + 1 = (l + 1) + Len(I)
    BY ONLY <1>3, <1>4, <1>5, <1>6
  <2>9. FrontTold' BY <1>1, <1>4, <2>3, <2>5, <2>6, <2>7, <2>8 DEF FrontTold
  <2> QED BY <2>2, <2>9 DEF Told, ListTold, ListsTold, DefaultTold, LoopTold, Looping
<1>7. CASE ~ (l <= Len(read))
  <2>1. mem' = mem /\ cur' = cur /\ pc' = "deflt"
    BY <1>1, <1>2, <1>3, <1>5, <1>7 DEF InFront
  <2>2. H \in Seq(ToSet(H)) /\ I \in Seq(ToSet(I)) BY <1>1, <1>3, DeclLists
  <2>3. /\ Len(Written(d)) = Len(H) + Len(I)
        /\ \A i \in 1 .. Len(H) : Written(d)[i] = H[(Len(H) - i) + 1]
        /\ \A i \in 1 .. Len(I) : Written(d)[Len(H) + i] = I[i]
    <3>1. HeadItems(d) = H /\ d.items = I /\ I # <<>> BY <1>1, <1>4
    <3>2. Len(Written(d)) = Len(H) + Len(I) /\ LinesFirst(Written(d), H, I)
      BY ONLY <2>2, <3>1, WrittenAt
    <3> QED BY ONLY <3>2 DEF LinesFirst
  <2>4. l = Len(H) + 1 /\ n = Len(H) + Len(I) BY ONLY <1>3, <1>4, <1>5, <1>7
  <2>5. ASSUME NEW i \in DOMAIN s PROVE Says(mem, s[i], Written(d)[i])
    <3>1. CASE i < l
      <4>1. i \in 1 .. Len(H) /\ l - i = (Len(H) - i) + 1
        BY ONLY <1>5, <2>4, <3>1
      <4> QED BY <1>4, <2>3, <3>1, <4>1
    <3>2. CASE ~ (i < l)
      <4>1. PICK j : j = (i - l) + 1 OBVIOUS
      <4>2. PICK a, b : a = Len(H) /\ b = Len(I) OBVIOUS
      <4>3. i \in 1 .. n /\ a \in Nat /\ b \in Nat /\ l = a + 1 /\ n = a + b /\ ~ (i < l) /\ j = (i - l) + 1
        BY <1>5, <2>4, <3>2, <4>1, <4>2
      <4>4. j \in 1 .. b /\ a + j = i BY ONLY <4>3
      <4> QED BY <1>4, <2>3, <3>2, <4>1, <4>2, <4>4
    <3> QED BY <3>1, <3>2
  <2>6. ListsTold' BY <1>1, <2>1, <2>3, <2>4, <2>5 DEF ListsTold
  <2> QED BY <2>1, <2>6 DEF Told, ListTold, FrontTold, DefaultTold, LoopTold, Looping
<1> QED BY <1>6, <1>7

\* The default of the declaration is evaluated, if it has one.
LEMMA DefaultTells ==
  ASSUME Inv, Told, Onward, Default
  PROVE  Told'
<1>1. PICK d, s : d = cur.decl /\ s = cur.list OBVIOUS
<1>2. pc = "deflt" /\ pc' = "begin" BY DEF Default
<1>3. IsStmt(cur) /\ d \in Decls /\ d.kind \in {"para1", "set2"} /\ pc # "none" /\ cur.deflt = 0
  BY <1>1, <1>2 DEF Inv, InStage, Working
<1>4. cur'.decl = d /\ cur'.list = s
  <2>1. cur' = cur \/ cur' = [cur EXCEPT !.deflt = NewEnt(mem)] BY DEF Default
  <2> QED BY <1>1, <1>3, <2>1 DEF IsStmt
<1>5. ListsTold'
  <2>1. Len(s) = Len(Written(d)) /\ \A i \in DOMAIN s : Says(mem, s[i], Written(d)[i])
    BY <1>1, <1>2, <1>3 DEF Told, ListsTold
  <2>2. ASSUME NEW i \in DOMAIN s PROVE Says(mem', s[i], Written(d)[i])
    <3>1. s[i] \in InLists /\ s[i] \in InLists'
      BY <1>1, <1>2, <1>4 DEF InLists, Listing, ToSet
    <3> QED BY <2>1, <3>1, ListedSays
  <2> QED BY <1>4, <2>1, <2>2 DEF ListsTold
<1>6. IsDefault(d, mem', cur'.deflt)
  <2>1. CASE d.deflt = <<>> BY <1>1, <1>3, <2>1 DEF Default, IsDefault
  <2>2. CASE d.deflt # <<>>
    <3>1. PICK item, e : item = d.deflt[1] /\ e = NewEnt(mem) OBVIOUS
    <3>2. IsKey(item.key) /\ item.type \in Types BY <1>3, <2>2, <3>1, ItemsOf
    <3>3. /\ mem' = entry_new(tuple_new(mem, item.key), NewTup(mem), item.type, item.val)
          /\ cur' = [cur EXCEPT !.deflt = e]
      BY <1>1, <2>2, <3>1 DEF Default, NodeEntry
    <3>4. cur'.deflt = e BY <1>3, <3>3 DEF IsStmt
    <3>5. e \in Numbered /\ mem'.ent[e].val = item.val
      BY <1>3, <3>1, <3>2, <3>3, LoopEntry
    <3> QED BY <1>3, <2>2, <3>1, <3>4, <3>5 DEF IsDefault, Numbered
  <2> QED BY <2>1, <2>2
<1> QED BY <1>2, <1>4, <1>5, <1>6 DEF Told, ListTold, FrontTold, DefaultTold, LoopTold, Looping

\* The symbol is made: its table is empty, its default that of the statement.
LEMMA BegunTells ==
  ASSUME Inv, Told, Onward, pc = "begin", NEW type, NEW iset, NEW next \in Looping \cup {"finish"}, Begun(type, iset, next)
  PROVE  /\ cur'.decl = cur.decl /\ cur'.list = cur.list /\ cur'.left = 1 /\ pc' = next
         /\ This'.iset = iset /\ This'.entry = <<>>
         /\ ListTold' /\ FrontTold' /\ ListsTold' /\ DefaultTold'
         /\ FirstWins(mem', This', Wanted(cur'.decl, pc'), cur'.left - 1)
<1>1. PICK d, s, e : d = cur.decl /\ s = cur.list /\ e = cur.deflt OBVIOUS
<1>2. PICK r : r = symbol_new(cur.decl.name, type, iset, e) OBVIOUS
<1>3. syms' = Append(syms, r) /\ cur' = [cur EXCEPT !.left = 1] /\ pc' = next /\ tree' = tree
  BY <1>1, <1>2 DEF Begun
<1>4. IsStmt(cur) /\ AreSymbols(syms) /\ e \in Nat /\ pc # "none" /\ pc' # "none" /\ (e # 0 => e \in ToSet(tree.ent))
  BY <1>1, <1>3 DEF Inv, InStage, IsStmt, Looping
<1>5. IsSymbol(r) /\ r.iset = iset /\ r.entry = <<>> /\ r.deflt = e
  BY <1>2, <1>4, NewSymbol
<1>6. This' = r /\ syms' # <<>>
  <2>1. PICK T : syms \in Seq(T) BY <1>4 DEF AreSymbols
  <2>2. Len(syms') = Len(syms) + 1 /\ syms'[Len(syms) + 1] = r /\ syms' # <<>>
    BY <1>3, <2>1
  <2> QED BY <2>2 DEF This
<1>7. cur'.decl = d /\ cur'.list = s /\ cur'.left = 1
  BY <1>1, <1>3, <1>4 DEF IsStmt
<1>8. ListsTold'
  <2> SUFFICES ASSUME d.kind \in {"para1", "set2"}, pc' \in {"by list", "by index"}
               PROVE  Len(s) = Len(Written(d)) /\ \A i \in DOMAIN s : Says(mem', s[i], Written(d)[i])
    BY <1>3, <1>7 DEF ListsTold, Looping
  <2>1. Len(s) = Len(Written(d)) /\ \A i \in DOMAIN s : Says(mem, s[i], Written(d)[i])
    BY <1>1 DEF Told, ListsTold
  <2>2. ASSUME NEW i \in DOMAIN s PROVE Says(mem', s[i], Written(d)[i])
    <3>1. s[i] \in InLists /\ s[i] \in InLists'
      BY <1>1, <1>7 DEF InLists, Listing, ToSet
    <3> QED BY <2>1, <3>1, ListedSays
  <2> QED BY <2>1, <2>2
<1>9. DefaultTold'
  <2>1. IsDefault(d, mem, e) BY <1>1 DEF Told, DefaultTold
  <2>2. ASSUME e # 0 PROVE mem'.ent[e].val = mem.ent[e].val
    <3>1. e \in ToSet(tree.ent) /\ e \in ToSet(tree'.ent) BY <1>3, <1>4, <2>2
    <3>2. e \in HeldBy(Places) /\ e \in HeldBy(Places')
      <4>1. e \in HeldBy(Places) BY <3>1, PlacesNow DEF HeldBy, PlacesAre
      <4>2. PICK h : h = Places' OBVIOUS
      <4>3. PlacesAre(h, tree', cur'.held, ListHeld', ReadHeld', syms')
        BY <4>2, PlacesThen
      <4>4. e \in HeldBy(h) BY <3>1, <4>3 DEF HeldBy, PlacesAre
      <4> QED BY <4>1, <4>2, <4>4
    <3>3. e \in DOMAIN mem.ent BY <1>4, <3>2, HeldNow
    <3>4. e \in DOMAIN mem'.ent BY <1>4, <3>2, HeldThen DEF Onward
    <3> QED BY <3>3, <3>4 DEF Onward, Keeps
  <2>3. IsDefault(d, mem', e) BY <2>1, <2>2 DEF IsDefault
  <2> QED BY <1>3, <1>5, <1>6, <1>7, <2>3 DEF DefaultTold, Looping
<1>10. ListTold' /\ FrontTold' BY <1>3 DEF ListTold, FrontTold, Looping
<1>11. FirstWins(mem', r, Wanted(d, next), 0) BY <1>5, NoRound
<1> QED BY <1>1, <1>3, <1>5, <1>6, <1>7, <1>8, <1>9, <1>10, <1>11

\* The list when its statement begins.
LEMMA FirstLine ==
  ASSUME Inv, Told, pc = "begin", NEW d, d = cur.decl, d.kind \in {"para1", "set2"}
  PROVE  /\ Len(cur.list) = Len(Written(d)) /\ Len(Written(d)) \in Nat
         /\ Written(d) # <<>> => Says(mem, cur.list[1], Written(d)[1])
<1>1. d \in Decls /\ cur.list \in Lists BY DEF Inv, InStage, IsStmt, Working
<1>2. /\ Len(Written(d)) \in Nat /\ (Len(Written(d)) = 0 <=> Written(d) = <<>>)
  BY <1>1, DeclLists
<1>3. Len(cur.list) = Len(Written(d)) /\ \A i \in DOMAIN cur.list : Says(mem, cur.list[i], Written(d)[i])
  BY DEF Told, ListsTold
<1>4. ASSUME Written(d) # <<>> PROVE 1 \in DOMAIN cur.list
  BY <1>1, <1>2, <1>3, <1>4 DEF Lists
<1> QED BY <1>2, <1>3, <1>4

\* i_newsym_para1 takes the loop that fits the list.
LEMMA NewPara1Tells ==
  ASSUME Inv, Told, Onward, i_newsym_para1
  PROVE  Told'
<1>1. PICK d, s, W : d = cur.decl /\ s = cur.list /\ W = Written(d) OBVIOUS
<1>2. pc = "begin" /\ d.kind = "para1" /\ d \in Decls
  BY <1>1 DEF i_newsym_para1, Inv, InStage, Working
<1>3. Len(s) = Len(W) /\ Len(W) \in Nat /\ (W # <<>> => Says(mem, s[1], W[1]))
  BY <1>1, <1>2, FirstLine
<1>4. EmptyFile => W = <<>> \/ NoEntries(d)
  BY <1>1, <1>2, <1>3 DEF EmptyFile, NoEntries, Says
<1>5. ~ EmptyFile => ~ NoEntries(d)
  BY <1>1, <1>2, <1>3 DEF EmptyFile, NoEntries, Says
<1>6. ByIndex <=> Unkeyed(d)
  <2>1. Len(W) > 1 => Says(mem, s[1], W[1])
    <3>1. Len(<<>>) = 0 OBVIOUS
    <3> QED BY <1>3, <3>1
  <2> QED BY <1>1, <1>3, <2>1 DEF ByIndex, Unkeyed, Says
<1>7. CASE pc' = "exit" BY <1>7, Resting
<1>8. CASE EmptyFile /\ Begun(IF cur.deflt = 0 THEN "ERR" ELSE mem.ent[cur.deflt].type, cur.decl.iset, "finish")
  <2>1. PICK type : type = IF cur.deflt = 0 THEN "ERR" ELSE mem.ent[cur.deflt].type
    OBVIOUS
  <2>2. Begun(type, cur.decl.iset, "finish") BY <1>8, <2>1
  <2>3. /\ cur'.decl = d /\ pc' = "finish" /\ This'.entry = <<>>
        /\ ListTold' /\ FrontTold' /\ ListsTold' /\ DefaultTold'
    BY <1>1, <1>2, <2>2, BegunTells
  <2>4. LoopTold' BY <1>1, <1>2, <1>4, <1>8, <2>3 DEF LoopTold, Looping
  <2> QED BY <2>3, <2>4 DEF Told
<1>9. CASE ~ EmptyFile /\ cur.decl.iset # <<>> /\ Begun("ERR", cur.decl.iset, IF ByIndex THEN "by index" ELSE "by list")
  <2>1. PICK next : next = IF ByIndex THEN "by index" ELSE "by list" OBVIOUS
  <2>2. Begun("ERR", cur.decl.iset, next) /\ next \in Looping \cup {"finish"}
    BY <1>9, <2>1 DEF Looping
  <2>3. /\ cur'.decl = d /\ pc' = next /\ cur'.left = 1 /\ This'.iset = d.iset
        /\ ListTold' /\ FrontTold' /\ ListsTold' /\ DefaultTold'
        /\ FirstWins(mem', This', Wanted(cur'.decl, pc'), cur'.left - 1)
    BY <1>1, <1>2, <2>2, BegunTells
  <2>4. 1 <= Len(W) + 1 /\ 1 <= Len(d.iset) + 1 BY <1>2, <1>3, DeclLists
  <2>5. CASE next = "by list"
    <3>1. ~ Unkeyed(d) BY <1>6, <2>1, <2>5
    <3>2. LoopTold'
      BY <1>1, <1>2, <1>5, <1>9, <2>3, <2>4, <2>5, <3>1 DEF LoopTold, Looping
    <3> QED BY <2>3, <3>2 DEF Told
  <2>6. CASE next = "by index"
    <3>1. Unkeyed(d) BY <1>6, <2>1, <2>6
    <3>2. LoopTold'
      BY <1>1, <1>2, <1>5, <1>9, <2>3, <2>4, <2>6, <3>1 DEF LoopTold, Looping
    <3> QED BY <2>3, <3>2 DEF Told
  <2> QED BY <2>1, <2>5, <2>6
<1> QED BY <1>7, <1>8, <1>9 DEF i_newsym_para1, Refused, Fail

\* i_newsym_set2 has one loop.
LEMMA NewSet2Tells ==
  ASSUME Inv, Told, Onward, i_newsym_set2
  PROVE  Told'
<1>1. PICK d, W : d = cur.decl /\ W = Written(d) OBVIOUS
<1>2. pc = "begin" /\ d.kind = "set2" /\ d \in Decls
  BY <1>1 DEF i_newsym_set2, Inv, InStage, Working
<1>3. CASE pc' = "exit" BY <1>3, Resting
<1>4. CASE Begun("SET", IF cur.decl.iset = << <<>> >> THEN ListIndex ELSE cur.decl.iset, "by list")
  <2>1. PICK iset : iset = IF cur.decl.iset = << <<>> >> THEN ListIndex ELSE cur.decl.iset
    OBVIOUS
  <2>2. Begun("SET", iset, "by list") /\ "by list" \in Looping \cup {"finish"}
    BY <1>4, <2>1 DEF Looping
  <2>3. /\ cur'.decl = d /\ pc' = "by list" /\ cur'.left = 1 /\ This'.iset = iset
        /\ ListTold' /\ FrontTold' /\ ListsTold' /\ DefaultTold'
        /\ FirstWins(mem', This', Wanted(cur'.decl, pc'), cur'.left - 1)
    BY <1>1, <1>2, <2>2, BegunTells
  <2>4. 1 <= Len(W) + 1 BY <1>1, <1>2, DeclLists
  <2>5. LoopTold'
    BY <1>1, <1>2, <2>1, <2>3, <2>4 DEF LoopTold, Looping, NoEntries
  <2> QED BY <2>3, <2>5 DEF Told
<1> QED BY <1>3, <1>4 DEF i_newsym_set2, Refused, Fail

\* So have the statements that walk their index set.
LEMMA NewEachTells ==
  ASSUME Inv, Told, Onward, i_newsym_each
  PROVE  Told'
<1>1. PICK d, kind : d = cur.decl /\ kind = CASE cur.decl.kind = "set1" -> "SET" [] cur.decl.kind = "para2" -> "ERR"
                                             [] cur.decl.kind = "var" -> "VAR"
  OBVIOUS
<1>2. pc = "begin" /\ d.kind \in {"set1", "para2", "var"} /\ d \in Decls
  BY <1>1 DEF i_newsym_each, Inv, InStage, Working
<1>3. CASE pc' = "exit" BY <1>3, Resting
<1>4. CASE Begun(kind, cur.decl.iset, "each")
  <2>1. "each" \in Looping \cup {"finish"} BY DEF Looping
  <2>2. /\ cur'.decl = d /\ pc' = "each" /\ cur'.left = 1
        /\ ListTold' /\ FrontTold' /\ ListsTold' /\ DefaultTold'
        /\ FirstWins(mem', This', Wanted(cur'.decl, pc'), cur'.left - 1)
    BY <1>1, <1>2, <1>4, <2>1, BegunTells
  <2>3. 1 <= Len(d.iset) + 1 BY <1>2, DeclLists
  <2>4. LoopTold' BY <1>2, <2>2, <2>3 DEF LoopTold, Looping
  <2> QED BY <2>2, <2>4 DEF Told
<1> QED BY <1>1, <1>3, <1>4 DEF i_newsym_each, Refused, Fail

\* The default of the last symbol is alive, before a step.
LEMMA DefaultNow ==
  ASSUME Inv, pc # "none", syms # <<>>, This.deflt # 0
  PROVE  This.deflt \in DOMAIN mem.ent
<1>1. Plain(Places) /\ Ledger(mem, Places, carried) BY TheBooks DEF Ledger
<1>2. PICK h : h = Places OBVIOUS
<1>3. h.ss = syms BY <1>2, PlacesNow DEF PlacesAre
<1>4. \A i \in DOMAIN h.ss : h.ss[i].deflt # 0 => h.ss[i].deflt \in DOMAIN mem.ent
  BY <1>1, <1>2, Alive
<1>5. Len(syms) \in DOMAIN syms BY LastIsSymbol DEF Inv, InStage
<1> QED BY <1>3, <1>4, <1>5 DEF This

\* The same after a step.
LEMMA DefaultThen ==
  ASSUME Inv', pc' # "none", syms' # <<>>, This'.deflt # 0
  PROVE  This'.deflt \in DOMAIN mem'.ent
<1>1. Plain(Places') /\ Ledger(mem', Places', carried')
  BY PlainThen DEF Inv, InMemory
<1>2. PICK n, h, b, ss : n = mem' /\ h = Places' /\ b = carried' /\ ss = syms'
  OBVIOUS
<1>3. h.ss = ss BY <1>2, PlacesThen DEF PlacesAre
<1>4. \A i \in DOMAIN h.ss : h.ss[i].deflt # 0 => h.ss[i].deflt \in DOMAIN n.ent
  BY <1>1, <1>2, Alive
<1>5. Len(ss) \in DOMAIN ss
  <2>1. AreSymbols(ss) /\ ss # <<>> BY <1>2 DEF Inv, InStage
  <2> QED BY <2>1, LastIsSymbol
<1> QED BY <1>2, <1>3, <1>4, <1>5 DEF This

\* A default that stays keeps its value.
LEMMA DefaultKept ==
  ASSUME Inv, Onward, pc # "none", pc' # "none", syms # <<>>, syms' # <<>>, This'.deflt = This.deflt,
         NEW d, IsDefault(d, mem, This.deflt)
  PROVE  IsDefault(d, mem', This'.deflt)
<1>1. PICK e : e = This.deflt OBVIOUS
<1>2. ASSUME e # 0 PROVE mem'.ent[e].val = mem.ent[e].val
  <2>1. e \in DOMAIN mem.ent BY <1>1, <1>2, DefaultNow
  <2>2. e \in DOMAIN mem'.ent BY <1>1, <1>2, DefaultThen DEF Onward
  <2> QED BY <2>1, <2>2 DEF Onward, Keeps
<1> QED BY <1>1, <1>2 DEF IsDefault

\* A key the hash finds is in the table.
LEMMA IsThere ==
  ASSUME NEW m, NEW s, IsSymbol(s), s.hash = Reverse(s.entry), NEW key, hash_lookup_entry(m, s.hash, key) # 0
  PROVE  \E i \in DOMAIN s.entry : Key(m, s.entry[i]) = key
<1>1. s.entry \in Lists /\ s.hash \in Lists BY DEF IsSymbol
<1>2. PICK j \in DOMAIN s.hash : Key(m, s.hash[j]) = key BY <1>1, NotThere
<1>3. /\ DOMAIN s.entry = 1 .. Len(s.entry) /\ Len(s.entry) \in Nat /\ DOMAIN s.hash = 1 .. Len(s.entry)
      /\ \A i \in 1 .. Len(s.entry) : s.hash[i] = s.entry[(Len(s.entry) - i) + 1]
  BY <1>1 DEF Lists, Reverse
<1>4. (Len(s.entry) - j) + 1 \in DOMAIN s.entry BY <1>2, <1>3, MirrorAt
<1> QED BY <1>2, <1>3, <1>4

\* The table after a round.
LEMMA RoundFills ==
  ASSUME Inv, Told, Onward, pc \in Looping, NEW m, NEW e \in Numbered, NEW x, x = Wanted(cur.decl, pc)[cur.left],
         Keeps(mem, m), DOMAIN mem.ent \subseteq DOMAIN m.ent, Gives(m, e, x), Added(m, e),
         ~ Duplicate(m, This, e) => Gives(mem', e, x)
  PROVE  /\ syms # <<>> /\ syms' # <<>> /\ This'.iset = This.iset /\ This'.deflt = This.deflt
         /\ FirstWins(mem', This', Wanted(cur.decl, pc), cur.left)
<1>1. PICK s, r, w, k : s = This /\ r = AddSym(m, s, e) /\ w = Wanted(cur.decl, pc) /\ k = cur.left
  OBVIOUS
<1>2. syms # <<>> /\ AreSymbols(syms) /\ k \in Nat \ {0} /\ pc # "none" /\ pc' # "none"
  BY <1>1 DEF Inv, InStage, InLoop, IsStmt, Looping, Added
<1>3. IsSymbol(s) /\ TableOf(mem, s) BY <1>1, <1>2, LoopSymbol
<1>4. SymAdded(m, s, e, r, Duplicate(m, s, e)) BY <1>1, <1>3, AddSymOf
<1>5. syms' = [syms EXCEPT ![Len(syms)] = r] BY <1>1 DEF Added, This
<1>6. This' = r /\ syms' # <<>>
  BY <1>2, <1>4, <1>5, TheSymbol DEF SymAdded, This
<1>7. TableOf(mem', r)
  <2>1. PICK n, ss : n = mem' /\ ss = syms' OBVIOUS
  <2>2. AreSymbols(ss) /\ (\A i \in DOMAIN ss : TableOf(n, ss[i])) /\ ss # <<>> /\ r = ss[Len(ss)]
    BY <1>2, <1>6, <2>1 DEF Onward, Inv, InStage, InMemory, This
  <2>3. Len(ss) \in DOMAIN ss BY <2>2, LastIsSymbol
  <2> QED BY <2>1, <2>2, <2>3
<1>8. FirstWins(mem, s, w, k - 1) BY <1>1 DEF Told, LoopTold
<1>9. CASE Duplicate(m, s, e)
  <2>1. PICK i \in DOMAIN s.entry : Key(m, s.entry[i]) = Key(m, e)
    <3>1. PICK key : key = Key(m, e) OBVIOUS
    <3>2. IsSymbol(s) /\ s.hash = Reverse(s.entry) /\ hash_lookup_entry(m, s.hash, key) # 0
      BY <1>3, <1>9, <3>1 DEF Duplicate, TableOf
    <3>3. \E i \in DOMAIN s.entry : Key(m, s.entry[i]) = key
      BY ONLY <3>2, IsThere
    <3> QED BY <3>1, <3>3
  <2>2. Key(mem, s.entry[i]) = Key(m, s.entry[i]) BY <1>3 DEF TableOf, Keeps
  <2>3. r.entry = s.entry /\ Key(mem, s.entry[i]) = w[k].key
    BY <1>1, <1>4, <1>9, <2>1, <2>2 DEF SymAdded, Gives
  <2>4. PICK n : n = mem' OBVIOUS
  <2>5. Keeps(mem, n) /\ TableOf(n, r) BY <1>7, <2>4 DEF Onward
  <2>6. FirstWins(n, r, w, k)
    BY ONLY <1>2, <1>3, <1>8, <2>3, <2>5, RoundMore, e \in Numbered
  <2> QED BY <1>1, <1>2, <1>4, <1>6, <2>4, <2>6 DEF SymAdded
<1>10. CASE ~ Duplicate(m, s, e)
  <2>1. PICK n : n = mem' OBVIOUS
  <2>2. Keeps(mem, n) /\ TableOf(n, r) BY <1>7, <2>1 DEF Onward
  <2>3. r.entry = Append(s.entry, e) /\ Gives(n, e, w[k])
    BY <1>1, <1>4, <1>10, <2>1 DEF SymAdded
  <2>4. FirstWins(n, r, w, k)
    BY ONLY <1>2, <1>3, <1>8, <2>2, <2>3, RoundMore, e \in Numbered
  <2> QED BY <1>1, <1>2, <1>4, <1>6, <2>1, <2>4 DEF SymAdded
<1> QED BY <1>9, <1>10

\* A round leaves the lists and the default as they are told.
LEMMA RoundTells ==
  ASSUME Inv, Told, Onward, pc \in Looping, NEW m, NEW e \in Numbered, NEW x, x = Wanted(cur.decl, pc)[cur.left],
         Keeps(mem, m), DOMAIN mem.ent \subseteq DOMAIN m.ent, Gives(m, e, x), Added(m, e),
         ~ Duplicate(m, This, e) => Gives(mem', e, x),
         pc = "by list" => cur.left <= Len(cur.list),
         pc = "by index" => cur.left <= Len(cur.list) /\ cur.left <= Len(This.iset),
         pc = "each" => cur.left <= Len(This.iset)
  PROVE  Told'
<1>1. PICK d, s, l : d = cur.decl /\ s = cur.list /\ l = cur.left OBVIOUS
<1>2. pc' = pc /\ cur' = [cur EXCEPT !.left = @ + 1] /\ pc # "none"
  BY DEF Added, Looping
<1>3. IsStmt(cur) /\ l \in Nat /\ d \in Decls /\ (pc \in {"by list", "by index"} => d.kind \in {"para1", "set2"})
      /\ (pc = "by index" => d.kind = "para1") /\ (pc = "each" => d.kind \in {"set1", "para2", "var"})
  BY <1>1 DEF Inv, InStage, IsStmt, Working, Looping
<1>4. cur'.decl = d /\ cur'.list = s /\ cur'.left = l + 1
  BY <1>1, <1>2, <1>3 DEF IsStmt
<1>5. /\ syms # <<>> /\ syms' # <<>> /\ This'.iset = This.iset /\ This'.deflt = This.deflt
      /\ FirstWins(mem', This', Wanted(d, pc), l)
  BY <1>1, RoundFills
<1>6. ListTold' /\ FrontTold' BY <1>2 DEF ListTold, FrontTold, Looping
<1>7. ASSUME pc \in {"by list", "by index"}
      PROVE  Len(s) = Len(Written(d)) /\ \A i \in DOMAIN s : Says(mem', s[i], Written(d)[i])
  <2>1. Len(s) = Len(Written(d)) /\ \A i \in DOMAIN s : Says(mem, s[i], Written(d)[i])
    BY <1>1, <1>3, <1>7 DEF Told, ListsTold
  <2>2. ASSUME NEW i \in DOMAIN s PROVE Says(mem', s[i], Written(d)[i])
    <3>1. s[i] \in InLists /\ s[i] \in InLists'
      BY <1>1, <1>2, <1>4, <1>7 DEF InLists, Listing, ToSet
    <3> QED BY <2>1, <3>1, ListedSays
  <2> QED BY <2>1, <2>2
<1>8. ListsTold' BY <1>2, <1>4, <1>7 DEF ListsTold, Looping
<1>9. DefaultTold'
  <2>1. IsDefault(d, mem, This.deflt) BY <1>1 DEF Told, DefaultTold
  <2>2. IsDefault(d, mem', This'.deflt) BY <1>2, <1>5, <2>1, DefaultKept
  <2> QED BY <1>2, <1>4, <1>5, <2>2 DEF DefaultTold, Looping
<1>10. LoopTold'
  <2>0. l \in Nat /\ cur'.left = l + 1 BY <1>3, <1>4
  <2>1. FirstWins(mem', This', Wanted(d, pc), cur'.left - 1)
    <3>1. cur'.left - 1 = l BY ONLY <2>0
    <3> QED BY <1>5, <3>1
  <2>2. \A n \in Nat : l <= n => l + 1 <= n + 1 BY ONLY <2>0
  <2>3. CASE pc = "by list"
    <3>1. Len(Written(d)) \in Nat /\ l <= Len(Written(d))
      BY <1>1, <1>3, <1>7, <2>3, DeclLists
    <3> QED BY <1>1, <1>2, <1>4, <1>5, <2>1, <2>2, <2>3, <3>1 DEF LoopTold, Told, Looping
  <2>4. CASE pc = "by index"
    <3>1. Len(Written(d)) \in Nat /\ l <= Len(Written(d)) /\ Len(d.iset) \in Nat /\ l <= Len(d.iset)
      <4>1. This.iset = d.iset BY <1>1, <1>3, <2>4 DEF Inv, InLoop, Looping
      <4> QED BY <1>1, <1>3, <1>7, <2>4, <4>1, DeclLists
    <3> QED BY <1>1, <1>2, <1>4, <1>5, <2>1, <2>2, <2>4, <3>1 DEF LoopTold, Told, Looping
  <2>5. CASE pc = "each"
    <3>1. Len(d.iset) \in Nat /\ l <= Len(d.iset)
      <4>1. This.iset = d.iset BY <1>1, <1>3, <2>5 DEF Inv, InLoop, Looping
      <4> QED BY <1>1, <1>3, <2>5, <4>1, DeclLists
    <3> QED BY <1>1, <1>2, <1>4, <1>5, <2>1, <2>2, <2>5, <3>1 DEF LoopTold, Told, Looping
  <2> QED BY <2>3, <2>4, <2>5 DEF Looping
<1> QED BY <1>6, <1>8, <1>9, <1>10 DEF Told

\* What is kept gives what it gave.
LEMMA GivesOn ==
  ASSUME NEW m, NEW n, Keeps(m, n), NEW e, e \in DOMAIN m.ent, e \in DOMAIN n.ent, NEW x, Gives(m, e, x)
  PROVE  Gives(n, e, x)
BY DEF Keeps, Gives

\* A reference more takes nothing away.
LEMMA Wider ==
  ASSUME NEW m, NEW f, NEW g, NEW l, NEW b, Sound(m, f, g, l, b), NEW e \in Numbered,
         NEW n, NEW h, Sound(n, More(f, e), h, l, b)
  PROVE  DOMAIN m.ent \subseteq DOMAIN n.ent /\ e \in DOMAIN n.ent
<1>1. PICK p : p = More(f, e) OBVIOUS
<1>2. f \in [Nat -> Nat] /\ e \in Nat BY Living DEF Numbered
<1>3. p[e] > 0 /\ \A x \in Nat : p[x] = f[x] + Hit(x, e) /\ f[x] \in Nat /\ Hit(x, e) \in Nat
  BY <1>1, <1>2, MoreAt DEF Hit
<1>4. DOMAIN m.ent = {x \in Nat : f[x] > 0} /\ DOMAIN n.ent = {x \in Nat : p[x] > 0}
  BY <1>1, Living
<1> QED BY <1>2, <1>3, <1>4

\* What a round wants that walks the index set.
LEMMA WantedAt ==
  ASSUME Inv, pc \in {"by index", "each"}, cur.left <= Len(This.iset),
         NEW d, d = cur.decl, NEW i, i = cur.left
  PROVE  /\ d.kind # "set2" /\ i \in Nat /\ This.iset = d.iset
         /\ Wanted(d, pc)[i] = [key |-> This.iset[i], val |-> IF pc = "by index" THEN Written(d)[i].val ELSE EachValue(d, i)]
<1>1. d \in Decls /\ d.kind # "set2" /\ i \in Nat /\ i # 0 /\ This.iset = d.iset
  BY DEF Inv, InStage, InLoop, IsStmt, Working, Looping
<1>2. DOMAIN d.iset = 1 .. Len(d.iset) /\ Len(d.iset) \in Nat /\ i <= Len(d.iset)
  BY <1>1, DeclLists
<1>3. i \in DOMAIN d.iset BY ONLY <1>1, <1>2
<1> QED BY <1>1, <1>3 DEF Wanted

\* A round that makes an entry for the next key of the index set.
LEMMA NewTells ==
  ASSUME Inv, Told, Onward, pc \in {"by index", "each"}, cur.left <= Len(This.iset),
         pc = "by index" => cur.left <= Len(cur.list),
         NEW key, key = This.iset[cur.left], NEW type \in Types, NEW val,
         val = IF pc = "by index" THEN Written(cur.decl)[cur.left].val ELSE EachValue(cur.decl, cur.left),
         NEW m, m = entry_new(tuple_new(mem, key), NewTup(mem), type, val), AddNew(m, NewTup(mem), NewEnt(mem))
  PROVE  Told'
<1>1. PICK e, t, x : e = NewEnt(mem) /\ t = NewTup(mem) /\ x = Wanted(cur.decl, pc)[cur.left]
  OBVIOUS
<1>2. cur.decl.kind # "set2" /\ x = [key |-> key, val |-> val] /\ pc # "none" /\ pc \in Looping
  BY <1>1, WantedAt DEF Looping
<1>3. IsKey(key) BY <1>2, LoopKey
<1>4. PICK f, g, l : f = Refs(Places) /\ g = TupRefs(Places) /\ l = CellCount(Places)
  OBVIOUS
<1>5. /\ Sound(m, More(f, e), More(g, t), l, carried)
      /\ Keeps(mem, m) /\ e \in Numbered /\ t \in Numbered /\ m.ent[e].val = val /\ Key(m, e) = key
  <2>1. /\ Sound(m, More(Refs(Places), NewEnt(mem)), More(TupRefs(Places), NewTup(mem)), CellCount(Places), carried)
        /\ Keeps(mem, m) /\ NewEnt(mem) \in Numbered /\ NewTup(mem) \in Numbered
        /\ m.ent[NewEnt(mem)].val = val /\ Key(m, NewEnt(mem)) = key
    <3>1. Inv /\ pc # "none" /\ type \in Types /\ m = entry_new(tuple_new(mem, key), NewTup(mem), type, val)
      BY <1>2
    <3> QED BY ONLY <1>3, <3>1, LoopEntry
  <2> QED BY ONLY <1>1, <1>4, <2>1
<1>6. Gives(m, e, x) BY <1>2, <1>5 DEF Gives
<1>7. DOMAIN mem.ent \subseteq DOMAIN m.ent /\ e \in DOMAIN m.ent
  <2>1. Sound(mem, f, g, l, carried) BY <1>2, <1>4, TheBooks
  <2> QED BY ONLY <1>5, <2>1, Wider
<1>8. Added(m, e) /\ mem' = tuple_free(AddMem(m, This, e), t) BY <1>1 DEF AddNew
<1>9. ASSUME ~ Duplicate(m, This, e) PROVE Gives(mem', e, x)
  <2>1. PICK n, p : n = hash_add_entry(m) /\ p = mem' OBVIOUS
  <2>2. mem' = tuple_free(n, t) BY <1>8, <1>9, <2>1 DEF AddMem
  <2>3. Settles(n, More(TupRefs(Places), t)) BY <1>2, <1>5, <2>2, TupleSettles
  <2>4. Sound(n, More(f, e), More(g, t), l + 1, carried) /\ Keeps(m, n)
    BY <1>5, <2>1, HashCells
  <2>5. Keeps(n, p) /\ p.ent = n.ent BY <1>4, <2>1, <2>3, <2>4 DEF Settles
  <2>6. n.ent = m.ent BY <1>5, <2>1, SoundCells DEF hash_add_entry
  <2>7. Gives(n, e, x) BY <1>6, <1>7, <2>4, <2>6, GivesOn
  <2>8. Gives(p, e, x) BY <1>7, <2>5, <2>6, <2>7, GivesOn
  <2> QED BY <2>1, <2>8
<1> QED BY <1>1, <1>2, <1>5, <1>6, <1>7, <1>8, <1>9, RoundTells

\* The same with the test of the type.
LEMMA TypedTells ==
  ASSUME Inv, Told, Onward, pc \in {"by index", "each"}, cur.left <= Len(This.iset),
         pc = "by index" => cur.left <= Len(cur.list),
         NEW key, key = This.iset[cur.left], NEW type \in Types, NEW val,
         val = IF pc = "by index" THEN Written(cur.decl)[cur.left].val ELSE EachValue(cur.decl, cur.left),
         AddTyped(entry_new(tuple_new(mem, key), NewTup(mem), type, val), NewTup(mem), NewEnt(mem))
  PROVE  Told'
<1>1. PICK m : m = entry_new(tuple_new(mem, key), NewTup(mem), type, val)
  OBVIOUS
<1>2. CASE pc' = "exit" BY <1>2, Resting
<1>3. CASE AddNew(m, NewTup(mem), NewEnt(mem)) BY <1>1, <1>3, NewTells
<1> QED BY <1>1, <1>2, <1>3 DEF AddTyped, Fail

\* insert_param_list_by_index takes the next value of the list.
LEMMA AddByIndexTells ==
  ASSUME Inv, Told, Onward, AddByIndex
  PROVE  Told'
<1>1. PICK d, i, e, key : d = cur.decl /\ i = cur.left /\ e = cur.list[cur.left] /\ key = This.iset[cur.left]
  OBVIOUS
<1>2. pc = "by index" /\ cur.left <= Len(cur.list) /\ cur.left <= Len(This.iset)
  BY DEF AddByIndex
<1>3. d.kind = "para1" /\ i \in Nat /\ i # 0 /\ cur.list \in Lists
  BY <1>1, <1>2 DEF Inv, InStage, InLoop, IsStmt, Looping
<1>4. PICK type, val : type = mem.ent[e].type /\ val = mem.ent[e].val OBVIOUS
<1>5. type \in Types BY <1>1, <1>2, <1>4, ListEntry
<1>6. i \in DOMAIN cur.list BY <1>1, <1>2, <1>3, EntryAt
<1>7. val = Written(d)[i].val
  BY <1>1, <1>2, <1>3, <1>4, <1>6 DEF Told, ListsTold, Says
<1>8. AddTyped(entry_new(tuple_new(mem, key), NewTup(mem), type, val), NewTup(mem), NewEnt(mem))
  BY <1>1, <1>4 DEF AddByIndex
<1> QED BY <1>1, <1>2, <1>5, <1>7, <1>8, TypedTells

\* i_newsym_para2 evaluates the value for the next key.
LEMMA AddPara2Tells ==
  ASSUME Inv, Told, Onward, AddPara2
  PROVE  Told'
<1>1. PICK d, i, key : d = cur.decl /\ i = cur.left /\ key = This.iset[cur.left]
  OBVIOUS
<1>2. pc = "each" /\ d.kind = "para2" /\ cur.left <= Len(This.iset)
  BY <1>1 DEF AddPara2
<1>3. PICK type, val : type = d.vals[i][1] /\ val = d.vals[i][2] OBVIOUS
<1>4. CASE pc' = "exit" BY <1>4, Resting
<1>5. CASE /\ type # "NAME"
           /\ AddTyped(entry_new(tuple_new(mem, key), NewTup(mem), type, val), NewTup(mem), NewEnt(mem))
  <2>1. d \in Decls /\ This.iset = d.iset /\ i \in Nat /\ i # 0
    BY <1>1, <1>2 DEF Inv, InStage, InLoop, IsStmt, Working, Looping
  <2>2. DOMAIN d.iset = 1 .. Len(d.iset) /\ Len(d.iset) \in Nat /\ i <= Len(d.iset)
    BY <1>1, <1>2, <2>1, DeclLists
  <2>3. i \in DOMAIN d.iset BY ONLY <2>1, <2>2
  <2>4. type \in Types
    BY <1>2, <1>3, <1>5, <2>1, <2>3, SymbolTableAssumption DEF IsDecl, Types, Values
  <2>5. val = EachValue(d, i) BY <1>2, <1>3 DEF EachValue
  <2> QED BY <1>1, <1>2, <1>5, <2>4, <2>5, TypedTells
<1> QED BY <1>1, <1>3, <1>4, <1>5 DEF AddPara2, Fail

\* i_newsym_set1 takes the set of the next key.
LEMMA AddSet1Tells ==
  ASSUME Inv, Told, Onward, AddSet1
  PROVE  Told'
<1>1. PICK d, i, key, val : d = cur.decl /\ i = cur.left /\ key = This.iset[cur.left] /\ val = cur.decl.vals[cur.left]
  OBVIOUS
<1>2. pc = "each" /\ d.kind = "set1" /\ cur.left <= Len(This.iset)
  BY <1>1 DEF AddSet1
<1>3. PICK m : m = entry_new(tuple_new(mem, key), NewTup(mem), "SET", val)
  OBVIOUS
<1>4. AddNew(m, NewTup(mem), NewEnt(mem)) /\ "SET" \in Types
  BY <1>1, <1>3 DEF AddSet1, Types
<1>5. val = EachValue(d, i) BY <1>1, <1>2 DEF EachValue
<1> QED BY <1>1, <1>2, <1>3, <1>4, <1>5, NewTells

\* i_newsym_var gives every key the bounds of the declaration.
LEMMA AddVarTells ==
  ASSUME Inv, Told, Onward, AddVar
  PROVE  Told'
<1>1. PICK d, i, key, val : /\ d = cur.decl /\ i = cur.left /\ key = This.iset[cur.left]
                            /\ val = <<Lower(cur.decl), Upper(cur.decl)>>
  OBVIOUS
<1>2. pc = "each" /\ d.kind = "var" /\ cur.left <= Len(This.iset)
  BY <1>1 DEF AddVar
<1>3. PICK m : m = entry_new(tuple_new(mem, key), NewTup(mem), "VAR", val)
  OBVIOUS
<1>4. CASE pc' = "exit" BY <1>4, Resting
<1>5. CASE AddNew(m, NewTup(mem), NewEnt(mem))
  <2>1. val = EachValue(d, i) /\ "VAR" \in Types
    BY <1>1, <1>2 DEF EachValue, Types
  <2> QED BY <1>1, <1>2, <1>3, <1>5, <2>1, NewTells
<1> QED BY <1>1, <1>3, <1>4, <1>5 DEF AddVar, Fail

\* insert_param_list_by_list and i_newsym_set2 take the next entry of the list.
LEMMA AddByListTells ==
  ASSUME Inv, Told, Onward, AddByList
  PROVE  Told'
<1>1. PICK d, i, e, x : d = cur.decl /\ i = cur.left /\ e = cur.list[cur.left] /\ x = Wanted(cur.decl, "by list")[cur.left]
  OBVIOUS
<1>2. pc = "by list" /\ cur.left <= Len(cur.list) /\ pc \in Looping
  BY DEF AddByList, Looping
<1>3. d \in Decls /\ d.kind \in {"para1", "set2"} /\ i \in Nat /\ i # 0 /\ cur.list \in Lists
  BY <1>1, <1>2 DEF Inv, InStage, InLoop, IsStmt, Working, Looping
<1>4. CASE pc' = "exit" BY <1>4, Resting
<1>5. CASE mem' = AddMem(entry_copy(mem, e), This, e) /\ Added(entry_copy(mem, e), e)
  <2>1. PICK m, n, f, g, l : /\ m = entry_copy(mem, e) /\ n = mem' /\ f = Refs(Places) /\ g = TupRefs(Places)
                             /\ l = CellCount(Places)
    OBVIOUS
  <2>2. e \in Numbered /\ e \in DOMAIN mem.ent BY <1>1, <1>2, ListEntry
  <2>3. Sound(mem, f, g, l, carried) BY <1>2, <2>1, TheBooks DEF Looping
  <2>4. Sound(m, More(f, e), g, l, carried) /\ Keeps(mem, m) /\ DOMAIN m.ent = DOMAIN mem.ent
    BY <2>1, <2>2, <2>3, SoundCopy
  <2>5. i \in DOMAIN cur.list /\ Len(cur.list) = Len(Written(d)) /\ Says(mem, e, Written(d)[i])
    <3>1. i \in DOMAIN cur.list BY <1>1, <1>2, <1>3, EntryAt
    <3> QED BY <1>1, <1>2, <1>3, <3>1 DEF Told, ListsTold
  <2>6. i \in DOMAIN Written(d) BY <1>3, <2>5, DeclLists DEF Lists
  <2>7. x.key = Written(d)[i].key /\ x.val = Written(d)[i].val
    BY <1>1, <2>6 DEF Wanted
  <2>8. Gives(m, e, x)
    <3>1. Gives(mem, e, x) BY <2>5, <2>7 DEF Gives, Says
    <3> QED BY <2>2, <2>4, <3>1, GivesOn
  <2>9. ASSUME ~ Duplicate(m, This, e) PROVE Gives(n, e, x)
    <3>1. n = hash_add_entry(m) BY <1>5, <2>1, <2>9 DEF AddMem
    <3>2. Keeps(m, n) /\ n.ent = m.ent
      <4>1. Keeps(m, n) BY <2>4, <3>1, HashCells
      <4> QED BY <2>4, <3>1, <4>1, SoundCells DEF hash_add_entry
    <3> QED BY <2>2, <2>4, <2>8, <3>2, GivesOn
  <2> QED BY <1>1, <1>2, <1>5, <2>1, <2>2, <2>4, <2>8, <2>9, RoundTells
<1> QED BY <1>1, <1>4, <1>5 DEF AddByList, Refused, Fail

\* Errors tell nothing more.
LEMMA ErrorsTell ==
  ASSUME MatrixError \/ TupleList \/ Finish
  PROVE  Told'
<1>1. pc' \in {"exit", "asserted", "idle"}
  BY DEF MatrixError, TupleList, Finish, Fail
<1> QED BY <1>1, Resting

\* A session starts, ends or rests.
LEMMA SessionTells ==
  ASSUME \/ Start \/ (\E p \in Params : zpl_add_parameter(p)) \/ Load
         \/ \E s \in ToSet(syms) : \E key \in Keys : Use(s, key)
         \/ EndOfProgram \/ prog_free \/ symbol_exit \/ stores_exit
  PROVE  Told'
<1>1. pc' \in {"args", "idle", "exit", "asserted", "symbols", "stores", "none"}
  BY DEF Start, zpl_add_parameter, Load, Use, EndOfProgram, prog_free, symbol_exit, stores_exit
<1> QED BY <1>1, Resting

\* Every step tells on.
LEMMA StepTells ==
  ASSUME Inv, Told, Next
  PROVE  Told'
<1>1. Onward BY OneStep
<1>2. CASE \/ Start \/ (\E p \in Params : zpl_add_parameter(p)) \/ Load
           \/ \E s \in ToSet(syms) : \E key \in Keys : Use(s, key)
           \/ EndOfProgram \/ prog_free \/ symbol_exit \/ stores_exit
  BY <1>2, SessionTells
<1>3. CASE \E d \in Decls : Declare(d) BY <1>3, DeclareTells
<1>4. CASE EntryNode BY <1>1, <1>4, EntryNodeTells
<1>5. CASE ReadEntry BY <1>1, <1>5, ReadEntryTells
<1>6. CASE ListNode BY <1>1, <1>6, ListNodeTells
<1>7. CASE InFront BY <1>1, <1>7, InFrontTells
<1>8. CASE MatrixError \/ TupleList \/ Finish BY <1>8, ErrorsTell
<1>9. CASE Default BY <1>1, <1>9, DefaultTells
<1>10. CASE i_newsym_para1 BY <1>1, <1>10, NewPara1Tells
<1>11. CASE i_newsym_set2 BY <1>1, <1>11, NewSet2Tells
<1>12. CASE i_newsym_each BY <1>1, <1>12, NewEachTells
<1>13. CASE AddByList BY <1>1, <1>13, AddByListTells
<1>14. CASE AddByIndex BY <1>1, <1>14, AddByIndexTells
<1>15. CASE AddPara2 BY <1>1, <1>15, AddPara2Tells
<1>16. CASE AddSet1 BY <1>1, <1>16, AddSet1Tells
<1>17. CASE AddVar BY <1>1, <1>17, AddVarTells
<1> QED
  BY <1>2, <1>3, <1>4, <1>5, <1>6, <1>7, <1>8, <1>9, <1>10, <1>11, <1>12, <1>13, <1>14, <1>15, <1>16, <1>17 DEF Next

\* A step of nothing tells on.
LEMMA StillTold ==
  ASSUME Told, UNCHANGED vars
  PROVE  Told'
BY DEF vars, Told, ListTold, FrontTold, ListsTold, DefaultTold, LoopTold, This

\* The statements keep track of what they are told.
LEMMA AllTold == Spec => []Told
<1>1. Init => Told
  BY DEF Init, Told, ListTold, FrontTold, ListsTold, DefaultTold, LoopTold, Looping
<1>2. Inv /\ Told /\ [Next]_vars => Told' BY StepTells, StillTold
<1> QED BY <1>1, <1>2, Accounted, PTL DEF Spec

\* When the loop of a declaration is over, looking up a key of its index set
\* finds the value written first for it, or the value of its place, or the
\* default, or nothing, and the array of entries agrees with the hash.
THEOREM BoundAsWritten == Spec => []TableAsWritten
<1>1. Inv /\ Told => BindsAsWritten BY ToldBinds
<1>2. TableOK /\ BindsAsWritten => TableAsWritten BY DEF TableAsWritten
<1> QED BY <1>1, <1>2, Accounted, AllTold, TablesAgree, PTL
=============================================================================
