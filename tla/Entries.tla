------------------------------- MODULE Entries -------------------------------
(***************************************************************************)
(* Tuples, entries and the elements of lists and hashes, with the cells    *)
(* they take from the stores (tuple.c, elem.c, entry.c, list.c, hash.c).   *)
(*                                                                         *)
(* The stores of small objects are the chains of blkmem.c (tuples, list    *)
(* and hash elements), the elements of elem.c and the numbers of           *)
(* numbgmp.c.  Each keeps a list of free cells, the blocks it was cut from *)
(* and a count of the cells in use.  Cells of one store are alike, so a    *)
(* free list is its length; of the blocks the model keeps the cells they   *)
(* have together and the size of the newest.                               *)
(*                                                                         *)
(* A memory m has the three stores and the live objects: tup and ent map   *)
(* the numbers of live tuples and entries to records with a reference      *)
(* count.  A tuple's key is a sequence of elements <<type, value>>, type   *)
(* "n" (number) or "s" (string); an entry has type "NUMB", "STRG", "SET"   *)
(* or "VAR".                                                               *)
(***************************************************************************)
EXTENDS Integers, Sequences, FiniteSets, SequencesExt

CONSTANTS MIN_BLK_ELEM_COUNT, ELEM_STORE_SIZE, NUMB_STORE_SIZE

ASSUME StoreSizes == {MIN_BLK_ELEM_COUNT, ELEM_STORE_SIZE, NUMB_STORE_SIZE} \subseteq Nat \ {0}

EmptyPool == [free |-> 0, cells |-> 0, block |-> 0, count |-> 0]

Extended(p, size) == [free |-> p.free + size, cells |-> p.cells + size, block |-> size, count |-> p.count]
Taken(p)          == [free |-> p.free - 1, cells |-> p.cells, block |-> p.block, count |-> p.count + 1]
Returned(p, n)    == [free |-> p.free + n, cells |-> p.cells, block |-> p.block, count |-> p.count - n]

\* A chain of blkmem.c: every block is twice as large as the one before.
extend_memory(p) == Extended(p, IF p.cells = 0 THEN MIN_BLK_ELEM_COUNT ELSE 2 * p.block)

\* mutant: the first cell of a new block is used but not taken off the list
blk_alloc_Kept(p) == IF p.free = 0 THEN [extend_memory(p) EXCEPT !.count = @ + 1] ELSE Taken(p)
blk_alloc(p) == Taken(IF p.free = 0 THEN extend_memory(p) ELSE p)
blk_free(p)  == Returned(p, 1)

\* The anchors are cleared when a session starts, the count never is.
blk_init(p)  == [EmptyPool EXCEPT !.count = p.count]
blk_exit(p)  == p

\* n cells of a store whose blocks have one size: elements and numbers.
Cell(p, size) == Taken(IF p.free = 0 THEN Extended(p, size) ELSE p)
Drawn(p, size, n) ==
  LET after[k \in Nat] == IF k = 0 THEN p ELSE Cell(after[k - 1], size)
  IN after[n]

new_elem(p, n)  == Drawn(p, ELEM_STORE_SIZE, n)
elem_free(p, n) == Returned(p, n)
elem_exit(p)    == EmptyPool

numb_new(p, n)  == Drawn(p, NUMB_STORE_SIZE, n)
numb_free(p, n) == Returned(p, n)

\* Four constants live as long as the session.
numb_init(p) == numb_new([EmptyPool EXCEPT !.count = p.count], 4)
numb_exit(p) == EmptyPool
-----------------------------------------------------------------------------
Unused(objects) ==
  CHOOSE i \in 1 .. Cardinality(DOMAIN objects) + 1 :
    i \notin DOMAIN objects /\ \A j \in 1 .. i - 1 : j \in DOMAIN objects
NewTup(m) == Unused(m.tup)
NewEnt(m) == Unused(m.ent)

With(objects, i, x) == [j \in DOMAIN objects \cup {i} |-> IF j = i THEN x ELSE objects[j]]
Without(objects, i) == [j \in DOMAIN objects \ {i} |-> objects[j]]

Sharing(x)   == [x EXCEPT !.refc = @ + 1]
Releasing(x) == [x EXCEPT !.refc = @ - 1]
Shared(objects, i)   == [objects EXCEPT ![i] = Sharing(@)]
Released(objects, i) == [objects EXCEPT ![i] = Releasing(@)]

\* The elements of a key that are numbers have a cell for the number.
Numeric(key) == {i \in DOMAIN key : key[i][1] = "n"}

\* A new tuple with its elements: it belongs to whoever asked for it.
tuple_new(m, key) ==
  [blk  |-> blk_alloc(m.blk),
   elem |-> new_elem(m.elem, Len(key)),
   numb |-> numb_new(m.numb, Cardinality(Numeric(key))),
   tup  |-> With(m.tup, NewTup(m), [refc |-> 1, key |-> key]),
   ent  |-> m.ent]
tuple_copy(tup, t) == Shared(tup, t)
tuple_free(m, t) ==
  IF m.tup[t].refc > 1 THEN [m EXCEPT !.tup = Released(@, t)]
  ELSE [blk  |-> blk_free(m.blk),
        elem |-> elem_free(m.elem, Len(m.tup[t].key)),
        numb |-> numb_free(m.numb, Cardinality(Numeric(m.tup[t].key))),
        tup  |-> Without(m.tup, t),
        ent  |-> m.ent]

\* entry_new_numb, _strg, _set and _var: only a number is copied.
Numb(type) == IF type = "NUMB" THEN 1 ELSE 0
entry_new(m, t, type, val) ==
  [blk  |-> m.blk,
   elem |-> m.elem,
   numb |-> numb_new(m.numb, Numb(type)),
   tup  |-> tuple_copy(m.tup, t),
   ent  |-> With(m.ent, NewEnt(m), [refc |-> 1, tuple |-> t, type |-> type, val |-> val])]
entry_copy(m, e) == [m EXCEPT !.ent = Shared(@, e)]

EntryDropped(m, e) ==
  [blk  |-> m.blk,
   elem |-> m.elem,
   numb |-> numb_free(m.numb, Numb(m.ent[e].type)),
   tup  |-> m.tup,
   ent  |-> Without(m.ent, e)]
entry_free(m, e) ==
  IF m.ent[e].refc > 1 THEN [m EXCEPT !.ent = Released(@, e)]
  ELSE tuple_free(EntryDropped(m, e), m.ent[e].tuple)

Key(m, e) == m.tup[m.ent[e].tuple].key

\* A cell of a list and the reference it holds; a cell of a hash holds none.
list_data_new(m, e)  == [entry_copy(m, e) EXCEPT !.blk = blk_alloc(@)]
list_data_free(m, e) == [entry_free(m, e) EXCEPT !.blk = blk_free(@)]
hash_add_entry(m)    == [m EXCEPT !.blk = blk_alloc(@)]
hash_elem_free(m)    == [m EXCEPT !.blk = blk_free(@)]

\* The entry of a chain (the newest first) with this key; 0 when there is none.
hash_lookup_entry(m, chain, key) ==
  LET n == SelectInSeq(chain, LAMBDA e : Key(m, e) = key)
  IN IF n = 0 THEN 0 ELSE chain[n]
=============================================================================
