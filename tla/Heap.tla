-------------------------------- MODULE Heap --------------------------------
(***************************************************************************)
(* The binary heap of heap.c, and what argmin and argmax do with it        *)
(* (do_set_argminmax of inst.c).  Only data[0 .. used-1] is kept, as a     *)
(* sequence; an entry is a record with its value in numb.  Positions are   *)
(* those of the code plus one: the parent of i is i \div 2.                *)
(*                                                                         *)
(* o is the order, 1 or -1.  A while loop is the function of its rounds; a *)
(* round after the end of the loop changes nothing.                        *)
(***************************************************************************)
EXTENDS Integers, Sequences

\* data_cmp(a, b) < 0
Before(o, a, b) == o * a.numb < o * b.numb

Swapped(h, i, j) == [h EXCEPT ![i] = h[j], ![j] = h[i]]

\* One round of sift_up and sift_down: the heap and the current position.
Higher(o, s) ==
  LET parent == s.at \div 2
  IN IF s.at > 1 /\ Before(o, s.heap[s.at], s.heap[parent])
     THEN [heap |-> Swapped(s.heap, s.at, parent), at |-> parent] ELSE s
Lower(o, s) ==
  LET h     == s.heap
      left  == 2 * s.at
      child == IF left < Len(h) /\ Before(o, h[left + 1], h[left]) THEN left + 1 ELSE left
  IN IF left <= Len(h) /\ Before(o, h[child], h[s.at])
     THEN [heap |-> Swapped(h, s.at, child), at |-> child] ELSE s

sift_up(o, h, i) ==
  LET rounds[n \in Nat] == IF n = 0 THEN [heap |-> h, at |-> i] ELSE Higher(o, rounds[n - 1])
  IN rounds[i].heap
sift_down(o, h, i) ==
  LET rounds[n \in Nat] == IF n = 0 THEN [heap |-> h, at |-> i] ELSE Lower(o, rounds[n - 1])
  IN rounds[Len(h)].heap

heap_push_entry(o, h, e) == sift_up(o, Append(h, e), Len(h) + 1)
heap_top_entry(h)        == h[1]
\* the last entry takes the place of the top one and sinks
heap_pop_entry(o, h) ==
  LET n == Len(h) IN sift_down(o, SubSeq([h EXCEPT ![1] = h[n]], 1, n - 1), 1)

heap_is_valid(o, h) == \A i \in 2 .. Len(h) : ~ Before(o, h[i], h[i \div 2])

\* do_set_argminmax, for one entry: a full heap gives up its worst entry for
\* a better one
Offered(o, h, size, e) ==
  LET left == IF Len(h) = size /\ Before(o, heap_top_entry(h), e) THEN heap_pop_entry(o, h) ELSE h
  IN IF Len(left) < size THEN heap_push_entry(o, left, e) ELSE left

\* heap_to_set empties the heap into a list
Emptied(o, s) ==
  IF s.heap = <<>> THEN s
  ELSE [heap |-> heap_pop_entry(o, s.heap), list |-> Append(s.list, heap_top_entry(s.heap).tuple)]
heap_to_set(o, h) ==
  LET rounds[n \in Nat] == IF n = 0 THEN [heap |-> h, list |-> <<>>] ELSE Emptied(o, rounds[n - 1])
  IN rounds[Len(h)].list
=============================================================================
