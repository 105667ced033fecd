----------------------------- MODULE SetsProofs -----------------------------
(***************************************************************************)
(* Proofs about the heap of argmin and argmax and about the numbering of   *)
(* range sets, for every heap and every range.  (Module Sets itself has    *)
(* RECURSIVE operators, so these are theorems about what its actions are   *)
(* made of.)                                                               *)
(***************************************************************************)
EXTENDS Heap, SetRange, Iteration, SequenceTheorems

Entry(T) == [numb : Int, tuple : T]

\* The entries are ordered, with ties, whichever the order of the heap.
LEMMA Ordered ==
  ASSUME NEW T, NEW o \in {-1, 1}, NEW a \in Entry(T), NEW b \in Entry(T), NEW c \in Entry(T)
  PROVE  /\ ~ Before(o, a, a)
         /\ Before(o, a, b) => ~ Before(o, b, a)
         /\ ~ Before(o, b, a) /\ ~ Before(o, c, b) => ~ Before(o, c, a)
<1>1. a.numb \in Int /\ b.numb \in Int /\ c.numb \in Int
  BY DEF Entry
<1>2. CASE o = 1
  BY <1>1, <1>2 DEF Before
<1>3. CASE o = -1
  BY <1>1, <1>3 DEF Before
<1> QED
  BY <1>2, <1>3
----------------------------------------------------------------------------
\* g has the entries of h in another order.
Permutation(p, n) ==
  /\ p \in [1 .. n -> 1 .. n]
  /\ \A k, l \in 1 .. n : p[k] = p[l] => k = l
  /\ \A m \in 1 .. n : \E k \in 1 .. n : p[k] = m
Moved(p, g, h) == \A k \in 1 .. Len(h) : g[k] = h[p[k]]
Permuted(g, h) ==
  Len(g) = Len(h) /\ \E p : Permutation(p, Len(h)) /\ Moved(p, g, h)

LEMMA Unmoved ==
  ASSUME NEW S, NEW h \in Seq(S)
  PROVE  Permuted(h, h)
<1> DEFINE p == [k \in 1 .. Len(h) |-> k]
<1>1. p \in [1 .. Len(h) -> 1 .. Len(h)] /\ \A k \in 1 .. Len(h) : p[k] = k
  OBVIOUS
<1> HIDE DEF p
<1>2. Permutation(p, Len(h)) /\ Moved(p, h, h)
  BY <1>1 DEF Permutation, Moved
<1> QED
  BY <1>2 DEF Permuted

LEMMA MovedTwice ==
  ASSUME NEW S, NEW f \in Seq(S), NEW g \in Seq(S), NEW h \in Seq(S), Permuted(f, g), Permuted(g, h)
  PROVE  Permuted(f, h)
<1> DEFINE n == Len(h)
<1>1. Len(f) = n /\ Len(g) = n
  BY DEF Permuted
<1>2. PICK p : Permutation(p, n) /\ Moved(p, f, g)
  BY <1>1 DEF Permuted
<1>3. PICK q : Permutation(q, n) /\ Moved(q, g, h)
  BY DEF Permuted
<1> DEFINE r == [k \in 1 .. n |-> q[p[k]]]
<1>4. /\ r \in [1 .. n -> 1 .. n] /\ \A k, l \in 1 .. n : r[k] = r[l] => k = l
  BY <1>2, <1>3 DEF Permutation
<1>5. \A k \in 1 .. n : f[k] = h[r[k]]
  <2> SUFFICES ASSUME NEW k \in 1 .. n PROVE f[k] = h[q[p[k]]]
    OBVIOUS
  <2>1. f[k] = g[p[k]] /\ p[k] \in 1 .. n
    BY <1>1, <1>2 DEF Moved, Permutation
  <2>2. g[p[k]] = h[q[p[k]]]
    BY <1>3, <2>1 DEF Moved
  <2> QED
    BY <2>1, <2>2
<1>6. ASSUME NEW m \in 1 .. n PROVE \E k \in 1 .. n : r[k] = m
  <2>1. PICK l \in 1 .. n : q[l] = m
    BY <1>3 DEF Permutation
  <2>2. PICK k \in 1 .. n : p[k] = l
    BY <1>2 DEF Permutation
  <2> QED
    BY <2>1, <2>2
<1> HIDE DEF r
<1>7. Permutation(r, Len(h)) /\ Moved(r, f, h)
  BY <1>4, <1>5, <1>6 DEF Permutation, Moved
<1> QED
  BY <1>1, <1>7 DEF Permuted

LEMMA Swap ==
  ASSUME NEW S, NEW h \in Seq(S), NEW i \in 1 .. Len(h), NEW j \in 1 .. Len(h)
  PROVE  /\ Swapped(h, i, j) \in Seq(S) /\ Len(Swapped(h, i, j)) = Len(h)
         /\ \A k \in 1 .. Len(h) :
              Swapped(h, i, j)[k] = IF k = j THEN h[i] ELSE IF k = i THEN h[j] ELSE h[k]
         /\ Permuted(Swapped(h, i, j), h)
<1> DEFINE g == [h EXCEPT ![i] = h[j]]
           w == [g EXCEPT ![j] = h[i]]
           I == 1 .. Len(h)
<1>1. h[i] \in S /\ h[j] \in S
  BY ElementOfSeq
<1>2. g \in Seq(S) /\ Len(g) = Len(h) /\ \A k \in I : g[k] = IF k = i THEN h[j] ELSE h[k]
  BY <1>1, ExceptSeq
<1>3. w \in Seq(S) /\ Len(w) = Len(g) /\ \A k \in I : w[k] = IF k = j THEN h[i] ELSE g[k]
  <2> HIDE DEF g
  <2> QED
    BY <1>1, <1>2, ExceptSeq
<1>4. Swapped(h, i, j) = w
  BY DEF Swapped
<1>5. \A k \in I : w[k] = IF k = j THEN h[i] ELSE IF k = i THEN h[j] ELSE h[k]
  <2> HIDE DEF g, w
  <2> QED
    BY <1>2, <1>3
<1>6. Permuted(w, h)
  <2> DEFINE p == [k \in I |-> IF k = j THEN i ELSE IF k = i THEN j ELSE k]
  <2> HIDE DEF g, w
  <2>1. p \in [I -> I] /\ (\A k, l \in I : p[k] = p[l] => k = l) /\ \A k \in I : w[k] = h[p[k]]
    BY <1>5
  <2>2. ASSUME NEW m \in I PROVE \E k \in I : p[k] = m
    <3>1. p[p[m]] = m /\ p[m] \in I
      OBVIOUS
    <3> QED
      BY <3>1
  <2> HIDE DEF p
  <2>3. Permutation(p, Len(h)) /\ Moved(p, w, h)
    BY <2>1, <2>2 DEF Permutation, Moved
  <2> QED
    BY <1>2, <1>3, <2>3 DEF Permuted
<1> HIDE DEF w, g
<1> QED
  BY <1>2, <1>3, <1>4, <1>5, <1>6

LEMMA AppendMoved ==
  ASSUME NEW S, NEW g \in Seq(S), NEW h \in Seq(S), NEW e \in S, Permuted(g, h)
  PROVE  Permuted(Append(g, e), Append(h, e))
<1> DEFINE n == Len(h)
           J == 1 .. n + 1
           ge == Append(g, e)
           he == Append(h, e)
<1>1. Len(g) = n /\ n \in Nat
  BY DEF Permuted
<1>2. /\ Len(ge) = n + 1 /\ Len(he) = n + 1
      /\ \A k \in J : ge[k] = IF k = n + 1 THEN e ELSE g[k]
      /\ \A k \in J : he[k] = IF k = n + 1 THEN e ELSE h[k]
  BY <1>1
<1>3. PICK p : Permutation(p, n) /\ Moved(p, g, h)
  BY DEF Permuted
<1> DEFINE q == [k \in J |-> IF k = n + 1 THEN k ELSE p[k]]
<1> HIDE DEF ge, he, n
<1>4. q \in [J -> J] /\ \A k, l \in J : q[k] = q[l] => k = l
  <2>1. /\ \A k \in 1 .. n : p[k] \in 1 .. n
        /\ \A k, l \in 1 .. n : p[k] = p[l] => k = l
    BY <1>3 DEF Permutation
  <2>2. \A k \in J : k = n + 1 \/ k \in 1 .. n
    BY <1>1
  <2>3. q \in [J -> J]
    BY <1>1, <2>1, <2>2
  <2>4. ASSUME NEW k \in J, NEW l \in J, q[k] = q[l] PROVE k = l
    BY <1>1, <2>1, <2>2, <2>4
  <2> QED
    BY <2>3, <2>4
<1>5. ASSUME NEW m \in J PROVE \E k \in J : q[k] = m
  <2>1. CASE m = n + 1
    BY <1>1, <2>1
  <2>2. CASE m \in 1 .. n
    <3>1. PICK k \in 1 .. n : p[k] = m
      BY <1>3, <2>2 DEF Permutation
    <3>2. k \in J /\ q[k] = m
      BY <1>1, <3>1
    <3> QED
      BY <3>2
  <2> QED
    BY <1>1, <2>1, <2>2
<1>6. ASSUME NEW k \in J PROVE ge[k] = he[q[k]]
  <2>1. CASE k = n + 1
    BY <1>1, <1>2, <2>1
  <2>2. CASE k \in 1 .. n
    <3>1. /\ q[k] = p[k] /\ p[k] \in 1 .. n /\ p[k] \in J
          /\ k # n + 1 /\ p[k] # n + 1
      BY <1>1, <1>3, <2>2 DEF Permutation
    <3>2. g[k] = h[p[k]]
      BY <1>3, <2>2 DEF Moved, n
    <3> HIDE DEF q
    <3> QED
      BY <1>2, <2>2, <3>1, <3>2
  <2> QED
    BY <1>1, <2>1, <2>2
<1> HIDE DEF q
<1>7. Permutation(q, n + 1) /\ Moved(q, ge, he)
  BY <1>1, <1>2, <1>4, <1>5, <1>6 DEF Permutation, Moved
<1>8. Permuted(ge, he)
  BY <1>2, <1>7 DEF Permuted
<1> QED
  BY <1>8 DEF ge, he
----------------------------------------------------------------------------
\* All is in order but, on the way up, the entry at c and its parent, and on
\* the way down, the entry at c and its children.
Rising(o, h, c) ==
  /\ \A k \in 2 .. Len(h) : k # c => ~ Before(o, h[k], h[k \div 2])
  /\ c > 1 => \A k \in 2 .. Len(h) : k \div 2 = c => ~ Before(o, h[k], h[c \div 2])
Sinking(o, h, c) ==
  /\ \A k \in 2 .. Len(h) : k \div 2 # c => ~ Before(o, h[k], h[k \div 2])
  /\ c > 1 => \A k \in 2 .. Len(h) : k \div 2 = c => ~ Before(o, h[k], h[c \div 2])

\* What a round in between leaves: the entry of c is now at d.
Raised(T, o, h, c, r) ==
  \E g \in Seq(Entry(T)), d \in 1 .. Len(h) :
    r = [heap |-> g, at |-> d] /\ d < c /\ Permuted(g, h) /\ Rising(o, g, d)
Sunk(T, o, h, c, r) ==
  \E g \in Seq(Entry(T)), d \in 1 .. Len(h) :
    r = [heap |-> g, at |-> d] /\ d > c /\ Permuted(g, h) /\ Sinking(o, g, d)

\* One round of sift_up: the entry moves up, or the heap is in order.
LEMMA UpRound ==
  ASSUME NEW T, NEW o \in {-1, 1}, NEW h \in Seq(Entry(T)), NEW c \in 1 .. Len(h), Rising(o, h, c),
         NEW s, s = [heap |-> h, at |-> c]
  PROVE  \/ Higher(o, s) = s /\ heap_is_valid(o, h)
         \/ ~ heap_is_valid(o, h) /\ Raised(T, o, h, c, Higher(o, s))
<1> DEFINE d == c \div 2
           n == Len(h)
<1>1. CASE c > 1 /\ Before(o, h[c], h[d])
  <2> DEFINE g == Swapped(h, c, d)
  <2>1. d \in 1 .. n /\ d < c /\ n \in Nat
    BY <1>1
  <2>2. /\ g \in Seq(Entry(T)) /\ Len(g) = n /\ Permuted(g, h)
        /\ \A k \in 1 .. n : g[k] = IF k = d THEN h[c] ELSE IF k = c THEN h[d] ELSE h[k]
    <3> DEFINE E == Entry(T)
    <3>1. h \in Seq(E) /\ c \in 1 .. Len(h) /\ d \in 1 .. Len(h)
      BY <2>1
    <3> HIDE DEF d, E
    <3>2. /\ g \in Seq(E) /\ Len(g) = Len(h)
          /\ \A k \in 1 .. Len(h) : g[k] = IF k = d THEN h[c] ELSE IF k = c THEN h[d] ELSE h[k]
          /\ Permuted(g, h)
      BY ONLY <3>1, Swap
    <3> QED
      BY <3>2 DEF E
  <2>3. Higher(o, s) = [heap |-> g, at |-> d]
    BY <1>1 DEF Higher
  <2>4. ~ heap_is_valid(o, h)
    BY <1>1, <2>1 DEF heap_is_valid
  <2>5. \A k \in 1 .. n : h[k] \in Entry(T)
    BY ElementOfSeq
  <2> HIDE DEF g
  <2>6. ASSUME NEW k \in 2 .. n, k # d PROVE ~ Before(o, g[k], g[k \div 2])
    <3> DEFINE p == k \div 2
    <3>1. p \in 1 .. n /\ k \in 1 .. n /\ p < k
      BY <2>1
    <3>2. CASE k = c
      <4>1. g[k] = h[d] /\ g[p] = h[c]
        BY <2>1, <2>2, <3>2
      <4> QED
        BY <1>1, <2>1, <2>5, <4>1, Ordered
    <3>3. CASE k # c /\ p = c
      <4>1. g[k] = h[k] /\ g[p] = h[d]
        BY <2>1, <2>2, <2>6, <3>1, <3>3
      <4>2. ~ Before(o, h[k], h[d])
        BY <1>1, <3>3 DEF Rising
      <4> QED
        BY <4>1, <4>2
    <3>4. CASE k # c /\ p = d
      <4>1. g[k] = h[k] /\ g[p] = h[c]
        BY <2>1, <2>2, <2>6, <3>1, <3>4
      <4>2. ~ Before(o, h[k], h[d])
        BY <3>4 DEF Rising
      <4>3. ~ Before(o, h[d], h[c])
        BY <1>1, <2>1, <2>5, Ordered
      <4> QED
        BY <2>1, <2>5, <3>1, <4>1, <4>2, <4>3, Ordered
    <3>5. CASE k # c /\ p # c /\ p # d
      <4>1. g[k] = h[k] /\ g[p] = h[p]
        BY <2>1, <2>2, <2>6, <3>1, <3>5
      <4>2. ~ Before(o, h[k], h[p])
        BY <3>5 DEF Rising
      <4> QED
        BY <4>1, <4>2
    <3> QED
      BY <3>2, <3>3, <3>4, <3>5
  <2>7. ASSUME d > 1, NEW k \in 2 .. n, k \div 2 = d PROVE ~ Before(o, g[k], g[d \div 2])
    <3> DEFINE e == d \div 2
    <3>1. e \in 1 .. n /\ e # d /\ e # c /\ k \in 1 .. n /\ k # d /\ d \in 2 .. n /\ d # c
      BY <2>1, <2>7
    <3>2. g[e] = h[e]
      BY <2>2, <3>1
    <3>3. ~ Before(o, h[d], h[e])
      BY <3>1 DEF Rising
    <3>4. CASE k = c
      <4>1. g[k] = h[d]
        BY <2>2, <3>1, <3>4
      <4> QED
        BY <3>2, <3>3, <4>1
    <3>5. CASE k # c
      <4>1. g[k] = h[k]
        BY <2>2, <3>1, <3>5
      <4>2. ~ Before(o, h[k], h[d])
        BY <2>7, <3>5 DEF Rising
      <4> QED
        BY <2>1, <2>5, <3>1, <3>2, <3>3, <4>1, <4>2, Ordered
    <3> QED
      BY <3>4, <3>5
  <2>8. Rising(o, g, d)
    BY <2>2, <2>6, <2>7 DEF Rising
  <2> HIDE DEF d
  <2>9. Raised(T, o, h, c, Higher(o, s))
    BY <2>1, <2>2, <2>3, <2>8 DEF Raised
  <2> QED
    BY <2>4, <2>9
<1>2. CASE ~ (c > 1 /\ Before(o, h[c], h[d]))
  <2>1. Higher(o, s) = s
    BY <1>2 DEF Higher
  <2>2. heap_is_valid(o, h)
    BY <1>2 DEF heap_is_valid, Rising
  <2> QED
    BY <2>1, <2>2
<1> QED
  BY <1>1, <1>2

\* One round of sift_down: the entry sinks, or the heap is in order.
LEMMA DownRound ==
  ASSUME NEW T, NEW o \in {-1, 1}, NEW h \in Seq(Entry(T)), NEW c \in 1 .. Len(h) + 1,
         Sinking(o, h, c), NEW s, s = [heap |-> h, at |-> c]
  PROVE  \/ Lower(o, s) = s /\ heap_is_valid(o, h)
         \/ ~ heap_is_valid(o, h) /\ Sunk(T, o, h, c, Lower(o, s))
<1> DEFINE n == Len(h)
           left == 2 * c
           right == left + 1
           d == IF left < n /\ Before(o, h[right], h[left]) THEN right ELSE left
           g == Swapped(h, c, d)
<1>0. n \in Nat /\ c \in Nat /\ left \in Nat /\ c >= 1
  OBVIOUS
<1>1. Lower(o, s) = IF left <= n /\ Before(o, h[d], h[c]) THEN [heap |-> g, at |-> d] ELSE s
  BY DEF Lower
<1>2. \A k \in 2 .. n : k \div 2 = c <=> k = left \/ k = right
  OBVIOUS
<1>3. \A k \in 1 .. n : h[k] \in Entry(T)
  BY ElementOfSeq
<1>4. ASSUME left <= n PROVE d \in 2 .. n /\ (d = left \/ d = right) /\ d > c /\ d \div 2 = c
  BY <1>4, <1>0
<1>5. ASSUME left <= n, NEW k \in 2 .. n, k \div 2 = c PROVE ~ Before(o, h[k], h[d])
  <2>1. k = left \/ k = right
    BY <1>2, <1>5
  <2>2. k \in 1 .. n /\ left \in 1 .. n /\ (k = right => left < n)
    BY <1>0, <1>5
  <2>3. CASE d = k
    BY <1>3, <2>2, <2>3, Ordered
  <2>4. CASE k = right /\ d = left
    BY <2>2, <2>4
  <2>5. CASE k = left /\ d = right
    <3>1. Before(o, h[right], h[left]) /\ right \in 1 .. n
      BY <1>0, <2>5
    <3> QED
      BY <1>3, <2>2, <2>5, <3>1, Ordered
  <2> QED
    BY <2>1, <2>3, <2>4, <2>5
<1> HIDE DEF left, right, d
<1>6. CASE left <= n /\ Before(o, h[d], h[c])
  <2>1. d \in 2 .. n /\ d \in 1 .. n /\ c \in 1 .. n /\ d > c /\ d \div 2 = c
    BY <1>0, <1>4, <1>6
  <2>2. /\ g \in Seq(Entry(T)) /\ Len(g) = n /\ Permuted(g, h)
        /\ \A k \in 1 .. n : g[k] = IF k = d THEN h[c] ELSE IF k = c THEN h[d] ELSE h[k]
    <3> DEFINE E == Entry(T)
    <3>1. h \in Seq(E) /\ c \in 1 .. Len(h) /\ d \in 1 .. Len(h)
      BY <2>1
    <3> HIDE DEF E
    <3>2. /\ g \in Seq(E) /\ Len(g) = Len(h)
          /\ \A k \in 1 .. Len(h) : g[k] = IF k = d THEN h[c] ELSE IF k = c THEN h[d] ELSE h[k]
          /\ Permuted(g, h)
      BY ONLY <3>1, Swap
    <3> QED
      BY <3>2 DEF E
  <2>3. ~ heap_is_valid(o, h)
    BY <1>6, <2>1 DEF heap_is_valid
  <2> HIDE DEF g
  <2>4. ASSUME NEW k \in 2 .. n, k \div 2 # d PROVE ~ Before(o, g[k], g[k \div 2])
    <3> DEFINE p == k \div 2
    <3>1. p \in 1 .. n /\ k \in 1 .. n /\ p < k /\ p # d
      BY <2>4
    <3>2. CASE k = d
      <4>1. g[k] = h[c] /\ g[p] = h[d]
        BY <2>1, <2>2, <3>1, <3>2
      <4> QED
        BY <1>3, <1>6, <2>1, <4>1, Ordered
    <3>3. CASE k # d /\ p = c
      <4>1. g[k] = h[k] /\ g[p] = h[d]
        BY <2>1, <2>2, <3>1, <3>3
      <4>2. ~ Before(o, h[k], h[d])
        BY <1>5, <1>6, <3>3
      <4> QED
        BY <4>1, <4>2
    <3>4. CASE k = c
      <4>1. g[k] = h[d] /\ g[p] = h[p]
        BY <2>1, <2>2, <3>1, <3>4
      <4>2. ~ Before(o, h[d], h[c \div 2])
        BY <2>1, <3>1, <3>4 DEF Sinking
      <4> QED
        BY <3>4, <4>1, <4>2
    <3>5. CASE k # d /\ k # c /\ p # c
      <4>1. g[k] = h[k] /\ g[p] = h[p]
        BY <2>1, <2>2, <3>1, <3>5
      <4>2. ~ Before(o, h[k], h[p])
        BY <3>5 DEF Sinking
      <4> QED
        BY <4>1, <4>2
    <3> QED
      BY <3>2, <3>3, <3>4, <3>5
  <2>5. ASSUME NEW k \in 2 .. n, k \div 2 = d PROVE ~ Before(o, g[k], g[d \div 2])
    <3>1. k \in 1 .. n /\ k # d /\ k # c /\ k \div 2 # c
      BY <2>1, <2>5
    <3>2. g[k] = h[k] /\ g[c] = h[d]
      BY <2>1, <2>2, <3>1
    <3>3. ~ Before(o, h[k], h[d])
      BY <2>5, <3>1 DEF Sinking
    <3> QED
      BY <2>1, <3>2, <3>3
  <2>6. Sinking(o, g, d)
    BY <2>2, <2>4, <2>5 DEF Sinking
  <2>7. Lower(o, s) = [heap |-> g, at |-> d]
    BY <1>1, <1>6
  <2>8. Sunk(T, o, h, c, Lower(o, s))
    BY <2>1, <2>2, <2>6, <2>7 DEF Sunk
  <2> QED
    BY <2>3, <2>8
<1>7. CASE ~ (left <= n /\ Before(o, h[d], h[c]))
  <2>1. Lower(o, s) = s
    BY <1>1, <1>7
  <2>2. ASSUME NEW k \in 2 .. n PROVE ~ Before(o, h[k], h[k \div 2])
    <3>1. CASE k \div 2 # c
      BY <3>1 DEF Sinking
    <3>2. CASE k \div 2 = c
      <4>1. left <= n /\ c \in 1 .. n /\ k \in 1 .. n
        BY <1>0, <1>2, <3>2 DEF right, left
      <4>2. d \in 1 .. n /\ ~ Before(o, h[d], h[c]) /\ ~ Before(o, h[k], h[d])
        BY <1>4, <1>5, <1>7, <3>2, <4>1
      <4> QED
        BY <1>3, <3>2, <4>1, <4>2, Ordered
    <3> QED
      BY <3>1, <3>2
  <2>3. heap_is_valid(o, h)
    BY <2>2 DEF heap_is_valid
  <2> QED
    BY <2>1, <2>3
<1> QED
  BY <1>6, <1>7

\* What the loop of sift_up may be in the middle of: the entries of h, in
\* order but at one position.
Climb(T, o, h) ==
  {[heap |-> x[1], at |-> x[2]] :
     x \in {y \in Seq(Entry(T)) \X Nat :
              y[2] \in 1 .. Len(y[1]) /\ Permuted(y[1], h) /\ Rising(o, y[1], y[2])}}

LEMMA UpRounds ==
  ASSUME NEW T, NEW o \in {-1, 1}, NEW h \in Seq(Entry(T)), NEW s \in Climb(T, o, h)
  PROVE  /\ Higher(o, s) \in Climb(T, o, h)
         /\ s.heap \in Seq(Entry(T)) /\ Permuted(s.heap, h) /\ s.at \in Nat /\ s.at >= 1
         /\ \/ Higher(o, s) = s /\ heap_is_valid(o, s.heap)
            \/ ~ heap_is_valid(o, s.heap) /\ Higher(o, s).at < s.at
<1> DEFINE E == Entry(T)
<1>1. PICK y \in Seq(E) \X Nat :
         /\ y[2] \in 1 .. Len(y[1]) /\ Permuted(y[1], h) /\ Rising(o, y[1], y[2])
         /\ s = [heap |-> y[1], at |-> y[2]]
  BY DEF Climb
<1>2. PICK q \in Seq(E), c \in Nat : q = y[1] /\ c = y[2]
  OBVIOUS
<1>3. /\ c \in 1 .. Len(q) /\ Permuted(q, h) /\ Rising(o, q, c)
      /\ s = [heap |-> q, at |-> c]
  BY <1>1, <1>2
<1>4. CASE Higher(o, s) = s /\ heap_is_valid(o, q)
  BY <1>3, <1>4
<1>5. CASE ~ heap_is_valid(o, q) /\ Raised(T, o, q, c, Higher(o, s))
  <2>1. PICK g \in Seq(E), d \in 1 .. Len(q) :
                Higher(o, s) = [heap |-> g, at |-> d] /\ d < c /\ Permuted(g, q) /\ Rising(o, g, d)
    BY <1>5 DEF Raised
  <2>2. Permuted(g, h) /\ Len(g) = Len(q)
    <3>1. Permuted(g, h)
      <4> HIDE DEF E
      <4>1. h \in Seq(E)
        BY DEF E
      <4> QED
        BY <1>3, <2>1, <4>1, MovedTwice
    <3> QED
      BY <2>1, <3>1 DEF Permuted
  <2> DEFINE z == <<g, d>>
  <2>3. /\ z \in Seq(E) \X Nat
        /\ z[2] \in 1 .. Len(z[1]) /\ Permuted(z[1], h) /\ Rising(o, z[1], z[2])
        /\ Higher(o, s) = [heap |-> z[1], at |-> z[2]]
    BY <2>1, <2>2
  <2>4. Higher(o, s) \in Climb(T, o, h)
    <3> HIDE DEF z
    <3> QED
      BY <2>3 DEF Climb
  <2> QED
    BY <1>3, <1>5, <2>1, <2>4
<1>6. \/ Higher(o, s) = s /\ heap_is_valid(o, q)
      \/ ~ heap_is_valid(o, q) /\ Raised(T, o, q, c, Higher(o, s))
  <2>1. q \in Seq(Entry(T)) /\ c \in 1 .. Len(q) /\ o \in {-1, 1}
    BY <1>2, <1>3
  <2> QED
    BY ONLY <1>3, <2>1, UpRound
<1> QED
  BY <1>4, <1>5, <1>6

\* sift_up repairs a heap with one entry too low.
LEMMA SiftUp ==
  ASSUME NEW T, NEW o \in {-1, 1}, NEW h \in Seq(Entry(T)), NEW c \in 1 .. Len(h), Rising(o, h, c)
  PROVE  /\ sift_up(o, h, c) \in Seq(Entry(T))
         /\ Permuted(sift_up(o, h, c), h) /\ heap_is_valid(o, sift_up(o, h, c))
<1> DEFINE S == Climb(T, o, h)
           a == [heap |-> h, at |-> c]
           g == [s \in S |-> Higher(o, s)]
<1>1. a \in S
  <2>1. Permuted(h, h)
    BY Unmoved
  <2> DEFINE z == <<h, c>>
  <2>2. /\ z \in Seq(Entry(T)) \X Nat
        /\ z[2] \in 1 .. Len(z[1]) /\ Permuted(z[1], h) /\ Rising(o, z[1], z[2])
        /\ a = [heap |-> z[1], at |-> z[2]]
    BY <2>1
  <2> HIDE DEF z, a
  <2> QED
    BY <2>2 DEF Climb
<1>2. \A s \in S : /\ Higher(o, s) \in S
                   /\ s.heap \in Seq(Entry(T)) /\ Permuted(s.heap, h) /\ s.at \in Nat /\ s.at >= 1
                   /\ \/ Higher(o, s) = s /\ heap_is_valid(o, s.heap)
                      \/ ~ heap_is_valid(o, s.heap) /\ Higher(o, s).at < s.at
  BY UpRounds
<1> HIDE DEF S, a
<1>3. g \in [S -> S]
  BY <1>2
<1>4. PICK f : Repeats(f, S, a, g)
  <2> HIDE DEF g
  <2> QED
    BY <1>1, <1>3, Repeated
<1>5. f \in [Nat -> S] /\ f[0] = a /\ \A k \in Nat : f[k + 1] = Higher(o, f[k])
  BY <1>4 DEF Repeats
<1>6. \E u : u = [n \in Nat |-> IF n = 0 THEN a ELSE Higher(o, u[n - 1])]
  <2>1. \A n \in Nat : f[n] = IF n = 0 THEN a ELSE Higher(o, f[n - 1])
    <3> SUFFICES ASSUME NEW n \in Nat, n # 0 PROVE f[n] = Higher(o, f[n - 1])
      BY <1>5
    <3>1. n - 1 \in Nat /\ (n - 1) + 1 = n
      OBVIOUS
    <3> QED
      BY <1>5, <3>1
  <2>2. f = [n \in Nat |-> f[n]]
    BY <1>5
  <2> QED
    BY <2>1, <2>2
<1> DEFINE rounds[n \in Nat] == IF n = 0 THEN a ELSE Higher(o, rounds[n - 1])
<1>7. rounds = [n \in Nat |-> IF n = 0 THEN a ELSE Higher(o, rounds[n - 1])]
  BY <1>6
<1>8. sift_up(o, h, c) = rounds[c].heap
  BY DEF sift_up, a
<1> HIDE DEF rounds
<1>9. rounds[0] = a /\ \A k \in Nat : rounds[k + 1] = Higher(o, rounds[k])
  <2>1. rounds[0] = a
    BY <1>7
  <2>2. ASSUME NEW k \in Nat PROVE rounds[k + 1] = Higher(o, rounds[k])
    <3>1. k + 1 \in Nat /\ k + 1 # 0 /\ (k + 1) - 1 = k
      OBVIOUS
    <3> QED
      BY <1>7, <3>1
  <2> QED
    BY <2>1, <2>2
<1> DEFINE N == {k \in Nat : /\ rounds[k] \in S
                             /\ \/ heap_is_valid(o, rounds[k].heap)
                                \/ rounds[k].at + k <= c}
<1>10. 0 \in N
  <2>1. a.at = c
    BY DEF a
  <2> QED
    <3>1. rounds[0].at + 0 <= c /\ 0 \in Nat
      BY <1>9, <2>1
    <3> QED
      BY <1>1, <1>9, <3>1
<1>11. ASSUME NEW k \in N PROVE k + 1 \in N
  <2>1. k \in Nat /\ k + 1 \in Nat /\ rounds[k] \in S /\ rounds[k + 1] = Higher(o, rounds[k])
    BY <1>9
  <2>2. rounds[k + 1] \in S /\ rounds[k + 1].at \in Nat /\ rounds[k].at \in Nat
    BY <1>2, <2>1
  <2>3. \/ heap_is_valid(o, rounds[k + 1].heap)
        \/ rounds[k + 1].at + (k + 1) <= c
    <3>1. CASE Higher(o, rounds[k]) = rounds[k] /\ heap_is_valid(o, rounds[k].heap)
      BY <2>1, <3>1
    <3>2. CASE ~ heap_is_valid(o, rounds[k].heap) /\ Higher(o, rounds[k]).at < rounds[k].at
      <4>1. rounds[k].at + k <= c
        BY <1>11, <3>2
      <4> QED
        BY <2>1, <2>2, <3>2, <4>1
    <3> QED
      BY <1>2, <2>1, <3>1, <3>2
  <2> QED
    BY <2>1, <2>2, <2>3
<1>12. N = Nat
  <2>1. N \in SUBSET Nat
    OBVIOUS
  <2> HIDE DEF N
  <2> QED
    BY <1>10, <1>11, <2>1, Induction
<1>13. c \in Nat /\ rounds[c] \in S /\ (heap_is_valid(o, rounds[c].heap) \/ rounds[c].at + c <= c)
  BY <1>12
<1> QED
  BY <1>2, <1>8, <1>13

\* What the loop of sift_down may be in the middle of: the entries of h, in
\* order but at one position.
Dive(T, o, h) ==
  {[heap |-> x[1], at |-> x[2]] :
     x \in {y \in Seq(Entry(T)) \X Nat :
              y[2] \in 1 .. Len(y[1]) + 1 /\ Permuted(y[1], h) /\ Sinking(o, y[1], y[2])}}

LEMMA DownRounds ==
  ASSUME NEW T, NEW o \in {-1, 1}, NEW h \in Seq(Entry(T)), NEW s \in Dive(T, o, h)
  PROVE  /\ Lower(o, s) \in Dive(T, o, h)
         /\ s.heap \in Seq(Entry(T)) /\ Permuted(s.heap, h) /\ s.at \in Nat /\ s.at >= 1
         /\ \/ Lower(o, s) = s /\ heap_is_valid(o, s.heap)
            \/ ~ heap_is_valid(o, s.heap) /\ Lower(o, s).at > s.at /\ Lower(o, s).at <= Len(h)
<1> DEFINE E == Entry(T)
<1>1. PICK y \in Seq(E) \X Nat :
         /\ y[2] \in 1 .. Len(y[1]) + 1 /\ Permuted(y[1], h) /\ Sinking(o, y[1], y[2])
         /\ s = [heap |-> y[1], at |-> y[2]]
  BY DEF Dive
<1>2. PICK q \in Seq(E), c \in Nat : q = y[1] /\ c = y[2]
  OBVIOUS
<1>3. /\ c \in 1 .. Len(q) + 1 /\ Permuted(q, h) /\ Sinking(o, q, c)
      /\ s = [heap |-> q, at |-> c]
  BY <1>1, <1>2
<1>4. CASE Lower(o, s) = s /\ heap_is_valid(o, q)
  BY <1>3, <1>4
<1>5. CASE ~ heap_is_valid(o, q) /\ Sunk(T, o, q, c, Lower(o, s))
  <2>1. PICK g \in Seq(E), d \in 1 .. Len(q) :
                Lower(o, s) = [heap |-> g, at |-> d] /\ d > c /\ Permuted(g, q) /\ Sinking(o, g, d)
    BY <1>5 DEF Sunk
  <2>2. Permuted(g, h) /\ Len(g) = Len(q) /\ Len(q) = Len(h)
    <3>1. Permuted(g, h)
      <4> HIDE DEF E
      <4>1. h \in Seq(E)
        BY DEF E
      <4> QED
        BY <1>3, <2>1, <4>1, MovedTwice
    <3> QED
      BY <1>3, <2>1, <3>1 DEF Permuted
  <2> DEFINE z == <<g, d>>
  <2>3. /\ z \in Seq(E) \X Nat
        /\ z[2] \in 1 .. Len(z[1]) + 1 /\ Permuted(z[1], h) /\ Sinking(o, z[1], z[2])
        /\ Lower(o, s) = [heap |-> z[1], at |-> z[2]]
    BY <2>1, <2>2
  <2>4. Lower(o, s) \in Dive(T, o, h)
    <3> HIDE DEF z
    <3> QED
      BY <2>3 DEF Dive
  <2> QED
    BY <1>3, <1>5, <2>1, <2>2, <2>4
<1>6. \/ Lower(o, s) = s /\ heap_is_valid(o, q)
      \/ ~ heap_is_valid(o, q) /\ Sunk(T, o, q, c, Lower(o, s))
  <2>1. q \in Seq(Entry(T)) /\ c \in 1 .. Len(q) + 1 /\ o \in {-1, 1}
    BY <1>2, <1>3
  <2> QED
    BY ONLY <1>3, <2>1, DownRound
<1> QED
  BY <1>4, <1>5, <1>6

\* sift_down repairs a heap with one entry too high.
LEMMA SiftDown ==
  ASSUME NEW T, NEW o \in {-1, 1}, NEW h \in Seq(Entry(T)), NEW c \in 1 .. Len(h) + 1, Sinking(o, h, c)
  PROVE  /\ sift_down(o, h, c) \in Seq(Entry(T))
         /\ Permuted(sift_down(o, h, c), h) /\ heap_is_valid(o, sift_down(o, h, c))
<1> DEFINE S == Dive(T, o, h)
           a == [heap |-> h, at |-> c]
           g == [s \in S |-> Lower(o, s)]
<1>1. a \in S
  <2>1. Permuted(h, h)
    BY Unmoved
  <2> DEFINE z == <<h, c>>
  <2>2. /\ z \in Seq(Entry(T)) \X Nat
        /\ z[2] \in 1 .. Len(z[1]) + 1 /\ Permuted(z[1], h) /\ Sinking(o, z[1], z[2])
        /\ a = [heap |-> z[1], at |-> z[2]]
    BY <2>1
  <2> HIDE DEF z, a
  <2> QED
    BY <2>2 DEF Dive
<1>2. \A s \in S : /\ Lower(o, s) \in S
                   /\ s.heap \in Seq(Entry(T)) /\ Permuted(s.heap, h) /\ s.at \in Nat /\ s.at >= 1
                   /\ \/ Lower(o, s) = s /\ heap_is_valid(o, s.heap)
                      \/ ~ heap_is_valid(o, s.heap) /\ Lower(o, s).at > s.at /\ Lower(o, s).at <= Len(h)
  BY DownRounds
<1> HIDE DEF S, a
<1>3. g \in [S -> S]
  BY <1>2
<1>4. PICK f : Repeats(f, S, a, g)
  <2> HIDE DEF g
  <2> QED
    BY <1>1, <1>3, Repeated
<1>5. f \in [Nat -> S] /\ f[0] = a /\ \A k \in Nat : f[k + 1] = Lower(o, f[k])
  BY <1>4 DEF Repeats
<1>6. \E u : u = [n \in Nat |-> IF n = 0 THEN a ELSE Lower(o, u[n - 1])]
  <2>1. \A n \in Nat : f[n] = IF n = 0 THEN a ELSE Lower(o, f[n - 1])
    <3> SUFFICES ASSUME NEW n \in Nat, n # 0 PROVE f[n] = Lower(o, f[n - 1])
      BY <1>5
    <3>1. n - 1 \in Nat /\ (n - 1) + 1 = n
      OBVIOUS
    <3> QED
      BY <1>5, <3>1
  <2>2. f = [n \in Nat |-> f[n]]
    BY <1>5
  <2> QED
    BY <2>1, <2>2
<1> DEFINE rounds[n \in Nat] == IF n = 0 THEN a ELSE Lower(o, rounds[n - 1])
<1>7. rounds = [n \in Nat |-> IF n = 0 THEN a ELSE Lower(o, rounds[n - 1])]
  BY <1>6
<1>8. sift_down(o, h, c) = rounds[Len(h)].heap
  BY DEF sift_down, a
<1> HIDE DEF rounds
<1>9. rounds[0] = a /\ \A k \in Nat : rounds[k + 1] = Lower(o, rounds[k])
  <2>1. rounds[0] = a
    BY <1>7
  <2>2. ASSUME NEW k \in Nat PROVE rounds[k + 1] = Lower(o, rounds[k])
    <3>1. k + 1 \in Nat /\ k + 1 # 0 /\ (k + 1) - 1 = k
      OBVIOUS
    <3> QED
      BY <1>7, <3>1
  <2> QED
    BY <2>1, <2>2
<1> DEFINE N == {k \in Nat : /\ rounds[k] \in S
                             /\ \/ heap_is_valid(o, rounds[k].heap)
                                \/ rounds[k].at >= k + 1}
<1>10. 0 \in N
  <2>1. a.at = c
    BY DEF a
  <2> QED
    <3>1. rounds[0].at >= 0 + 1 /\ 0 \in Nat
      BY <1>9, <2>1
    <3> QED
      BY <1>1, <1>9, <3>1
<1>11. ASSUME NEW k \in N PROVE k + 1 \in N
  <2>1. k \in Nat /\ k + 1 \in Nat /\ rounds[k] \in S /\ rounds[k + 1] = Lower(o, rounds[k])
    BY <1>9
  <2>2. rounds[k + 1] \in S /\ rounds[k + 1].at \in Nat /\ rounds[k].at \in Nat
    BY <1>2, <2>1
  <2>3. \/ heap_is_valid(o, rounds[k + 1].heap)
        \/ rounds[k + 1].at >= (k + 1) + 1
    <3>1. CASE Lower(o, rounds[k]) = rounds[k] /\ heap_is_valid(o, rounds[k].heap)
      BY <2>1, <3>1
    <3>2. CASE ~ heap_is_valid(o, rounds[k].heap) /\ Lower(o, rounds[k]).at > rounds[k].at
      <4>1. rounds[k].at >= k + 1
        BY <1>11, <3>2
      <4> QED
        BY <2>1, <2>2, <3>2, <4>1
    <3> QED
      BY <1>2, <2>1, <3>1, <3>2
  <2> QED
    BY <2>1, <2>2, <2>3
<1>12. N = Nat
  <2>1. N \in SUBSET Nat
    OBVIOUS
  <2> HIDE DEF N
  <2> QED
    BY <1>10, <1>11, <2>1, Induction
<1>13. Len(h) \in Nat /\ rounds[Len(h)] \in S /\ (heap_is_valid(o, rounds[Len(h)].heap) \/ rounds[Len(h)].at >= Len(h) + 1)
  BY <1>12
<1> QED
  BY <1>2, <1>8, <1>13
----------------------------------------------------------------------------
\* What two sequences with the same entries have in common.
Has(h, u) == \E k \in 1 .. Len(h) : h[k] = u
Distinct(h) == \A k, l \in 1 .. Len(h) : h[k] = h[l] => k = l

LEMMA SameEntries ==
  ASSUME NEW S, NEW g \in Seq(S), NEW h \in Seq(S), Permuted(g, h)
  PROVE  /\ Len(g) = Len(h)
         /\ \A u : Has(g, u) <=> Has(h, u)
         /\ Distinct(g) <=> Distinct(h)
<1> DEFINE n == Len(h)
<1>1. Len(g) = n
  BY DEF Permuted
<1>2. PICK p : Permutation(p, n) /\ Moved(p, g, h)
  BY DEF Permuted
<1>3. \A k \in 1 .. n : p[k] \in 1 .. n /\ g[k] = h[p[k]]
  BY <1>2 DEF Permutation, Moved
<1>4. \A m \in 1 .. n : \E k \in 1 .. n : p[k] = m
  BY <1>2 DEF Permutation
<1>5. \A k, l \in 1 .. n : p[k] = p[l] => k = l
  BY <1>2 DEF Permutation
<1> HIDE DEF n
<1>6. ASSUME NEW u PROVE Has(g, u) <=> Has(h, u)
  <2>1. ASSUME Has(g, u) PROVE Has(h, u)
    BY <1>1, <1>3, <2>1 DEF Has, n
  <2>2. ASSUME Has(h, u) PROVE Has(g, u)
    <3>1. PICK m \in 1 .. n : h[m] = u
      BY <2>2 DEF Has, n
    <3>2. PICK k \in 1 .. n : p[k] = m
      BY <1>4
    <3>3. g[k] = u
      BY <1>3, <3>1, <3>2
    <3> QED
      BY <1>1, <3>3 DEF Has
  <2> QED
    BY <2>1, <2>2
<1>7. ASSUME Distinct(h) PROVE Distinct(g)
  <2> SUFFICES ASSUME NEW k \in 1 .. n, NEW l \in 1 .. n, g[k] = g[l] PROVE k = l
    BY <1>1 DEF Distinct
  <2>1. h[p[k]] = h[p[l]] /\ p[k] \in 1 .. n /\ p[l] \in 1 .. n
    BY <1>3
  <2>2. p[k] = p[l]
    BY ONLY <1>7, <2>1 DEF Distinct, n
  <2> QED
    BY <1>5, <2>2
<1>8. ASSUME Distinct(g) PROVE Distinct(h)
  <2> SUFFICES ASSUME NEW k \in 1 .. n, NEW l \in 1 .. n, h[k] = h[l] PROVE k = l
    BY DEF Distinct, n
  <2>1. PICK i \in 1 .. n, m \in 1 .. n : p[i] = k /\ p[m] = l
    BY <1>4
  <2>2. g[i] = g[m]
    BY <1>3, <2>1
  <2>3. i = m
    BY <1>1, <1>8, <2>2 DEF Distinct
  <2> QED
    BY <2>1, <2>3
<1> QED
  BY <1>1, <1>6, <1>7, <1>8 DEF n

LEMMA Appended ==
  ASSUME NEW S, NEW h \in Seq(S), NEW e \in S
  PROVE  /\ Append(h, e) \in Seq(S) /\ Len(Append(h, e)) = Len(h) + 1
         /\ \A k \in 1 .. Len(h) : Append(h, e)[k] = h[k]
         /\ Append(h, e)[Len(h) + 1] = e
         /\ \A u : Has(Append(h, e), u) <=> Has(h, u) \/ u = e
         /\ Distinct(Append(h, e)) <=> Distinct(h) /\ ~ Has(h, e)
<1> DEFINE g == Append(h, e)
           n == Len(h)
<1>1. /\ g \in Seq(S) /\ Len(g) = n + 1 /\ n \in Nat /\ g[n + 1] = e
      /\ \A k \in 1 .. n : g[k] = h[k]
  OBVIOUS
<1> HIDE DEF g, n
<1>2. ASSUME NEW u PROVE Has(g, u) <=> Has(h, u) \/ u = e
  <2>1. \A k \in 1 .. n + 1 : k = n + 1 \/ k \in 1 .. n
    BY <1>1
  <2>2. n + 1 \in 1 .. n + 1 /\ \A k \in 1 .. n : k \in 1 .. n + 1
    BY <1>1
  <2>3. Has(g, u) => Has(h, u) \/ u = e
    BY <1>1, <2>1 DEF Has, n
  <2>4. Has(h, u) \/ u = e => Has(g, u)
    BY <1>1, <2>2 DEF Has, n
  <2> QED
    BY <2>3, <2>4
<1>3. ASSUME Distinct(g) PROVE Distinct(h) /\ ~ Has(h, e)
  <2>1. n + 1 \in 1 .. n + 1 /\ \A k \in 1 .. n : k \in 1 .. n + 1 /\ k # n + 1
    BY <1>1
  <2>2. Distinct(h)
    BY <1>1, <1>3, <2>1 DEF Distinct, n
  <2>3. ~ Has(h, e)
    BY <1>1, <1>3, <2>1 DEF Distinct, Has, n
  <2> QED
    BY <2>2, <2>3
<1>4. ASSUME Distinct(h), ~ Has(h, e) PROVE Distinct(g)
  <2>1. \A k \in 1 .. n + 1 : k = n + 1 \/ k \in 1 .. n
    BY <1>1
  <2>2. /\ \A k, l \in 1 .. n : h[k] = h[l] => k = l
        /\ \A k \in 1 .. n : h[k] # e
    BY <1>4 DEF Distinct, Has, n
  <2>3. ASSUME NEW k \in 1 .. n + 1, NEW l \in 1 .. n + 1, g[k] = g[l] PROVE k = l
    BY <1>1, <2>1, <2>2, <2>3
  <2> QED
    BY <1>1, <2>3 DEF Distinct
<1> QED
  BY <1>1, <1>2, <1>3, <1>4 DEF g, n
----------------------------------------------------------------------------
\* The heap of heap.c: adding an entry keeps the heap in order.
LEMMA Push ==
  ASSUME NEW T, NEW o \in {-1, 1}, NEW h \in Seq(Entry(T)), NEW e \in Entry(T), heap_is_valid(o, h)
  PROVE  /\ heap_push_entry(o, h, e) \in Seq(Entry(T)) /\ heap_is_valid(o, heap_push_entry(o, h, e))
         /\ Permuted(heap_push_entry(o, h, e), Append(h, e))
<1> DEFINE E == Entry(T)
           g == Append(h, e)
           n == Len(h)
<1>1. /\ g \in Seq(E) /\ Len(g) = n + 1 /\ n \in Nat
      /\ \A k \in 1 .. n : g[k] = h[k]
  OBVIOUS
<1>2. n + 1 \in 1 .. Len(g)
  BY <1>1
<1>3. Rising(o, g, n + 1)
  <2> HIDE DEF g
  <2>1. ASSUME NEW k \in 2 .. Len(g), k # n + 1 PROVE ~ Before(o, g[k], g[k \div 2])
    <3>1. k \in 2 .. n /\ k \in 1 .. n /\ k \div 2 \in 1 .. n
      BY <1>1, <2>1
    <3> QED
      BY <1>1, <3>1 DEF heap_is_valid
  <2>2. ASSUME NEW k \in 2 .. Len(g) PROVE k \div 2 # n + 1
    BY <1>1
  <2> QED
    BY <2>1, <2>2 DEF Rising
<1>4. heap_push_entry(o, h, e) = sift_up(o, g, n + 1)
  BY DEF heap_push_entry
<1> HIDE DEF g, n
<1> QED
  BY <1>1, <1>2, <1>3, <1>4, SiftUp DEF g

\* No entry is before the top one.
LEMMA Topmost ==
  ASSUME NEW T, NEW o \in {-1, 1}, NEW h \in Seq(Entry(T)), heap_is_valid(o, h),
         NEW k \in 1 .. Len(h)
  PROVE  ~ Before(o, h[k], h[1])
<1> DEFINE S == {i \in 1 .. Len(h) : Before(o, h[i], h[1])}
<1>1. \A i \in 1 .. Len(h) : h[i] \in Entry(T)
  BY ElementOfSeq
<1>2. ASSUME S # {} PROVE FALSE
  <2>1. PICK m \in S : \A i \in S : m <= i
    <3>1. S \in SUBSET Nat
      OBVIOUS
    <3> HIDE DEF S
    <3> QED
      BY <1>2, <3>1, Least
  <2>2. m \in 1 .. Len(h) /\ Before(o, h[m], h[1]) /\ 1 \in 1 .. Len(h)
    OBVIOUS
  <2>3. m # 1
    BY <1>1, <2>2, Ordered
  <2> DEFINE p == m \div 2
  <2>4. p \in 1 .. Len(h) /\ p < m /\ m \in 2 .. Len(h)
    BY <2>2, <2>3
  <2>5. ~ Before(o, h[p], h[1])
    BY <2>1, <2>4
  <2>6. ~ Before(o, h[m], h[p])
    BY <2>4 DEF heap_is_valid
  <2> QED
    BY <1>1, <2>2, <2>4, <2>5, <2>6, Ordered
<1> QED
  BY <1>2

\* heap_pop_entry takes the top entry away, and nothing else.
LEMMA Pop ==
  ASSUME NEW T, NEW o \in {-1, 1}, NEW h \in Seq(Entry(T)), heap_is_valid(o, h), h # <<>>
  PROVE  /\ heap_pop_entry(o, h) \in Seq(Entry(T)) /\ heap_is_valid(o, heap_pop_entry(o, h))
         /\ Permuted(Append(heap_pop_entry(o, h), h[1]), h)
<1> DEFINE E == Entry(T)
           n == Len(h)
           w == [h EXCEPT ![1] = h[n]]
           q == SubSeq(w, 1, n - 1)
<1>1. n \in Nat /\ n >= 1 /\ 1 \in 1 .. n /\ n \in 1 .. n
  BY EmptySeq
<1>2. w \in Seq(E) /\ Len(w) = n /\ \A k \in 1 .. n : w[k] = IF k = 1 THEN h[n] ELSE h[k]
  <2>1. h[n] \in E
    BY <1>1, ElementOfSeq
  <2> HIDE DEF E
  <2>2. h \in Seq(E)
    BY DEF E
  <2> QED
    BY <1>1, <2>1, <2>2, ExceptSeq
<1> HIDE DEF w
<1>3. q \in Seq(E) /\ Len(q) = n - 1 /\ \A k \in 1 .. n - 1 : q[k] = IF k = 1 THEN h[n] ELSE h[k]
  <2>1. \A k \in 1 .. n - 1 : w[k] \in E /\ k \in 1 .. n
    BY <1>1, <1>2, ElementOfSeq
  <2>2. /\ q \in Seq(E) /\ Len(q) = IF 1 <= n - 1 THEN (n - 1) - 1 + 1 ELSE 0
        /\ \A k \in 1 .. (n - 1) - 1 + 1 : q[k] = w[1 + k - 1]
    <3> HIDE DEF E
    <3>1. 1 \in Int /\ n - 1 \in Int
      BY <1>1
    <3> QED
      BY <2>1, <3>1, SubSeqProperties
  <2>3. Len(q) = n - 1 /\ (n - 1) - 1 + 1 = n - 1
    <3> HIDE DEF q, n
    <3> QED
      BY <1>1, <2>2
  <2>4. \A k \in 1 .. n - 1 : q[k] = w[k]
    BY <1>1, <2>2, <2>3
  <2> HIDE DEF q
  <2> QED
    BY <1>2, <2>1, <2>2, <2>3, <2>4
<1>4. heap_pop_entry(o, h) = sift_down(o, q, 1)
  BY DEF heap_pop_entry, w
<1> HIDE DEF q
<1>5. Sinking(o, q, 1)
  <2> SUFFICES ASSUME NEW k \in 2 .. Len(q), k \div 2 # 1 PROVE ~ Before(o, q[k], q[k \div 2])
    BY DEF Sinking
  <2>1. /\ k \in 2 .. n /\ k \in 1 .. n - 1 /\ k # 1
        /\ k \div 2 \in 1 .. n - 1 /\ k \div 2 # 1
    BY <1>1, <1>3
  <2>2. q[k] = h[k] /\ q[k \div 2] = h[k \div 2]
    BY <1>3, <2>1
  <2> QED
    BY <2>1, <2>2 DEF heap_is_valid
<1> DEFINE r == sift_down(o, q, 1)
<1>6. r \in Seq(E) /\ Permuted(r, q) /\ heap_is_valid(o, r)
  <2>1. 1 \in 1 .. Len(q) + 1
    BY <1>1, <1>3
  <2> QED
    BY <1>3, <1>5, <2>1, SiftDown
<1>7. Append(q, h[1]) = Swapped(h, 1, n)
  <2>1. h[1] \in E
    BY <1>1, ElementOfSeq
  <2>2. /\ Swapped(h, 1, n) \in Seq(E) /\ Len(Swapped(h, 1, n)) = n
        /\ \A k \in 1 .. n : Swapped(h, 1, n)[k] = IF k = n THEN h[1] ELSE IF k = 1 THEN h[n] ELSE h[k]
    <3> HIDE DEF E
    <3>1. h \in Seq(E) /\ 1 \in 1 .. Len(h) /\ n \in 1 .. Len(h)
      BY <1>1 DEF E
    <3> HIDE DEF n
    <3>2. /\ Swapped(h, 1, n) \in Seq(E) /\ Len(Swapped(h, 1, n)) = Len(h)
          /\ \A k \in 1 .. Len(h) :
               Swapped(h, 1, n)[k] = IF k = n THEN h[1] ELSE IF k = 1 THEN h[n] ELSE h[k]
      BY ONLY <3>1, Swap
    <3> QED
      BY <3>2 DEF n
  <2>3. /\ Append(q, h[1]) \in Seq(E) /\ Len(Append(q, h[1])) = n
        /\ \A k \in 1 .. n : Append(q, h[1])[k] = IF k = n THEN h[1] ELSE q[k]
    <3> HIDE DEF E
    <3> QED
      BY <1>1, <1>3, <2>1, AppendProperties
  <2>4. ASSUME NEW k \in 1 .. n PROVE Append(q, h[1])[k] = Swapped(h, 1, n)[k]
    <3>1. CASE k = n
      BY <1>1, <2>2, <2>3, <3>1
    <3>2. CASE k # n
      <4>1. k \in 1 .. n - 1
        BY <1>1, <3>2
      <4> QED
        BY <1>3, <2>2, <2>3, <3>2, <4>1
    <3> QED
      BY <3>1, <3>2
  <2> HIDE DEF E
  <2> QED
    BY <2>2, <2>3, <2>4, SeqEqual
<1>8. Permuted(Append(r, h[1]), Append(q, h[1])) /\ Permuted(Append(q, h[1]), h)
  <2> HIDE DEF E, r
  <2>1. h \in Seq(E) /\ h[1] \in E
    BY <1>1, ElementOfSeq DEF E
  <2>2. Permuted(Swapped(h, 1, n), h)
    BY <1>1, <2>1, Swap
  <2> QED
    BY <1>3, <1>6, <1>7, <2>1, <2>2, AppendMoved
<1>9. Permuted(Append(r, h[1]), h)
  <2> HIDE DEF E, r
  <2>1. h \in Seq(E) /\ h[1] \in E
    BY <1>1, ElementOfSeq DEF E
  <2>2. Append(r, h[1]) \in Seq(E) /\ Append(q, h[1]) \in Seq(E)
    BY <1>3, <1>6, <2>1, AppendProperties
  <2> QED
    BY <1>8, <2>1, <2>2, MovedTwice
<1> QED
  BY <1>4, <1>6, <1>9
----------------------------------------------------------------------------
\* The heap after the entries of met were offered to it: as many as it has
\* room for, and none that was left out comes before one that is there (the
\* first to go is the worst, so that none of those is better).
Chosen(T, o, h, size, met) ==
  /\ h \in Seq(Entry(T)) /\ heap_is_valid(o, h) /\ Distinct(h)
  /\ Len(h) = IF Len(met) < size THEN Len(met) ELSE size
  /\ \A u : Has(h, u) => Has(met, u)
  /\ \A u : Has(met, u) /\ ~ Has(h, u) => Len(h) = size /\ \A k \in 1 .. Len(h) : ~ Before(o, h[k], u)

\* An entry offered to the heap keeps it a best choice among those met: a full
\* heap gives up its top entry, which is the worst, and only for a better one.
THEOREM OfferKeepsBest ==
  ASSUME NEW T, NEW o \in {-1, 1}, NEW size \in Nat \ {0}, NEW h, NEW met \in Seq(Entry(T)),
         NEW e \in Entry(T), ~ Has(met, e), Chosen(T, o, h, size, met)
  PROVE  Chosen(T, o, Offered(o, h, size, e), size, Append(met, e))
<1> DEFINE E == Entry(T)
           top == h[1]
           all == Append(met, e)
<1>1. /\ h \in Seq(E) /\ heap_is_valid(o, h) /\ Distinct(h) /\ ~ Has(h, e)
      /\ Len(h) = IF Len(met) < size THEN Len(met) ELSE size
      /\ Len(h) \in Nat /\ Len(met) \in Nat
      /\ \A u : Has(h, u) => Has(met, u)
  BY DEF Chosen
<1>2. \A u : Has(met, u) /\ ~ Has(h, u) => Len(h) = size /\ \A k \in 1 .. Len(h) : ~ Before(o, h[k], u)
  BY DEF Chosen
<1>3. Len(all) = Len(met) + 1 /\ \A u : Has(all, u) <=> Has(met, u) \/ u = e
  <2> HIDE DEF E
  <2>1. met \in Seq(E) /\ e \in E
    BY DEF E
  <2> QED
    BY <2>1, Appended
<1>4. \A u : Has(h, u) \/ Has(met, u) => u \in E
  BY <1>1, ElementOfSeq DEF Has
<1> HIDE DEF all
<1>5. CASE Len(h) < size
  <2> DEFINE g == heap_push_entry(o, h, e)
  <2>1. Offered(o, h, size, e) = g
    BY <1>1, <1>5 DEF Offered
  <2>2. g \in Seq(E) /\ heap_is_valid(o, g) /\ Permuted(g, Append(h, e))
    BY <1>1, Push
  <2> HIDE DEF g
  <2>3. /\ Len(g) = Len(h) + 1 /\ Distinct(g)
        /\ \A u : Has(g, u) <=> Has(h, u) \/ u = e
    <3> HIDE DEF E
    <3>1. h \in Seq(E) /\ e \in E /\ g \in Seq(E)
      BY <1>1, <2>2 DEF E
    <3>2. Append(h, e) \in Seq(E) /\ Len(Append(h, e)) = Len(h) + 1 /\ Distinct(Append(h, e))
          /\ \A u : Has(Append(h, e), u) <=> Has(h, u) \/ u = e
      BY <1>1, <3>1, Appended
    <3> QED
      BY <2>2, <3>1, <3>2, SameEntries
  <2>4. Len(g) = IF Len(all) < size THEN Len(all) ELSE size
    BY <1>1, <1>3, <1>5, <2>3
  <2>5. \A u : Has(all, u) => Has(g, u)
    BY <1>2, <1>3, <1>5, <2>3
  <2>6. Chosen(T, o, g, size, all)
    BY <1>1, <1>3, <2>2, <2>3, <2>4, <2>5 DEF Chosen
  <2> QED
    BY <2>1, <2>6 DEF all
<1>6. CASE Len(h) = size /\ ~ Before(o, top, e)
  <2>1. Offered(o, h, size, e) = h
    BY <1>1, <1>6 DEF Offered, heap_top_entry
  <2>2. \A k \in 1 .. Len(h) : ~ Before(o, h[k], e)
    <3> SUFFICES ASSUME NEW k \in 1 .. Len(h) PROVE ~ Before(o, h[k], e)
      OBVIOUS
    <3>1. ~ Before(o, h[k], top)
      BY <1>1, Topmost
    <3>2. 1 \in 1 .. Len(h) /\ h[k] \in E /\ top \in E
      BY <1>1, ElementOfSeq
    <3> QED
      BY <1>6, <3>1, <3>2, Ordered
  <2>3. Len(h) = IF Len(all) < size THEN Len(all) ELSE size
    BY <1>1, <1>3, <1>6
  <2>4. \A u : Has(all, u) /\ ~ Has(h, u) => Len(h) = size /\ \A k \in 1 .. Len(h) : ~ Before(o, h[k], u)
    BY <1>2, <1>3, <1>6, <2>2
  <2>5. Chosen(T, o, h, size, all)
    BY <1>1, <1>3, <2>3, <2>4 DEF Chosen
  <2> QED
    BY <2>1, <2>5 DEF all
<1>7. CASE Len(h) = size /\ Before(o, top, e)
  <2> DEFINE left == heap_pop_entry(o, h)
             g == heap_push_entry(o, left, e)
  <2>1. h # <<>> /\ 1 \in 1 .. Len(h) /\ top \in E
    BY <1>1, <1>7, ElementOfSeq
  <2>2. left \in Seq(E) /\ heap_is_valid(o, left) /\ Permuted(Append(left, top), h)
    BY <1>1, <2>1, Pop
  <2> HIDE DEF left
  <2>3. /\ Len(left) + 1 = Len(h) /\ Distinct(left) /\ ~ Has(left, top)
        /\ \A u : Has(h, u) <=> Has(left, u) \/ u = top
    <3> HIDE DEF E
    <3>1. h \in Seq(E) /\ left \in Seq(E)
      BY <1>1, <2>2
    <3>2. /\ Append(left, top) \in Seq(E) /\ Len(Append(left, top)) = Len(left) + 1
          /\ \A u : Has(Append(left, top), u) <=> Has(left, u) \/ u = top
          /\ Distinct(Append(left, top)) <=> Distinct(left) /\ ~ Has(left, top)
      <4> HIDE DEF top
      <4> QED
        BY <2>1, <3>1, Appended
    <3>3. /\ Len(Append(left, top)) = Len(h) /\ Distinct(Append(left, top))
          /\ \A u : Has(Append(left, top), u) <=> Has(h, u)
      <4> DEFINE lt == Append(left, top)
      <4>1. lt \in Seq(E) /\ h \in Seq(E) /\ Permuted(lt, h) /\ Distinct(h)
        BY <1>1, <2>2, <3>1, <3>2
      <4> HIDE DEF lt
      <4>2. Len(lt) = Len(h) /\ Distinct(lt) /\ \A u : Has(lt, u) <=> Has(h, u)
        BY <4>1, SameEntries
      <4> QED
        BY <4>2 DEF lt
    <3> QED
      BY <3>2, <3>3
  <2>4. Offered(o, h, size, e) = g
    <3>1. Len(left) < size
      <4>1. Len(left) \in Nat
        BY <2>2
      <4> QED
        BY <1>7, <2>3, <4>1
    <3> QED
      BY <1>7, <3>1 DEF Offered, heap_top_entry, left
  <2>5. g \in Seq(E) /\ heap_is_valid(o, g) /\ Permuted(g, Append(left, e))
    BY <2>2, Push
  <2> HIDE DEF g
  <2>6. /\ Len(g) = Len(h) /\ Distinct(g)
        /\ \A u : Has(g, u) <=> Has(left, u) \/ u = e
    <3> HIDE DEF E
    <3>1. left \in Seq(E) /\ e \in E /\ g \in Seq(E) /\ ~ Has(left, e)
      BY <1>1, <2>2, <2>3, <2>5 DEF E
    <3>2. /\ Append(left, e) \in Seq(E) /\ Len(Append(left, e)) = Len(left) + 1
          /\ Distinct(Append(left, e)) /\ \A u : Has(Append(left, e), u) <=> Has(left, u) \/ u = e
      BY <2>3, <3>1, Appended
    <3> QED
      BY <2>3, <2>5, <3>1, <3>2, SameEntries
  <2>7. Len(g) = IF Len(all) < size THEN Len(all) ELSE size
    BY <1>1, <1>3, <1>7, <2>6
  <2>8. ASSUME NEW u, Has(all, u), ~ Has(g, u)
        PROVE  \A k \in 1 .. Len(g) : ~ Before(o, g[k], u)
    <3> SUFFICES ASSUME NEW k \in 1 .. Len(g) PROVE ~ Before(o, g[k], u)
      OBVIOUS
    <3>1. u # e /\ Has(met, u) /\ u \in E
      BY <1>3, <1>4, <2>6, <2>8
    <3>2. ~ Before(o, top, u)
      <4>1. CASE u = top
        BY <2>1, <4>1, Ordered
      <4>2. CASE u # top
        <5>1. ~ Has(h, u)
          BY <2>3, <2>6, <2>8, <4>2
        <5> QED
          BY <1>2, <2>1, <3>1, <5>1
      <4> QED
        BY <4>1, <4>2
    <3>3. Has(g, g[k]) /\ g[k] \in E
      BY <2>5, ElementOfSeq DEF Has
    <3>4. CASE g[k] = e
      <4>1. ~ Before(o, e, top)
        BY <1>7, <2>1, Ordered
      <4> QED
        BY <2>1, <3>1, <3>2, <3>4, <4>1, Ordered
    <3>5. CASE g[k] # e
      <4>1. Has(h, g[k])
        BY <2>3, <2>6, <3>3, <3>5
      <4>2. PICK i \in 1 .. Len(h) : h[i] = g[k]
        BY <4>1 DEF Has
      <4>3. ~ Before(o, g[k], top)
        BY <1>1, <4>2, Topmost
      <4> QED
        BY <2>1, <3>1, <3>2, <3>3, <4>3, Ordered
    <3> QED
      BY <3>4, <3>5
  <2>9. \A u : Has(g, u) => Has(all, u)
    BY <1>1, <1>3, <2>3, <2>6
  <2>10. Chosen(T, o, g, size, all)
    BY <1>7, <2>5, <2>6, <2>7, <2>8, <2>9 DEF Chosen
  <2> QED
    BY <2>4, <2>10 DEF all
<1> QED
  BY <1>1, <1>5, <1>6, <1>7
----------------------------------------------------------------------------
\* p lists the entries of h, each once, from the top to the last: none comes
\* before one further ahead.
Listed(o, p, h) ==
  /\ Distinct(p) /\ Len(p) = Len(h) /\ \A u : Has(p, u) <=> Has(h, u)
  /\ \A k, l \in 1 .. Len(p) : k < l => ~ Before(o, p[l], p[k])

\* What the loop of heap_to_set may be in the middle of: p was taken from h, q
\* is still there, and nothing in q comes before what was taken.
Halfway(T, o, h, q, p) ==
  /\ q \in Seq(Entry(T)) /\ heap_is_valid(o, q) /\ Distinct(q)
  /\ p \in Seq(Entry(T)) /\ Distinct(p) /\ Len(p) + Len(q) = Len(h)
  /\ \A u : Has(h, u) <=> Has(p, u) \/ Has(q, u)
  /\ \A u : ~ (Has(p, u) /\ Has(q, u))
  /\ \A k, l \in 1 .. Len(p) : k < l => ~ Before(o, p[l], p[k])
  /\ \A k \in 1 .. Len(p), l \in 1 .. Len(q) : ~ Before(o, q[l], p[k])

LEMMA TakeOne ==
  ASSUME NEW T, NEW o \in {-1, 1}, NEW h, NEW q, NEW p, Halfway(T, o, h, q, p), q # <<>>
  PROVE  Halfway(T, o, h, heap_pop_entry(o, q), Append(p, q[1]))
<1> DEFINE E == Entry(T)
           top == q[1]
           left == heap_pop_entry(o, q)
           r == Append(p, top)
<1>1. /\ q \in Seq(E) /\ heap_is_valid(o, q) /\ Distinct(q)
      /\ p \in Seq(E) /\ Distinct(p) /\ Len(p) + Len(q) = Len(h)
      /\ \A u : Has(h, u) <=> Has(p, u) \/ Has(q, u)
      /\ \A u : ~ (Has(p, u) /\ Has(q, u))
  BY DEF Halfway
<1>2. /\ \A k, l \in 1 .. Len(p) : k < l => ~ Before(o, p[l], p[k])
      /\ \A k \in 1 .. Len(p), l \in 1 .. Len(q) : ~ Before(o, q[l], p[k])
  BY DEF Halfway
<1>3. 1 \in 1 .. Len(q) /\ top \in E /\ Has(q, top) /\ Len(q) \in Nat /\ Len(p) \in Nat
  BY <1>1, ElementOfSeq DEF Has
<1>4. left \in Seq(E) /\ heap_is_valid(o, left) /\ Permuted(Append(left, top), q)
  BY <1>1, Pop
<1> HIDE DEF left, top
<1>5. /\ Len(left) + 1 = Len(q) /\ Distinct(left) /\ ~ Has(left, top)
      /\ \A u : Has(q, u) <=> Has(left, u) \/ u = top
  <2> HIDE DEF E
  <2> DEFINE lt == Append(left, top)
  <2>1. /\ lt \in Seq(E) /\ Len(lt) = Len(left) + 1
        /\ \A u : Has(lt, u) <=> Has(left, u) \/ u = top
        /\ Distinct(lt) <=> Distinct(left) /\ ~ Has(left, top)
    BY <1>3, <1>4, Appended
  <2>2. Permuted(lt, q)
    BY <1>4
  <2> HIDE DEF lt
  <2>3. Len(lt) = Len(q) /\ Distinct(lt) /\ \A u : Has(lt, u) <=> Has(q, u)
    BY <1>1, <2>1, <2>2, SameEntries
  <2> QED
    BY <2>1, <2>3
<1>6. /\ r \in Seq(E) /\ Len(r) = Len(p) + 1 /\ Distinct(r)
      /\ \A k \in 1 .. Len(p) : r[k] = p[k]
      /\ r[Len(p) + 1] = top
      /\ \A u : Has(r, u) <=> Has(p, u) \/ u = top
  <2>1. ~ Has(p, top)
    BY <1>1, <1>3
  <2> HIDE DEF E
  <2> QED
    BY <1>1, <1>3, <2>1, Appended
<1> HIDE DEF r
<1>7. Len(r) + Len(left) = Len(h)
  <2>1. Len(left) \in Nat
    BY <1>4
  <2> QED
    <3>1. /\ Len(left) + 1 = Len(q) /\ Len(r) = Len(p) + 1 /\ Len(p) + Len(q) = Len(h)
          /\ Len(p) \in Nat /\ Len(left) \in Nat
      BY <1>1, <1>3, <1>5, <1>6, <2>1
    <3> QED
      BY ONLY <3>1
<1>8. \A k \in 1 .. Len(r) : k \in 1 .. Len(p) \/ (k = Len(p) + 1 /\ r[k] = top)
  BY <1>3, <1>6
<1>9. ASSUME NEW k \in 1 .. Len(r), NEW l \in 1 .. Len(r), k < l PROVE ~ Before(o, r[l], r[k])
  <2>1. k \in 1 .. Len(p)
    BY <1>3, <1>6, <1>9
  <2>2. CASE l \in 1 .. Len(p)
    BY <1>2, <1>6, <1>9, <2>1, <2>2
  <2>3. CASE r[l] = top
    BY <1>2, <1>3, <1>6, <2>1, <2>3 DEF top
  <2> QED
    BY <1>8, <2>2, <2>3
<1>10. ASSUME NEW k \in 1 .. Len(r), NEW l \in 1 .. Len(left) PROVE ~ Before(o, left[l], r[k])
  <2>1. PICK i \in 1 .. Len(q) : q[i] = left[l]
    <3>1. Has(left, left[l])
      BY DEF Has
    <3>2. Has(q, left[l])
      BY <1>5, <3>1
    <3> QED
      BY <3>2 DEF Has
  <2>2. CASE k \in 1 .. Len(p)
    BY <1>2, <1>6, <2>1, <2>2
  <2>3. CASE r[k] = top
    BY <1>1, <2>1, <2>3, Topmost DEF top
  <2> QED
    BY <1>8, <2>2, <2>3
<1>11. \A u : Has(h, u) <=> Has(r, u) \/ Has(left, u)
  BY <1>1, <1>5, <1>6
<1>12. \A u : ~ (Has(r, u) /\ Has(left, u))
  BY <1>1, <1>5, <1>6
<1>13. Halfway(T, o, h, left, r)
  BY <1>4, <1>5, <1>6, <1>7, <1>9, <1>10, <1>11, <1>12 DEF Halfway
<1> QED
  BY <1>13 DEF left, r, top

\* The list that is made: the tuples of p.
TuplesOf(p) == [k \in 1 .. Len(p) |-> p[k].tuple]
Taken(T, o, h, s, n) ==
  \E p : Halfway(T, o, h, s.heap, p) /\ s.list = TuplesOf(p) /\ Len(p) = n

LEMMA EmptyRound ==
  ASSUME NEW T, NEW o \in {-1, 1}, NEW h, NEW n \in Nat,
         NEW s \in [heap : Seq(Entry(T)), list : Seq(T)], Taken(T, o, h, s, n), s.heap # <<>>
  PROVE  /\ Emptied(o, s) \in [heap : Seq(Entry(T)), list : Seq(T)]
         /\ Taken(T, o, h, Emptied(o, s), n + 1)
<1> DEFINE E == Entry(T)
           q == s.heap
           left == heap_pop_entry(o, q)
           r == Append(s.list, q[1].tuple)
<1>1. PICK p : Halfway(T, o, h, q, p) /\ s.list = TuplesOf(p) /\ Len(p) = n
  BY DEF Taken
<1>2. p \in Seq(E) /\ q \in Seq(E) /\ heap_is_valid(o, q)
  BY <1>1 DEF Halfway
<1>3. q[1] \in E /\ q[1].tuple \in T
  <2>1. 1 \in 1 .. Len(q)
    BY <1>2
  <2>2. q[1] \in E
    BY <1>2, <2>1, ElementOfSeq
  <2> QED
    BY <2>2 DEF Entry
<1>4. Emptied(o, s) = [heap |-> left, list |-> r]
  BY DEF Emptied, heap_top_entry
<1>5. left \in Seq(E)
  BY <1>2, Pop
<1>6. Halfway(T, o, h, left, Append(p, q[1]))
  BY <1>1, TakeOne
<1>7. Append(p, q[1]) \in Seq(E) /\ Len(Append(p, q[1])) = n + 1
      /\ (\A k \in 1 .. n : Append(p, q[1])[k] = p[k]) /\ Append(p, q[1])[n + 1] = q[1]
  BY <1>1, <1>2, <1>3
<1>8. r = TuplesOf(Append(p, q[1]))
  <2>1. s.list = [k \in 1 .. n |-> p[k].tuple] /\ s.list \in Seq(T) /\ Len(s.list) = n
    BY <1>1 DEF TuplesOf
  <2>2. /\ r \in Seq(T) /\ Len(r) = n + 1 /\ r[n + 1] = q[1].tuple
        /\ \A k \in 1 .. n : r[k] = s.list[k]
    BY <1>3, <2>1
  <2>3. TuplesOf(Append(p, q[1])) = [k \in 1 .. n + 1 |-> Append(p, q[1])[k].tuple]
    BY <1>7 DEF TuplesOf
  <2>4. r = [k \in 1 .. n + 1 |-> r[k]]
    BY <2>2
  <2>5. ASSUME NEW k \in 1 .. n + 1 PROVE r[k] = Append(p, q[1])[k].tuple
    <3>1. CASE k = n + 1
      BY <1>7, <2>2, <3>1
    <3>2. CASE k # n + 1
      <4>1. k \in 1 .. n
        BY <3>2
      <4>2. r[k] = p[k].tuple /\ Append(p, q[1])[k] = p[k]
        BY <1>7, <2>1, <2>2, <4>1
      <4> QED
        BY <4>2
    <3> QED
      BY <3>1, <3>2
  <2> HIDE DEF r
  <2> QED
    BY <2>3, <2>4, <2>5
<1>9. r \in Seq(T)
  BY <1>3
<1>10. Emptied(o, s).heap = left /\ Emptied(o, s).list = r
  BY <1>4
<1> HIDE DEF left, r
<1>11. Taken(T, o, h, Emptied(o, s), n + 1)
  BY <1>6, <1>7, <1>8, <1>10 DEF Taken
<1> QED
  BY <1>4, <1>5, <1>9, <1>11

\* heap_to_set gives the tuples of all entries, each once, the worst first.
THEOREM Delivered ==
  ASSUME NEW T, NEW o \in {-1, 1}, NEW h \in Seq(Entry(T)), heap_is_valid(o, h), Distinct(h)
  PROVE  \E p \in Seq(Entry(T)) : Listed(o, p, h) /\ heap_to_set(o, h) = TuplesOf(p)
<1> DEFINE E == Entry(T)
           R == [heap : Seq(E), list : Seq(T)]
           S == {s \in R : \E n \in Nat : Taken(T, o, h, s, n)}
           a == [heap |-> h, list |-> <<>>]
           g == [s \in S |-> Emptied(o, s)]
<1>1. a \in R /\ Taken(T, o, h, a, 0)
  <2>1. <<>> \in Seq(E) /\ <<>> \in Seq(T) /\ Len(<<>>) = 0
    OBVIOUS
  <2>2. Halfway(T, o, h, h, <<>>)
    BY <2>1 DEF Halfway, Has, Distinct
  <2>3. <<>> = TuplesOf(<<>>)
    BY DEF TuplesOf
  <2>4. a.heap = h /\ a.list = <<>> /\ a \in R
    BY <2>1
  <2> HIDE DEF a
  <2> QED
    BY <2>1, <2>2, <2>3, <2>4 DEF Taken
<1>2. ASSUME NEW s \in R, NEW n \in Nat, Taken(T, o, h, s, n), s.heap # <<>>
      PROVE  Emptied(o, s) \in R /\ Taken(T, o, h, Emptied(o, s), n + 1)
  BY <1>2, EmptyRound
<1>3. ASSUME NEW s, s.heap = <<>> PROVE Emptied(o, s) = s
  BY <1>3 DEF Emptied
<1>4. g \in [S -> S]
  <2> SUFFICES ASSUME NEW s \in S PROVE Emptied(o, s) \in S
    OBVIOUS
  <2>1. PICK n \in Nat : s \in R /\ Taken(T, o, h, s, n)
    OBVIOUS
  <2>2. CASE s.heap = <<>>
    BY <1>3, <2>2
  <2>3. CASE s.heap # <<>>
    <3>1. Emptied(o, s) \in R /\ Taken(T, o, h, Emptied(o, s), n + 1) /\ n + 1 \in Nat
      <4> HIDE DEF R
      <4> QED
        BY <1>2, <2>1, <2>3
    <3> QED
      BY <3>1
  <2> QED
    BY <2>2, <2>3
<1>5. a \in S
  BY <1>1
<1> HIDE DEF S, a, R
<1>6. PICK f : Repeats(f, S, a, g)
  <2> HIDE DEF g
  <2> QED
    BY <1>4, <1>5, Repeated
<1>7. f \in [Nat -> S] /\ f[0] = a /\ \A k \in Nat : f[k + 1] = Emptied(o, f[k])
  BY <1>6 DEF Repeats
<1>8. \E u : u = [n \in Nat |-> IF n = 0 THEN a ELSE Emptied(o, u[n - 1])]
  <2>1. \A n \in Nat : f[n] = IF n = 0 THEN a ELSE Emptied(o, f[n - 1])
    <3> SUFFICES ASSUME NEW n \in Nat, n # 0 PROVE f[n] = Emptied(o, f[n - 1])
      BY <1>7
    <3>1. n - 1 \in Nat /\ (n - 1) + 1 = n
      OBVIOUS
    <3> QED
      BY <1>7, <3>1
  <2>2. f = [n \in Nat |-> f[n]]
    BY <1>7
  <2> QED
    BY <2>1, <2>2
<1> DEFINE rounds[n \in Nat] == IF n = 0 THEN a ELSE Emptied(o, rounds[n - 1])
<1>9. rounds = [n \in Nat |-> IF n = 0 THEN a ELSE Emptied(o, rounds[n - 1])]
  BY <1>8
<1>10. heap_to_set(o, h) = rounds[Len(h)].list
  BY DEF heap_to_set, a
<1> HIDE DEF rounds
<1>11. rounds[0] = a /\ \A k \in Nat : rounds[k + 1] = Emptied(o, rounds[k])
  <2>1. rounds[0] = a
    BY <1>9
  <2>2. ASSUME NEW k \in Nat PROVE rounds[k + 1] = Emptied(o, rounds[k])
    <3>1. k + 1 \in Nat /\ k + 1 # 0 /\ (k + 1) - 1 = k
      OBVIOUS
    <3> QED
      BY <1>9, <3>1
  <2> QED
    BY <2>1, <2>2
<1> DEFINE N == {k \in Nat : k <= Len(h) => rounds[k] \in R /\ Taken(T, o, h, rounds[k], k)}
<1>12. 0 \in N
  BY <1>1, <1>11
<1>13. ASSUME NEW k \in N, k + 1 <= Len(h) PROVE rounds[k + 1] \in R /\ Taken(T, o, h, rounds[k + 1], k + 1)
  <2>1. k \in Nat /\ rounds[k] \in R /\ Taken(T, o, h, rounds[k], k)
    BY <1>13
  <2>2. rounds[k].heap # <<>>
    <3>1. PICK p : Halfway(T, o, h, rounds[k].heap, p) /\ Len(p) = k
      BY <2>1 DEF Taken
    <3>2. k + Len(rounds[k].heap) = Len(h) /\ Len(h) \in Nat
      BY <3>1 DEF Halfway
    <3>3. Len(rounds[k].heap) # 0
      BY <1>13, <2>1, <3>2
    <3> QED
      BY <3>3
  <2> QED
    BY <1>2, <1>11, <2>1, <2>2
<1>14. N = Nat
  <2>1. N \in SUBSET Nat /\ \A k \in N : k + 1 \in N
    BY <1>13
  <2> HIDE DEF N
  <2> QED
    BY <1>12, <2>1, Induction
<1>15. Taken(T, o, h, rounds[Len(h)], Len(h))
  <2>1. Len(h) \in Nat
    OBVIOUS
  <2> QED
    BY <1>14, <2>1
<1>16. PICK p : /\ Halfway(T, o, h, rounds[Len(h)].heap, p) /\ Len(p) = Len(h)
                /\ rounds[Len(h)].list = TuplesOf(p)
  BY <1>15 DEF Taken
<1>17. PICK q : q = rounds[Len(h)].heap
  OBVIOUS
<1>18. Halfway(T, o, h, q, p)
  BY <1>16, <1>17
<1>19. p \in Seq(Entry(T)) /\ Listed(o, p, h)
  <2>1. q \in Seq(E) /\ Len(p) + Len(q) = Len(h) /\ Len(h) \in Nat
    BY <1>18 DEF Halfway
  <2>2. Len(q) = 0
    BY <1>16, <2>1
  <2>3. \A u : ~ Has(q, u)
    BY <2>2 DEF Has
  <2> QED
    BY <1>16, <1>18, <2>3 DEF Halfway, Listed
<1> QED
  BY <1>10, <1>16, <1>19

\* argmin and argmax as a whole: after a loop that offered the entries of met,
\* all different, one by one to an empty heap, the set that is made lists as
\* many of them as were asked for, or all if there are fewer, each once, the
\* worst first, and no entry left out is better than one of them.
THEOREM ArgSelection ==
  ASSUME NEW T, NEW o \in {-1, 1}, NEW size \in Nat \ {0},
         NEW met \in Seq(Entry(T)), Distinct(met),
         NEW heaps, heaps[0] = <<>>,
         \A k \in 1 .. Len(met) : heaps[k] = Offered(o, heaps[k - 1], size, met[k])
  PROVE  \E p \in Seq(Entry(T)) :
            /\ heap_to_set(o, heaps[Len(met)]) = TuplesOf(p)
            /\ Distinct(p) /\ \A u : Has(p, u) => Has(met, u)
            /\ Len(p) = IF Len(met) < size THEN Len(met) ELSE size
            /\ \A k, l \in 1 .. Len(p) : k < l => ~ Before(o, p[l], p[k])
            /\ \A u : Has(met, u) /\ ~ Has(p, u) => \A k \in 1 .. Len(p) : ~ Before(o, p[k], u)
<1> DEFINE E == Entry(T)
           n == Len(met)
           first(k) == SubSeq(met, 1, k)
           N == {k \in Nat : k <= n => Chosen(T, o, heaps[k], size, first(k))}
<1>1. n \in Nat /\ \A k \in 1 .. n : met[k] \in E
  BY ElementOfSeq
<1>2. \A k \in 0 .. n : /\ first(k) \in Seq(E) /\ Len(first(k)) = k
                        /\ \A i \in 1 .. k : first(k)[i] = met[i]
  OBVIOUS
<1>3. 0 \in N
  <2>1. <<>> \in Seq(E) /\ Len(<<>>) = 0
    OBVIOUS
  <2>2. first(0) = <<>>
    OBVIOUS
  <2>3. Chosen(T, o, <<>>, size, <<>>)
    BY <2>1 DEF Chosen, Has, Distinct, heap_is_valid
  <2> QED
    BY <2>2, <2>3
<1>4. ASSUME NEW k \in N PROVE k + 1 \in N
  <2> SUFFICES ASSUME k + 1 <= n PROVE Chosen(T, o, heaps[k + 1], size, first(k + 1))
    OBVIOUS
  <2>1. /\ k \in 0 .. n /\ k + 1 \in 0 .. n /\ k + 1 \in 1 .. n /\ (k + 1) - 1 = k
        /\ Chosen(T, o, heaps[k], size, first(k))
    BY <1>1
  <2>2. heaps[k + 1] = Offered(o, heaps[k], size, met[k + 1])
    BY <2>1
  <2>3. first(k + 1) = Append(first(k), met[k + 1])
    <3>1. /\ first(k + 1) \in Seq(E) /\ Len(first(k + 1)) = k + 1
          /\ \A i \in 1 .. k + 1 : first(k + 1)[i] = met[i]
      BY <1>2, <2>1
    <3>2. /\ first(k) \in Seq(E) /\ Len(first(k)) = k /\ \A i \in 1 .. k : first(k)[i] = met[i]
      BY <1>2, <2>1
    <3> DEFINE g == first(k)
               w == first(k + 1)
               v == Append(g, met[k + 1])
    <3> HIDE DEF g, w
    <3>3. /\ v \in Seq(E) /\ Len(v) = k + 1
          /\ \A i \in 1 .. k : v[i] = met[i]
          /\ v[k + 1] = met[k + 1]
      BY <1>1, <2>1, <3>2 DEF g
    <3> HIDE DEF v, E
    <3>4. \A i \in 1 .. k + 1 : w[i] = v[i]
      BY <2>1, <3>1, <3>3 DEF w
    <3>5. w = v
      BY <3>1, <3>3, <3>4, SeqEqual DEF w
    <3> QED
      BY <3>5 DEF w, v, g
  <2>4. ~ Has(first(k), met[k + 1])
    <3> SUFFICES ASSUME NEW i \in 1 .. k, first(k)[i] = met[k + 1] PROVE FALSE
      BY <1>2, <2>1 DEF Has
    <3>1. met[i] = met[k + 1] /\ i \in 1 .. n /\ i # k + 1
      BY <1>1, <1>2, <2>1
    <3> QED
      BY <2>1, <3>1 DEF Distinct
  <2>5. first(k) \in Seq(E) /\ met[k + 1] \in E
    BY <1>1, <1>2, <2>1
  <2> HIDE DEF first
  <2> QED
    BY <2>1, <2>2, <2>3, <2>4, <2>5, OfferKeepsBest
<1>5. Chosen(T, o, heaps[n], size, met)
  <2>1. N \in SUBSET Nat
    OBVIOUS
  <2>2. N = Nat
    <3> HIDE DEF N
    <3> QED
      BY <1>3, <1>4, <2>1, Induction
  <2>3. n <= n /\ n \in N
    BY <1>1, <2>2
  <2>4. first(n) = met
    BY SubSeqFull
  <2> QED
    BY <2>3, <2>4
<1> DEFINE h == heaps[n]
<1> HIDE DEF h
<1>6. /\ h \in Seq(E) /\ heap_is_valid(o, h) /\ Distinct(h)
      /\ Len(h) = IF n < size THEN n ELSE size
      /\ \A u : Has(h, u) => Has(met, u)
      /\ \A u : Has(met, u) /\ ~ Has(h, u) => \A k \in 1 .. Len(h) : ~ Before(o, h[k], u)
  BY <1>5 DEF Chosen, h
<1>7. PICK p \in Seq(Entry(T)) : Listed(o, p, h) /\ heap_to_set(o, h) = TuplesOf(p)
  BY <1>6, Delivered
<1>8. /\ Distinct(p) /\ Len(p) = Len(h) /\ \A u : Has(p, u) <=> Has(h, u)
      /\ \A k, l \in 1 .. Len(p) : k < l => ~ Before(o, p[l], p[k])
  BY <1>7 DEF Listed
<1>9. ASSUME NEW u, Has(met, u), ~ Has(p, u), NEW k \in 1 .. Len(p) PROVE ~ Before(o, p[k], u)
  <2>1. Has(h, p[k]) /\ ~ Has(h, u)
    <3>1. Has(p, p[k])
      BY DEF Has
    <3> QED
      BY <1>8, <1>9, <3>1
  <2>2. PICK i \in 1 .. Len(h) : h[i] = p[k]
    BY <2>1 DEF Has
  <2> QED
    BY <1>6, <1>9, <2>1, <2>2
<1>10. /\ heap_to_set(o, heaps[n]) = TuplesOf(p)
       /\ \A u : Has(p, u) => Has(met, u)
       /\ Len(p) = IF n < size THEN n ELSE size
  BY <1>6, <1>7, <1>8 DEF h
<1> QED
  BY <1>8, <1>9, <1>10
----------------------------------------------------------------------------
\* Division of natural numbers.
LEMMA Quotient ==
  ASSUME NEW a \in Nat, NEW b \in Nat \ {0}
  PROVE  /\ a \div b \in Nat
         /\ b * (a \div b) <= a /\ a < b * (a \div b) + b
  OBVIOUS
\* The quotient is the only number with the property.
LEMMA OnlyQuotient ==
  ASSUME NEW a \in Nat, NEW b \in Nat \ {0}, NEW m \in Nat, b * m <= a, a < b * m + b
  PROVE  a \div b = m
<1> DEFINE q == a \div b
<1>1. q \in Nat /\ b * q <= a /\ a < b * q + b
  BY Quotient
<1> HIDE DEF q
<1>2. CASE q < m
  <2>1. b * (q + 1) <= b * m
    <3>1. PICK d \in Nat : m = q + 1 + d
      <4>1. m - (q + 1) \in Nat /\ m = q + 1 + (m - (q + 1))
        BY <1>1, <1>2
      <4> QED
        BY <4>1
    <3>2. b * m = b * (q + 1) + b * d /\ b * d \in Nat
      BY <1>1, <3>1
    <3> QED
      BY <1>1, <3>2
  <2>2. b * (q + 1) = b * q + b
    BY <1>1
  <2> QED
    BY <1>1, <2>1, <2>2
<1>3. CASE m < q
  <2>1. b * (m + 1) <= b * q
    <3>1. PICK d \in Nat : q = m + 1 + d
      <4>1. q - (m + 1) \in Nat /\ q = m + 1 + (q - (m + 1))
        BY <1>1, <1>3
      <4> QED
        BY <4>1
    <3>2. b * q = b * (m + 1) + b * d /\ b * d \in Nat
      BY <1>1, <3>1
    <3> QED
      BY <1>1, <3>2
  <2>2. b * (m + 1) = b * m + b
    OBVIOUS
  <2> QED
    BY <1>1, <2>1, <2>2
<1>4. q = m
  BY <1>1, <1>2, <1>3
<1> QED
  BY <1>4 DEF q

\* The step leads from the first member towards the last.
Towards(begin, end, step) == (step > 0 /\ begin <= end) \/ (step < 0 /\ begin >= end)
Between(begin, end, val) == (begin <= val /\ val <= end) \/ (end <= val /\ val <= begin)

\* With a step in the right direction only distances count.
LEMMA Distances ==
  ASSUME NEW begin \in Int, NEW end \in Int, NEW step \in Int, Towards(begin, end, step)
  PROVE  /\ RangeMembers(begin, end, step) = 1 + AbsVal(end - begin) \div AbsVal(step)
         /\ \A val \in Int :
              LET far == AbsVal(val - begin)
                  num == far \div AbsVal(step)
              IN RangeLookup(begin, end, step, val) =
                   IF Between(begin, end, val) /\ far = AbsVal(step) * num THEN num ELSE -1
<1> DEFINE b == AbsVal(step)
           len == AbsVal(end - begin)
<1>1. b \in Nat \ {0} /\ len \in Nat /\ 0 \div b = 0
  <2>1. b \in Nat \ {0} /\ len \in Nat
    BY DEF AbsVal, Towards
  <2>2. b * 0 = 0 /\ 0 < b
    BY <2>1
  <2> HIDE DEF b
  <2> QED
    BY <2>1, <2>2, OnlyQuotient
<1>2. RangeMembers(begin, end, step) = 1 + len \div b
  <2>1. len \div b \in Nat
    BY <1>1, Quotient
  <2>2. CASE end = begin
    BY <1>1, <2>2 DEF RangeMembers, CDiv, Sgn, AbsVal
  <2>3. CASE end # begin
    <3>1. Sgn(end - begin) * Sgn(step) = 1
      BY <2>3 DEF Sgn, Towards
    <3>2. RangeMembers(begin, end, step) = 1 + Sgn(end - begin) * Sgn(step) * (len \div b)
      BY DEF RangeMembers, CDiv
    <3> HIDE DEF b, len
    <3> QED
      BY <2>1, <3>1, <3>2
  <2> QED
    BY <2>2, <2>3
<1>3. ASSUME NEW val \in Int
      PROVE  LET far == AbsVal(val - begin)
                 num == far \div b
             IN RangeLookup(begin, end, step, val) =
                  IF Between(begin, end, val) /\ far = b * num THEN num ELSE -1
  <2> DEFINE far == AbsVal(val - begin)
             num == far \div b
  <2>1. far \in Nat /\ num \in Nat
    <3>1. far \in Nat
      BY DEF AbsVal
    <3> HIDE DEF far, b
    <3> QED
      BY <1>1, <3>1, Quotient
  <2>2. far = AbsVal(begin - val)
    BY DEF AbsVal
  <2>3. CASE ~ Between(begin, end, val)
    BY <2>3 DEF Between, Towards, RangeLookup
  <2>4. CASE Between(begin, end, val) /\ val = begin
    <3>1. far = 0 /\ num = 0 /\ b * num = 0
      BY <1>1, <2>4 DEF AbsVal
    <3>2. CDiv(val - begin, step) = 0 /\ CDiv(begin - val, step) = 0
      BY <1>1, <2>1, <2>4 DEF CDiv, Sgn
    <3>3. CMod(val - begin, step) = 0 /\ CMod(begin - val, step) = 0
      BY <2>4, <3>2 DEF CMod
    <3>4. RangeLookup(begin, end, step, val) = 0
      BY <2>4, <3>2, <3>3 DEF RangeLookup, val_to_idx, Between, Towards
    <3> HIDE DEF far, num, b
    <3> QED
      BY <2>4, <3>1, <3>4 DEF far, num, b
  <2>5. CASE Between(begin, end, val) /\ val # begin /\ step > 0
    <3>1. val - begin > 0 /\ far = val - begin /\ b = step /\ begin <= val /\ val <= end
      BY <2>5 DEF Between, Towards, AbsVal
    <3>2. CDiv(val - begin, step) = num
      <4>1. Sgn(val - begin) * Sgn(step) = 1
        BY <2>5, <3>1 DEF Sgn
      <4>2. CDiv(val - begin, step) = Sgn(val - begin) * Sgn(step) * num
        BY DEF CDiv
      <4> HIDE DEF num
      <4> QED
        BY <2>1, <4>1, <4>2
    <3>3. CMod(val - begin, step) = far - b * num
      BY <3>1, <3>2 DEF CMod
    <3>4. RangeLookup(begin, end, step, val) = IF far - b * num # 0 THEN -1 ELSE num
      BY <2>5, <3>1, <3>2, <3>3 DEF RangeLookup, val_to_idx
    <3>5. far - b * num # 0 <=> far # b * num
      <4> HIDE DEF far, b, num
      <4>1. b * num \in Int
        BY <1>1, <2>1
      <4> QED
        BY <2>1, <4>1
    <3> HIDE DEF far, b, num
    <3> QED
      BY <2>5, <3>4, <3>5 DEF far, b, num
  <2>6. CASE Between(begin, end, val) /\ val # begin /\ step < 0
    <3>1. /\ begin - val > 0 /\ far = begin - val /\ b = -step /\ val <= begin /\ end <= val
      BY <2>6 DEF Between, Towards, AbsVal
    <3>2. CDiv(val - begin, step) = num
      <4>1. Sgn(val - begin) * Sgn(step) = 1
        BY <2>6, <3>1 DEF Sgn
      <4>2. CDiv(val - begin, step) = Sgn(val - begin) * Sgn(step) * num
        BY DEF CDiv
      <4> HIDE DEF num
      <4> QED
        BY <2>1, <4>1, <4>2
    <3>3. CDiv(begin - val, step) = -num
      <4>1. Sgn(begin - val) * Sgn(step) = -1
        BY <2>6, <3>1 DEF Sgn
      <4>2. CDiv(begin - val, step) = Sgn(begin - val) * Sgn(step) * num
        BY <2>2 DEF CDiv
      <4> HIDE DEF num
      <4> QED
        BY <2>1, <4>1, <4>2
    <3>4. CMod(begin - val, step) = far - b * num
      <4>1. CMod(begin - val, step) = far - step * (-num)
        BY <3>1, <3>3 DEF CMod
      <4> HIDE DEF num, far
      <4>2. step * (-num) = (-step) * num
        BY <2>1
      <4> QED
        BY <3>1, <4>1, <4>2
    <3>5. RangeLookup(begin, end, step, val) = IF far - b * num # 0 THEN -1 ELSE num
      BY <2>6, <3>1, <3>2, <3>4 DEF RangeLookup, val_to_idx
    <3>6. far - b * num # 0 <=> far # b * num
      <4> HIDE DEF far, b, num
      <4>1. b * num \in Int
        BY <1>1, <2>1
      <4> QED
        BY <2>1, <4>1
    <3> HIDE DEF far, b, num
    <3> QED
      BY <2>6, <3>5, <3>6 DEF far, b, num
  <2> QED
    BY <2>3, <2>4, <2>5, <2>6 DEF Towards
<1> QED
  BY <1>2, <1>3

\* The ranges the two statements make have such a step: {from .. upto by step}
\* takes the direction itself, {from to upto by step} is the empty set when the
\* step leads away.
LEMMA Directed ==
  ASSUME NEW from \in Int, NEW upto \in Int, NEW step \in Int
  PROVE  /\ DirectedStep(from, upto, step) \in Int
         /\ DirectedStep(from, upto, step) # 0 => Towards(from, upto, DirectedStep(from, upto, step))
         /\ step # 0 /\ ~ Sgn(step) * (upto - from) < 0 => Towards(from, upto, step)
  BY DEF DirectedStep, Towards, Sgn, AbsVal

\* Numbering and lookup of a range {begin .. end by step} are inverse to each
\* other, for both directions and a step that need not hit the end: number i is
\* found for the member with number i, the numbers are 0 .. members - 1, and
\* lookup finds exactly the values of the progression between begin and end.
THEOREM RangeNumbered ==
  ASSUME NEW begin \in Int, NEW end \in Int, NEW step \in Int, Towards(begin, end, step)
  PROVE  /\ RangeMembers(begin, end, step) \in Nat \ {0}
         /\ \A i \in 0 .. RangeMembers(begin, end, step) - 1 :
              /\ Between(begin, end, idx_to_val(begin, step, i))
              /\ RangeLookup(begin, end, step, idx_to_val(begin, step, i)) = i
         /\ \A val \in Int :
              \/ RangeLookup(begin, end, step, val) = -1
              \/ /\ RangeLookup(begin, end, step, val) \in 0 .. RangeMembers(begin, end, step) - 1
                 /\ idx_to_val(begin, step, RangeLookup(begin, end, step, val)) = val
         /\ \A val \in Int :
              RangeLookup(begin, end, step, val) # -1
                <=> Between(begin, end, val) /\ \E k \in Nat : val = begin + k * step
<1> DEFINE b == AbsVal(step)
           len == AbsVal(end - begin)
           far(val) == AbsVal(val - begin)
           n == RangeMembers(begin, end, step)
           found(val) == RangeLookup(begin, end, step, val)
<1>1. b \in Nat \ {0} /\ len \in Nat /\ \A val \in Int : far(val) \in Nat
  BY DEF AbsVal, Towards
<1>2. /\ n = 1 + len \div b
      /\ \A val \in Int : found(val) = IF Between(begin, end, val) /\ far(val) = b * (far(val) \div b)
                                       THEN far(val) \div b ELSE -1
  BY Distances
\* a value and its distance
<1>3. ASSUME NEW val \in Int, Between(begin, end, val)
      PROVE  far(val) <= len /\ val = begin + (IF step > 0 THEN far(val) ELSE -far(val))
  BY <1>3 DEF Between, Towards, AbsVal
<1>4. ASSUME NEW k \in Nat
      PROVE  /\ k * step = IF step > 0 THEN b * k ELSE -(b * k)
             /\ b * k \in Nat
  <2>1. step = IF step > 0 THEN b ELSE -b
    BY DEF AbsVal, Towards
  <2> HIDE DEF b
  <2>2. k * (-b) = -(b * k) /\ k * b = b * k /\ b * k \in Nat
    BY <1>1
  <2> QED
    BY <2>1, <2>2
<1>5. ASSUME NEW k \in Nat
      PROVE  far(begin + k * step) = b * k /\ (b * k <= len => Between(begin, end, begin + k * step))
  <2> DEFINE d == b * k
             val == begin + k * step
  <2>1. d \in Nat /\ val = IF step > 0 THEN begin + d ELSE begin - d
    <3>1. d \in Nat /\ k * step = IF step > 0 THEN d ELSE -d
      BY <1>4
    <3> HIDE DEF d
    <3> QED
      BY <3>1
  <2> HIDE DEF d, val
  <2>2. far(val) = d
    BY <2>1 DEF AbsVal
  <2>3. ASSUME d <= len PROVE Between(begin, end, val)
    BY <2>1, <2>3 DEF Between, Towards, AbsVal
  <2> QED
    BY <2>2, <2>3 DEF d, val
<1> HIDE DEF far, b, len, n, found
<1>6. len \div b \in Nat /\ b * (len \div b) <= len /\ len < b * (len \div b) + b
  BY <1>1, Quotient
<1>7. n \in Nat \ {0}
  BY <1>2, <1>6
<1>8. ASSUME NEW k \in Nat PROVE (b * k) \div b = k
  <2>1. b * k \in Nat /\ b * k < b * k + b /\ b * k <= b * k
    BY <1>1, <1>4
  <2> QED
    BY <1>1, <2>1, OnlyQuotient
<1>9. ASSUME NEW k \in Nat, b * k <= len PROVE k <= len \div b
  <2> DEFINE q == len \div b
  <2> SUFFICES ASSUME q < k PROVE FALSE
    BY <1>6
  <2>1. PICK d \in Nat : k = q + 1 + d
    <3>1. k - (q + 1) \in Nat /\ k = q + 1 + (k - (q + 1))
      BY <1>6
    <3> QED
      BY <3>1
  <2>2. b * k = b * q + b + b * d /\ b * d \in Nat
    <3> HIDE DEF q
    <3>1. q \in Nat
      BY <1>6 DEF q
    <3> QED
      BY <1>1, <2>1, <3>1
  <2> QED
    BY <1>1, <1>6, <1>9, <2>2
<1>10. ASSUME NEW k \in Nat, k <= len \div b PROVE b * k <= len
  <2> DEFINE q == len \div b
  <2>1. PICK d \in Nat : q = k + d
    <3>1. q - k \in Nat /\ q = k + (q - k)
      BY <1>6, <1>10
    <3> QED
      BY <3>1
  <2>2. b * q = b * k + b * d /\ b * d \in Nat /\ b * k \in Nat
    <3> HIDE DEF q
    <3> QED
      BY <1>1, <2>1
  <2> QED
    BY <1>1, <1>6, <2>2
\* found numbers
<1>11. ASSUME NEW val \in Int, found(val) # -1
       PROVE  /\ Between(begin, end, val) /\ found(val) \in Nat /\ far(val) = b * found(val)
              /\ found(val) <= len \div b /\ val = begin + found(val) * step
  <2>1. Between(begin, end, val) /\ far(val) = b * found(val) /\ found(val) = far(val) \div b
    BY <1>2, <1>11
  <2>2. found(val) \in Nat
    BY <1>1, <2>1, Quotient
  <2>3. far(val) <= len /\ val = begin + (IF step > 0 THEN far(val) ELSE -far(val))
    BY <1>3, <2>1 DEF far, len
  <2>4. found(val) <= len \div b
    BY <1>9, <2>1, <2>2, <2>3
  <2>5. val = begin + found(val) * step
    BY <1>4, <2>1, <2>2, <2>3
  <2> QED
    BY <2>1, <2>2, <2>4, <2>5
<1>12. ASSUME NEW k \in Nat, Between(begin, end, begin + k * step) PROVE found(begin + k * step) = k
  <2>1. begin + k * step \in Int /\ far(begin + k * step) = b * k
    BY <1>5 DEF far, b
  <2> QED
    BY <1>2, <1>8, <1>12, <2>1
<1>13. ASSUME NEW i \in 0 .. n - 1
       PROVE  /\ Between(begin, end, idx_to_val(begin, step, i))
              /\ found(idx_to_val(begin, step, i)) = i
  <2>1. i \in Nat /\ i <= len \div b
    BY <1>2, <1>6
  <2>2. Between(begin, end, begin + i * step)
    BY <1>5, <1>10, <2>1 DEF b, len
  <2> QED
    BY <1>12, <2>1, <2>2 DEF idx_to_val
<1>14. ASSUME NEW val \in Int, found(val) # -1
       PROVE  found(val) \in 0 .. n - 1 /\ idx_to_val(begin, step, found(val)) = val
  BY <1>2, <1>6, <1>11, <1>14 DEF idx_to_val
<1>15. ASSUME NEW val \in Int
       PROVE  found(val) # -1 <=> Between(begin, end, val) /\ \E k \in Nat : val = begin + k * step
  <2>1. ASSUME found(val) # -1
        PROVE  Between(begin, end, val) /\ \E k \in Nat : val = begin + k * step
    BY <1>11, <2>1
  <2>2. ASSUME Between(begin, end, val), NEW k \in Nat, val = begin + k * step PROVE found(val) # -1
    <3>1. Between(begin, end, begin + k * step)
      BY <2>2
    <3>2. found(begin + k * step) = k
      BY <1>12, <3>1
    <3>3. found(val) = k /\ k # -1
      BY <2>2, <3>2
    <3> QED
      BY <3>3
  <2> QED
    BY <2>1, <2>2
<1> QED
  BY <1>7, <1>13, <1>14, <1>15 DEF n, found
=============================================================================
