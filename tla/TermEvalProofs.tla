--------------------------- MODULE TermEvalProofs ---------------------------
(***************************************************************************)
(* Proofs about terms and about what the statements hand over: every       *)
(* instruction leaves a term of the set Term, simplification leaves no two *)
(* monos in the same variables, and the store is built from such terms;    *)
(* what a term, a row and the costs are worth at a point is what was       *)
(* written (TermEval implements Meaning).                                  *)
(***************************************************************************)
EXTENDS TermEval, Iteration, SequenceTheorems

(***************************************************************************)
(* The order of the variables in a mono.                                   *)
(***************************************************************************)
Sorted(s) == \A i, k \in 1 .. Len(s) : i <= k => Addr[s[i]] <= Addr[s[k]]
Ordered   == {m \in Mono : InOrder(m)}

LEMMA AddrNat == \A v \in Var : Addr[v] \in Nat
BY MonosAssumption

LEMMA AddrDiffers == \A v, w \in Var : Addr[v] = Addr[w] => v = w
BY MonosAssumption DEF IsInjective

\* That neighbours are in order is that all are.
LEMMA OrderIsSorted ==
  ASSUME NEW m \in Mono
  PROVE  InOrder(m) <=> Sorted(m.vars)
<1> DEFINE s == m.vars
           n == Len(s)
<1>1. s \in Seq(Var) /\ n \in Nat /\ \A i \in 1 .. n : Addr[s[i]] \in Nat
  BY AddrNat DEF Mono
<1>2. ASSUME Sorted(s) PROVE InOrder(m)
  BY <1>1, <1>2 DEF Sorted, InOrder
<1>3. ASSUME InOrder(m) PROVE Sorted(s)
  <2> SUFFICES ASSUME NEW i \in 1 .. n, NEW k \in 1 .. n, i <= k
               PROVE  Addr[s[i]] <= Addr[s[k]]
    BY DEF Sorted
  <2> DEFINE S == {d \in Nat : i + d <= n => Addr[s[i]] <= Addr[s[i + d]]}
  <2>1. 0 \in S
    BY <1>1
  <2>2. ASSUME NEW d \in S PROVE d + 1 \in S
    <3>1. ASSUME i + (d + 1) <= n PROVE Addr[s[i]] <= Addr[s[i + (d + 1)]]
      <4>0. n \in Nat /\ i \in 1 .. n /\ d \in Nat /\ i + (d + 1) <= n
        BY <1>1, <3>1
      <4> HIDE DEF n
      <4>1. i + d \in 1 .. n - 1 /\ i + (d + 1) = (i + d) + 1 /\ i + d \in 1 .. n
            /\ (i + d) + 1 \in 1 .. n
        BY ONLY <4>0
      <4>2. Addr[s[i + d]] <= Addr[s[(i + d) + 1]]
        BY <1>3, <4>1 DEF InOrder, n
      <4>3. Addr[s[i]] <= Addr[s[i + d]]
        BY <4>1
      <4>4. Addr[s[i]] \in Nat /\ Addr[s[i + d]] \in Nat /\ Addr[s[(i + d) + 1]] \in Nat
        <5>1. \A j \in 1 .. n : Addr[s[j]] \in Nat
          BY <1>1
        <5> HIDE DEF s
        <5> QED BY ONLY <4>0, <4>1, <5>1
      <4> QED BY <4>1, <4>2, <4>3, <4>4
    <3> QED BY <3>1
  <2>3. S \in SUBSET Nat
    OBVIOUS
  <2>4. S = Nat
    <3> HIDE DEF S
    <3> QED BY <2>1, <2>2, <2>3, Induction
  <2>5. k - i \in Nat /\ i + (k - i) = k
    BY <1>1
  <2>6. k - i \in S
    BY <2>4, <2>5
  <2> QED BY <2>5, <2>6
<1> QED BY <1>2, <1>3

\* w is s with v put in at place p.
Inserted(w, s, v, p) ==
  /\ w \in Seq(Var) /\ Len(w) = Len(s) + 1 /\ p \in 1 .. Len(s) + 1 /\ w[p] = v
  /\ \A i \in 1 .. p - 1 : w[i] = s[i]
  /\ \A i \in p + 1 .. Len(s) + 1 : w[i] = s[i - 1]

\* The variable is put behind all that lie before it and in front of the rest.
LEMMA EntryPlace ==
  ASSUME NEW m \in Ordered, NEW v \in Var
  PROVE  /\ mono_mul_entry(m, v) =
              [coeff |-> m.coeff, fun |-> m.fun, vars |-> mono_mul_entry(m, v).vars]
         /\ \E p : /\ Inserted(mono_mul_entry(m, v).vars, m.vars, v, p)
                   /\ \A i \in 1 .. p - 1 : Addr[m.vars[i]] < Addr[v]
                   /\ \A i \in p .. Len(m.vars) : Addr[m.vars[i]] >= Addr[v]
<1> DEFINE s == m.vars
           n == Len(s)
           I == {i \in 1 .. n : Addr[s[i]] >= Addr[v]}
           place == SelectInSeq(s, LAMBDA w : Addr[w] >= Addr[v])
           w == mono_mul_entry(m, v).vars
<1>1. /\ m \in Mono /\ s \in Seq(Var) /\ n \in Nat
      /\ m = [coeff |-> m.coeff, fun |-> m.fun, vars |-> m.vars]
      /\ \A i \in 1 .. n : s[i] \in Var /\ Addr[s[i]] \in Nat
      /\ Addr[v] \in Nat
  BY AddrNat DEF Ordered, Mono
<1>2. Sorted(s)
  BY OrderIsSorted DEF Ordered
<1>3. place = IF I # {} THEN Min(I) ELSE 0
  BY DEF SelectInSeq
<1>4. mono_mul_entry(m, v) = [m EXCEPT !.vars = IF place = 0 THEN Append(s, v)
                                                ELSE InsertAt(s, place, v)]
  BY DEF mono_mul_entry
<1>5. /\ mono_mul_entry(m, v) = [coeff |-> m.coeff, fun |-> m.fun, vars |-> w]
      /\ w = IF place = 0 THEN Append(s, v) ELSE InsertAt(s, place, v)
  BY <1>1, <1>4
<1> HIDE DEF place, w
<1>6. CASE I = {}
  <2>1. w = Append(s, v) /\ \A i \in 1 .. n : Addr[s[i]] < Addr[v]
    BY <1>1, <1>3, <1>5, <1>6
  <2>2. Inserted(w, s, v, n + 1)
    BY <1>1, <2>1, AppendProperties DEF Inserted
  <2> QED BY <1>1, <1>5, <2>1, <2>2 DEF w
<1>7. CASE I # {}
  <2>1. PICK p \in I : \A i \in I : p <= i
    <3>1. I \in SUBSET Nat
      OBVIOUS
    <3> HIDE DEF I
    <3> QED BY <1>7, <3>1, Least
  <2>2. Min(I) = p
    <3>1. \E q : q = Min(I)
      OBVIOUS
    <3> QED BY <2>1 DEF Min
  <2>3. p \in 1 .. n /\ place = p /\ w = InsertAt(s, p, v)
    BY <1>3, <1>5, <1>7, <2>1, <2>2
  <2>4. \A i \in 1 .. p - 1 : Addr[s[i]] < Addr[v]
    <3> SUFFICES ASSUME NEW i \in 1 .. p - 1, ~ Addr[s[i]] < Addr[v] PROVE FALSE
      OBVIOUS
    <3>1. i \in I /\ i < p
      BY <1>1, <2>3
    <3> QED BY <2>1, <3>1, <2>3
  <2>5. \A i \in p .. n : Addr[s[i]] >= Addr[v]
    <3> SUFFICES ASSUME NEW i \in p .. n PROVE Addr[s[i]] >= Addr[v]
      OBVIOUS
    <3>1. Addr[s[p]] <= Addr[s[i]] /\ Addr[s[p]] >= Addr[v]
      BY <1>1, <1>2, <2>1, <2>3 DEF Sorted
    <3>2. i \in 1 .. n
      BY <2>3
    <3> QED BY <1>1, <2>3, <3>1, <3>2
  <2>6. Inserted(w, s, v, p)
    <3> DEFINE a == SubSeq(s, 1, p - 1)
               c == SubSeq(s, p, n)
    <3>1. a \in Seq(Var) /\ Len(a) = p - 1 /\ \A i \in 1 .. p - 1 : a[i] = s[i]
      <4>1. \A i \in 1 .. p - 1 : s[i] \in Var
        BY <1>1, <2>3
      <4> QED BY <2>3, <4>1, SubSeqProperties
    <3>2. c \in Seq(Var) /\ Len(c) = n - p + 1 /\ \A i \in 1 .. n - p + 1 : c[i] = s[p + i - 1]
      <4>1. \A i \in p .. n : s[i] \in Var
        BY <1>1, <2>3
      <4> QED BY <1>1, <2>3, <4>1, SubSeqProperties
    <3>3. w = (a \o <<v>>) \o c
      BY <2>3 DEF InsertAt
    <3> HIDE DEF a, c
    <3> DEFINE e == a \o <<v>>
    <3>4. /\ e \in Seq(Var) /\ Len(e) = p /\ e[p] = v
          /\ \A i \in 1 .. p - 1 : e[i] = s[i]
      <4>1. <<v>> \in Seq(Var) /\ Len(<<v>>) = 1 /\ <<v>>[1] = v
        OBVIOUS
      <4>2. /\ e \in Seq(Var) /\ Len(e) = (p - 1) + 1
            /\ \A i \in 1 .. (p - 1) + 1 : e[i] = IF i <= p - 1 THEN a[i] ELSE <<v>>[i - (p - 1)]
        <5> DEFINE b == <<v>>
        <5>1. a \in Seq(Var) /\ b \in Seq(Var) /\ Len(a) = p - 1 /\ Len(b) = 1
          BY <3>1, <4>1
        <5> HIDE DEF b
        <5>2. /\ a \o b \in Seq(Var) /\ Len(a \o b) = Len(a) + Len(b)
              /\ \A i \in 1 .. Len(a) + Len(b) : (a \o b)[i] = IF i <= Len(a) THEN a[i] ELSE b[i - Len(a)]
          BY ONLY <5>1, ConcatProperties
        <5>3. /\ a \o b \in Seq(Var) /\ Len(a \o b) = (p - 1) + 1
              /\ \A i \in 1 .. (p - 1) + 1 : (a \o b)[i] = IF i <= p - 1 THEN a[i] ELSE b[i - (p - 1)]
          BY <5>1, <5>2
        <5> QED BY <5>3 DEF b
      <4>3. p - (p - 1) = 1 /\ (p - 1) + 1 = p /\ ~ p <= p - 1 /\ p \in 1 .. p
        <5>1. p \in Nat /\ p # 0
          BY <1>1, <2>3
        <5> QED BY ONLY <5>1
      <4>4. e[p] = v
        BY <4>1, <4>2, <4>3
      <4>5. \A i \in 1 .. p - 1 : e[i] = a[i]
        BY <2>3, <4>2
      <4> QED BY <3>1, <4>2, <4>3, <4>4, <4>5
    <3> HIDE DEF e
    <3>5. /\ w \in Seq(Var) /\ Len(w) = p + (n - p + 1)
          /\ \A i \in 1 .. p + (n - p + 1) : w[i] = IF i <= p THEN e[i] ELSE c[i - p]
      <4>1. w = e \o c
        BY <3>3 DEF e
      <4>2. e \in Seq(Var) /\ c \in Seq(Var)
        BY <3>2, <3>4
      <4>3. /\ e \o c \in Seq(Var) /\ Len(e \o c) = Len(e) + Len(c)
            /\ \A i \in 1 .. Len(e) + Len(c) : (e \o c)[i] = IF i <= Len(e) THEN e[i] ELSE c[i - Len(e)]
        BY ONLY <4>2, ConcatProperties
      <4> QED BY <3>2, <3>4, <4>1, <4>3
    <3>6. p + (n - p + 1) = n + 1 /\ p \in 1 .. n + 1
      BY <1>1, <2>3
    <3>7. \A i \in p + 1 .. n + 1 : w[i] = s[i - 1]
      <4> SUFFICES ASSUME NEW i \in p + 1 .. n + 1 PROVE w[i] = s[i - 1]
        OBVIOUS
      <4>0. n \in Nat /\ p \in 1 .. n /\ i \in p + 1 .. n + 1
        BY <1>1, <2>3
      <4> HIDE DEF n, s, I
      <4>1. n \in Int /\ p \in Int /\ i \in Int /\ 1 <= p /\ p + 1 <= i /\ i <= n + 1
        BY ONLY <4>0
      <4>2. i \in 1 .. n + 1 /\ ~ i <= p
        BY ONLY <4>1, SMTT(30)
      <4>3. i - p \in 1 .. n - p + 1 /\ p + (i - p) - 1 = i - 1
        BY ONLY <4>1, SMTT(30)
      <4> USE DEF n, s, I
      <4> QED BY <3>2, <3>5, <3>6, <4>2, <4>3
    <3>8. \A i \in 1 .. p - 1 : w[i] = s[i]
      <4> SUFFICES ASSUME NEW i \in 1 .. p - 1 PROVE w[i] = s[i]
        OBVIOUS
      <4>1. i \in 1 .. n + 1 /\ i <= p
        BY <1>1, <2>3
      <4> QED BY <3>4, <3>5, <3>6, <4>1
    <3>9. w[p] = v
      BY <2>3, <3>4, <3>5, <3>6
    <3> QED BY <3>5, <3>6, <3>7, <3>8, <3>9 DEF Inserted
  <2> QED BY <1>5, <2>4, <2>5, <2>6 DEF w
<1> QED BY <1>6, <1>7

LEMMA EntryOrdered ==
  ASSUME NEW m \in Ordered, NEW v \in Var
  PROVE  /\ mono_mul_entry(m, v) \in Ordered
         /\ mono_mul_entry(m, v).coeff = m.coeff /\ mono_mul_entry(m, v).fun = m.fun
<1> DEFINE w == mono_mul_entry(m, v).vars
           s == m.vars
           n == Len(s)
<1>1. mono_mul_entry(m, v) = [coeff |-> m.coeff, fun |-> m.fun, vars |-> w]
  BY EntryPlace
<1>2. PICK p : /\ Inserted(w, s, v, p)
               /\ \A i \in 1 .. p - 1 : Addr[s[i]] < Addr[v]
               /\ \A i \in p .. Len(s) : Addr[s[i]] >= Addr[v]
  BY EntryPlace
<1>3. /\ m \in Mono /\ s \in Seq(Var) /\ n \in Nat /\ Sorted(s)
      /\ \A i \in 1 .. n : Addr[s[i]] \in Nat
      /\ Addr[v] \in Nat
  BY AddrNat, OrderIsSorted DEF Ordered, Mono
<1>4. /\ w \in Seq(Var) /\ Len(w) = n + 1 /\ p \in 1 .. n + 1 /\ w[p] = v
      /\ \A i \in 1 .. p - 1 : w[i] = s[i] /\ i \in 1 .. n
      /\ \A i \in p + 1 .. n + 1 : w[i] = s[i - 1] /\ i - 1 \in 1 .. n /\ i - 1 \in p .. n
  <2>1. /\ w \in Seq(Var) /\ Len(w) = n + 1 /\ p \in 1 .. n + 1 /\ w[p] = v
        /\ \A i \in 1 .. p - 1 : w[i] = s[i]
        /\ \A i \in p + 1 .. n + 1 : w[i] = s[i - 1]
    BY <1>2 DEF Inserted
  <2>2. n \in Nat /\ p \in 1 .. n + 1
    BY <1>3, <2>1
  <2>3. /\ \A i \in 1 .. p - 1 : i \in 1 .. n
        /\ \A i \in p + 1 .. n + 1 : i - 1 \in 1 .. n /\ i - 1 \in p .. n
    BY ONLY <2>2
  <2> QED BY <2>1, <2>3
<1> HIDE DEF w, s, n
<1>5. Sorted(w)
  <2> SUFFICES ASSUME NEW i \in 1 .. n + 1, NEW k \in 1 .. n + 1, i <= k
               PROVE  Addr[w[i]] <= Addr[w[k]]
    BY <1>4 DEF Sorted
  <2>0. \A j, l \in 1 .. n : j <= l => Addr[s[j]] <= Addr[s[l]]
    BY <1>3 DEF Sorted, n
  <2>1. CASE k < p
    <3>1. i \in 1 .. p - 1 /\ k \in 1 .. p - 1
      BY <1>3, <1>4, <2>1
    <3>2. w[i] = s[i] /\ w[k] = s[k] /\ i \in 1 .. n /\ k \in 1 .. n
      BY <1>4, <3>1
    <3> QED BY <2>0, <3>2
  <2>2. CASE i > p
    <3>1. i \in p + 1 .. n + 1 /\ k \in p + 1 .. n + 1
      BY <1>3, <1>4, <2>2
    <3>2. w[i] = s[i - 1] /\ w[k] = s[k - 1] /\ i - 1 \in 1 .. n /\ k - 1 \in 1 .. n
          /\ i - 1 <= k - 1
      BY <1>4, <3>1
    <3> QED BY <2>0, <3>2
  <2>3. CASE i <= p /\ p <= k
    <3>1. Addr[w[i]] <= Addr[v] /\ Addr[w[i]] \in Nat
      <4>1. CASE i = p
        BY <1>3, <1>4, <4>1
      <4>2. CASE i # p
        <5>1. i \in 1 .. p - 1
          BY <1>3, <1>4, <2>3, <4>2
        <5>2. w[i] = s[i] /\ i \in 1 .. n /\ Addr[s[i]] < Addr[v]
          BY <1>2, <1>4, <5>1
        <5> QED BY <1>3, <5>2
      <4> QED BY <4>1, <4>2
    <3>2. Addr[v] <= Addr[w[k]] /\ Addr[w[k]] \in Nat
      <4>1. CASE k = p
        BY <1>3, <1>4, <4>1
      <4>2. CASE k # p
        <5>1. k \in p + 1 .. n + 1
          BY <1>3, <1>4, <2>3, <4>2
        <5>2. w[k] = s[k - 1] /\ k - 1 \in 1 .. n /\ k - 1 \in p .. n
          BY <1>4, <5>1
        <5>3. Addr[s[k - 1]] >= Addr[v]
          BY <1>2, <5>2 DEF n
        <5> QED BY <1>3, <5>2, <5>3
      <4> QED BY <4>1, <4>2
    <3> QED BY <1>3, <3>1, <3>2
  <2> QED BY <1>3, <1>4, <2>1, <2>2, <2>3
<1>6. w # <<>> /\ w \in Seq(Var) \ {<<>>}
  BY <1>3, <1>4
<1>7. m.coeff \in Int /\ m.fun \in MFun
  BY <1>3 DEF Mono
<1>8. mono_mul_entry(m, v) \in Mono
  BY <1>1, <1>6, <1>7 DEF Mono
<1>9. mono_mul_entry(m, v).vars = w
  BY <1>1
<1>10. InOrder(mono_mul_entry(m, v))
  BY <1>5, <1>8, <1>9, OrderIsSorted
<1> QED BY <1>1, <1>8, <1>10 DEF Ordered

\* The monos of a loop that puts in one variable after the other.
MulRun(f, m, list) ==
  f = [i \in 0 .. Len(list) |-> IF i = 0 THEN m ELSE mono_mul_entry(f[i - 1], list[i])]

Alike(m) == {x \in Ordered : x.coeff = m.coeff /\ x.fun = m.fun}

LEMMA EntriesRun ==
  ASSUME NEW m \in Ordered, NEW list \in Seq(Var)
  PROVE  \E f : /\ MulRun(f, m, list) /\ mono_mul_entries(m, list) = f[Len(list)]
                /\ f[0] = m
                /\ \A i \in 1 .. Len(list) : f[i] = mono_mul_entry(f[i - 1], list[i])
                /\ \A i \in 0 .. Len(list) : f[i] \in Alike(m)
<1> DEFINE n == Len(list)
           A == Alike(m)
           T == [i \in 0 .. n |-> A]
           F == [i \in 1 .. n |-> [x \in A |-> mono_mul_entry(x, list[i])]]
<1>1. n \in Nat /\ \A i \in 1 .. n : list[i] \in Var
  OBVIOUS
<1>2. \A x \in A : \A v \in Var : mono_mul_entry(x, v) \in A
  BY EntryOrdered DEF Alike
<1>3. m \in A
  BY DEF Alike
<1>4. m \in T[0] /\ \A i \in 1 .. n : \A x \in T[i - 1] : F[i][x] \in T[i]
  <2>1. \A i \in 1 .. n : i \in 0 .. n /\ i - 1 \in 0 .. n
    BY <1>1
  <2>2. 0 \in 0 .. n
    BY <1>1
  <2> HIDE DEF A, n
  <2> QED BY <1>1, <1>2, <1>3, <2>1, <2>2
<1>5. PICK f : IsRun(f, n, m, F) /\ \A i \in 0 .. n : f[i] \in T[i]
  <2> HIDE DEF T, F, n
  <2> QED BY <1>1, <1>4, Rounds
<1>6. \A i \in 0 .. n : f[i] \in A
  BY <1>5
<1>7. MulRun(f, m, list)
  <2>1. f = [i \in 0 .. n |-> IF i = 0 THEN m ELSE F[i][f[i - 1]]]
    BY <1>5 DEF IsRun
  <2>2. \A i \in 0 .. n : i # 0 => F[i][f[i - 1]] = mono_mul_entry(f[i - 1], list[i])
    <3> SUFFICES ASSUME NEW i \in 0 .. n, i # 0
                 PROVE  F[i][f[i - 1]] = mono_mul_entry(f[i - 1], list[i])
      OBVIOUS
    <3>1. i \in 1 .. n /\ i - 1 \in 0 .. n
      BY <1>1
    <3> QED BY <1>6, <3>1
  <2> HIDE DEF F
  <2> QED BY <2>1, <2>2 DEF MulRun
<1> DEFINE h == CHOOSE g : MulRun(g, m, list)
<1>8. MulRun(h, m, list)
  BY <1>7
<1>9. mono_mul_entries(m, list) = h[n]
  BY DEF mono_mul_entries, MulRun
<1> HIDE DEF h
<1>10. h[0] = m /\ \A i \in 1 .. n : h[i] = mono_mul_entry(h[i - 1], list[i])
  <2>1. 0 \in 0 .. n /\ \A i \in 1 .. n : i \in 0 .. n /\ i # 0
    BY <1>1
  <2> QED BY <1>8, <2>1 DEF MulRun
<1>11. \A i \in 0 .. n : h[i] \in T[i]
  <2>1. h[0] \in T[0]
    BY <1>1, <1>3, <1>10
  <2>2. \A i \in 1 .. n : h[i - 1] \in T[i - 1] => h[i] \in T[i]
    <3>1. \A i \in 1 .. n : i \in 0 .. n /\ i - 1 \in 0 .. n
      BY <1>1
    <3> HIDE DEF A
    <3> QED BY <1>1, <1>2, <1>10, <3>1
  <2> HIDE DEF T
  <2> QED BY <1>1, <2>1, <2>2, RoundsKeep
<1> QED BY <1>8, <1>9, <1>10, <1>11

LEMMA EntriesOrdered ==
  ASSUME NEW m \in Ordered, NEW list \in Seq(Var)
  PROVE  /\ mono_mul_entries(m, list) \in Ordered
         /\ mono_mul_entries(m, list).coeff = m.coeff
         /\ mono_mul_entries(m, list).fun = m.fun
<1>1. Len(list) \in 0 .. Len(list)
  OBVIOUS
<1> QED BY <1>1, EntriesRun DEF Alike

\* A mono with one variable.
LEMMA SingleOrdered ==
  ASSUME NEW c \in Int, NEW v \in Var, NEW g \in MFun
  PROVE  /\ mono_new(c, v, g) \in Ordered
         /\ mono_new(c, v, g).coeff = c /\ mono_new(c, v, g).fun = g
         /\ mono_new(c, v, g).vars = <<v>>
<1>1. mono_new(c, v, g) \in Mono
  BY DEF mono_new, Mono
<1>2. mono_new(c, v, g).vars = <<v>> /\ Len(<<v>>) = 1
  BY DEF mono_new
<1>3. InOrder(mono_new(c, v, g))
  BY <1>2 DEF InOrder
<1> QED BY <1>1, <1>2, <1>3 DEF mono_new, Ordered

\* Putting the largest variable into an ordered list is appending it.
LEMMA LargestLast ==
  ASSUME NEW m \in Ordered, NEW v \in Var,
         \A i \in 1 .. Len(m.vars) : Addr[m.vars[i]] <= Addr[v]
  PROVE  mono_mul_entry(m, v).vars = Append(m.vars, v)
<1> DEFINE w == mono_mul_entry(m, v).vars
           s == m.vars
           n == Len(s)
<1>1. PICK p : /\ Inserted(w, s, v, p)
               /\ \A i \in p .. Len(s) : Addr[s[i]] >= Addr[v]
  BY EntryPlace
<1>2. /\ s \in Seq(Var) /\ n \in Nat
      /\ \A i \in 1 .. n : s[i] \in Var /\ Addr[s[i]] \in Nat
      /\ Addr[v] \in Nat
  BY AddrNat DEF Ordered, Mono
<1>3. /\ w \in Seq(Var) /\ Len(w) = n + 1 /\ p \in 1 .. n + 1 /\ w[p] = v
      /\ \A i \in 1 .. p - 1 : w[i] = s[i]
      /\ \A i \in p + 1 .. n + 1 : w[i] = s[i - 1]
  BY <1>1 DEF Inserted
<1> HIDE DEF w
<1>4. ASSUME NEW i \in p .. n PROVE s[i] = v
  <2>1. i \in 1 .. n
    BY <1>2, <1>3
  <2>2. Addr[s[i]] >= Addr[v] /\ Addr[s[i]] <= Addr[v]
    BY <1>1, <2>1
  <2>3. Addr[s[i]] = Addr[v]
    BY <1>2, <2>1, <2>2
  <2> QED BY <1>2, <2>1, <2>3, AddrDiffers
<1>5. ASSUME NEW i \in 1 .. n + 1 PROVE w[i] = Append(s, v)[i]
  <2>0. n \in Nat /\ p \in 1 .. n + 1 /\ i \in 1 .. n + 1
    BY <1>2, <1>3
  <2>1. Append(s, v)[i] = IF i = n + 1 THEN v ELSE s[i]
    <3>1. /\ \A k \in 1 .. n : Append(s, v)[k] = s[k]
          /\ Append(s, v)[n + 1] = v
      BY <1>2, AppendProperties
    <3>2. i = n + 1 \/ (i \in 1 .. n /\ i # n + 1)
      BY ONLY <2>0
    <3> QED BY <3>1, <3>2
  <2>2. CASE i < p
    <3>1. i \in 1 .. p - 1 /\ i # n + 1
      BY ONLY <2>0, <2>2
    <3> QED BY <1>3, <2>1, <3>1
  <2>3. CASE i = p
    <3>1. i = n + 1 \/ (i # n + 1 /\ i \in p .. n)
      BY ONLY <2>0, <2>3
    <3> QED BY <1>3, <1>4, <2>1, <2>3, <3>1
  <2>4. CASE i > p
    <3>1. i \in p + 1 .. n + 1 /\ i - 1 \in p .. n /\ (i = n + 1 \/ (i # n + 1 /\ i \in p .. n))
      BY ONLY <2>0, <2>4
    <3> QED BY <1>3, <1>4, <2>1, <3>1
  <2> QED BY ONLY <2>0, <2>2, <2>3, <2>4
<1>6. Append(s, v) \in Seq(Var) /\ Len(Append(s, v)) = n + 1
  BY <1>2, AppendProperties
<1>7. w = Append(s, v)
  BY <1>3, <1>5, <1>6, SeqEqual
<1> QED BY <1>7 DEF w

\* A copy of an ordered mono is the mono.
LEMMA CopyIsSame ==
  ASSUME NEW m \in Ordered
  PROVE  mono_copy(m) = m
<1> DEFINE s == m.vars
           n == Len(s)
           a == mono_new(m.coeff, Head(s), m.fun)
<1>1. /\ m \in Mono /\ s \in Seq(Var) /\ s # <<>> /\ n \in Nat \ {0}
      /\ m.coeff \in Int /\ m.fun \in MFun /\ Sorted(s)
      /\ m = [coeff |-> m.coeff, fun |-> m.fun, vars |-> m.vars]
      /\ \A i \in 1 .. n : s[i] \in Var
  BY OrderIsSorted DEF Ordered, Mono
<1>2. /\ Head(s) = s[1] /\ Head(s) \in Var /\ Tail(s) \in Seq(Var) /\ Len(Tail(s)) = n - 1
      /\ \A i \in 1 .. n - 1 : Tail(s)[i] = s[i + 1]
  BY <1>1, HeadTailProperties
<1>3. a \in Ordered /\ a.coeff = m.coeff /\ a.fun = m.fun /\ a.vars = <<Head(s)>>
  BY <1>1, <1>2, SingleOrdered
<1> HIDE DEF a
<1>4. PICK f : /\ mono_mul_entries(a, Tail(s)) = f[n - 1]
               /\ f[0] = a
               /\ \A i \in 1 .. n - 1 : f[i] = mono_mul_entry(f[i - 1], Tail(s)[i])
               /\ \A i \in 0 .. n - 1 : f[i] \in Alike(a)
  <2> DEFINE t == Tail(s)
  <2>1. t \in Seq(Var) /\ Len(t) = n - 1
    BY <1>2
  <2> HIDE DEF t
  <2>2. \E f : /\ mono_mul_entries(a, t) = f[Len(t)]
               /\ f[0] = a
               /\ \A i \in 1 .. Len(t) : f[i] = mono_mul_entry(f[i - 1], t[i])
               /\ \A i \in 0 .. Len(t) : f[i] \in Alike(a)
    BY <1>3, <2>1, EntriesRun
  <2> QED BY <2>1, <2>2 DEF t
<1> DEFINE T == [i \in 0 .. n - 1 |-> {x \in Alike(a) : x.vars = SubSeq(s, 1, i + 1)}]
<1>5. f[0] \in T[0]
  <2>1. SubSeq(s, 1, 1) = <<s[1]>>
    <3>1. 1 \in 1 .. n /\ s[1] \in Var
      BY <1>1
    <3>2. /\ SubSeq(s, 1, 1) \in Seq(Var) /\ Len(SubSeq(s, 1, 1)) = 1
          /\ SubSeq(s, 1, 1)[1] = s[1]
      BY <1>1, <3>1
    <3>3. <<s[1]>> \in Seq(Var) /\ Len(<<s[1]>>) = 1 /\ <<s[1]>>[1] = s[1]
      BY <3>1
    <3>4. \A i \in 1 .. 1 : SubSeq(s, 1, 1)[i] = <<s[1]>>[i]
      BY <3>2, <3>3
    <3> QED BY <3>2, <3>3, <3>4, SeqEqual
  <2>2. 0 \in 0 .. n - 1 /\ 0 + 1 = 1
    BY <1>1
  <2> QED BY <1>2, <1>3, <1>4, <2>1, <2>2
<1>6. ASSUME NEW i \in 1 .. n - 1, f[i - 1] \in T[i - 1] PROVE f[i] \in T[i]
  <2>0. i - 1 \in 0 .. n - 1 /\ i \in 0 .. n - 1 /\ (i - 1) + 1 = i /\ i + 1 \in 1 .. n /\ i \in 1 .. n
    BY <1>1
  <2>1. f[i - 1] \in Ordered /\ f[i - 1].vars = SubSeq(s, 1, i)
    BY <1>6, <2>0 DEF Alike
  <2>2. /\ Len(SubSeq(s, 1, i)) = i /\ SubSeq(s, 1, i) \in Seq(Var)
        /\ \A k \in 1 .. i : SubSeq(s, 1, i)[k] = s[k]
    BY <1>1, <2>0
  <2>3. \A k \in 1 .. i : Addr[s[k]] <= Addr[s[i + 1]]
    <3>1. \A k \in 1 .. i : k \in 1 .. n /\ k <= i + 1
      BY <2>0
    <3> QED BY <1>1, <2>0, <3>1 DEF Sorted
  <2>4. f[i] = mono_mul_entry(f[i - 1], s[i + 1]) /\ s[i + 1] \in Var
    BY <1>1, <1>2, <1>4, <2>0
  <2>5. f[i].vars = Append(SubSeq(s, 1, i), s[i + 1])
    <3> DEFINE x == f[i - 1]
               v == s[i + 1]
    <3>1. x \in Ordered /\ v \in Var /\ x.vars = SubSeq(s, 1, i) /\ f[i] = mono_mul_entry(x, v)
      BY <2>1, <2>4
    <3>2. \A k \in 1 .. Len(x.vars) : Addr[x.vars[k]] <= Addr[v]
      BY <2>2, <2>3, <3>1
    <3> HIDE DEF x, v
    <3>3. f[i].vars = Append(x.vars, v)
      BY <3>1, <3>2, LargestLast
    <3> QED BY <3>1, <3>3 DEF v
  <2>6. Append(SubSeq(s, 1, i), s[i + 1]) = SubSeq(s, 1, i + 1)
    BY <1>1, <2>0
  <2>7. f[i] \in Alike(a)
    BY <1>4, <2>0
  <2> QED BY <2>0, <2>5, <2>6, <2>7
<1>7. f[n - 1] \in T[n - 1]
  <2>1. n - 1 \in Nat /\ n - 1 \in 0 .. n - 1
    BY <1>1
  <2> HIDE DEF T
  <2>2. \A i \in 0 .. n - 1 : f[i] \in T[i]
    BY <1>5, <1>6, <2>1, RoundsKeep
  <2> QED BY <2>1, <2>2
<1>8. f[n - 1].vars = s /\ f[n - 1] \in Alike(a)
  <2>1. n - 1 \in 0 .. n - 1 /\ (n - 1) + 1 = n
    BY <1>1
  <2>2. SubSeq(s, 1, n) = s
    BY <1>1
  <2> QED BY <1>7, <2>1, <2>2
<1>9. f[n - 1] = [coeff |-> m.coeff, fun |-> m.fun, vars |-> s]
  BY <1>3, <1>8 DEF Alike, Ordered, Mono
<1>10. mono_copy(m) = f[n - 1]
  BY <1>4 DEF mono_copy, a
<1> QED BY <1>1, <1>9, <1>10

\* A product is in order, its coefficient the product of the coefficients.
LEMMA ProductOrdered ==
  ASSUME NEW a \in Ordered, NEW b \in Ordered
  PROVE  mono_mul(a, b) \in Ordered /\ mono_mul(a, b).coeff = a.coeff * b.coeff
<1> DEFINE c == [a EXCEPT !.coeff = @ * b.coeff]
<1>1. c \in Ordered /\ c.coeff = a.coeff * b.coeff
  <2>1. /\ a \in Mono /\ b.coeff \in Int /\ a.coeff \in Int
        /\ a = [coeff |-> a.coeff, fun |-> a.fun, vars |-> a.vars]
    BY DEF Ordered, Mono
  <2>2. a.coeff * b.coeff \in Int
    BY <2>1
  <2>3. c \in Mono /\ c.vars = a.vars /\ c.coeff = a.coeff * b.coeff
    BY <2>1, <2>2 DEF Mono
  <2>4. InOrder(c)
    BY <2>3 DEF Ordered, InOrder
  <2> QED BY <2>3, <2>4 DEF Ordered
<1>2. b.vars \in Seq(Var)
  BY DEF Ordered, Mono
<1>3. mono_mul(a, b) = mono_mul_entries(c, b.vars)
  BY CopyIsSame DEF mono_mul
<1> HIDE DEF c
<1> QED BY <1>1, <1>2, <1>3, EntriesOrdered
----------------------------------------------------------------------------
(***************************************************************************)
(* Terms.  A term is known by its three fields; Whole are the monos it may *)
(* have.                                                                   *)
(***************************************************************************)
Whole == {m \in Ordered : m.coeff # 0}

LEMMA NatPlus == \A x, y : x \in Nat /\ y \in Nat => x + y \in Nat
OBVIOUS

LEMMA AllIn ==
  ASSUME NEW S, NEW T, NEW s \in Seq(S), \A i \in 1 .. Len(s) : s[i] \in T
  PROVE  s \in Seq(T)
OBVIOUS

LEMMA TermParts ==
  ASSUME NEW t \in Term
  PROVE  /\ t = [const |-> t.const, size |-> t.size, elem |-> t.elem]
         /\ t.const \in Int /\ t.size \in Nat \ {0} /\ t.elem \in Seq(Whole)
         /\ Len(t.elem) \in Nat /\ Len(t.elem) <= t.size
<1>1. t \in [const : Int, size : Nat, elem : Seq(Mono)]
  BY DEF Term
<1>2. t.size > 0 /\ Len(t.elem) <= t.size
  BY DEF Term, term_is_valid, Fits
<1>3. \A i \in 1 .. Len(t.elem) : t.elem[i] \in Whole
  <2> SUFFICES ASSUME NEW i \in 1 .. Len(t.elem) PROVE t.elem[i] \in Whole
    OBVIOUS
  <2>1. i \in DOMAIN t.elem /\ t.elem[i] \in Mono
    BY <1>1
  <2>2. t.elem[i].coeff # 0 /\ InOrder(t.elem[i])
    BY <2>1 DEF Term, term_is_valid
  <2> QED BY <2>1, <2>2 DEF Whole, Ordered
<1>4. t.elem \in Seq(Mono)
  BY <1>1
<1>5. t.elem \in Seq(Whole)
  BY <1>3, <1>4, AllIn
<1> QED BY <1>1, <1>2, <1>4, <1>5

LEMMA TermMade ==
  ASSUME NEW const \in Int, NEW size \in Nat \ {0}, NEW elem \in Seq(Whole), Len(elem) <= size
  PROVE  [const |-> const, size |-> size, elem |-> elem] \in Term
<1> DEFINE t == [const |-> const, size |-> size, elem |-> elem]
<1>1. \A i \in 1 .. Len(elem) : /\ elem[i] \in Mono /\ elem[i].coeff # 0 /\ InOrder(elem[i])
  BY DEF Whole, Ordered
<1>2. elem \in Seq(Mono) /\ DOMAIN elem = 1 .. Len(elem)
  <2>1. elem \in Seq(Mono)
    BY <1>1, AllIn
  <2> QED BY <2>1
<1>3. t \in [const : Int, size : Nat, elem : Seq(Mono)] /\ t.size = size /\ t.elem = elem
  BY <1>2
<1> HIDE DEF t
<1>4. t \in Term
  BY <1>1, <1>2, <1>3 DEF Term, term_is_valid, Fits
<1> QED BY <1>4 DEF t

LEMMA WholeCopy == \A m \in Whole : mono_copy(m) = m
BY CopyIsSame DEF Whole

\* A sequence by its values.
LEMMA MappedSeq ==
  ASSUME NEW n \in Nat, NEW f, NEW S, f = [i \in 1 .. n |-> f[i]], \A i \in 1 .. n : f[i] \in S
  PROVE  f \in Seq(S) /\ Len(f) = n
OBVIOUS

LEMMA CopiesAreSame ==
  ASSUME NEW t \in Term
  PROVE  Copies(t) = t.elem
<1>1. t.elem \in Seq(Whole) /\ DOMAIN t.elem = 1 .. Len(t.elem)
  BY TermParts
<1>2. \A i \in DOMAIN t.elem : mono_copy(t.elem[i]) = t.elem[i]
  BY <1>1, WholeCopy
<1>3. t.elem = [i \in DOMAIN t.elem |-> t.elem[i]]
  BY <1>1
<1> QED BY <1>2, <1>3 DEF Copies

LEMMA ExtendNat == TERM_EXTEND_SIZE \in Nat \ {0}
BY TermsAssumption

LEMMA TermNew ==
  ASSUME NEW size \in Nat \ {0}
  PROVE  term_new(size) \in Term /\ term_new(size).elem = <<>> /\ term_new(size).const = 0
<1>1. <<>> \in Seq(Whole) /\ Len(<<>>) = 0
  OBVIOUS
<1>2. Len(<<>>) <= size /\ 0 \in Int
  BY <1>1
<1>3. [const |-> 0, size |-> size, elem |-> <<>>] \in Term
  BY <1>1, <1>2, TermMade
<1> QED BY <1>3 DEF term_new

LEMMA TermCopy ==
  ASSUME NEW t \in Term
  PROVE  /\ term_copy(t) \in Term
         /\ term_copy(t).elem = t.elem /\ term_copy(t).const = t.const
<1>1. term_copy(t) = [const |-> t.const, size |-> Len(t.elem) + TERM_EXTEND_SIZE, elem |-> t.elem]
  BY CopiesAreSame DEF term_copy
<1>2. /\ t.const \in Int /\ t.elem \in Seq(Whole) /\ Len(t.elem) + TERM_EXTEND_SIZE \in Nat \ {0}
      /\ Len(t.elem) <= Len(t.elem) + TERM_EXTEND_SIZE
  BY TermParts, ExtendNat
<1> QED BY <1>1, <1>2, TermMade

LEMMA TermAppend ==
  ASSUME NEW t \in Term, NEW b \in Term
  PROVE  /\ term_append_term(t, b) \in Term
         /\ term_append_term(t, b).elem = t.elem \o b.elem
         /\ term_append_term(t, b).const = t.const + b.const
<1> DEFINE used == Len(t.elem) + Len(b.elem)
           size == IF used >= t.size THEN used ELSE t.size
<1>1. term_append_term(t, b) =
        [const |-> t.const + b.const, size |-> size, elem |-> t.elem \o b.elem]
  BY CopiesAreSame DEF term_append_term
<1>2. /\ t.const \in Int /\ b.const \in Int /\ t.elem \in Seq(Whole) /\ b.elem \in Seq(Whole)
      /\ t.size \in Nat \ {0} /\ Len(t.elem) \in Nat /\ Len(b.elem) \in Nat
  BY TermParts
<1>3. t.elem \o b.elem \in Seq(Whole) /\ Len(t.elem \o b.elem) = used
  BY <1>2, ConcatProperties
<1>4. t.const + b.const \in Int /\ size \in Nat \ {0} /\ used <= size
  <2>0. /\ Len(t.elem) \in Nat /\ Len(b.elem) \in Nat
        /\ t.const \in Int /\ b.const \in Int
    BY <1>2
  <2>1. used \in Nat
    BY <2>0, NatPlus
  <2> HIDE DEF used
  <2>2. CASE used >= t.size
    BY <1>2, <2>0, <2>1, <2>2
  <2>3. CASE ~ used >= t.size
    BY <1>2, <2>0, <2>1, <2>3
  <2> QED BY <2>2, <2>3
<1> HIDE DEF size, used
<1>5. [const |-> t.const + b.const, size |-> size, elem |-> t.elem \o b.elem] \in Term
  BY <1>3, <1>4, TermMade
<1>6. /\ term_append_term(t, b).elem = t.elem \o b.elem
      /\ term_append_term(t, b).const = t.const + b.const
  <2> DEFINE e == t.elem \o b.elem
             c == t.const + b.const
  <2>1. term_append_term(t, b) = [const |-> c, size |-> size, elem |-> e]
    BY <1>1
  <2> HIDE DEF e, c
  <2>2. term_append_term(t, b).elem = e /\ term_append_term(t, b).const = c
    BY <2>1
  <2> QED BY <2>2 DEF e, c
<1> QED BY <1>1, <1>5, <1>6

LEMMA TermJoined ==
  ASSUME NEW a \in Term, NEW b \in Term, NEW elemb \in Seq(Whole), Len(elemb) = Len(b.elem),
         NEW const \in Int
  PROVE  Joined(a, b, elemb, const) \in Term
<1> DEFINE size == Len(a.elem) + Len(b.elem) + TERM_EXTEND_SIZE
<1>1. Joined(a, b, elemb, const) = [const |-> const, size |-> size, elem |-> a.elem \o elemb]
  BY CopiesAreSame DEF Joined
<1>2. a.elem \in Seq(Whole) /\ Len(a.elem) \in Nat /\ Len(b.elem) \in Nat
  BY TermParts
<1>3. a.elem \o elemb \in Seq(Whole) /\ Len(a.elem \o elemb) = Len(a.elem) + Len(b.elem)
  <2> DEFINE s == a.elem
  <2>1. s \in Seq(Whole)
    BY <1>2
  <2> HIDE DEF s
  <2>2. s \o elemb \in Seq(Whole) /\ Len(s \o elemb) = Len(s) + Len(elemb)
    BY <2>1, ConcatProperties
  <2> QED BY <2>2 DEF s
<1>4. size \in Nat \ {0} /\ Len(a.elem) + Len(b.elem) <= size
  <2>1. Len(a.elem) \in Nat /\ Len(b.elem) \in Nat /\ TERM_EXTEND_SIZE \in Nat \ {0}
    BY <1>2, ExtendNat
  <2> DEFINE n == Len(a.elem) + Len(b.elem)
  <2>2. n \in Nat
    BY <2>1, NatPlus
  <2>3. size = n + TERM_EXTEND_SIZE
    OBVIOUS
  <2> HIDE DEF n, size
  <2>4. size \in Nat \ {0} /\ n <= size
    BY <2>1, <2>2, <2>3
  <2> QED BY <2>4 DEF n
<1> HIDE DEF size
<1> QED BY <1>1, <1>3, <1>4, TermMade

LEMMA WholeNeg ==
  ASSUME NEW m \in Whole PROVE mono_neg(m) \in Whole
<1>1. m \in Mono /\ InOrder(m) /\ m.coeff # 0 /\ m.coeff \in Int
  BY DEF Whole, Ordered, Mono
<1>2. mono_neg(m) \in Mono /\ mono_neg(m).vars = m.vars /\ mono_neg(m).coeff = - m.coeff
  BY <1>1 DEF mono_neg, Mono
<1>3. InOrder(mono_neg(m)) /\ mono_neg(m).coeff # 0
  BY <1>1, <1>2 DEF InOrder
<1> QED BY <1>2, <1>3 DEF Whole, Ordered

LEMMA TermSub ==
  ASSUME NEW a \in Term, NEW b \in Term
  PROVE  term_sub_term(a, b) \in Term
<1> DEFINE e == [i \in DOMAIN b.elem |-> mono_neg(mono_copy(b.elem[i]))]
           n == Len(b.elem)
<1>1. b.elem \in Seq(Whole) /\ n \in Nat /\ DOMAIN b.elem = 1 .. n
      /\ a.const \in Int /\ b.const \in Int
  BY TermParts
<1>2. \A i \in 1 .. n : e[i] \in Whole
  BY <1>1, WholeCopy, WholeNeg
<1>3. e = [i \in 1 .. n |-> e[i]]
  BY <1>1
<1>4. term_sub_term(a, b) = Joined(a, b, e, a.const - b.const)
  BY DEF term_sub_term
<1> HIDE DEF e
<1>5. e \in Seq(Whole) /\ Len(e) = n
  <2> HIDE DEF n
  <2> QED BY <1>1, <1>2, <1>3, MappedSeq
<1>6. a.const - b.const \in Int
  BY <1>1
<1> QED BY <1>4, <1>5, <1>6, TermJoined

LEMMA TermAdd ==
  ASSUME NEW a \in Term, NEW b \in Term
  PROVE  term_add_term(a, b) \in Term
<1>1. b.elem \in Seq(Whole) /\ a.const + b.const \in Int
  BY TermParts
<1>2. term_add_term(a, b) = Joined(a, b, b.elem, a.const + b.const)
  BY CopiesAreSame DEF term_add_term
<1> QED BY <1>1, <1>2, TermJoined

LEMMA TermElem ==
  ASSUME NEW t \in Term, NEW v \in Var, NEW c \in Int \ {0}, NEW g \in MFun
  PROVE  /\ term_add_elem(t, v, c, g) \in Term
         /\ term_add_elem(t, v, c, g).elem = Append(t.elem, mono_new(c, v, g))
<1> DEFINE size == IF Len(t.elem) = t.size THEN t.size + TERM_EXTEND_SIZE ELSE t.size
           elem == Append(t.elem, mono_new(c, v, g))
<1>1. /\ t = [const |-> t.const, size |-> t.size, elem |-> t.elem]
      /\ t.const \in Int /\ t.size \in Nat \ {0} /\ t.elem \in Seq(Whole)
      /\ Len(t.elem) \in Nat /\ Len(t.elem) <= t.size
  BY TermParts
<1>2. term_add_elem(t, v, c, g) = [const |-> t.const, size |-> size, elem |-> elem]
  <2>1. term_add_elem(t, v, c, g) = [t EXCEPT !.size = size, !.elem = elem]
    BY DEF term_add_elem
  <2> HIDE DEF size, elem
  <2> QED BY <1>1, <2>1
<1>3. mono_new(c, v, g) \in Whole
  BY SingleOrdered DEF Whole
<1>4. elem \in Seq(Whole) /\ Len(elem) = Len(t.elem) + 1
  BY <1>1, <1>3, AppendProperties
<1>5. size \in Nat \ {0} /\ Len(t.elem) + 1 <= size
  BY <1>1, ExtendNat
<1> HIDE DEF size
<1>6. [const |-> t.const, size |-> size, elem |-> elem] \in Term
  <2> HIDE DEF elem
  <2> QED BY <1>1, <1>4, <1>5, TermMade
<1> QED BY <1>2, <1>6

LEMMA TermConst ==
  ASSUME NEW t \in Term, NEW c \in Int
  PROVE  /\ term_add_constant(t, c) \in Term /\ term_sub_constant(t, c) \in Term
         /\ term_add_constant(t, c).elem = t.elem /\ term_sub_constant(t, c).elem = t.elem
<1>1. /\ t = [const |-> t.const, size |-> t.size, elem |-> t.elem]
      /\ t.const \in Int /\ t.size \in Nat \ {0} /\ t.elem \in Seq(Whole)
      /\ Len(t.elem) <= t.size
  BY TermParts
<1>2. /\ term_add_constant(t, c) = [const |-> t.const + c, size |-> t.size, elem |-> t.elem]
      /\ term_sub_constant(t, c) = [const |-> t.const - c, size |-> t.size, elem |-> t.elem]
  BY <1>1 DEF term_add_constant, term_sub_constant
<1>3. t.const + c \in Int /\ t.const - c \in Int
  BY <1>1
<1> QED BY <1>1, <1>2, <1>3, TermMade

LEMMA NonZero == \A x, y \in Int : x # 0 /\ y # 0 => x * y \in Int /\ x * y # 0
OBVIOUS

LEMMA WholeScaled ==
  ASSUME NEW m \in Whole, NEW c \in Int, c # 0
  PROVE  mono_mul_coeff(m, c) \in Whole
<1>1. m \in Mono /\ InOrder(m) /\ m.coeff # 0 /\ m.coeff \in Int
  BY DEF Whole, Ordered, Mono
<1>2. m.coeff * c \in Int /\ m.coeff * c # 0
  BY <1>1, NonZero
<1>3. mono_mul_coeff(m, c) \in Mono /\ mono_mul_coeff(m, c).vars = m.vars
      /\ mono_mul_coeff(m, c).coeff = m.coeff * c
  BY <1>1, <1>2 DEF mono_mul_coeff, Mono
<1>4. InOrder(mono_mul_coeff(m, c))
  BY <1>1, <1>3 DEF InOrder
<1> QED BY <1>2, <1>3, <1>4 DEF Whole, Ordered

LEMMA TermScaled ==
  ASSUME NEW t \in Term, NEW c \in Int
  PROVE  term_mul_coeff(t, c) \in Term
<1> DEFINE e == IF c = 0 THEN <<>> ELSE [i \in DOMAIN t.elem |-> mono_mul_coeff(t.elem[i], c)]
           n == Len(t.elem)
<1>1. /\ t = [const |-> t.const, size |-> t.size, elem |-> t.elem]
      /\ t.const \in Int /\ t.size \in Nat \ {0} /\ t.elem \in Seq(Whole)
      /\ n \in Nat /\ n <= t.size /\ DOMAIN t.elem = 1 .. n
  BY TermParts
<1>2. term_mul_coeff(t, c) = [const |-> t.const * c, size |-> t.size, elem |-> e]
  <2>1. term_mul_coeff(t, c) = [t EXCEPT !.const = t.const * c, !.elem = e]
    BY DEF term_mul_coeff
  <2> HIDE DEF e
  <2> QED BY <1>1, <2>1
<1>3. e \in Seq(Whole) /\ Len(e) <= t.size
  <2>1. CASE c = 0
    BY <1>1, <2>1
  <2>2. CASE c # 0
    <3> DEFINE d == [i \in 1 .. n |-> mono_mul_coeff(t.elem[i], c)]
    <3>1. \A i \in 1 .. n : d[i] \in Whole
      BY <1>1, <2>2, WholeScaled
    <3>2. d = [i \in 1 .. n |-> d[i]] /\ e = d
      BY <1>1, <2>2
    <3> HIDE DEF d, e, n
    <3> QED BY <1>1, <3>1, <3>2, MappedSeq
  <2> QED BY <2>1, <2>2
<1>4. t.const * c \in Int
  BY <1>1
<1> HIDE DEF e
<1> QED BY <1>1, <1>2, <1>3, <1>4, TermMade

LEMMA ScaledWhole ==
  ASSUME NEW s \in Seq(Whole), NEW c \in Int, c # 0
  PROVE  Scaled(s, c) \in Seq(Whole)
<1> DEFINE n == Len(s)
           d == [i \in 1 .. n |-> mono_mul_coeff(mono_copy(s[i]), c)]
<1>1. n \in Nat /\ DOMAIN s = 1 .. n /\ \A i \in 1 .. n : s[i] \in Whole
  OBVIOUS
<1>2. \A i \in 1 .. n : d[i] \in Whole
  BY <1>1, WholeCopy, WholeScaled
<1>3. d = [i \in 1 .. n |-> d[i]] /\ Scaled(s, c) = d
  BY <1>1 DEF Scaled
<1> HIDE DEF d, n
<1> QED BY <1>1, <1>2, <1>3, MappedSeq

\* A pair of places from the number of the pair.
LEMMA PairAt ==
  ASSUME NEW n \in Nat, NEW k \in Nat, NEW i \in 1 .. n * k
  PROVE  ((i - 1) \div k) + 1 \in 1 .. n /\ ((i - 1) % k) + 1 \in 1 .. k
<1>1. k > 0
  <2>1. n * 0 = 0
    OBVIOUS
  <2> QED BY <2>1
<1> DEFINE j == i - 1
           q == j \div k
           r == j % k
<1>2. j \in Nat /\ j < n * k
  OBVIOUS
<1>3. q \in Nat /\ r \in 0 .. k - 1 /\ j = k * q + r
  <2> HIDE DEF j
  <2> QED BY <1>1, <1>2
<1> HIDE DEF j, q, r
<1>4. q < n
  <2> SUFFICES ASSUME q >= n PROVE FALSE
    BY <1>3
  <2>1. q - n \in Nat /\ k * q = k * n + k * (q - n)
    BY <1>3
  <2>2. k * (q - n) >= 0
    BY <2>1
  <2> QED BY <1>2, <1>3, <2>1, <2>2
<1> QED BY <1>3, <1>4 DEF q, r, j

LEMMA ProductsWhole ==
  ASSUME NEW a \in Term, NEW b \in Term
  PROVE  Products(a, b) \in Seq(Whole)
<1> DEFINE n == Len(a.elem)
           k == Len(b.elem)
           x(i) == ((i - 1) \div k) + 1
           y(i) == ((i - 1) % k) + 1
           d == [i \in 1 .. n * k |-> mono_mul(a.elem[x(i)], b.elem[y(i)])]
<1>1. a.elem \in Seq(Whole) /\ b.elem \in Seq(Whole) /\ n \in Nat /\ k \in Nat /\ n * k \in Nat
  <2>1. a.elem \in Seq(Whole) /\ b.elem \in Seq(Whole) /\ n \in Nat /\ k \in Nat
    BY TermParts
  <2>2. n * k \in Nat
    <3> HIDE DEF n, k
    <3> QED BY <2>1
  <2> QED BY <2>1, <2>2
<1>2. ASSUME NEW i \in 1 .. n * k PROVE d[i] \in Whole
  <2>1. x(i) \in 1 .. n /\ y(i) \in 1 .. k
    <3> HIDE DEF n, k
    <3> QED BY <1>1, PairAt
  <2> HIDE DEF x, y
  <2>2. a.elem[x(i)] \in Whole /\ b.elem[y(i)] \in Whole
    BY <1>1, <2>1
  <2> DEFINE m == mono_mul(a.elem[x(i)], b.elem[y(i)])
  <2>3. m \in Ordered /\ m.coeff = a.elem[x(i)].coeff * b.elem[y(i)].coeff
    BY <2>2, ProductOrdered DEF Whole
  <2>4. /\ a.elem[x(i)].coeff \in Int /\ a.elem[x(i)].coeff # 0
        /\ b.elem[y(i)].coeff \in Int /\ b.elem[y(i)].coeff # 0
    BY <2>2 DEF Whole, Ordered, Mono
  <2>5. m \in Whole
    <3> HIDE DEF m
    <3> QED BY <2>3, <2>4, NonZero DEF Whole
  <2> QED BY <2>5
<1>3. d = [i \in 1 .. n * k |-> d[i]] /\ Products(a, b) = d
  BY DEF Products
<1> HIDE DEF d
<1>4. d \in Seq(Whole)
  <2> DEFINE l == n * k
  <2>1. l \in Nat /\ d = [i \in 1 .. l |-> d[i]] /\ \A i \in 1 .. l : d[i] \in Whole
    BY <1>1, <1>2, <1>3
  <2> HIDE DEF l
  <2> QED BY <2>1, MappedSeq
<1> QED BY <1>3, <1>4

LEMMA MulTermParts ==
  ASSUME NEW a \in Term, NEW b \in Term
  PROVE  MulTerm(a, b).const \in Int /\ MulTerm(a, b).elem \in Seq(Whole)
<1> DEFINE p == Products(a, b)
           x == IF b.const = 0 THEN <<>> ELSE Scaled(a.elem, b.const)
           y == IF a.const = 0 THEN <<>> ELSE Scaled(b.elem, a.const)
<1>1. a.elem \in Seq(Whole) /\ b.elem \in Seq(Whole) /\ a.const \in Int /\ b.const \in Int
  BY TermParts
<1>2. p \in Seq(Whole)
  BY ProductsWhole
<1>3. x \in Seq(Whole)
  BY <1>1, ScaledWhole
<1>4. y \in Seq(Whole)
  BY <1>1, ScaledWhole
<1>5. MulTerm(a, b).const = a.const * b.const /\ MulTerm(a, b).elem = (p \o x) \o y
  BY DEF MulTerm
<1> HIDE DEF p, x, y
<1>6. (p \o x) \o y \in Seq(Whole)
  BY <1>2, <1>3, <1>4, ConcatProperties
<1>7. a.const * b.const \in Int
  BY <1>1
<1> QED BY <1>5, <1>6, <1>7
----------------------------------------------------------------------------
(***************************************************************************)
(* Simplification.                                                         *)
(***************************************************************************)
\* No two monos have the same list of variables.
Apart(e) == \A i, k \in 1 .. Len(e) : i # k => e[i].vars # e[k].vars

LEMMA RunNat ==
  ASSUME NEW s \in Seq(Var), NEW v
  PROVE  RunOf(s, v) \in Nat
<1> DEFINE I == {i \in 1 .. Len(s) : s[i] = v}
           first == SelectInSeq(s, LAMBDA w : w = v)
           ends == {i \in first .. Len(s) : \A k \in first .. i : s[k] = v}
<1>1. first = IF I # {} THEN Min(I) ELSE 0
  BY DEF SelectInSeq
<1>2. first \in Nat
  <2>1. CASE I = {}
    BY <1>1, <2>1
  <2>2. CASE I # {}
    <3>1. PICK p \in I : \A i \in I : p <= i
      <4>1. I \in SUBSET Nat
        OBVIOUS
      <4> HIDE DEF I
      <4> QED BY <2>2, <4>1, Least
    <3>2. Min(I) \in I
      BY <3>1 DEF Min
    <3>3. Min(I) \in Nat
      <4>1. I \subseteq Nat
        OBVIOUS
      <4> HIDE DEF I
      <4> QED BY <3>2, <4>1
    <3> QED BY <1>1, <2>2, <3>3
  <2> QED BY <2>1, <2>2
<1>3. RunOf(s, v) = IF first = 0 THEN 0 ELSE Cardinality(ends)
  BY DEF RunOf
<1> HIDE DEF first
<1>4. IsFiniteSet(first .. Len(s)) /\ ends \subseteq first .. Len(s)
  <2>1. Len(s) \in Int /\ first \in Int
    BY <1>2
  <2> QED BY <2>1, FS_Interval
<1>5. Cardinality(ends) \in Nat
  <2> HIDE DEF ends
  <2> QED BY <1>4, FS_Subset, FS_CardinalityType
<1> QED BY <1>3, <1>5

\* Monos in the same variables are found equal, whatever the hash is.
LEMMA SameFound ==
  ASSUME NEW a \in Ordered, NEW b \in Ordered, a.vars = b.vars
  PROVE  mono_hash(a) % HASH_SIZE = mono_hash(b) % HASH_SIZE /\ mono_equal(a, b)
<1>1. a.vars \in Seq(Var) /\ \A v : RunOf(a.vars, v) \in Nat
  BY RunNat DEF Ordered, Mono
<1>2. \A v : RunOf(a.vars, v) <= RunOf(a.vars, v)
  BY <1>1
<1>3. mono_equal(a, b)
  BY <1>2 DEF mono_equal
<1> QED BY <1>3 DEF mono_hash

LEMMA LookupPlace ==
  ASSUME NEW e \in Seq(Ordered), NEW m \in Ordered
  PROVE  \/ hash_lookup_mono(e, m) \in 1 .. Len(e)
         \/ hash_lookup_mono(e, m) = 0 /\ \A i \in 1 .. Len(e) : e[i].vars # m.vars
<1> DEFINE Same(x) == mono_hash(x) % HASH_SIZE = mono_hash(m) % HASH_SIZE /\ mono_equal(x, m)
           I == {i \in 1 .. Len(e) : Same(e[i])}
<1>1. hash_lookup_mono(e, m) = IF I # {} THEN Min(I) ELSE 0
  BY DEF hash_lookup_mono, SelectInSeq
<1>2. CASE I = {}
  <2>1. \A i \in 1 .. Len(e) : ~ Same(e[i])
    BY <1>2
  <2>2. \A i \in 1 .. Len(e) : e[i] \in Ordered
    OBVIOUS
  <2>3. \A i \in 1 .. Len(e) : e[i].vars # m.vars
    BY <2>1, <2>2, SameFound
  <2> QED BY <1>1, <1>2, <2>3
<1>3. CASE I # {}
  <2>1. I \in SUBSET Nat /\ I \subseteq 1 .. Len(e)
    OBVIOUS
  <2> HIDE DEF I
  <2>2. PICK p \in I : \A i \in I : p <= i
    BY <1>3, <2>1, Least
  <2>3. Min(I) \in I
    BY <2>2 DEF Min
  <2> QED BY <1>1, <1>3, <2>1, <2>3
<1> QED BY <1>2, <1>3

LEMMA JoinKeeps ==
  ASSUME NEW e \in Seq(Ordered), Apart(e), NEW m \in Whole
  PROVE  Join(e, m) \in Seq(Ordered) /\ Apart(Join(e, m)) /\ Len(Join(e, m)) <= Len(e) + 1
<1> DEFINE place == hash_lookup_mono(e, m)
           n == Len(e)
           w == Join(e, m)
<1>0. n \in Nat /\ m \in Ordered
  BY DEF Whole
<1>1. w = IF place = 0 THEN Append(e, m) ELSE [e EXCEPT ![place] = mono_add_coeff(@, m.coeff)]
  BY <1>0, CopyIsSame DEF Join, JoinAt
<1>2. \/ place \in 1 .. n
      \/ place = 0 /\ \A i \in 1 .. n : e[i].vars # m.vars
  BY <1>0, LookupPlace
<1> HIDE DEF place, w
<1>3. CASE place \in 1 .. n
  <2> DEFINE x == mono_add_coeff(e[place], m.coeff)
  <2>1. e[place] \in Ordered /\ m.coeff \in Int
    BY <1>3 DEF Whole, Ordered, Mono
  <2>2. x \in Ordered /\ x.vars = e[place].vars
    <3> DEFINE y == e[place]
               c == m.coeff
    <3>0. y \in Mono /\ c \in Int /\ x = [y EXCEPT !.coeff = y.coeff + c]
      BY <2>1 DEF Ordered, mono_add_coeff
    <3> HIDE DEF x, y, c
    <3>4. y.coeff + c \in Int /\ y = [coeff |-> y.coeff, fun |-> y.fun, vars |-> y.vars]
      BY <3>0 DEF Mono
    <3>5. x \in Mono /\ x.vars = y.vars
      BY <3>0, <3>4 DEF Mono
    <3>1. x \in Mono /\ x.vars = e[place].vars
      BY <3>5 DEF y
    <3>2. InOrder(x)
      BY <2>1, <3>1 DEF Ordered, InOrder
    <3> QED BY <3>1, <3>2 DEF Ordered
  <2> HIDE DEF x
  <2>3. w = [e EXCEPT ![place] = x]
    BY <1>1, <1>3 DEF x
  <2>4. /\ w \in Seq(Ordered) /\ Len(w) = n
        /\ \A j \in 1 .. n : w[j] = IF j = place THEN x ELSE e[j]
    BY <1>3, <2>2, <2>3, ExceptSeq
  <2>5. \A j \in 1 .. n : w[j].vars = e[j].vars
    BY <2>2, <2>4
  <2> QED BY <1>0, <2>4, <2>5 DEF Apart, w
<1>4. CASE place = 0 /\ \A i \in 1 .. n : e[i].vars # m.vars
  <2>1. /\ w = Append(e, m) /\ w \in Seq(Ordered) /\ Len(w) = n + 1
        /\ \A i \in 1 .. n : w[i] = e[i]
        /\ w[n + 1] = m
    BY <1>0, <1>1, <1>4, AppendProperties
  <2>2. Apart(w)
    <3> SUFFICES ASSUME NEW i \in 1 .. n + 1, NEW k \in 1 .. n + 1, i # k
                 PROVE  w[i].vars # w[k].vars
      BY <2>1 DEF Apart
    <3>1. CASE i \in 1 .. n /\ k \in 1 .. n
      BY <2>1, <3>1 DEF Apart
    <3>2. CASE i \in 1 .. n /\ k = n + 1
      BY <1>4, <2>1, <3>2
    <3>3. CASE i = n + 1 /\ k \in 1 .. n
      BY <1>4, <2>1, <3>3
    <3> QED BY <1>0, <3>1, <3>2, <3>3
  <2> QED BY <1>0, <2>1, <2>2 DEF w
<1> QED BY <1>2, <1>3, <1>4

JoinRun(f, e) == f = [i \in 0 .. Len(e) |-> IF i = 0 THEN <<>> ELSE Join(f[i - 1], e[i])]

LEMMA JoinedApart ==
  ASSUME NEW e \in Seq(Whole)
  PROVE  /\ AllJoined(e) \in Seq(Ordered) /\ Apart(AllJoined(e))
         /\ Len(AllJoined(e)) <= Len(e)
<1> DEFINE n == Len(e)
           A(i) == {x \in Seq(Ordered) : Apart(x) /\ Len(x) <= i}
           T == [i \in 0 .. n |-> A(i)]
           F == [i \in 1 .. n |-> [x \in A(i - 1) |-> Join(x, e[i])]]
<1>1. n \in Nat /\ \A i \in 1 .. n : e[i] \in Whole
  OBVIOUS
<1>2. ASSUME NEW i \in 1 .. n, NEW x \in A(i - 1) PROVE Join(x, e[i]) \in A(i)
  <2>1. x \in Seq(Ordered) /\ Apart(x) /\ Len(x) <= i - 1 /\ Len(x) \in Nat
    OBVIOUS
  <2>2. /\ Join(x, e[i]) \in Seq(Ordered) /\ Apart(Join(x, e[i])) /\ Len(Join(x, e[i])) <= Len(x) + 1
    BY <1>1, <2>1, JoinKeeps
  <2>3. Len(Join(x, e[i])) \in Nat
    BY <2>2
  <2>4. Len(Join(x, e[i])) <= i
    BY <2>1, <2>2, <2>3
  <2> QED BY <2>2, <2>4
<1>3. <<>> \in A(0)
  BY DEF Apart
<1> HIDE DEF A
<1>4. <<>> \in T[0] /\ \A i \in 1 .. n : \A x \in T[i - 1] : F[i][x] \in T[i]
  <2>1. \A i \in 1 .. n : i \in 0 .. n /\ i - 1 \in 0 .. n
    BY <1>1
  <2>2. 0 \in 0 .. n
    BY <1>1
  <2> HIDE DEF n
  <2> QED BY <1>2, <1>3, <2>1, <2>2
<1>5. PICK f : IsRun(f, n, <<>>, F) /\ \A i \in 0 .. n : f[i] \in T[i]
  <2> HIDE DEF T, F, n
  <2> QED BY <1>1, <1>4, Rounds
<1>6. JoinRun(f, e)
  <2>1. f = [i \in 0 .. n |-> IF i = 0 THEN <<>> ELSE F[i][f[i - 1]]]
    BY <1>5 DEF IsRun
  <2>2. \A i \in 0 .. n : i # 0 => F[i][f[i - 1]] = Join(f[i - 1], e[i])
    <3> SUFFICES ASSUME NEW i \in 0 .. n, i # 0
                 PROVE  F[i][f[i - 1]] = Join(f[i - 1], e[i])
      OBVIOUS
    <3>1. i \in 1 .. n /\ i - 1 \in 0 .. n
      BY <1>1
    <3>2. f[i - 1] \in A(i - 1)
      BY <1>5, <3>1
    <3> QED BY <3>1, <3>2
  <2> HIDE DEF F
  <2> QED BY <2>1, <2>2 DEF JoinRun
<1> DEFINE h == CHOOSE g : JoinRun(g, e)
<1>7. JoinRun(h, e)
  BY <1>6
<1>8. AllJoined(e) = h[n]
  BY DEF AllJoined, JoinRun
<1> HIDE DEF h
<1>9. h[0] = <<>> /\ \A i \in 1 .. n : h[i] = Join(h[i - 1], e[i])
  <2>1. 0 \in 0 .. n /\ \A i \in 1 .. n : i \in 0 .. n /\ i # 0
    BY <1>1
  <2> QED BY <1>7, <2>1 DEF JoinRun
<1>10. h[n] \in T[n]
  <2>1. h[0] \in T[0]
    BY <1>4, <1>9
  <2>2. \A i \in 1 .. n : h[i - 1] \in T[i - 1] => h[i] \in T[i]
    <3>1. \A i \in 1 .. n : i \in 0 .. n /\ i - 1 \in 0 .. n
      BY <1>1
    <3> HIDE DEF n
    <3> QED BY <1>2, <1>9, <3>1
  <2>3. n \in 0 .. n
    BY <1>1
  <2> HIDE DEF T, n
  <2> QED BY <1>1, <2>1, <2>2, <2>3, RoundsKeep
<1>11. h[n] \in A(n)
  <2>1. n \in 0 .. n
    BY <1>1
  <2> QED BY <1>10, <2>1
<1> QED BY <1>8, <1>11 DEF A

\* w is e without place p, into which the last mono is moved.
Dropped(w, e, p) ==
  /\ w \in Seq(Ordered) /\ Len(w) = Len(e) - 1
  /\ \A k \in 1 .. Len(e) - 1 : w[k] = IF k = p THEN e[Len(e)] ELSE e[k]

LEMMA FrontOf ==
  ASSUME NEW S, NEW e \in Seq(S), Len(e) # 0
  PROVE  /\ Front(e) \in Seq(S) /\ Len(Front(e)) = Len(e) - 1
         /\ \A k \in 1 .. Len(e) - 1 : Front(e)[k] = e[k]
<1>1. Len(e) - 1 \in Int /\ 1 \in Int
  OBVIOUS
<1>2. \A i \in 1 .. Len(e) - 1 : e[i] \in S
  OBVIOUS
<1>3. /\ SubSeq(e, 1, Len(e) - 1) \in Seq(S)
      /\ Len(SubSeq(e, 1, Len(e) - 1)) = IF 1 <= Len(e) - 1 THEN (Len(e) - 1) - 1 + 1 ELSE 0
      /\ \A i \in 1 .. (Len(e) - 1) - 1 + 1 : SubSeq(e, 1, Len(e) - 1)[i] = e[1 + i - 1]
  BY ONLY <1>1, <1>2, SubSeqProperties
<1>4. \A i \in 1 .. Len(e) - 1 : i \in 1 .. (Len(e) - 1) - 1 + 1 /\ 1 + i - 1 = i
  OBVIOUS
<1>5. (IF 1 <= Len(e) - 1 THEN (Len(e) - 1) - 1 + 1 ELSE 0) = Len(e) - 1
  <2> DEFINE l == Len(e)
  <2>1. l \in Nat /\ l # 0
    OBVIOUS
  <2> HIDE DEF l
  <2>2. (IF 1 <= l - 1 THEN (l - 1) - 1 + 1 ELSE 0) = l - 1
    BY <2>1
  <2> QED BY <2>2 DEF l
<1>6. Front(e) = SubSeq(e, 1, Len(e) - 1)
  BY DEF Front
<1>7. \A i \in 1 .. Len(e) - 1 : SubSeq(e, 1, Len(e) - 1)[i] = e[i]
  <2> SUFFICES ASSUME NEW i \in 1 .. Len(e) - 1
               PROVE  SubSeq(e, 1, Len(e) - 1)[i] = e[i]
    OBVIOUS
  <2>1. SubSeq(e, 1, Len(e) - 1)[i] = e[1 + i - 1]
    BY <1>3, <1>4
  <2> QED BY <1>4, <2>1
<1> QED BY <1>3, <1>5, <1>6, <1>7

LEMMA CancelDrops ==
  ASSUME NEW e \in Seq(Ordered), NEW p \in 1 .. Len(e)
  PROVE  Dropped(IF p = Len(e) THEN Front(e) ELSE Front([e EXCEPT ![p] = Last(e)]), e, p)
<1> DEFINE n == Len(e)
<1>1. n \in Nat /\ n # 0 /\ n \in 1 .. n
  OBVIOUS
<1>2. CASE p = n
  <2>1. \A k \in 1 .. n - 1 : k # n
    BY SMTT(30), <1>1
  <2> QED BY <1>1, <1>2, <2>1, FrontOf DEF Dropped
<1>3. CASE p # n
  <2> DEFINE d == [e EXCEPT ![p] = Last(e)]
  <2>1. Last(e) \in Ordered /\ Last(e) = e[n]
    BY <1>1 DEF Last
  <2>2. /\ d \in Seq(Ordered) /\ Len(d) = n
        /\ \A j \in 1 .. n : d[j] = IF j = p THEN e[n] ELSE e[j]
    BY <2>1, ExceptSeq
  <2> HIDE DEF d
  <2>3. /\ Front(d) \in Seq(Ordered) /\ Len(Front(d)) = n - 1
        /\ \A k \in 1 .. n - 1 : Front(d)[k] = d[k]
    BY <1>1, <2>2, FrontOf
  <2>4. \A k \in 1 .. n - 1 : k \in 1 .. n
    BY <1>1
  <2> QED BY <1>3, <2>2, <2>3, <2>4 DEF Dropped, d
<1> QED BY <1>2, <1>3

LEMMA DroppedApart ==
  ASSUME NEW e \in Seq(Ordered), Apart(e), NEW p \in 1 .. Len(e), NEW w, Dropped(w, e, p)
  PROVE  Apart(w)
<1> DEFINE n == Len(e)
           o(k) == IF k = p THEN n ELSE k
<1>1. n \in Nat /\ Len(w) = n - 1
  BY DEF Dropped
<1>2. \A k \in 1 .. n - 1 : w[k] = e[o(k)] /\ o(k) \in 1 .. n
  BY <1>1 DEF Dropped
<1>3. \A i, k \in 1 .. n - 1 : i # k => o(i) # o(k)
  BY <1>1
<1> HIDE DEF o
<1> QED BY <1>1, <1>2, <1>3 DEF Apart

\* After i rounds that began with n monos: those before place "at" are not
\* zero, and every round moves on or drops one, unless all were looked at.
CancelInv(s, n, i) ==
  /\ s.elem \in Seq(Ordered) /\ Apart(s.elem) /\ Len(s.elem) <= n
  /\ s.at \in Nat \ {0} /\ s.at - 1 <= Len(s.elem)
  /\ (s.at - 1) + (n - Len(s.elem)) >= i
  /\ \A k \in 1 .. s.at - 1 : s.elem[k].coeff # 0
  /\ s = [elem |-> s.elem, at |-> s.at]

LEMMA CancelKeeps ==
  ASSUME NEW s, NEW n \in Nat, NEW i \in 1 .. n, CancelInv(s, n, i - 1)
  PROVE  CancelInv(Cancel(s), n, i)
<1> DEFINE e == s.elem
           p == s.at
           l == Len(e)
<1>1. /\ e \in Seq(Ordered) /\ Apart(e) /\ l \in Nat /\ l <= n /\ p \in Nat \ {0} /\ p - 1 <= l
      /\ (p - 1) + (n - l) >= i - 1
      /\ \A k \in 1 .. p - 1 : e[k].coeff # 0
      /\ s = [elem |-> e, at |-> p]
  BY DEF CancelInv
<1>2. Cancel(s) = IF p > l THEN s
                  ELSE IF e[p].coeff # 0 THEN [elem |-> e, at |-> p + 1]
                  ELSE [elem |-> IF p = l THEN Front(e) ELSE Front([e EXCEPT ![p] = Last(e)]),
                        at |-> p]
  <2> DEFINE w == IF p = l THEN Front(e) ELSE Front([e EXCEPT ![p] = Last(e)])
  <2>1. Cancel(s) = IF p > l THEN s
                    ELSE IF e[p].coeff # 0 THEN [s EXCEPT !.at = p + 1]
                    ELSE [s EXCEPT !.elem = w]
    BY DEF Cancel
  <2> HIDE DEF w, e, p, l
  <2>2. [s EXCEPT !.at = p + 1] = [elem |-> e, at |-> p + 1] /\ [s EXCEPT !.elem = w] = [elem |-> w, at |-> p]
    BY <1>1
  <2> QED BY <2>1, <2>2 DEF w
<1> HIDE DEF e, p, l
<1>3. CASE p > l
  <2>1. Cancel(s) = s
    BY <1>2, <1>3
  <2>2. (p - 1) + (n - l) >= i
    BY <1>1, <1>3
  <2> QED BY <1>1, <2>1, <2>2 DEF CancelInv, e, p, l
<1>4. CASE p <= l /\ e[p].coeff # 0
  <2> DEFINE t == [elem |-> e, at |-> p + 1]
  <2>1. Cancel(s) = t
    BY <1>1, <1>2, <1>4
  <2>2. p + 1 \in Nat \ {0} /\ (p + 1) - 1 <= l /\ ((p + 1) - 1) + (n - l) >= i
    BY SMTT(30), <1>1, <1>4
  <2>3. \A k \in 1 .. (p + 1) - 1 : e[k].coeff # 0
    <3>1. \A k \in 1 .. (p + 1) - 1 : k \in 1 .. p - 1 \/ k = p
      BY <1>1
    <3> QED BY <1>1, <1>4, <3>1
  <2>4. t.elem = e /\ t.at = p + 1 /\ t = [elem |-> t.elem, at |-> t.at]
    OBVIOUS
  <2> HIDE DEF t
  <2> QED BY <1>1, <2>1, <2>2, <2>3, <2>4 DEF CancelInv, l
<1>5. CASE p <= l /\ ~ e[p].coeff # 0
  <2> DEFINE w == IF p = l THEN Front(e) ELSE Front([e EXCEPT ![p] = Last(e)])
             t == [elem |-> w, at |-> p]
  <2>1. Cancel(s) = t
    BY <1>1, <1>2, <1>5
  <2>2. p \in 1 .. l
    BY <1>1, <1>5
  <2>3. Dropped(w, e, p)
    BY <1>1, <2>2, CancelDrops DEF l
  <2> HIDE DEF w
  <2>4. t.elem = w /\ t.at = p /\ t = [elem |-> t.elem, at |-> t.at]
    OBVIOUS
  <2> HIDE DEF t
  <2>5. w \in Seq(Ordered) /\ Apart(w) /\ Len(w) = l - 1
    BY <1>1, <2>2, <2>3, DroppedApart DEF Dropped, l
  <2>6. l - 1 <= n /\ p - 1 <= l - 1 /\ (p - 1) + (n - (l - 1)) >= i
    BY <1>1, <2>2
  <2>7. \A k \in 1 .. p - 1 : w[k].coeff # 0
    <3>1. \A k \in 1 .. p - 1 : k \in 1 .. l - 1 /\ k # p
      BY <1>1, <2>2
    <3>2. \A k \in 1 .. p - 1 : w[k] = e[k]
      BY <2>3, <3>1 DEF Dropped, l
    <3> QED BY <1>1, <3>2
  <2> QED BY <1>1, <2>1, <2>4, <2>5, <2>6, <2>7 DEF CancelInv
<1> QED BY <1>1, <1>3, <1>4, <1>5

CancelRun(f, e) ==
  f = [i \in 0 .. Len(e) |-> IF i = 0 THEN [elem |-> e, at |-> 1] ELSE Cancel(f[i - 1])]

LEMMA CancelledRun ==
  ASSUME NEW e \in Seq(Ordered), Apart(e)
  PROVE  \E h : /\ Cancelled(e) = h[Len(e)].elem
                /\ h[0] = [elem |-> e, at |-> 1]
                /\ \A i \in 1 .. Len(e) : h[i] = Cancel(h[i - 1])
                /\ \A i \in 0 .. Len(e) : CancelInv(h[i], Len(e), i)
<1> DEFINE n == Len(e)
           a == [elem |-> e, at |-> 1]
           A(i) == {s \in [elem : Seq(Ordered), at : Nat] : CancelInv(s, n, i)}
           T == [i \in 0 .. n |-> A(i)]
           F == [i \in 1 .. n |-> [x \in A(i - 1) |-> Cancel(x)]]
<1>1. n \in Nat
  OBVIOUS
<1>2. ASSUME NEW i \in 1 .. n, NEW x \in A(i - 1) PROVE Cancel(x) \in A(i)
  <2>1. CancelInv(Cancel(x), n, i)
    <3> HIDE DEF n
    <3> QED BY <1>1, CancelKeeps
  <2>2. Cancel(x) \in [elem : Seq(Ordered), at : Nat]
    BY <2>1 DEF CancelInv
  <2> QED BY <2>1, <2>2
<1>3. a \in A(0)
  <2>1. a.elem = e /\ a.at = 1 /\ a = [elem |-> a.elem, at |-> a.at]
    OBVIOUS
  <2>2. a \in [elem : Seq(Ordered), at : Nat]
    OBVIOUS
  <2> HIDE DEF a
  <2>3. n <= n /\ 1 \in Nat \ {0} /\ 1 - 1 <= n /\ (1 - 1) + (n - n) >= 0 /\ 1 .. 1 - 1 = {}
    BY <1>1
  <2>4. CancelInv(a, n, 0)
    BY <2>1, <2>3 DEF CancelInv
  <2> QED BY <2>2, <2>4
<1> HIDE DEF A, a
<1>4. a \in T[0] /\ \A i \in 1 .. n : \A x \in T[i - 1] : F[i][x] \in T[i]
  <2>1. \A i \in 1 .. n : i \in 0 .. n /\ i - 1 \in 0 .. n
    BY <1>1
  <2>2. 0 \in 0 .. n
    BY <1>1
  <2> HIDE DEF n
  <2> QED BY <1>2, <1>3, <2>1, <2>2
<1>5. PICK f : IsRun(f, n, a, F) /\ \A i \in 0 .. n : f[i] \in T[i]
  <2> HIDE DEF T, F, n
  <2> QED BY <1>1, <1>4, Rounds
<1>6. CancelRun(f, e)
  <2>1. f = [i \in 0 .. n |-> IF i = 0 THEN a ELSE F[i][f[i - 1]]]
    BY <1>5 DEF IsRun
  <2>2. \A i \in 0 .. n : i # 0 => F[i][f[i - 1]] = Cancel(f[i - 1])
    <3> SUFFICES ASSUME NEW i \in 0 .. n, i # 0
                 PROVE  F[i][f[i - 1]] = Cancel(f[i - 1])
      OBVIOUS
    <3>1. i \in 1 .. n /\ i - 1 \in 0 .. n
      BY <1>1
    <3>2. f[i - 1] \in A(i - 1)
      BY <1>5, <3>1
    <3> QED BY <3>1, <3>2
  <2> HIDE DEF F
  <2>3. f = [i \in 0 .. n |-> IF i = 0 THEN a ELSE Cancel(f[i - 1])]
    BY <2>1, <2>2
  <2> QED BY <2>3 DEF CancelRun, a
<1> DEFINE h == CHOOSE g : CancelRun(g, e)
<1>7. CancelRun(h, e)
  BY <1>6
<1>8. Cancelled(e) = h[n].elem
  BY DEF Cancelled, CancelRun
<1> HIDE DEF h
<1>9. h[0] = a /\ \A i \in 1 .. n : h[i] = Cancel(h[i - 1])
  <2>1. 0 \in 0 .. n /\ \A i \in 1 .. n : i \in 0 .. n /\ i # 0
    BY <1>1
  <2> QED BY <1>7, <2>1 DEF CancelRun, a
<1>10. \A i \in 0 .. n : h[i] \in T[i]
  <2>1. h[0] \in T[0]
    BY <1>4, <1>9
  <2>2. \A i \in 1 .. n : h[i - 1] \in T[i - 1] => h[i] \in T[i]
    <3>1. \A i \in 1 .. n : i \in 0 .. n /\ i - 1 \in 0 .. n
      BY <1>1
    <3> HIDE DEF n
    <3> QED BY <1>2, <1>9, <3>1
  <2> HIDE DEF T, n
  <2> QED BY <1>1, <2>1, <2>2, RoundsKeep
<1>11. \A i \in 0 .. n : CancelInv(h[i], n, i)
  BY <1>10 DEF A
<1> QED BY <1>8, <1>9, <1>11 DEF a

LEMMA CancelledWhole ==
  ASSUME NEW e \in Seq(Ordered), Apart(e)
  PROVE  Cancelled(e) \in Seq(Whole) /\ Apart(Cancelled(e)) /\ Len(Cancelled(e)) <= Len(e)
<1> DEFINE n == Len(e)
<1>1. n \in Nat
  OBVIOUS
<1>8. PICK h : Cancelled(e) = h[n].elem /\ \A i \in 0 .. n : CancelInv(h[i], n, i)
  BY CancelledRun
<1>11. CancelInv(h[n], n, n)
  <2>1. n \in 0 .. n
    BY <1>1
  <2> QED BY <1>8, <2>1
<1> DEFINE w == h[n].elem
           p == h[n].at
           l == Len(w)
<1>12. /\ w \in Seq(Ordered) /\ Apart(w) /\ l <= n /\ p \in Nat \ {0} /\ p - 1 <= l
       /\ (p - 1) + (n - l) >= n
       /\ \A k \in 1 .. p - 1 : w[k].coeff # 0
       /\ l \in Nat
  <2>1. w \in Seq(Ordered)
    BY <1>11 DEF CancelInv
  <2>2. l \in Nat
    <3> HIDE DEF w
    <3> QED BY <2>1
  <2> QED BY <1>11, <2>1, <2>2 DEF CancelInv
<1> HIDE DEF w, p
<1>13. \A k \in 1 .. l : w[k] \in Whole
  <2>1. \A k \in 1 .. l : k \in 1 .. p - 1 /\ w[k] \in Ordered
    <3> HIDE DEF n
    <3>1. \A k \in 1 .. l : w[k] \in Ordered
      BY <1>12
    <3>2. p - 1 = l
      <4> HIDE DEF l
      <4> QED BY <1>1, <1>12
    <3> QED BY <3>1, <3>2
  <2> QED BY <1>12, <2>1 DEF Whole
<1>14. w \in Seq(Whole)
  BY <1>12, <1>13, AllIn
<1> QED BY <1>8, <1>12, <1>14 DEF w

\* Simplification leaves monos that are whole and differ in their variables.
LEMMA TermSimple ==
  ASSUME NEW t, t.const \in Int, t.elem \in Seq(Whole)
  PROVE  /\ term_simplify(t) \in Term /\ Apart(term_simplify(t).elem)
         /\ term_simplify(t).const = t.const
<1> DEFINE e == t.elem
           w == Cancelled(AllJoined(e))
           size == Len(e) + TERM_EXTEND_SIZE
<1>1. /\ AllJoined(e) \in Seq(Ordered) /\ Apart(AllJoined(e)) /\ Len(AllJoined(e)) <= Len(e)
  BY JoinedApart
<1>2. w \in Seq(Whole) /\ Apart(w) /\ Len(w) <= Len(AllJoined(e))
  BY <1>1, CancelledWhole
<1>3. Len(w) \in Nat /\ Len(AllJoined(e)) \in Nat /\ Len(e) \in Nat
  <2> DEFINE j == AllJoined(e)
  <2>1. j \in Seq(Ordered)
    BY <1>1
  <2> HIDE DEF w, e, j
  <2>2. e \in Seq(Whole)
    BY DEF e
  <2>3. Len(w) \in Nat /\ Len(j) \in Nat /\ Len(e) \in Nat
    BY <1>2, <2>1, <2>2
  <2> QED BY <2>3 DEF j
<1>4. term_simplify(t) = [const |-> t.const, size |-> size, elem |-> w]
  BY DEF term_simplify
<1>5. size \in Nat \ {0} /\ Len(w) <= size
  <2> DEFINE x == Len(w)
             y == Len(AllJoined(e))
             z == Len(e)
  <2>1. x \in Nat /\ y \in Nat /\ z \in Nat /\ x <= y /\ y <= z
    BY <1>1, <1>2, <1>3
  <2>2. size = z + TERM_EXTEND_SIZE
    OBVIOUS
  <2> HIDE DEF x, y, z, size
  <2>3. size \in Nat \ {0} /\ x <= size
    BY <2>1, <2>2, ExtendNat
  <2> QED BY <2>3 DEF x
<1> HIDE DEF w, size, e
<1>6. [const |-> t.const, size |-> size, elem |-> w] \in Term
  BY <1>2, <1>5, TermMade
<1>7. term_simplify(t).elem = w /\ term_simplify(t).const = t.const
  BY <1>4
<1> QED BY <1>2, <1>4, <1>6, <1>7

LEMMA TermProduct ==
  ASSUME NEW a \in Term, NEW b \in Term
  PROVE  term_mul_term(a, b) \in Term
BY MulTermParts, TermSimple DEF term_mul_term
----------------------------------------------------------------------------
(***************************************************************************)
(* Loops over terms.                                                       *)
(***************************************************************************)
SumRun(f, terms) ==
  f = [i \in 0 .. Len(terms) |->
         IF i = 0 THEN term_new(1) ELSE term_append_term(f[i - 1], terms[i])]

LEMMA SumTermRun ==
  ASSUME NEW terms \in Seq(Term)
  PROVE  \E h : /\ SumTerm(terms) = h[Len(terms)] /\ h[0] = term_new(1)
                /\ \A i \in 1 .. Len(terms) : h[i] = term_append_term(h[i - 1], terms[i])
                /\ \A i \in 0 .. Len(terms) : h[i] \in Term
<1> DEFINE n == Len(terms)
           T == [i \in 0 .. n |-> Term]
           F == [i \in 1 .. n |-> [x \in Term |-> term_append_term(x, terms[i])]]
<1>1. n \in Nat /\ \A i \in 1 .. n : terms[i] \in Term
  OBVIOUS
<1>2. \A i \in 1 .. n : \A x \in Term : term_append_term(x, terms[i]) \in Term
  BY <1>1, TermAppend
<1>3. term_new(1) \in Term
  BY TermNew
<1>4. term_new(1) \in T[0] /\ \A i \in 1 .. n : \A x \in T[i - 1] : F[i][x] \in T[i]
  <2>1. \A i \in 1 .. n : i \in 0 .. n /\ i - 1 \in 0 .. n
    BY <1>1
  <2>2. 0 \in 0 .. n
    BY <1>1
  <2> HIDE DEF n
  <2> QED BY <1>2, <1>3, <2>1, <2>2
<1>5. PICK f : IsRun(f, n, term_new(1), F) /\ \A i \in 0 .. n : f[i] \in T[i]
  <2> HIDE DEF T, F, n
  <2> QED BY <1>1, <1>4, Rounds
<1>6. SumRun(f, terms)
  <2>1. f = [i \in 0 .. n |-> IF i = 0 THEN term_new(1) ELSE F[i][f[i - 1]]]
    BY <1>5 DEF IsRun
  <2>2. \A i \in 0 .. n : i # 0 => F[i][f[i - 1]] = term_append_term(f[i - 1], terms[i])
    <3> SUFFICES ASSUME NEW i \in 0 .. n, i # 0
                 PROVE  F[i][f[i - 1]] = term_append_term(f[i - 1], terms[i])
      OBVIOUS
    <3>1. i \in 1 .. n /\ i - 1 \in 0 .. n
      BY <1>1
    <3>2. f[i - 1] \in Term
      BY <1>5, <3>1
    <3> QED BY <3>1, <3>2
  <2> HIDE DEF F
  <2> QED BY <2>1, <2>2 DEF SumRun
<1> DEFINE h == CHOOSE g : SumRun(g, terms)
<1>7. SumRun(h, terms)
  BY <1>6
<1>8. SumTerm(terms) = h[n]
  BY DEF SumTerm, SumRun
<1> HIDE DEF h
<1>9. h[0] = term_new(1) /\ \A i \in 1 .. n : h[i] = term_append_term(h[i - 1], terms[i])
  <2>1. 0 \in 0 .. n /\ \A i \in 1 .. n : i \in 0 .. n /\ i # 0
    BY <1>1
  <2> QED BY <1>7, <2>1 DEF SumRun
<1>10. \A i \in 0 .. n : h[i] \in T[i]
  <2>1. h[0] \in T[0]
    BY <1>4, <1>9
  <2>2. \A i \in 1 .. n : h[i - 1] \in T[i - 1] => h[i] \in T[i]
    <3>1. \A i \in 1 .. n : i \in 0 .. n /\ i - 1 \in 0 .. n
      BY <1>1
    <3> HIDE DEF n
    <3> QED BY <1>2, <1>9, <3>1
  <2> HIDE DEF T, n
  <2> QED BY <1>1, <2>1, <2>2, RoundsKeep
<1> QED BY <1>8, <1>9, <1>10

LEMMA TermSum ==
  ASSUME NEW terms \in Seq(Term)
  PROVE  SumTerm(terms) \in Term
<1>1. Len(terms) \in 0 .. Len(terms)
  OBVIOUS
<1> QED BY <1>1, SumTermRun

PowerRun(f, t, e) ==
  f = [i \in 0 .. e - 1 |-> IF i = 0 THEN term_copy(t) ELSE term_mul_term(f[i - 1], t)]

\* The rounds of a power that is not the zeroth.
LEMMA PowerTermRun ==
  ASSUME NEW t \in Term, NEW e \in Nat, e # 0
  PROVE  \E h : /\ PowerTerm(t, e) = h[e - 1] /\ h[0] = term_copy(t)
                /\ \A i \in 1 .. e - 1 : h[i] = term_mul_term(h[i - 1], t)
                /\ \A i \in 0 .. e - 1 : h[i] \in Term
<1> DEFINE n == e - 1
           T == [i \in 0 .. n |-> Term]
           F == [i \in 1 .. n |-> [x \in Term |-> term_mul_term(x, t)]]
<1>1. n \in Nat
  OBVIOUS
<1>2. \A x \in Term : term_mul_term(x, t) \in Term
  BY TermProduct
<1>3. term_copy(t) \in Term
  BY TermCopy
<1>4. term_copy(t) \in T[0] /\ \A i \in 1 .. n : \A x \in T[i - 1] : F[i][x] \in T[i]
  <2>1. \A i \in 1 .. n : i \in 0 .. n /\ i - 1 \in 0 .. n
    BY <1>1
  <2>2. 0 \in 0 .. n
    BY <1>1
  <2> HIDE DEF n
  <2> QED BY <1>2, <1>3, <2>1, <2>2
<1>5. PICK f : IsRun(f, n, term_copy(t), F) /\ \A i \in 0 .. n : f[i] \in T[i]
  <2> HIDE DEF T, F, n
  <2> QED BY <1>1, <1>4, Rounds
<1>6. PowerRun(f, t, e)
  <2>1. f = [i \in 0 .. n |-> IF i = 0 THEN term_copy(t) ELSE F[i][f[i - 1]]]
    BY <1>5 DEF IsRun
  <2>2. \A i \in 0 .. n : i # 0 => F[i][f[i - 1]] = term_mul_term(f[i - 1], t)
    <3> SUFFICES ASSUME NEW i \in 0 .. n, i # 0
                 PROVE  F[i][f[i - 1]] = term_mul_term(f[i - 1], t)
      OBVIOUS
    <3>1. i \in 1 .. n /\ i - 1 \in 0 .. n
      BY <1>1
    <3>2. f[i - 1] \in Term
      BY <1>5, <3>1
    <3> QED BY <3>1, <3>2
  <2> HIDE DEF F
  <2> QED BY <2>1, <2>2 DEF PowerRun
<1> DEFINE h == CHOOSE g : PowerRun(g, t, e)
<1>7. PowerRun(h, t, e)
  BY <1>6
<1>8. PowerTerm(t, e) = h[n]
  BY DEF PowerTerm, PowerRun
<1> HIDE DEF h
<1>9. h[0] = term_copy(t) /\ \A i \in 1 .. n : h[i] = term_mul_term(h[i - 1], t)
  <2>1. 0 \in 0 .. n /\ \A i \in 1 .. n : i \in 0 .. n /\ i # 0
    BY <1>1
  <2> QED BY <1>7, <2>1 DEF PowerRun
<1>10. \A i \in 0 .. n : h[i] \in T[i]
  <2>1. h[0] \in T[0]
    BY <1>4, <1>9
  <2>2. \A i \in 1 .. n : h[i - 1] \in T[i - 1] => h[i] \in T[i]
    <3>1. \A i \in 1 .. n : i \in 0 .. n /\ i - 1 \in 0 .. n
      BY <1>1
    <3> HIDE DEF n
    <3> QED BY <1>2, <1>9, <3>1
  <2> HIDE DEF T, n
  <2> QED BY <1>1, <2>1, <2>2, RoundsKeep
<1> QED BY <1>8, <1>9, <1>10

LEMMA TermPower ==
  ASSUME NEW t \in Term, NEW e \in Nat
  PROVE  PowerTerm(t, e) \in Term
<1>1. CASE e = 0
  <2>1. term_add_constant(term_new(1), 1) \in Term
    BY TermNew, TermConst
  <2> QED BY <1>1, <2>1 DEF PowerTerm
<1>2. CASE e # 0
  <2>1. e - 1 \in 0 .. e - 1
    BY <1>2
  <2> QED BY <1>2, <2>1, PowerTermRun
<1> QED BY <1>1, <1>2

\* The condition is marked; it stays a mono with one variable.
LEMMA TermConditional ==
  ASSUME NEW v \in Var, NEW cond \in Term, NEW then \in BOOLEAN
  PROVE  LET t == term_make_conditional(term_add_elem(term_new(1), v, 1, "NONE"), cond, then)
             m == [coeff |-> 1, fun |-> IF then THEN "TRUE" ELSE "FALSE", vars |-> <<v>>]
         IN  /\ t \in Term /\ t.const = cond.const
             /\ m \in Whole /\ t.elem = <<m>> \o cond.elem
<1> DEFINE ind == term_add_elem(term_new(1), v, 1, "NONE")
           c == term_copy(ind)
           f == IF then THEN "TRUE" ELSE "FALSE"
           m == mono_set_function(c.elem[1], f)
           d == [c EXCEPT !.elem[1] = m]
<1>1. "NONE" \in MFun /\ f \in MFun
  BY DEF MFun
<1>2. ind \in Term /\ ind.elem = Append(<<>>, mono_new(1, v, "NONE"))
  BY <1>1, TermNew, TermElem
<1>3. mono_new(1, v, "NONE") \in Whole
  BY <1>1, SingleOrdered DEF Whole
<1>4. c \in Term /\ c.elem = <<mono_new(1, v, "NONE")>>
  BY <1>2, TermCopy
<1> HIDE DEF ind
<1>5. /\ c = [const |-> c.const, size |-> c.size, elem |-> c.elem]
      /\ c.const \in Int /\ c.size \in Nat \ {0} /\ c.elem \in Seq(Whole)
      /\ Len(c.elem) <= c.size
  BY <1>4, TermParts
<1>6. c.elem[1] = mono_new(1, v, "NONE") /\ Len(c.elem) = 1
  BY <1>4
<1>7. m \in Whole
  <2> DEFINE x == mono_new(1, v, "NONE")
  <2>1. x \in Mono /\ InOrder(x) /\ x.coeff # 0
    BY <1>3 DEF Whole, Ordered
  <2> HIDE DEF x, f
  <2>2. [x EXCEPT !.fun = f] \in Mono /\ [x EXCEPT !.fun = f].vars = x.vars
        /\ [x EXCEPT !.fun = f].coeff = x.coeff
    BY <1>1, <2>1 DEF Mono
  <2>3. m = [x EXCEPT !.fun = f]
    BY <1>6 DEF mono_set_function, x
  <2>4. InOrder(m)
    BY <2>1, <2>2, <2>3 DEF InOrder
  <2> QED BY <2>1, <2>2, <2>3, <2>4 DEF Whole, Ordered
<1> HIDE DEF m, c
<1>8. d = [const |-> c.const, size |-> c.size, elem |-> [c.elem EXCEPT ![1] = m]]
  BY <1>5
<1>9. [c.elem EXCEPT ![1] = m] \in Seq(Whole) /\ Len([c.elem EXCEPT ![1] = m]) = Len(c.elem)
  <2> DEFINE s == c.elem
  <2>1. s \in Seq(Whole) /\ 1 \in 1 .. Len(s)
    BY <1>5, <1>6
  <2> HIDE DEF s
  <2>2. [s EXCEPT ![1] = m] \in Seq(Whole) /\ Len([s EXCEPT ![1] = m]) = Len(s)
    BY <1>7, <2>1, ExceptSeq
  <2> QED BY <2>2 DEF s
<1>10. d \in Term
  <2> DEFINE e == [c.elem EXCEPT ![1] = m]
             a == c.const
             z == c.size
  <2>1. e \in Seq(Whole) /\ Len(e) <= z /\ a \in Int /\ z \in Nat \ {0}
    BY <1>5, <1>9
  <2>2. d = [const |-> a, size |-> z, elem |-> e]
    BY <1>8
  <2> HIDE DEF e, a, z, d
  <2>3. [const |-> a, size |-> z, elem |-> e] \in Term
    BY <2>1, TermMade
  <2> QED BY <2>2, <2>3
<1>11. term_make_conditional(ind, cond, then) = term_append_term(d, cond)
  BY DEF term_make_conditional, m, c
<1>12. d.const = c.const /\ d.elem = [c.elem EXCEPT ![1] = m]
  BY <1>8
<1>13. [c.elem EXCEPT ![1] = m] = <<m>>
  BY <1>4
<1>14. c.const = 0 /\ m = [coeff |-> 1, fun |-> f, vars |-> <<v>>]
  <2>1. term_new(1) \in Term /\ term_new(1).const = 0
    BY TermNew
  <2>2. ind.const = 0
    BY <2>1 DEF ind, term_add_elem, term_new
  <2>3. c.const = 0
    BY <1>2, <2>2, TermCopy DEF c
  <2> QED BY <1>6, <2>3 DEF m, mono_set_function, mono_new
<1>15. /\ term_append_term(d, cond) \in Term
       /\ term_append_term(d, cond).elem = d.elem \o cond.elem
       /\ term_append_term(d, cond).const = d.const + cond.const
  <2> HIDE DEF d
  <2> QED BY <1>10, TermAppend
<1>16. d.elem = <<m>> /\ d.const = 0
  BY <1>12, <1>13, <1>14
<1>17. 0 + cond.const = cond.const
  BY TermParts
<1> HIDE DEF d, f
<1> DEFINE t == term_make_conditional(ind, cond, then)
<1>18. t \in Term /\ t.const = cond.const /\ t.elem = <<m>> \o cond.elem
  BY <1>11, <1>15, <1>16, <1>17
<1>19. m = [coeff |-> 1, fun |-> f, vars |-> <<v>>]
  BY <1>14
<1> HIDE DEF t
<1> QED BY <1>7, <1>18, <1>19 DEF t, ind, f
----------------------------------------------------------------------------
(***************************************************************************)
(* Rows.                                                                   *)
(***************************************************************************)
Sides == {"RHS", "LHS", "EQUAL", "RANGE"}
Nzo   == UNION {[D -> Int \ {0}] : D \in SUBSET Var}
Row   == [type : Sides, lhs : Int, rhs : Int, nzo : Nzo,
          term : {<<>>} \cup {<<t>> : t \in Term}, ind : {<<>>} \cup (Var \X BOOLEAN)]

\* A row as the statements leave it.
IsRow(c) ==
  /\ c \in Row
  /\ c.term = <<>> \/ (c.nzo = <<>> /\ c.ind = <<>>)
  /\ \A t \in ToSet(c.term) : Apart(t.elem)

Linear == {c \in Row : c.term = <<>>}

LEMMA NzoIs ==
  ASSUME NEW f
  PROVE  f \in Nzo <=> /\ f = [v \in DOMAIN f |-> f[v]] /\ DOMAIN f \subseteq Var
                       /\ \A v \in DOMAIN f : f[v] \in Int \ {0}
BY DEF Nzo

LEMMA NzoEmpty == <<>> \in Nzo
<1>1. <<>> \in Seq(Int) /\ Len(<<>>) = 0
  OBVIOUS
<1>2. DOMAIN <<>> = {}
  BY <1>1
<1>3. <<>> = [v \in DOMAIN <<>> |-> <<>>[v]]
  OBVIOUS
<1> QED BY <1>2, <1>3, NzoIs

LEMMA NzoAdded ==
  ASSUME NEW f \in Nzo, NEW v \in Var, NEW c \in Int \ {0}
  PROVE  AddNzo(f, v, c) \in Nzo
<1>1. /\ f = [w \in DOMAIN f |-> f[w]] /\ DOMAIN f \subseteq Var
      /\ \A w \in DOMAIN f : f[w] \in Int \ {0}
  BY NzoIs
<1>2. CASE v \notin DOMAIN f
  <2> DEFINE g == [z \in DOMAIN f \cup {v} |-> IF z = v THEN c ELSE f[z]]
  <2>1. AddNzo(f, v, c) = g
    BY <1>2 DEF AddNzo, With
  <2>2. /\ DOMAIN g \subseteq Var /\ \A w \in DOMAIN g : g[w] \in Int \ {0}
        /\ g = [w \in DOMAIN g |-> g[w]]
    BY <1>1
  <2> HIDE DEF g
  <2> QED BY <2>1, <2>2, NzoIs
<1>3. CASE v \in DOMAIN f /\ f[v] + c = 0
  <2> DEFINE g == [w \in DOMAIN f \ {v} |-> f[w]]
  <2>1. AddNzo(f, v, c) = g
    BY <1>3 DEF AddNzo
  <2>2. /\ DOMAIN g \subseteq Var /\ \A w \in DOMAIN g : g[w] \in Int \ {0}
        /\ g = [w \in DOMAIN g |-> g[w]]
    BY <1>1
  <2> HIDE DEF g
  <2> QED BY <2>1, <2>2, NzoIs
<1>4. CASE v \in DOMAIN f /\ f[v] + c # 0
  <2> DEFINE g == [f EXCEPT ![v] = f[v] + c]
  <2>1. AddNzo(f, v, c) = g
    BY <1>4 DEF AddNzo
  <2>2. f[v] + c \in Int \ {0}
    BY <1>1, <1>4
  <2>3. /\ DOMAIN g = DOMAIN f /\ \A w \in DOMAIN g : g[w] = IF w = v THEN f[v] + c ELSE f[w]
        /\ g = [w \in DOMAIN g |-> g[w]]
    OBVIOUS
  <2>4. DOMAIN g \subseteq Var /\ \A w \in DOMAIN g : g[w] \in Int \ {0}
    BY <1>1, <2>2, <2>3
  <2> HIDE DEF g
  <2> QED BY <2>1, <2>3, <2>4, NzoIs
<1> QED BY <1>2, <1>3, <1>4

LEMMA WholeParts ==
  ASSUME NEW m \in Whole
  PROVE  m.vars[1] \in Var /\ m.coeff \in Int \ {0} /\ m.fun \in MFun /\ m.vars \in Seq(Var)
<1>1. m \in Mono /\ m.coeff # 0 /\ m.vars \in Seq(Var) \ {<<>>}
  BY DEF Whole, Ordered, Mono
<1> DEFINE s == m.vars
<1>2. s \in Seq(Var) /\ s # <<>>
  BY <1>1
<1> HIDE DEF s
<1>3. s[1] \in Var
  BY <1>2
<1> QED BY <1>1, <1>3 DEF Mono, s

LEMMA LinearGrows ==
  ASSUME NEW c \in Linear, NEW m \in Whole
  PROVE  AddMono(c, m) \in Linear
<1> DEFINE v == m.vars[1]
<1>1. v \in Var /\ m.coeff \in Int \ {0} /\ (m.fun = "TRUE") \in BOOLEAN
  BY WholeParts
<1>2. /\ c.type \in Sides /\ c.lhs \in Int /\ c.rhs \in Int /\ c.nzo \in Nzo /\ c.term = <<>>
      /\ c.ind \in {<<>>} \cup (Var \X BOOLEAN)
      /\ c = [type |-> c.type, lhs |-> c.lhs, rhs |-> c.rhs, nzo |-> c.nzo,
              term |-> c.term, ind |-> c.ind]
  BY DEF Linear, Row
<1>3. ASSUME NEW n \in Nzo, NEW i \in {<<>>} \cup (Var \X BOOLEAN)
      PROVE  [type |-> c.type, lhs |-> c.lhs, rhs |-> c.rhs, nzo |-> n,
              term |-> c.term, ind |-> i] \in Linear
  BY <1>2 DEF Linear, Row
<1>4. CASE m.fun \in {"TRUE", "FALSE"}
  <2> DEFINE i == <<v, m.fun = "TRUE">>
  <2>1. i \in Var \X BOOLEAN
    BY <1>1
  <2>2. AddMono(c, m) = [c EXCEPT !.ind = i]
    BY <1>4 DEF AddMono
  <2> HIDE DEF i
  <2>3. [c EXCEPT !.ind = i] = [type |-> c.type, lhs |-> c.lhs, rhs |-> c.rhs, nzo |-> c.nzo,
                                term |-> c.term, ind |-> i]
    BY <1>2
  <2> QED BY <1>2, <1>3, <2>1, <2>2, <2>3
<1>5. CASE m.fun \notin {"TRUE", "FALSE"}
  <2> DEFINE n == AddNzo(c.nzo, v, m.coeff)
  <2>1. n \in Nzo
    <3> HIDE DEF v
    <3> QED BY <1>1, <1>2, NzoAdded
  <2>2. AddMono(c, m) = [c EXCEPT !.nzo = n]
    BY <1>5 DEF AddMono
  <2> HIDE DEF n
  <2>3. [c EXCEPT !.nzo = n] = [type |-> c.type, lhs |-> c.lhs, rhs |-> c.rhs, nzo |-> n,
                                term |-> c.term, ind |-> c.ind]
    BY <1>2
  <2> QED BY <1>2, <1>3, <2>1, <2>2, <2>3
<1> QED BY <1>4, <1>5

MonosRun(f, c, e) == f = [i \in 0 .. Len(e) |-> IF i = 0 THEN c ELSE AddMono(f[i - 1], e[i])]

LEMMA LinearFilled ==
  ASSUME NEW c \in Linear, NEW e \in Seq(Whole)
  PROVE  AddMonos(c, e) \in Linear
<1> DEFINE n == Len(e)
           T == [i \in 0 .. n |-> Linear]
           F == [i \in 1 .. n |-> [x \in Linear |-> AddMono(x, e[i])]]
<1>1. n \in Nat /\ \A i \in 1 .. n : e[i] \in Whole
  OBVIOUS
<1>2. \A i \in 1 .. n : \A x \in Linear : AddMono(x, e[i]) \in Linear
  BY <1>1, LinearGrows
<1>3. c \in T[0] /\ \A i \in 1 .. n : \A x \in T[i - 1] : F[i][x] \in T[i]
  <2>1. \A i \in 1 .. n : i \in 0 .. n /\ i - 1 \in 0 .. n
    BY <1>1
  <2>2. 0 \in 0 .. n
    BY <1>1
  <2> HIDE DEF n
  <2> QED BY <1>2, <2>1, <2>2
<1>4. PICK f : IsRun(f, n, c, F) /\ \A i \in 0 .. n : f[i] \in T[i]
  <2> HIDE DEF T, F, n
  <2> QED BY <1>1, <1>3, Rounds
<1>5. MonosRun(f, c, e)
  <2>1. f = [i \in 0 .. n |-> IF i = 0 THEN c ELSE F[i][f[i - 1]]]
    BY <1>4 DEF IsRun
  <2>2. \A i \in 0 .. n : i # 0 => F[i][f[i - 1]] = AddMono(f[i - 1], e[i])
    <3> SUFFICES ASSUME NEW i \in 0 .. n, i # 0
                 PROVE  F[i][f[i - 1]] = AddMono(f[i - 1], e[i])
      OBVIOUS
    <3>1. i \in 1 .. n /\ i - 1 \in 0 .. n
      BY <1>1
    <3>2. f[i - 1] \in Linear
      BY <1>4, <3>1
    <3> QED BY <3>1, <3>2
  <2> HIDE DEF F
  <2> QED BY <2>1, <2>2 DEF MonosRun
<1> DEFINE h == CHOOSE g : MonosRun(g, c, e)
<1>6. MonosRun(h, c, e)
  BY <1>5
<1>7. AddMonos(c, e) = h[n]
  BY DEF AddMonos, MonosRun
<1> HIDE DEF h
<1>8. h[0] = c /\ \A i \in 1 .. n : h[i] = AddMono(h[i - 1], e[i])
  <2>1. 0 \in 0 .. n /\ \A i \in 1 .. n : i \in 0 .. n /\ i # 0
    BY <1>1
  <2> QED BY <1>6, <2>1 DEF MonosRun
<1>9. h[n] \in Linear
  <2>1. h[0] \in T[0]
    BY <1>3, <1>8
  <2>2. \A i \in 1 .. n : h[i - 1] \in T[i - 1] => h[i] \in T[i]
    <3>1. \A i \in 1 .. n : i \in 0 .. n /\ i - 1 \in 0 .. n
      BY <1>1
    <3> HIDE DEF n
    <3> QED BY <1>2, <1>8, <3>1
  <2>3. n \in 0 .. n
    BY <1>1
  <2>4. h[n] \in T[n]
    <3> HIDE DEF T, n
    <3> QED BY <1>1, <2>1, <2>2, <2>3, RoundsKeep
  <2> QED BY <2>3, <2>4
<1> QED BY <1>7, <1>9

\* A row with its sides and nothing in it.
LEMMA SidesSet ==
  ASSUME NEW contype \in Sides, NEW lhs \in Int, NEW rhs \in Int
  PROVE  LET c == SetSides(lps_addcon, contype, lhs, rhs)
         IN  c \in Linear /\ c.nzo = <<>> /\ c.ind = <<>> /\ c.term = <<>>
<1> DEFINE Fresh(t, l, r) == [type |-> t, lhs |-> l, rhs |-> r, nzo |-> <<>>, term |-> <<>>, ind |-> <<>>]
<1>1. lps_addcon = Fresh("FREE", 0, 0)
  BY DEF lps_addcon
<1>2. SetSides(lps_addcon, "RHS", lhs, rhs) = Fresh("RHS", 0, rhs)
  BY <1>1 DEF SetSides, lps_setrhs, BothSides
<1>3. lps_setlhs(lps_addcon, lhs) = Fresh("LHS", lhs, 0)
  <2>1. lps_setlhs(lps_addcon, lhs) =
          [lps_addcon EXCEPT !.lhs = lhs,
             !.type = BothSides(lps_addcon.type, "LHS", <<"EQUAL", "RANGE">>, lhs = lps_addcon.rhs)]
    BY DEF lps_setlhs
  <2>2. BothSides(lps_addcon.type, "LHS", <<"EQUAL", "RANGE">>, lhs = lps_addcon.rhs) = "LHS"
    BY <1>1 DEF BothSides
  <2> QED BY <1>1, <2>1, <2>2
<1>4. SetSides(lps_addcon, "LHS", lhs, rhs) = Fresh("LHS", lhs, 0)
  BY <1>3 DEF SetSides
<1>6. \A t \in Sides, l, r \in Int :
        /\ Fresh(t, l, r) \in Linear
        /\ Fresh(t, l, r).nzo = <<>> /\ Fresh(t, l, r).ind = <<>> /\ Fresh(t, l, r).term = <<>>
  BY NzoEmpty DEF Linear, Row
<1>7. "RHS" \in Sides /\ "LHS" \in Sides /\ "EQUAL" \in Sides /\ "RANGE" \in Sides /\ 0 \in Int
  BY DEF Sides
<1>8. contype = "RHS" \/ contype = "LHS" \/ contype \in {"EQUAL", "RANGE"}
  BY DEF Sides
<1> HIDE DEF Fresh
<1>9. CASE contype = "RHS"
  <2>1. SetSides(lps_addcon, contype, lhs, rhs) = Fresh("RHS", 0, rhs)
    BY <1>2, <1>9
  <2> QED BY <1>6, <1>7, <2>1
<1>10. CASE contype = "LHS"
  <2>1. SetSides(lps_addcon, contype, lhs, rhs) = Fresh("LHS", lhs, 0)
    BY <1>4, <1>10
  <2> QED BY <1>6, <1>7, <2>1
<1>11. CASE contype \in {"EQUAL", "RANGE"}
  <2> DEFINE c == Fresh("LHS", lhs, 0)
             t == IF lhs = rhs THEN "EQUAL" ELSE "RANGE"
             r == [c EXCEPT !.rhs = rhs, !.type = t]
  <2>1. c \in Linear /\ c.nzo = <<>> /\ c.ind = <<>> /\ c.term = <<>>
    BY <1>6, <1>7
  <2>2. c.type = "LHS" /\ c.lhs = lhs
    BY DEF Fresh
  <2> HIDE DEF c
  <2>3. BothSides(c.type, "RHS", <<"EQUAL", "RANGE">>, c.lhs = rhs) = t
    BY <2>2 DEF BothSides
  <2>4. lps_setrhs(c, rhs) = r
    <3> HIDE DEF t
    <3> QED BY <2>3 DEF lps_setrhs
  <2>5. SetSides(lps_addcon, contype, lhs, rhs) = r
    BY <1>3, <1>11, <2>4 DEF SetSides, c
  <2>6. t \in Sides
    BY DEF Sides
  <2> HIDE DEF t
  <2>7. r \in Row /\ r.nzo = <<>> /\ r.ind = <<>> /\ r.term = <<>>
    BY <2>1, <2>6 DEF Linear, Row
  <2> QED BY <2>5, <2>7 DEF Linear
<1> QED BY <1>8, <1>9, <1>10, <1>11

\* What xlp_addcon_term puts into the store is a row.
LEMMA RowMade ==
  ASSUME NEW contype \in Sides, NEW lhs \in Int, NEW rhs \in Int, NEW t \in Term
  PROVE  IsRow(Filled(SetSides(lps_addcon, contype, lhs, rhs), term_simplify(t)))
<1> DEFINE c == SetSides(lps_addcon, contype, lhs, rhs)
           s == term_simplify(t)
<1>1. c \in Linear /\ c.nzo = <<>> /\ c.ind = <<>> /\ c.term = <<>>
  BY SidesSet
<1>2. s \in Term /\ Apart(s.elem) /\ s.elem \in Seq(Whole)
  BY TermParts, TermSimple
<1> HIDE DEF c, s
<1>3. ASSUME Filled(c, s) = [c EXCEPT !.term = <<term_copy(s)>>]
      PROVE  IsRow(Filled(c, s))
  <2> DEFINE u == term_copy(s)
             r == [c EXCEPT !.term = <<u>>]
  <2>1. u \in Term /\ Apart(u.elem)
    BY <1>2, TermCopy
  <2> HIDE DEF u
  <2>2. /\ c.type \in Sides /\ c.lhs \in Int /\ c.rhs \in Int /\ <<>> \in Nzo
        /\ c = [type |-> c.type, lhs |-> c.lhs, rhs |-> c.rhs, nzo |-> <<>>,
                term |-> <<>>, ind |-> <<>>]
    BY <1>1, NzoEmpty DEF Linear, Row
  <2>3. r = [type |-> c.type, lhs |-> c.lhs, rhs |-> c.rhs, nzo |-> <<>>,
             term |-> <<u>>, ind |-> <<>>]
    BY <2>2
  <2>4. r \in Row /\ r.nzo = <<>> /\ r.ind = <<>> /\ r.term = <<u>>
    BY <2>1, <2>2, <2>3 DEF Row
  <2>5. ToSet(<<u>>) = {u}
    BY DEF ToSet
  <2> HIDE DEF r
  <2>6. IsRow(r)
    BY <2>1, <2>4, <2>5 DEF IsRow
  <2> QED BY <1>3, <2>6 DEF r, u
<1>4. ASSUME Filled(c, s) = AddMonos(c, s.elem)
      PROVE  IsRow(Filled(c, s))
  <2> DEFINE r == AddMonos(c, s.elem)
  <2>1. r \in Linear
    BY <1>1, <1>2, LinearFilled
  <2>2. ToSet(<<>>) = {}
    BY DEF ToSet
  <2> HIDE DEF r
  <2>3. IsRow(r)
    BY <2>1, <2>2 DEF IsRow, Linear
  <2> QED BY <1>4, <2>3 DEF r
<1>5. IsRow(Filled(c, s))
  BY <1>3, <1>4 DEF Filled
<1> QED BY <1>5 DEF c, s
----------------------------------------------------------------------------
(***************************************************************************)
(* The store.                                                              *)
(***************************************************************************)
Simple    == {t \in Term : Apart(t.elem)}
StoredRow == {c \in Row : IsRow(c)}
Sos       == [type : {1, 2}, priority : Int, sses : Seq(Var \X Int)]

TermVars(terms) == UNION {VarsOf(t) : t \in ToSet(terms)}
SosVars(s)      == {x[1] : x \in ToSet(s.sses)}
RowVars(rows)   == UNION {TermVars(rows[i].term) : i \in DOMAIN rows}
SetVars(soss)   == UNION {SosVars(soss[i]) : i \in DOMAIN soss}

Fields(l) ==
  DOMAIN l = {"vars", "cost", "obj_term", "dir", "rows", "soss", "used"}
VarsAre(l) ==
  /\ Var \subseteq DOMAIN l.vars /\ IsFiniteSet(DOMAIN l.vars)
  /\ \A v \in Var : l.vars[v] = Declared[v]
CostIs(l)  == l.cost \in [DOMAIN l.vars -> Int]
ObjIs(l)   == /\ l.obj_term \in {<<>>} \cup {<<t>> : t \in Simple}
              /\ l.dir = "NONE" => l.obj_term = <<>>
ListsAre(l) == l.rows \in Seq(StoredRow) /\ l.soss \in Seq(Sos)
UsedIs(l) == l.used = TermVars(l.obj_term) \cup RowVars(l.rows) \cup SetVars(l.soss)

\* The store as the statements leave it.
Store(l) == /\ Fields(l) /\ VarsAre(l) /\ CostIs(l) /\ ObjIs(l) /\ ListsAre(l)
            /\ UsedIs(l)

LEMMA NoneIn == ToSet(<<>>) = {} /\ \A x : ToSet(<<x>>) = {x}
<1>1. DOMAIN <<>> = {}
  <2>1. <<>> \in Seq(Int) /\ Len(<<>>) = 0
    OBVIOUS
  <2> QED BY <2>1
<1>2. \A x : DOMAIN <<x>> = {1} /\ <<x>>[1] = x
  OBVIOUS
<1> QED BY <1>1, <1>2 DEF ToSet

\* The store at the start.
LEMMA StoreMade == Store(xlp_alloc(Declared))
<1> DEFINE l == xlp_alloc(Declared)
<1>1. l = [vars |-> Declared, cost |-> [v \in DOMAIN Declared |-> 0], obj_term |-> <<>>,
           dir |-> "NONE", rows |-> <<>>, soss |-> <<>>, used |-> {}]
  BY DEF xlp_alloc
<1> HIDE DEF l
<1>2. Fields(l)
  BY <1>1 DEF Fields
<1>3. DOMAIN Declared = Var /\ IsFiniteSet(Var)
  BY TermEvalAssumption DEF Declared
<1>4. VarsAre(l)
  BY <1>1, <1>3 DEF VarsAre
<1>5. CostIs(l)
  BY <1>1, <1>3 DEF CostIs
<1>6. ObjIs(l) /\ ListsAre(l)
  BY <1>1 DEF ObjIs, ListsAre
<1>7. UsedIs(l)
  <2>1. DOMAIN <<>> = {}
    <3>1. <<>> \in Seq(Int) /\ Len(<<>>) = 0
      OBVIOUS
    <3> QED BY <3>1
  <2> QED BY <1>1, <2>1, NoneIn DEF UsedIs, TermVars, RowVars, SetVars
<1> QED BY <1>2, <1>4, <1>5, <1>6, <1>7 DEF Store, l

\* A row is appended, whose term marks its variables.
LEMMA RowAdded ==
  ASSUME NEW l, Store(l), NEW contype \in Sides, NEW lhs \in Int, NEW rhs \in Int,
         NEW t \in Term
  PROVE  LET k == xlp_addcon_term(l, contype, lhs, rhs, t)
             c == Filled(SetSides(lps_addcon, contype, lhs, rhs), term_simplify(t))
         IN  Store(k) /\ c \in StoredRow /\ k.rows = Append(l.rows, c)
<1> DEFINE c == Filled(SetSides(lps_addcon, contype, lhs, rhs), term_simplify(t))
           k == xlp_addcon_term(l, contype, lhs, rhs, t)
           u == UNION {VarsOf(c.term[i]) : i \in DOMAIN c.term}
<1>1. IsRow(c)
  BY RowMade
<1>2. c \in StoredRow
  BY <1>1 DEF StoredRow, IsRow
<1>3. k = [l EXCEPT !.rows = Append(l.rows, c), !.used = l.used \cup u]
  BY DEF xlp_addcon_term
<1>4. u = TermVars(c.term)
  BY DEF TermVars, ToSet
<1> HIDE DEF c, k, u
<1>5. Fields(l) /\ VarsAre(l) /\ CostIs(l) /\ ObjIs(l) /\ ListsAre(l) /\ UsedIs(l)
  BY DEF Store
<1>6. Fields(k)
  BY <1>3, <1>5 DEF Fields
<1>7. /\ k.rows = Append(l.rows, c) /\ k.used = l.used \cup u
      /\ k.vars = l.vars /\ k.cost = l.cost /\ k.obj_term = l.obj_term
      /\ k.dir = l.dir /\ k.soss = l.soss
  BY <1>3, <1>5 DEF Fields
<1>8. VarsAre(k)
  BY <1>5, <1>7 DEF VarsAre
<1>9. CostIs(k) /\ ObjIs(k)
  BY <1>5, <1>7 DEF CostIs, ObjIs
<1> DEFINE s == l.rows
<1>10. s \in Seq(StoredRow)
  BY <1>5 DEF ListsAre
<1>11. /\ Append(s, c) \in Seq(StoredRow) /\ Len(Append(s, c)) = Len(s) + 1
       /\ \A i \in 1 .. Len(s) : Append(s, c)[i] = s[i]
       /\ Append(s, c)[Len(s) + 1] = c
  BY <1>2, <1>10, AppendProperties
<1>12. ListsAre(k)
  BY <1>5, <1>7, <1>11 DEF ListsAre
<1>13. RowVars(Append(s, c)) = RowVars(s) \cup TermVars(c.term)
  <2> DEFINE w == Append(s, c)
             n == Len(s)
  <2>1. n \in Nat /\ DOMAIN w = 1 .. n + 1 /\ DOMAIN s = 1 .. n
        /\ (\A i \in 1 .. n : w[i] = s[i]) /\ w[n + 1] = c
    BY <1>10, <1>11
  <2> HIDE DEF w, n, s
  <2>2. DOMAIN w = DOMAIN s \cup {n + 1}
    BY <2>1
  <2>3. \A v : v \in RowVars(w) <=> \E i \in DOMAIN w : v \in TermVars(w[i].term)
    BY DEF RowVars
  <2>4. \A v : v \in RowVars(s) <=> \E i \in DOMAIN s : v \in TermVars(s[i].term)
    BY DEF RowVars
  <2>5. \A v : v \in RowVars(w) <=> v \in RowVars(s) \/ v \in TermVars(c.term)
    BY ONLY <2>1, <2>2, <2>3, <2>4
  <2>6. RowVars(w) = RowVars(s) \cup TermVars(c.term)
    BY <2>5
  <2> QED BY <2>6 DEF w
<1>14. UsedIs(k)
  <2>1. /\ l.used = TermVars(l.obj_term) \cup RowVars(l.rows) \cup SetVars(l.soss)
        /\ k.used = l.used \cup TermVars(c.term)
        /\ RowVars(k.rows) = RowVars(l.rows) \cup TermVars(c.term)
    BY <1>4, <1>5, <1>7, <1>13 DEF UsedIs
  <2>2. k.used = TermVars(l.obj_term) \cup RowVars(k.rows) \cup SetVars(l.soss)
    BY ONLY <2>1
  <2> QED BY <1>7, <2>2 DEF UsedIs
<1>15. Store(k)
  BY <1>6, <1>8, <1>9, <1>12, <1>14 DEF Store
<1> QED BY <1>2, <1>7, <1>15 DEF c, k

LEMMA Reversed ==
  ASSUME NEW S, NEW s \in Seq(S)
  PROVE  Reverse(s) \in Seq(S) /\ ToSet(Reverse(s)) = ToSet(s)
<1> DEFINE n == Len(s)
           r == [i \in 1 .. n |-> s[(n - i) + 1]]
<1>1. Reverse(s) = r
  BY DEF Reverse
<1>2. n \in Nat /\ DOMAIN s = 1 .. n /\ \A i \in 1 .. n : s[i] \in S
  OBVIOUS
<1>3. \A i \in 1 .. n : (n - i) + 1 \in 1 .. n /\ (n - ((n - i) + 1)) + 1 = i
  BY <1>2
<1>4. r \in Seq(S)
  <2>1. \A i \in 1 .. n : s[(n - i) + 1] \in S
    BY <1>2, <1>3
  <2> HIDE DEF n
  <2> QED BY <1>2, <2>1
<1>5. DOMAIN r = 1 .. n
  OBVIOUS
<1>6. \A i \in 1 .. n : r[i] = s[(n - i) + 1] /\ r[(n - i) + 1] = s[i]
  BY <1>3
<1> HIDE DEF n, r
<1>7. ToSet(r) = ToSet(s)
  <2>1. \A x : x \in ToSet(r) <=> \E i \in 1 .. n : x = r[i]
    BY <1>5 DEF ToSet
  <2>2. \A x : x \in ToSet(s) <=> \E i \in 1 .. n : x = s[i]
    BY <1>2 DEF ToSet
  <2>3. \A x : x \in ToSet(r) <=> x \in ToSet(s)
    BY ONLY <1>3, <1>6, <2>1, <2>2
  <2> QED BY <2>3
<1> QED BY <1>1, <1>4, <1>7

\* A set is appended, which marks its variables.
LEMMA SosAdded ==
  ASSUME NEW l, Store(l), NEW type \in {1, 2}, NEW priority, priority.num \in Int,
         NEW t \in Term
  PROVE  LET k == xlp_addsos_term(l, type, priority, t)
         IN  Store(k) /\ k.rows = l.rows
<1> DEFINE k == xlp_addsos_term(l, type, priority, t)
           e == t.elem
           w == [i \in DOMAIN e |-> <<e[i].vars[1], e[i].coeff>>]
           c == [type |-> type, priority |-> priority.num, sses |-> Reverse(w)]
           u == {e[i].vars[1] : i \in DOMAIN e}
<1>1. k = [l EXCEPT !.soss = Append(l.soss, c), !.used = l.used \cup u]
  BY DEF xlp_addsos_term
<1>2. e \in Seq(Whole)
  BY TermParts
<1> HIDE DEF k, e
<1>3. DOMAIN e = 1 .. Len(e) /\ Len(e) \in Nat /\ \A i \in 1 .. Len(e) : e[i] \in Whole
  BY <1>2
<1>4. \A i \in DOMAIN e : <<e[i].vars[1], e[i].coeff>> \in Var \X Int
  BY <1>3, WholeParts
<1>5. w \in Seq(Var \X Int) /\ DOMAIN w = DOMAIN e
  BY <1>3, <1>4
<1>6. u = {x[1] : x \in ToSet(w)}
  <2>1. \A i \in DOMAIN e : w[i] = <<e[i].vars[1], e[i].coeff>> /\ w[i][1] = e[i].vars[1]
    OBVIOUS
  <2>2. DOMAIN w = DOMAIN e
    OBVIOUS
  <2> HIDE DEF w
  <2>3. ToSet(w) = {w[i] : i \in DOMAIN e}
    BY <2>2 DEF ToSet
  <2>4. \A v : v \in u <=> \E i \in DOMAIN e : v = e[i].vars[1]
    OBVIOUS
  <2>5. \A v : v \in {x[1] : x \in ToSet(w)} <=> \E x \in ToSet(w) : v = x[1]
    OBVIOUS
  <2>6. \A x : x \in ToSet(w) <=> \E i \in DOMAIN e : x = w[i]
    BY <2>3
  <2> HIDE DEF u
  <2>7. \A v : v \in u <=> v \in {x[1] : x \in ToSet(w)}
    BY ONLY <2>1, <2>4, <2>5, <2>6
  <2> QED BY <2>7
<1> HIDE DEF w, u
<1>7. Reverse(w) \in Seq(Var \X Int) /\ ToSet(Reverse(w)) = ToSet(w)
  BY <1>5, Reversed
<1>8. c \in Sos /\ SosVars(c) = u
  BY <1>6, <1>7 DEF Sos, SosVars
<1> HIDE DEF c
<1>9. Fields(l) /\ VarsAre(l) /\ CostIs(l) /\ ObjIs(l) /\ ListsAre(l) /\ UsedIs(l)
  BY DEF Store
<1>10. Fields(k)
  BY <1>1, <1>9 DEF Fields
<1>11. /\ k.soss = Append(l.soss, c) /\ k.used = l.used \cup u
       /\ k.vars = l.vars /\ k.cost = l.cost /\ k.obj_term = l.obj_term
       /\ k.dir = l.dir /\ k.rows = l.rows
  BY <1>1, <1>9 DEF Fields
<1>12. VarsAre(k)
  BY <1>9, <1>11 DEF VarsAre
<1>13. CostIs(k) /\ ObjIs(k)
  BY <1>9, <1>11 DEF CostIs, ObjIs
<1> DEFINE s == l.soss
<1>14. s \in Seq(Sos)
  BY <1>9 DEF ListsAre
<1>15. /\ Append(s, c) \in Seq(Sos) /\ Len(Append(s, c)) = Len(s) + 1
       /\ \A i \in 1 .. Len(s) : Append(s, c)[i] = s[i]
       /\ Append(s, c)[Len(s) + 1] = c
  BY <1>8, <1>14, AppendProperties
<1>16. ListsAre(k)
  BY <1>9, <1>11, <1>15 DEF ListsAre
<1>17. SetVars(Append(s, c)) = SetVars(s) \cup SosVars(c)
  <2> DEFINE q == Append(s, c)
             n == Len(s)
  <2>1. n \in Nat /\ DOMAIN q = 1 .. n + 1 /\ DOMAIN s = 1 .. n
        /\ (\A i \in 1 .. n : q[i] = s[i]) /\ q[n + 1] = c
    BY <1>14, <1>15
  <2> HIDE DEF q, n, s
  <2>2. DOMAIN q = DOMAIN s \cup {n + 1}
    BY <2>1
  <2>3. \A v : v \in SetVars(q) <=> \E i \in DOMAIN q : v \in SosVars(q[i])
    BY DEF SetVars
  <2>4. \A v : v \in SetVars(s) <=> \E i \in DOMAIN s : v \in SosVars(s[i])
    BY DEF SetVars
  <2>5. \A v : v \in SetVars(q) <=> v \in SetVars(s) \/ v \in SosVars(c)
    BY ONLY <2>1, <2>2, <2>3, <2>4
  <2>6. SetVars(q) = SetVars(s) \cup SosVars(c)
    BY <2>5
  <2> QED BY <2>6 DEF q
<1>18. UsedIs(k)
  <2>1. /\ l.used = TermVars(l.obj_term) \cup RowVars(l.rows) \cup SetVars(l.soss)
        /\ k.used = l.used \cup SosVars(c)
        /\ SetVars(k.soss) = SetVars(l.soss) \cup SosVars(c)
    BY <1>8, <1>9, <1>11, <1>17 DEF UsedIs
  <2>2. k.used = TermVars(l.obj_term) \cup RowVars(l.rows) \cup SetVars(k.soss)
    BY ONLY <2>1
  <2> QED BY <1>11, <2>2 DEF UsedIs
<1>19. Store(k)
  BY <1>10, <1>12, <1>13, <1>16, <1>18 DEF Store
<1> QED BY <1>11, <1>19 DEF k

\* The costs are cleared and the direction is set.
LEMMA DirSet ==
  ASSUME NEW l, Store(l), l.dir = "NONE", NEW minimize \in BOOLEAN
  PROVE  LET k == xlp_setobj(l, minimize)
         IN  Store(k) /\ k.rows = l.rows /\ k.obj_term = <<>> /\ k.dir # "NONE"
<1> DEFINE k == xlp_setobj(l, minimize)
           c == [v \in DOMAIN l.cost |-> 0]
           d == IF minimize THEN "MIN" ELSE "MAX"
<1>1. k = [l EXCEPT !.cost = c, !.dir = d]
  BY DEF xlp_setobj
<1>2. Fields(l) /\ VarsAre(l) /\ CostIs(l) /\ ObjIs(l) /\ ListsAre(l) /\ UsedIs(l)
  BY DEF Store
<1>3. c \in [DOMAIN l.vars -> Int]
  BY <1>2 DEF CostIs
<1>4. d # "NONE"
  OBVIOUS
<1> HIDE DEF k, c, d
<1>5. Fields(k)
  BY <1>1, <1>2 DEF Fields
<1>6. /\ k.cost = c /\ k.dir = d
      /\ k.vars = l.vars /\ k.obj_term = l.obj_term
      /\ k.soss = l.soss /\ k.rows = l.rows /\ k.used = l.used
  BY <1>1, <1>2 DEF Fields
<1>7. VarsAre(k) /\ CostIs(k)
  BY <1>2, <1>3, <1>6 DEF VarsAre, CostIs
<1>8. ObjIs(k) /\ ListsAre(k) /\ k.obj_term = <<>>
  BY <1>2, <1>4, <1>6 DEF ObjIs, ListsAre
<1>9. UsedIs(k)
  BY <1>2, <1>6 DEF UsedIs
<1> QED BY <1>4, <1>5, <1>6, <1>7, <1>8, <1>9 DEF Store, k

LEMMA CostWith ==
  ASSUME NEW D, NEW f \in [D -> Int], NEW x, x \notin D, NEW y \in Int
  PROVE  With(f, x, y) \in [D \cup {x} -> Int]
<1>1. DOMAIN f = D /\ \A z \in D : f[z] \in Int
  OBVIOUS
<1>2. With(f, x, y) = [z \in D \cup {x} |-> IF z = x THEN y ELSE f[z]]
  BY <1>1 DEF With
<1>3. \A z \in D \cup {x} : (IF z = x THEN y ELSE f[z]) \in Int
  BY <1>1
<1> QED BY <1>2, <1>3

\* The constant is added as the cost of a variable.
LEMMA OffsetAdded ==
  ASSUME NEW l, Store(l), NEW const \in Int
  PROVE  LET k == WithOffset(l, const)
         IN  Store(k) /\ k.rows = l.rows /\ k.obj_term = l.obj_term /\ k.dir = l.dir
<1> DEFINE k == WithOffset(l, const)
           D == DOMAIN l.vars
<1>1. Fields(l) /\ VarsAre(l) /\ CostIs(l) /\ ObjIs(l) /\ ListsAre(l) /\ UsedIs(l)
  BY DEF Store
<1>2. CASE const = 0
  BY <1>2 DEF WithOffset
<1>3. CASE const # 0 /\ ObjOffset \in D
  <2> DEFINE c == [l.cost EXCEPT ![ObjOffset] = l.cost[ObjOffset] + const]
  <2>1. k = [l EXCEPT !.cost = c]
    BY <1>3 DEF WithOffset
  <2>2. l.cost \in [D -> Int] /\ l.cost[ObjOffset] \in Int
    BY <1>1, <1>3 DEF CostIs
  <2>3. c \in [D -> Int]
    <3> DEFINE f == l.cost
    <3>1. f \in [D -> Int] /\ f[ObjOffset] + const \in Int
      BY <2>2
    <3> HIDE DEF f, D
    <3>2. [f EXCEPT ![ObjOffset] = f[ObjOffset] + const] \in [D -> Int]
      BY <3>1
    <3> QED BY <3>2 DEF f
  <2> HIDE DEF k, c, D
  <2>4. Fields(k)
    BY <1>1, <2>1 DEF Fields
  <2>5. /\ k.cost = c /\ k.dir = l.dir
        /\ k.vars = l.vars /\ k.obj_term = l.obj_term
        /\ k.soss = l.soss /\ k.rows = l.rows /\ k.used = l.used
    BY <1>1, <2>1 DEF Fields
  <2>6. VarsAre(k) /\ CostIs(k) /\ ObjIs(k) /\ ListsAre(k) /\ UsedIs(k)
    BY <1>1, <2>3, <2>5 DEF VarsAre, CostIs, ObjIs, ListsAre, UsedIs, D
  <2> QED BY <2>4, <2>5, <2>6 DEF Store, k
<1>4. CASE const # 0 /\ ObjOffset \notin D
  <2> DEFINE x == xlp_addvar("IMP", 1, 1, [num |-> 0, den |-> 1], 0)
             w == With(l.vars, ObjOffset, x)
             c == With(l.cost, ObjOffset, const)
  <2>1. k = [l EXCEPT !.vars = w, !.cost = c]
    BY <1>4 DEF WithOffset
  <2>2. l.cost \in [D -> Int] /\ Var \subseteq D /\ IsFiniteSet(D)
    BY <1>1 DEF CostIs, VarsAre
  <2> HIDE DEF x
  <2>3. c \in [D \cup {ObjOffset} -> Int]
    <3> HIDE DEF D
    <3> QED BY <1>4, <2>2, CostWith
  <2>4. DOMAIN w = D \cup {ObjOffset} /\ \A v \in D : v # ObjOffset => w[v] = l.vars[v]
    BY DEF With
  <2>5. IsFiniteSet(D \cup {ObjOffset})
    <3> HIDE DEF D
    <3> QED BY <2>2, FS_AddElement
  <2> HIDE DEF k, c, D, w
  <2>6. Fields(k)
    BY <1>1, <2>1 DEF Fields
  <2>7. /\ k.cost = c /\ k.dir = l.dir
        /\ k.vars = w /\ k.obj_term = l.obj_term
        /\ k.soss = l.soss /\ k.rows = l.rows /\ k.used = l.used
    BY <1>1, <2>1 DEF Fields
  <2>8. \A v \in Var : w[v] = Declared[v]
    BY <1>1, <1>4, <2>2, <2>4 DEF VarsAre
  <2>9. VarsAre(k)
    BY <2>2, <2>4, <2>5, <2>7, <2>8 DEF VarsAre
  <2>10. CostIs(k) /\ ObjIs(k) /\ ListsAre(k) /\ UsedIs(k)
    BY <1>1, <2>3, <2>4, <2>7 DEF CostIs, ObjIs, ListsAre, UsedIs
  <2> QED BY <2>6, <2>7, <2>9, <2>10 DEF Store, k
<1> QED BY <1>2, <1>3, <1>4

\* The term of higher degree is copied into an empty one; there is a variable,
\* so that the empty one has room for what follows.
LEMMA EmptyGrows ==
  ASSUME NEW n \in Nat, NEW t \in Simple, t.elem # <<>>
  PROVE  /\ term_append_term(term_new(n), t) \in Simple
         /\ term_append_term(term_new(n), t).elem = t.elem
<1> DEFINE e == t.elem
           used == 0 + Len(e)
           size == IF used >= n THEN used ELSE n
           c == 0 + t.const
<1>1. t \in Term /\ e \in Seq(Whole) /\ t.const \in Int /\ Apart(e) /\ Len(e) \in Nat
  BY TermParts DEF Simple
<1>2. Len(e) # 0
  BY <1>1
<1>3. <<>> \o e = e
  BY <1>1
<1>4. Len(<<>>) = 0
  OBVIOUS
<1>5. term_append_term(term_new(n), t) = [const |-> c, size |-> size, elem |-> e]
  BY <1>1, <1>3, <1>4, CopiesAreSame DEF term_append_term, term_new
<1>6. c \in Int /\ used = Len(e) /\ size \in Nat \ {0} /\ Len(e) <= size
  BY <1>1, <1>2
<1> HIDE DEF c, size, used, e
<1>7. [const |-> c, size |-> size, elem |-> e] \in Term
  BY <1>1, <1>6, TermMade
<1>8. term_append_term(term_new(n), t).elem = e
  BY <1>5
<1> QED BY <1>1, <1>5, <1>7, <1>8 DEF Simple, e

LEMMA ObjTermAdded ==
  ASSUME NEW l, Store(l), l.obj_term = <<>>, l.dir # "NONE", NEW t \in Simple, t.elem # <<>>
  PROVE  LET k == lps_addtoobjterm(l, t) IN Store(k) /\ k.rows = l.rows
<1> DEFINE k == lps_addtoobjterm(l, t)
           n == Cardinality(DOMAIN l.vars)
           u == term_append_term(term_new(n), t)
<1>1. k = [l EXCEPT !.obj_term = <<u>>, !.used = l.used \cup VarsOf(t)]
  BY DEF lps_addtoobjterm
<1>2. Fields(l) /\ VarsAre(l) /\ CostIs(l) /\ ObjIs(l) /\ ListsAre(l) /\ UsedIs(l)
  BY DEF Store
<1>3. n \in Nat
  BY <1>2, FS_CardinalityType DEF VarsAre
<1>4. u \in Simple /\ u.elem = t.elem
  <2> HIDE DEF n
  <2> QED BY <1>3, EmptyGrows
<1>5. VarsOf(u) = VarsOf(t)
  BY <1>4 DEF VarsOf
<1> HIDE DEF k, u, n
<1>6. Fields(k)
  BY <1>1, <1>2 DEF Fields
<1>7. /\ k.obj_term = <<u>> /\ k.used = l.used \cup VarsOf(t)
      /\ k.vars = l.vars /\ k.cost = l.cost
      /\ k.dir = l.dir /\ k.soss = l.soss /\ k.rows = l.rows
  BY <1>1, <1>2 DEF Fields
<1>8. VarsAre(k) /\ CostIs(k) /\ ListsAre(k)
  BY <1>2, <1>7 DEF VarsAre, CostIs, ListsAre
<1>9. ObjIs(k)
  BY <1>4, <1>7 DEF ObjIs
<1>10. TermVars(<<u>>) = VarsOf(t) /\ TermVars(<<>>) = {}
  BY <1>5, NoneIn DEF TermVars
<1>11. UsedIs(k)
  BY <1>2, <1>7, <1>10 DEF UsedIs
<1> QED BY <1>6, <1>7, <1>8, <1>9, <1>11 DEF Store, k

CostsRun(f, cost, e) ==
  f = [i \in 0 .. Len(e) |-> IF i = 0 THEN cost ELSE AddCost(f[i - 1], e[i])]

\* A linear term adds to the costs of its variables, which are all there.
LEMMA CostsAdded ==
  ASSUME NEW D, Var \subseteq D, NEW cost \in [D -> Int], NEW e \in Seq(Whole)
  PROVE  AddCosts(cost, e) \in [D -> Int]
<1> DEFINE n == Len(e)
           C == [D -> Int]
           T == [i \in 0 .. n |-> C]
           F == [i \in 1 .. n |-> [x \in C |-> AddCost(x, e[i])]]
<1>1. n \in Nat /\ \A i \in 1 .. n : e[i] \in Whole
  OBVIOUS
<1>2. \A i \in 1 .. n : \A x \in C : AddCost(x, e[i]) \in C
  <2> SUFFICES ASSUME NEW i \in 1 .. n, NEW x \in C PROVE AddCost(x, e[i]) \in C
    OBVIOUS
  <2> DEFINE m == e[i]
             v == m.vars[1]
  <2>1. v \in D /\ m.coeff \in Int
    BY <1>1, WholeParts
  <2> HIDE DEF v
  <2>2. x[v] + m.coeff \in Int
    BY <2>1
  <2>3. AddCost(x, m) = [x EXCEPT ![v] = x[v] + m.coeff]
    BY DEF AddCost, v
  <2> QED BY <2>2, <2>3
<1> HIDE DEF C
<1>3. cost \in T[0] /\ \A i \in 1 .. n : \A x \in T[i - 1] : F[i][x] \in T[i]
  <2>1. \A i \in 1 .. n : i \in 0 .. n /\ i - 1 \in 0 .. n
    BY <1>1
  <2>2. 0 \in 0 .. n /\ cost \in C
    BY <1>1 DEF C
  <2> HIDE DEF n
  <2> QED BY <1>2, <2>1, <2>2
<1>4. PICK f : IsRun(f, n, cost, F) /\ \A i \in 0 .. n : f[i] \in T[i]
  <2> HIDE DEF T, F, n
  <2> QED BY <1>1, <1>3, Rounds
<1>5. CostsRun(f, cost, e)
  <2>1. f = [i \in 0 .. n |-> IF i = 0 THEN cost ELSE F[i][f[i - 1]]]
    BY <1>4 DEF IsRun
  <2>2. \A i \in 0 .. n : i # 0 => F[i][f[i - 1]] = AddCost(f[i - 1], e[i])
    <3> SUFFICES ASSUME NEW i \in 0 .. n, i # 0
                 PROVE  F[i][f[i - 1]] = AddCost(f[i - 1], e[i])
      OBVIOUS
    <3>1. i \in 1 .. n /\ i - 1 \in 0 .. n
      BY <1>1
    <3>2. f[i - 1] \in C
      BY <1>4, <3>1
    <3> QED BY <3>1, <3>2
  <2> HIDE DEF F
  <2> QED BY <2>1, <2>2 DEF CostsRun
<1> DEFINE h == CHOOSE g : CostsRun(g, cost, e)
<1>6. CostsRun(h, cost, e)
  BY <1>5
<1>7. AddCosts(cost, e) = h[n]
  BY DEF AddCosts, CostsRun
<1> HIDE DEF h
<1>8. h[0] = cost /\ \A i \in 1 .. n : h[i] = AddCost(h[i - 1], e[i])
  <2>1. 0 \in 0 .. n /\ \A i \in 1 .. n : i \in 0 .. n /\ i # 0
    BY <1>1
  <2> QED BY <1>6, <2>1 DEF CostsRun
<1>9. h[n] \in C
  <2>1. h[0] \in T[0]
    BY <1>3, <1>8
  <2>2. \A i \in 1 .. n : h[i - 1] \in T[i - 1] => h[i] \in T[i]
    <3>1. \A i \in 1 .. n : i \in 0 .. n /\ i - 1 \in 0 .. n
      BY <1>1
    <3> HIDE DEF n
    <3> QED BY <1>2, <1>8, <3>1
  <2>3. n \in 0 .. n
    BY <1>1
  <2>4. h[n] \in T[n]
    <3> HIDE DEF T, n
    <3> QED BY <1>1, <2>1, <2>2, <2>3, RoundsKeep
  <2> QED BY <2>3, <2>4
<1> QED BY <1>7, <1>9 DEF C

\* A term of higher degree, or one that is no polynomial, is not empty.
LEMMA HighNotEmpty ==
  ASSUME NEW t, term_get_degree(t) >= 2 \/ ~ term_is_polynomial(t)
  PROVE  t.elem # <<>>
<1> SUFFICES ASSUME t.elem = <<>> PROVE FALSE
  OBVIOUS
<1>1. DOMAIN t.elem = {}
  <2>1. <<>> \in Seq(Int) /\ Len(<<>>) = 0
    OBVIOUS
  <2> QED BY <2>1
<1>2. term_is_polynomial(t)
  BY <1>1 DEF term_is_polynomial
<1>3. term_get_degree(t) = CHOOSE d \in {} \cup {0} : \A e \in {} : e <= d
  BY <1>1 DEF term_get_degree
<1>4. term_get_degree(t) = 0
  BY <1>3
<1> QED BY <1>2, <1>4

\* What the objective statement leaves.
LEMMA ObjAdded ==
  ASSUME NEW l, Store(l), l.dir = "NONE", NEW minimize \in BOOLEAN, NEW t \in Term
  PROVE  LET k == xlp_addtoobj(xlp_setobj(l, minimize), t)
         IN  Store(k) /\ k.rows = l.rows
<1> DEFINE a == xlp_setobj(l, minimize)
           s == term_simplify(t)
           c == s.const
           b == WithOffset(a, c)
           u == term_sub_constant(s, c)
           k == xlp_addtoobj(a, t)
<1>1. Store(a) /\ a.rows = l.rows /\ a.obj_term = <<>> /\ a.dir # "NONE"
  BY DirSet
<1>2. s \in Term /\ Apart(s.elem)
  BY TermParts, TermSimple
<1> HIDE DEF a, s
<1>3. c \in Int
  BY <1>2, TermParts
<1> HIDE DEF c
<1>4. Store(b) /\ b.rows = l.rows /\ b.obj_term = <<>> /\ b.dir # "NONE"
  BY <1>1, <1>3, OffsetAdded
<1>5. u \in Term /\ u.elem = s.elem
  BY <1>2, <1>3, TermConst
<1>6. u \in Simple
  BY <1>2, <1>5 DEF Simple
<1>7. k = AddObj(b, u)
  BY DEF xlp_addtoobj, AddSimple, s, c
<1> HIDE DEF b, u, k
<1>8. CASE term_get_degree(u) >= 2 \/ ~ term_is_polynomial(u)
  <2>1. k = lps_addtoobjterm(b, u)
    BY <1>7, <1>8 DEF AddObj
  <2>2. u.elem # <<>>
    BY <1>8, HighNotEmpty
  <2>3. Store(k) /\ k.rows = b.rows
    BY <1>4, <1>6, <2>1, <2>2, ObjTermAdded
  <2> QED BY <1>4, <2>3 DEF a, k
<1>9. CASE ~ (term_get_degree(u) >= 2 \/ ~ term_is_polynomial(u))
  <2> DEFINE d == AddCosts(b.cost, u.elem)
  <2>1. k = [b EXCEPT !.cost = d]
    BY <1>7, <1>9 DEF AddObj
  <2>2. Fields(b) /\ VarsAre(b) /\ CostIs(b) /\ ObjIs(b) /\ ListsAre(b) /\ UsedIs(b)
    BY <1>4 DEF Store
  <2>3. u.elem \in Seq(Whole)
    BY <1>5, TermParts
  <2>4. d \in [DOMAIN b.vars -> Int]
    BY <2>2, <2>3, CostsAdded DEF VarsAre, CostIs
  <2> HIDE DEF d
  <2>5. Fields(k)
    BY <2>1, <2>2 DEF Fields
  <2>6. /\ k.cost = d /\ k.dir = b.dir
        /\ k.vars = b.vars /\ k.obj_term = b.obj_term
        /\ k.soss = b.soss /\ k.rows = b.rows /\ k.used = b.used
    BY <2>1, <2>2 DEF Fields
  <2>7. VarsAre(k) /\ CostIs(k) /\ ObjIs(k) /\ ListsAre(k) /\ UsedIs(k)
    BY <2>2, <2>4, <2>6 DEF VarsAre, CostIs, ObjIs, ListsAre, UsedIs
  <2> QED BY <1>4, <2>5, <2>6, <2>7 DEF Store, a, k
<1> QED BY <1>8, <1>9
----------------------------------------------------------------------------
(***************************************************************************)
(* The inductive invariant.                                                *)
(***************************************************************************)
IInv == /\ stack \in Seq(Term) /\ Store(lp)
        /\ ops \in 0 .. MaxOps

\* A declaration can be read back.
LEMMA DeclaredBounds ==
  ASSUME NEW v \in Var
  PROVE  /\ xlp_getlower(Declared[v]) = Decls[v].lower
         /\ xlp_getupper(Declared[v]) = Decls[v].upper
<1> DEFINE d == Decls[v]
           Fresh(t, l, u) == [vclass |-> "CON", type |-> t, lower |-> l, upper |-> u,
                              startval |-> 0, priority |-> 0]
           low  == IF d.lower = Infty THEN lps_addvar ELSE lps_setlower(lps_addvar, d.lower)
           both == IF d.upper = Infty THEN low ELSE lps_setupper(low, d.upper)
           x == Declared[v]
<1>1. x = [both EXCEPT !.vclass = d.vclass, !.priority = d.priority.num,
                       !.startval = IF d.startval = Unknown THEN 0 ELSE d.startval]
  BY DEF Declared, xlp_addvar
<1>2. lps_addvar = Fresh("FREE", 0, 0)
  BY DEF lps_addvar
<1>3. low = IF d.lower = Infty THEN Fresh("FREE", 0, 0) ELSE Fresh("LOWER", d.lower, 0)
  <2>1. lps_setlower(lps_addvar, d.lower) = Fresh("LOWER", d.lower, 0)
    <3> DEFINE r == lps_addvar
               y == BothSides(r.type, "LOWER", <<"FIXED", "BOXED">>, d.lower = r.upper)
    <3>1. lps_setlower(r, d.lower) = [r EXCEPT !.lower = d.lower, !.type = y]
      BY DEF lps_setlower
    <3>2. y = "LOWER"
      BY <1>2 DEF BothSides
    <3> HIDE DEF y, d
    <3> QED BY <1>2, <3>1, <3>2
  <2> QED BY <1>2, <2>1
<1> HIDE DEF low, d, x
<1>4. both = IF d.upper = Infty THEN low
             ELSE Fresh(IF d.lower = Infty THEN "UPPER"
                        ELSE IF d.lower = d.upper THEN "FIXED" ELSE "BOXED",
                        low.lower, d.upper)
  <2>1. CASE d.upper = Infty
    BY <2>1
  <2>2. CASE d.upper # Infty /\ d.lower = Infty
    <3>1. low = Fresh("FREE", 0, 0)
      BY <1>3, <2>2
    <3>2. lps_setupper(Fresh("FREE", 0, 0), d.upper) = Fresh("UPPER", 0, d.upper)
      <4> DEFINE r == Fresh("FREE", 0, 0)
                 y == BothSides(r.type, "UPPER", <<"FIXED", "BOXED">>, r.lower = d.upper)
      <4>1. lps_setupper(r, d.upper) = [r EXCEPT !.upper = d.upper, !.type = y]
        BY DEF lps_setupper
      <4>2. y = "UPPER"
        BY DEF BothSides
      <4> HIDE DEF y
      <4> QED BY <4>1, <4>2
    <3> QED BY <2>2, <3>1, <3>2
  <2>3. CASE d.upper # Infty /\ d.lower # Infty
    <3>1. low = Fresh("LOWER", d.lower, 0)
      BY <1>3, <2>3
    <3>2. lps_setupper(Fresh("LOWER", d.lower, 0), d.upper)
            = Fresh(IF d.lower = d.upper THEN "FIXED" ELSE "BOXED", d.lower, d.upper)
      <4> DEFINE r == Fresh("LOWER", d.lower, 0)
                 z == IF d.lower = d.upper THEN "FIXED" ELSE "BOXED"
                 y == BothSides(r.type, "UPPER", <<"FIXED", "BOXED">>, r.lower = d.upper)
      <4>1. lps_setupper(r, d.upper) = [r EXCEPT !.upper = d.upper, !.type = y]
        BY DEF lps_setupper
      <4>2. y = z
        BY DEF BothSides
      <4> HIDE DEF y, z
      <4>3. lps_setupper(r, d.upper) = Fresh(z, d.lower, d.upper)
        BY <4>1, <4>2
      <4> QED BY <4>3 DEF z
    <3> QED BY <2>3, <3>1, <3>2
  <2> QED BY <2>1, <2>2, <2>3
<1>5. /\ both.type = IF d.upper = Infty THEN (IF d.lower = Infty THEN "FREE" ELSE "LOWER")
                     ELSE IF d.lower = Infty THEN "UPPER"
                     ELSE IF d.lower = d.upper THEN "FIXED" ELSE "BOXED"
      /\ d.lower # Infty => both.lower = d.lower
      /\ d.upper # Infty => both.upper = d.upper
      /\ DOMAIN both = {"vclass", "type", "lower", "upper", "startval", "priority"}
  BY <1>3, <1>4
<1> HIDE DEF both
<1>6. /\ x.type = both.type /\ x.lower = both.lower /\ x.upper = both.upper
  BY <1>1, <1>5
<1>7. xlp_getlower(x) = d.lower
  <2>1. CASE d.lower = Infty
    BY <1>5, <1>6, <2>1 DEF xlp_getlower, lps_haslower
  <2>2. CASE d.lower # Infty
    BY <1>5, <1>6, <2>2 DEF xlp_getlower, lps_haslower
  <2> QED BY <2>1, <2>2
<1>8. xlp_getupper(x) = d.upper
  <2>1. CASE d.upper = Infty
    BY <1>5, <1>6, <2>1 DEF xlp_getupper, lps_hasupper
  <2>2. CASE d.upper # Infty
    BY <1>5, <1>6, <2>2 DEF xlp_getupper, lps_hasupper
  <2> QED BY <2>1, <2>2
<1> QED BY <1>7, <1>8 DEF x, d

LEMMA RowNzo ==
  ASSUME NEW c \in Row
  PROVE  DOMAIN c.nzo \subseteq Var /\ \A v \in DOMAIN c.nzo : c.nzo[v] # 0
<1>1. c.nzo \in Nzo
  BY DEF Row
<1> QED BY <1>1, NzoIs
----------------------------------------------------------------------------
(***************************************************************************)
(* The steps keep it.                                                      *)
(***************************************************************************)
LEMMA Init_IInv == Init => IInv
<1> SUFFICES ASSUME Init PROVE IInv
  OBVIOUS
<1>1. stack \in Seq(Term)
  <2>1. stack \in Seq(Plain) /\ Plain \subseteq Term
    BY TermEvalAssumption DEF Init, Plain
  <2>2. \A i \in 1 .. Len(stack) : stack[i] \in Term
    BY <2>1
  <2> QED BY <2>1, <2>2, AllIn
<1>2. Store(lp)
  BY StoreMade DEF Init
<1>3. ops \in 0 .. MaxOps
  BY TermEvalAssumption DEF Init
<1> QED BY <1>1, <1>2, <1>3 DEF IInv

\* The children of a node are terms.
LEMMA Children ==
  ASSUME IInv
  PROVE  /\ Len(stack) \in Nat
         /\ Len(stack) >= 1 => Top1 \in Term
         /\ Len(stack) >= 2 => Top1 \in Term /\ Top2 \in Term
BY DEF IInv, Top1, Top2

\* A node leaves its term in the place of its children.
LEMMA ValueKept ==
  ASSUME IInv, NEW n, NEW k \in 0 .. Len(stack), NEW term \in Term, ops < MaxOps,
         code_value_term(n, k, term)
  PROVE  IInv'
<1> DEFINE s == SubSeq(stack, 1, Len(stack) - k)
<1>1. s \in Seq(Term)
  <2>1. stack \in Seq(Term) /\ Len(stack) \in Nat /\ 1 \in Int /\ Len(stack) - k \in Int
    BY DEF IInv
  <2>2. \A i \in 1 .. Len(stack) - k : i \in 1 .. Len(stack) /\ stack[i] \in Term
    BY <2>1
  <2> QED BY <2>1, <2>2, SubSeqProperties
<1>2. stack' = Append(s, term)
  BY DEF code_value_term
<1> HIDE DEF s
<1>3. stack' \in Seq(Term)
  BY <1>1, <1>2
<1>4. lp' = lp /\ ops' = ops + 1
  BY DEF code_value_term
<1>5. Store(lp)'
  BY <1>4 DEF IInv
<1>6. (ops \in 0 .. MaxOps)'
  BY <1>4, TermEvalAssumption DEF IInv
<1> QED BY <1>3, <1>5, <1>6 DEF IInv

\* The program ends, or the statement has nothing to hand over.
LEMMA NothingKept ==
  ASSUME IInv, stack' = <<>>, UNCHANGED <<lp, ops>>
  PROVE  IInv'
<1>1. stack' \in Seq(Term)
  BY DEF IInv
<1>2. lp' = lp /\ ops' = ops
  OBVIOUS
<1>3. Store(lp)'
  BY <1>2 DEF IInv
<1>4. (ops \in 0 .. MaxOps)'
  BY <1>2 DEF IInv
<1> QED BY <1>1, <1>3, <1>4 DEF IInv

\* The store changes.
LEMMA StoreKept ==
  ASSUME IInv, Store(lp)', stack' = <<>>, ops' = ops
  PROVE  IInv'
<1>1. stack' \in Seq(Term)
  BY DEF IInv
<1>2. (ops \in 0 .. MaxOps)'
  BY DEF IInv
<1> QED BY <1>1, <1>2 DEF IInv

\* A row is handed over.
LEMMA RowKept ==
  ASSUME IInv, NEW n, NEW contype \in Sides, NEW lhs \in Int, NEW rhs \in Int,
         NEW term \in Term, AddRow(n, contype, lhs, rhs, term)
  PROVE  IInv'
<1> DEFINE k == xlp_addcon_term(lp, contype, lhs, rhs, term)
<1>1. lp' = k /\ ops' = ops /\ stack' = <<>>
  BY DEF AddRow
<1>2. Store(k)
  BY RowAdded DEF IInv
<1> HIDE DEF k
<1>3. Store(lp)'
  BY <1>1, <1>2
<1> QED BY <1>1, <1>3, StoreKept

\* Instructions on terms.
LEMMA SymbolKept ==
  ASSUME IInv, NEW v \in Var, i_symbol_deref(v)
  PROVE  IInv'
<1> DEFINE t == term_add_elem(term_new(1), v, 1, "NONE")
<1>1. 0 \in 0 .. Len(stack) /\ ops < MaxOps /\ code_value_term(<<"i_symbol_deref", v>>, 0, t)
  BY Children DEF i_symbol_deref, Room
<1>2. t \in Term
  BY TermNew, TermElem DEF MFun
<1> HIDE DEF t
<1> QED BY <1>1, <1>2, ValueKept

LEMMA ExprKept ==
  ASSUME IInv, NEW c \in Int, i_term_expr(c)
  PROVE  IInv'
<1> DEFINE t == term_add_constant(term_new(1), c)
<1>1. 0 \in 0 .. Len(stack) /\ ops < MaxOps /\ code_value_term(<<"i_term_expr", c>>, 0, t)
  BY Children DEF i_term_expr, Room
<1>2. t \in Term
  BY TermNew, TermConst
<1> HIDE DEF t
<1> QED BY <1>1, <1>2, ValueKept

LEMMA UnaryKept ==
  ASSUME IInv, NEW c \in Int, i_term_coeff(c) \/ i_term_const(c)
  PROVE  IInv'
<1>1. 1 \in 0 .. Len(stack) /\ ops < MaxOps /\ Top1 \in Term
  BY Children DEF i_term_coeff, i_term_const, Reduce
<1>2. term_copy(Top1) \in Term
  BY <1>1, TermCopy
<1>3. term_mul_coeff(term_copy(Top1), c) \in Term
  BY <1>2, TermScaled
<1>4. term_add_constant(term_copy(Top1), c) \in Term
  BY <1>2, TermConst
<1>5. CASE i_term_coeff(c)
  <2>1. code_value_term(<<"i_term_coeff", c>>, 1, term_mul_coeff(term_copy(Top1), c))
    BY <1>5 DEF i_term_coeff
  <2> QED BY <1>1, <1>3, <2>1, ValueKept
<1>6. CASE i_term_const(c)
  <2>1. code_value_term(<<"i_term_const", c>>, 1, term_add_constant(term_copy(Top1), c))
    BY <1>6 DEF i_term_const
  <2> QED BY <1>1, <1>4, <2>1, ValueKept
<1> QED BY <1>5, <1>6

LEMMA BinaryKept ==
  ASSUME IInv, i_term_add \/ i_term_sub \/ i_term_mul
  PROVE  IInv'
<1>1. 2 \in 0 .. Len(stack) /\ ops < MaxOps /\ Top1 \in Term /\ Top2 \in Term
  BY Children DEF i_term_add, i_term_sub, i_term_mul, Reduce
<1>2. AddTerm(Top2, Top1) \in Term
  BY <1>1, TermAppend, TermAdd DEF AddTerm
<1>3. term_sub_term(Top2, Top1) \in Term /\ term_mul_term(Top2, Top1) \in Term
  BY <1>1, TermSub, TermProduct
<1>4. CASE i_term_add
  <2>1. code_value_term(<<"i_term_add">>, 2, AddTerm(Top2, Top1))
    BY <1>4 DEF i_term_add
  <2> QED BY <1>1, <1>2, <2>1, ValueKept
<1>5. CASE i_term_sub
  <2>1. code_value_term(<<"i_term_sub">>, 2, term_sub_term(Top2, Top1))
    BY <1>5 DEF i_term_sub
  <2> QED BY <1>1, <1>3, <2>1, ValueKept
<1>6. CASE i_term_mul
  <2>1. code_value_term(<<"i_term_mul">>, 2, term_mul_term(Top2, Top1))
    BY <1>6 DEF i_term_mul
  <2> QED BY <1>1, <1>3, <2>1, ValueKept
<1> QED BY <1>4, <1>5, <1>6

LEMMA SumKept ==
  ASSUME IInv, NEW k \in 0 .. Len(stack), i_term_sum(k)
  PROVE  IInv'
<1> DEFINE s == SubSeq(stack, Len(stack) - k + 1, Len(stack))
<1>1. ops < MaxOps
  BY DEF i_term_sum, Reduce
<1>2. s \in Seq(Term)
  <2>1. stack \in Seq(Term) /\ Len(stack) \in Nat /\ Len(stack) - k + 1 \in 1 .. Len(stack) + 1
    BY DEF IInv
  <2>2. \A i \in Len(stack) - k + 1 .. Len(stack) : i \in 1 .. Len(stack) /\ stack[i] \in Term
    BY <2>1
  <2> QED BY <2>1, <2>2, SubSeqProperties
<1>3. SumTerm(s) \in Term
  <2> HIDE DEF s
  <2> QED BY <1>2, TermSum
<1>4. code_value_term(<<"i_term_sum", k>>, k, SumTerm(s))
  BY DEF i_term_sum
<1> HIDE DEF s
<1> QED BY <1>1, <1>3, <1>4, ValueKept

LEMMA PowerKept ==
  ASSUME IInv, NEW e \in Fraction, i_term_power(e)
  PROVE  IInv'
<1>1. 1 \in 0 .. Len(stack) /\ ops < MaxOps /\ Top1 \in Term /\ e.num \in Int
  BY Children DEF i_term_power, Reduce, Fraction
<1>2. CASE e.den # 1
  <2>1. Fail(<<"i_term_power", e>>, 112)
    BY <1>2 DEF i_term_power
  <2> QED BY <2>1, NothingKept DEF Fail
<1>3. CASE e.den = 1 /\ e.num < 0
  <2>1. Fail(<<"i_term_power", e>>, 121)
    BY <1>3 DEF i_term_power
  <2> QED BY <2>1, NothingKept DEF Fail
<1>4. CASE e.den = 1 /\ ~ e.num < 0
  <2>1. e.num \in Nat
    BY <1>1, <1>4
  <2>2. PowerTerm(Top1, e.num) \in Term
    BY <1>1, <2>1, TermPower
  <2>3. code_value_term(<<"i_term_power", e.num>>, 1, PowerTerm(Top1, e.num))
    BY <1>4 DEF i_term_power
  <2> QED BY <1>1, <2>2, <2>3, ValueKept
<1> QED BY <1>2, <1>3, <1>4

\* Statements.
LEMMA TrivialKept ==
  ASSUME IInv, NEW n, NEW failed, NEW number, Trivial(n, failed, number)
  PROVE  IInv'
<1>1. stack' = <<>> /\ UNCHANGED <<lp, ops>>
  BY DEF Trivial, Fail
<1> QED BY <1>1, NothingKept

LEMMA ComparedKept ==
  ASSUME IInv, NEW n, NEW contype \in ConType, NEW term \in Term, NEW rhs \in Int,
         Compared(n, contype, term, rhs)
  PROVE  IInv'
<1>1. contype \in Sides
  BY DEF Sides, ConType
<1>2. term_add_constant(term, rhs) \in Term
  BY TermConst
<1>3. CASE term.elem = <<>>
  BY <1>3, TrivialKept DEF Compared
<1>4. CASE term.elem # <<>>
  <2>1. AddRow(n, contype, rhs, rhs, term_add_constant(term, rhs))
    BY <1>4 DEF Compared
  <2> QED BY <1>1, <1>2, <2>1, RowKept
<1> QED BY <1>3, <1>4

LEMMA ConstraintKept ==
  ASSUME IInv, NEW contype \in ConType, i_constraint(contype)
  PROVE  IInv'
<1>1. Top1 \in Term /\ Top2 \in Term
  BY Children DEF i_constraint, Statement
<1>2. term_sub_term(Top2, Top1) \in Term /\ Top1.const - Top2.const \in Int
  BY <1>1, TermParts, TermSub
<1>3. Compared(<<"i_constraint", contype>>, contype,
               term_sub_term(Top2, Top1), Top1.const - Top2.const)
  BY DEF i_constraint
<1> QED BY <1>2, <1>3, ComparedKept

LEMMA BetweenKept ==
  ASSUME IInv, NEW n, NEW lhs \in Int, NEW rhs \in Int, NEW term \in Term,
         Between(n, lhs, rhs, term)
  PROVE  IInv'
<1>1. "RANGE" \in Sides /\ term.const \in Int
  BY TermParts DEF Sides
<1>2. term_sub_constant(term, term.const) \in Term
  BY <1>1, TermConst
<1>3. CASE term.elem = <<>>
  BY <1>3, TrivialKept DEF Between
<1>4. CASE term.elem # <<>> /\ lhs > rhs
  <2>1. Fail(n, 109)
    BY <1>4 DEF Between
  <2> QED BY <2>1, NothingKept DEF Fail
<1>5. CASE term.elem # <<>> /\ ~ lhs > rhs
  <2>1. AddRow(n, "RANGE", lhs, rhs, term_sub_constant(term, term.const))
    BY <1>5 DEF Between
  <2> QED BY <1>1, <1>2, <2>1, RowKept
<1> QED BY <1>3, <1>4, <1>5

LEMMA RangeKept ==
  ASSUME IInv, NEW lhs \in Int, NEW rhs \in Int, NEW same \in BOOLEAN,
         i_rangeconst(lhs, rhs, same)
  PROVE  IInv'
<1>1. Top1 \in Term
  BY Children DEF i_rangeconst, Statement
<1>2. term_copy(Top1) \in Term /\ lhs - Top1.const \in Int /\ rhs - Top1.const \in Int
  BY <1>1, TermCopy, TermParts
<1>3. CASE ~ same
  <2>1. Fail(<<"i_rangeconst", lhs, rhs>>, 107)
    BY <1>3 DEF i_rangeconst
  <2> QED BY <2>1, NothingKept DEF Fail
<1>4. CASE same
  <2>1. Between(<<"i_rangeconst", lhs, rhs>>, lhs - Top1.const, rhs - Top1.const,
                term_copy(Top1))
    BY <1>4 DEF i_rangeconst
  <2> QED BY <1>2, <2>1, BetweenKept
<1> QED BY <1>3, <1>4

LEMMA SosKept ==
  ASSUME IInv, NEW type \in {1, 2}, NEW priority \in Fraction, i_soset(type, priority)
  PROVE  IInv'
<1>1. Top1 \in Term /\ priority.num \in Int
  BY Children DEF i_soset, Fraction
<1>2. CASE Fail(<<"i_soset">>, 199) \/ Fail(<<"i_soset">>, -1)
  <2>1. stack' = <<>> /\ UNCHANGED <<lp, ops>>
    BY <1>2 DEF Fail
  <2> QED BY <2>1, NothingKept
<1>3. CASE /\ lp' = xlp_addsos_term(lp, type, priority, Top1) /\ stack' = <<>>
           /\ UNCHANGED <<ops, error>>
  <2>1. Store(lp) /\ stack' = <<>> /\ ops' = ops
    BY <1>3 DEF IInv
  <2>2. Store(lp')
    BY <1>1, <1>3, <2>1, SosAdded
  <2> QED BY <2>1, <2>2, StoreKept
<1> QED BY <1>2, <1>3 DEF i_soset

LEMMA ObjectiveKept ==
  ASSUME IInv, NEW minimize \in BOOLEAN, objective(minimize)
  PROVE  IInv'
<1>1. Top1 \in Term /\ Store(lp) /\ lp.dir = "NONE"
  BY Children DEF objective, Statement, IInv
<1>2. /\ lp' = xlp_addtoobj(xlp_setobj(lp, minimize), Top1)
      /\ stack' = <<>> /\ ops' = ops
  BY DEF objective
<1>3. Store(lp')
  BY <1>1, <1>2, ObjAdded
<1> QED BY <1>2, <1>3, StoreKept

LEMMA IndicatorKept ==
  ASSUME IInv, NEW b \in Result, NEW then \in BOOLEAN, NEW contype \in ConType,
         handle_vif_then_else(b, then, contype)
  PROVE  IInv'
<1> DEFINE n == <<"handle_vif_then_else", b, then, contype>>
           term == term_sub_term(Top2, Top1)
           rhs == Top1.const - Top2.const
<1>1. Top1 \in Term /\ Top2 \in Term /\ b \in Var /\ contype \in Sides
  BY Children, TermEvalAssumption DEF handle_vif_then_else, Statement, Sides, ConType
<1>2. term \in Term /\ rhs \in Int
  BY <1>1, TermParts, TermSub
<1>3. Indicated(n, b, then, contype, term, rhs)
  BY DEF handle_vif_then_else
<1> HIDE DEF n, term, rhs
<1>4. term_add_constant(term, rhs) \in Term
  BY <1>2, TermConst
<1> DEFINE u == term_make_conditional(term_add_elem(term_new(1), b, 1, "NONE"),
                                      term_add_constant(term, rhs), then)
<1>5. u \in Term
  BY <1>1, <1>4, TermConditional
<1> HIDE DEF u
<1>6. Fail(n, 181) \/ Fail(n, 222) \/ AddRow(n, contype, rhs, rhs, u)
  BY <1>3 DEF Indicated, u
<1>7. CASE Fail(n, 181) \/ Fail(n, 222)
  <2>1. stack' = <<>> /\ UNCHANGED <<lp, ops>>
    BY <1>7 DEF Fail
  <2> QED BY <2>1, NothingKept
<1>8. CASE AddRow(n, contype, rhs, rhs, u)
  BY <1>1, <1>2, <1>5, <1>8, RowKept
<1> QED BY <1>6, <1>7, <1>8

LEMMA Next_IInv == IInv /\ [Next]_vars => IInv'
<1> SUFFICES ASSUME IInv, [Next]_vars PROVE IInv'
  OBVIOUS
<1>1. ASSUME NEW v \in Var \ Result, i_symbol_deref(v) PROVE IInv'
  BY <1>1, SymbolKept
<1>2. ASSUME NEW c \in Number, i_term_expr(c) PROVE IInv'
  BY <1>2, ExprKept, TermEvalAssumption
<1>3. ASSUME NEW c \in Factor, i_term_coeff(c) PROVE IInv'
  BY <1>3, UnaryKept, TermEvalAssumption
<1>4. ASSUME NEW c \in Shift, i_term_const(c) PROVE IInv'
  BY <1>4, UnaryKept, TermEvalAssumption
<1>5. ASSUME i_term_add \/ i_term_sub \/ i_term_mul PROVE IInv'
  BY <1>5, BinaryKept
<1>6. ASSUME NEW k \in 0 .. Len(stack), i_term_sum(k) PROVE IInv'
  BY <1>6, SumKept
<1>7. ASSUME NEW e \in Exponent, i_term_power(e) PROVE IInv'
  BY <1>7, PowerKept, TermEvalAssumption
<1>8. ASSUME NEW contype \in ConType, i_constraint(contype) PROVE IInv'
  BY <1>8, ConstraintKept
<1>9. ASSUME NEW lhs \in Number, NEW rhs \in Number, NEW same \in BOOLEAN,
             i_rangeconst(lhs, rhs, same)
      PROVE  IInv'
  BY <1>9, RangeKept, TermEvalAssumption
<1>10. ASSUME NEW type \in {1, 2}, NEW priority \in Priorities, i_soset(type, priority)
       PROVE  IInv'
  BY <1>10, SosKept, TermEvalAssumption
<1>11. ASSUME NEW minimize \in BOOLEAN, objective(minimize) PROVE IInv'
  BY <1>11, ObjectiveKept
<1>12. ASSUME NEW b \in Result, NEW then \in BOOLEAN, NEW contype \in ConType,
              handle_vif_then_else(b, then, contype)
       PROVE  IInv'
  BY <1>12, IndicatorKept
<1>13. CASE UNCHANGED vars
  <2>1. stack' = stack /\ lp' = lp /\ ops' = ops
    BY <1>13 DEF vars
  <2>2. Store(lp)'
    BY <2>1 DEF IInv
  <2>3. (stack \in Seq(Term) /\ ops \in 0 .. MaxOps)'
    BY <2>1 DEF IInv
  <2> QED BY <2>2, <2>3 DEF IInv
<1> QED BY <1>1, <1>2, <1>3, <1>4, <1>5, <1>6, <1>7, <1>8, <1>9, <1>10, <1>11, <1>12, <1>13
        DEF Next

LEMMA Invariant == Spec => []IInv
BY Init_IInv, Next_IInv, PTL DEF Spec
----------------------------------------------------------------------------
(***************************************************************************)
(* Sorted lists of variables that differ hold some variable in different   *)
(* numbers: to compare the lists is to compare the products.               *)
(***************************************************************************)
Count(s, v) == Cardinality({j \in DOMAIN s : s[j] = v})

\* Up to place p the lists agree, from there on t has no s[p].
LEMMA CountsDiffer ==
  ASSUME NEW s \in Seq(Var), NEW t \in Seq(Var), NEW p \in 1 .. Len(s), p - 1 <= Len(t),
         \A j \in 1 .. p - 1 : t[j] = s[j],
         \A j \in 1 .. Len(t) : j >= p => t[j] # s[p]
  PROVE  Count(s, s[p]) # Count(t, s[p])
<1> DEFINE v == s[p]
           S == {j \in DOMAIN s : s[j] = v}
           T == {j \in DOMAIN t : t[j] = v}
<1>1. DOMAIN s = 1 .. Len(s) /\ DOMAIN t = 1 .. Len(t) /\ Len(s) \in Nat /\ Len(t) \in Nat
  OBVIOUS
<1>2. p \in S /\ p \notin T
  BY <1>1
<1>3. T \subseteq S
  <2> SUFFICES ASSUME NEW j \in 1 .. Len(t), t[j] = v PROVE j \in S
    BY <1>1
  <2>1. j < p
    OBVIOUS
  <2>2. j \in 1 .. p - 1 /\ j \in 1 .. Len(s)
    BY <1>1, <2>1
  <2> QED BY <1>1, <2>2
<1>4. IsFiniteSet(S)
  <2>1. IsFiniteSet(1 .. Len(s))
    BY <1>1, FS_Interval
  <2>2. S \subseteq 1 .. Len(s)
    BY <1>1
  <2> QED BY <2>1, <2>2, FS_Subset
<1> HIDE DEF S, T
<1>5. T # S
  BY <1>2
<1>6. Cardinality(T) # Cardinality(S)
  BY <1>3, <1>4, <1>5, FS_Subset
<1> QED BY <1>6 DEF Count, S, T

LEMMA SortedDiffer ==
  ASSUME NEW s \in Seq(Var), NEW t \in Seq(Var), Sorted(s), Sorted(t), s # t
  PROVE  \E v \in Var : Count(s, v) # Count(t, v)
<1> DEFINE n == Len(s)
           m == Len(t)
           D == {p \in Nat : /\ p \in 1 .. n \/ p \in 1 .. m
                             /\ ~ (p \in 1 .. n /\ p \in 1 .. m /\ s[p] = t[p])}
<1>1. n \in Nat /\ m \in Nat
  OBVIOUS
<1>2. D # {}
  <2> SUFFICES ASSUME D = {} PROVE FALSE
    OBVIOUS
  <2>1. \A p \in Nat : p \in 1 .. n \/ p \in 1 .. m => p \in 1 .. n /\ p \in 1 .. m /\ s[p] = t[p]
    OBVIOUS
  <2> HIDE DEF D
  <2>2. n = m
    <3>1. n # 0 => n \in 1 .. n
      BY <1>1
    <3>2. m # 0 => m \in 1 .. m
      BY <1>1
    <3>3. (n # 0 => n \in 1 .. m) /\ (m # 0 => m \in 1 .. n)
      BY <1>1, <2>1, <3>1, <3>2
    <3> HIDE DEF n, m
    <3> QED BY ONLY <1>1, <3>3
  <2>3. s = t
    BY <1>1, <2>1, <2>2
  <2> QED BY <2>3
<1>3. PICK p \in D : \A q \in D : p <= q
  <2>1. D \in SUBSET Nat
    OBVIOUS
  <2> HIDE DEF D
  <2> QED BY <1>2, <2>1, Least
<1>4. /\ p \in Nat /\ (p \in 1 .. n \/ p \in 1 .. m)
      /\ ~ (p \in 1 .. n /\ p \in 1 .. m /\ s[p] = t[p])
  BY <1>3
<1>5. \A j \in 1 .. p - 1 : j \in 1 .. n /\ j \in 1 .. m /\ s[j] = t[j]
  <2> SUFFICES ASSUME NEW j \in 1 .. p - 1,
                      ~ (j \in 1 .. n /\ j \in 1 .. m /\ s[j] = t[j])
               PROVE  FALSE
    OBVIOUS
  <2>1. j \in Nat /\ j < p /\ (j \in 1 .. n \/ j \in 1 .. m)
    BY <1>1, <1>4
  <2>2. j \in D
    BY <2>1
  <2> HIDE DEF D
  <2>3. p <= j
    BY <1>3, <2>2
  <2> QED BY <1>4, <2>1, <2>3
<1> HIDE DEF D
<1>6. p - 1 <= n /\ p - 1 <= m /\ p - 1 \in Nat
  <2>1. p \in Nat /\ p # 0
    BY <1>1, <1>4
  <2>2. p # 1 => p - 1 \in 1 .. p - 1
    BY <2>1
  <2> QED BY <1>1, <1>5, <2>1, <2>2
<1>7. \A j \in 1 .. n : Addr[s[j]] \in Nat /\ s[j] \in Var
  BY AddrNat
<1>8. \A j \in 1 .. m : Addr[t[j]] \in Nat /\ t[j] \in Var
  BY AddrNat
<1>9. CASE /\ p \in 1 .. n
           /\ \A j \in 1 .. m : j >= p => t[j] # s[p]
  <2>1. Count(s, s[p]) # Count(t, s[p])
    BY <1>5, <1>6, <1>9, CountsDiffer
  <2> QED BY <1>7, <1>9, <2>1
<1>10. CASE /\ p \in 1 .. m
            /\ \A j \in 1 .. n : j >= p => s[j] # t[p]
  <2>1. Count(t, t[p]) # Count(s, t[p])
    BY <1>5, <1>6, <1>10, CountsDiffer
  <2> QED BY <1>8, <1>10, <2>1
<1>11. CASE p \notin 1 .. n \/ p \notin 1 .. m
  <2>1. CASE p \notin 1 .. n
    <3>1. p \in 1 .. m /\ ~ \E j \in 1 .. n : j >= p
      BY <1>1, <1>4, <2>1
    <3> QED BY <1>10, <3>1
  <2>2. CASE p \notin 1 .. m
    <3>1. p \in 1 .. n /\ ~ \E j \in 1 .. m : j >= p
      BY <1>1, <1>4, <2>2
    <3> QED BY <1>9, <3>1
  <2> QED BY <1>11, <2>1, <2>2
<1>12. CASE p \in 1 .. n /\ p \in 1 .. m
  <2>1. s[p] # t[p] /\ s[p] \in Var /\ t[p] \in Var
    BY <1>4, <1>7, <1>8, <1>12
  <2>2. Addr[s[p]] # Addr[t[p]] /\ Addr[s[p]] \in Nat /\ Addr[t[p]] \in Nat
    BY <1>7, <1>8, <1>12, <2>1, AddrDiffers
  <2>3. CASE Addr[s[p]] < Addr[t[p]]
    <3>1. \A j \in 1 .. m : j >= p => t[j] # s[p]
      <4> SUFFICES ASSUME NEW j \in 1 .. m, j >= p, t[j] = s[p] PROVE FALSE
        OBVIOUS
      <4>1. Addr[t[p]] <= Addr[t[j]]
        BY <1>12 DEF Sorted
      <4> QED BY <2>2, <2>3, <4>1
    <3> QED BY <1>9, <1>12, <3>1
  <2>4. CASE Addr[t[p]] < Addr[s[p]]
    <3>1. \A j \in 1 .. n : j >= p => s[j] # t[p]
      <4> SUFFICES ASSUME NEW j \in 1 .. n, j >= p, s[j] = t[p] PROVE FALSE
        OBVIOUS
      <4>1. Addr[s[p]] <= Addr[s[j]]
        BY <1>12 DEF Sorted
      <4> QED BY <2>2, <2>4, <4>1
    <3> QED BY <1>10, <1>12, <3>1
  <2> QED BY <2>2, <2>3, <2>4
<1> QED BY <1>11, <1>12
----------------------------------------------------------------------------
(***************************************************************************)
(* The properties.                                                         *)
(***************************************************************************)
\* Where the store keeps terms.
LEMMA StoredTerms ==
  ASSUME IInv
  PROVE  /\ ToSet(lp.obj_term) \subseteq Simple
         /\ \A i \in DOMAIN lp.rows : lp.rows[i] \in StoredRow /\ ToSet(lp.rows[i].term) \subseteq Simple
<1>1. lp.obj_term \in {<<>>} \cup {<<t>> : t \in Simple} /\ lp.rows \in Seq(StoredRow)
  BY DEF IInv, Store, ObjIs, ListsAre
<1>2. ToSet(lp.obj_term) \subseteq Simple
  BY <1>1, NoneIn
<1>3. \A i \in DOMAIN lp.rows : lp.rows[i] \in StoredRow
  BY <1>1
<1>4. ASSUME NEW c \in StoredRow PROVE ToSet(c.term) \subseteq Simple
  <2>1. c.term \in {<<>>} \cup {<<t>> : t \in Term} /\ \A t \in ToSet(c.term) : Apart(t.elem)
    BY DEF StoredRow, IsRow, Row
  <2> QED BY <2>1, NoneIn DEF Simple
<1> QED BY <1>2, <1>3, <1>4

LEMMA SimpleCounts ==
  ASSUME NEW t \in Simple, NEW i \in DOMAIN t.elem, NEW k \in DOMAIN t.elem, i # k
  PROVE  \E v \in Var : Count(t.elem[i].vars, v) # Count(t.elem[k].vars, v)
<1> DEFINE e == t.elem
<1>1. e \in Seq(Whole) /\ Apart(e)
  BY TermParts DEF Simple
<1> HIDE DEF e
<1>2. i \in 1 .. Len(e) /\ k \in 1 .. Len(e) /\ e[i] \in Whole /\ e[k] \in Whole
  BY <1>1 DEF e
<1>3. e[i].vars # e[k].vars
  BY <1>1, <1>2 DEF Apart
<1>4. \A m \in Whole : m.vars \in Seq(Var) /\ Sorted(m.vars)
  BY OrderIsSorted DEF Whole, Ordered, Mono
<1>5. \E v \in Var : Count(e[i].vars, v) # Count(e[k].vars, v)
  BY <1>2, <1>3, <1>4, SortedDiffer
<1> QED BY <1>5 DEF e

LEMMA IInv_Simplified == IInv => Simplified
<1> SUFFICES ASSUME IInv PROVE Simplified
  OBVIOUS
<1> SUFFICES ASSUME NEW t \in ToSet(lp.obj_term)
                              \cup UNION {ToSet(lp.rows[j].term) : j \in DOMAIN lp.rows},
                    NEW i \in DOMAIN t.elem, NEW k \in DOMAIN t.elem, i # k
             PROVE  \E v \in Var : Count(t.elem[i].vars, v) # Count(t.elem[k].vars, v)
  BY DEF Simplified, Count
<1>1. t \in Simple
  BY StoredTerms
<1> QED BY <1>1, SimpleCounts

LEMMA IInv_TypeOK == IInv => TypeOK
<1> SUFFICES ASSUME IInv PROVE TypeOK
  OBVIOUS
<1>1. Fields(lp) /\ VarsAre(lp) /\ CostIs(lp) /\ ObjIs(lp) /\ ListsAre(lp) /\ UsedIs(lp)
  BY DEF IInv, Store
<1>2. BoundsKept
  BY <1>1, DeclaredBounds DEF BoundsKept, VarsAre
<1>3. AllTerms \subseteq Term
  <2>1. ToSet(stack) \subseteq Term
    BY DEF IInv, ToSet
  <2>2. Simple \subseteq Term
    BY DEF Simple
  <2> QED BY <2>1, <2>2, StoredTerms DEF AllTerms
<1>4. \A i \in DOMAIN lp.rows :
        /\ lp.rows[i].type # "FREE"
        /\ lp.rows[i].term = <<>> \/ (lp.rows[i].nzo = <<>> /\ lp.rows[i].ind = <<>>)
        /\ \A v \in DOMAIN lp.rows[i].nzo : lp.rows[i].nzo[v] # 0
  <2>1. \A c \in StoredRow : /\ c.type # "FREE"
                             /\ c.term = <<>> \/ (c.nzo = <<>> /\ c.ind = <<>>)
                             /\ \A v \in DOMAIN c.nzo : c.nzo[v] # 0
    BY RowNzo DEF StoredRow, IsRow, Row, Sides
  <2> QED BY <2>1, StoredTerms
<1>5. DOMAIN lp.cost = DOMAIN lp.vars
  BY <1>1 DEF CostIs
<1>6. UNION ({VarsOf(t) : t \in ToSet(lp.obj_term)}
             \cup {VarsOf(t) : t \in UNION {ToSet(lp.rows[i].term) : i \in DOMAIN lp.rows}}
             \cup {{s[1] : s \in ToSet(lp.soss[i].sses)} : i \in DOMAIN lp.soss}) = lp.used
  <2>1. TermVars(lp.obj_term) = UNION {VarsOf(t) : t \in ToSet(lp.obj_term)}
    BY DEF TermVars
  <2>2. RowVars(lp.rows)
          = UNION {VarsOf(t) : t \in UNION {ToSet(lp.rows[i].term) : i \in DOMAIN lp.rows}}
    BY DEF RowVars, TermVars
  <2>3. SetVars(lp.soss) = UNION {{s[1] : s \in ToSet(lp.soss[i].sses)} : i \in DOMAIN lp.soss}
    BY DEF SetVars, SosVars
  <2> QED BY <1>1, <2>1, <2>2, <2>3 DEF UsedIs
<1>7. ops \in 0 .. MaxOps
  BY DEF IInv
<1> QED BY <1>2, <1>3, <1>4, <1>5, <1>6, <1>7 DEF TypeOK

----------------------------------------------------------------------------
\* Whatever expressions and statements a program consists of, every term at
\* work and in the store fits into its array, has no zero coefficient and its
\* variables in order, no row is left free or split between nonzeros and a
\* term, declared bounds can be read back, and the variables marked as used
\* are those that terms and sets name (inst.c i_term_* and i_constraint,
\* xlpglue.c xlp_addvar, xlp_addcon_term, xlp_addsos_term and xlp_addtoobj).
THEOREM TermsWellFormed == Spec => []TypeOK
BY Invariant, IInv_TypeOK, PTL

\* The terms in the store have no two monos in the same variables: no matter
\* how an expression was put together, term_simplify has joined the products
\* that are alike and removed those that cancelled (term2.c term_simplify,
\* called by xlp_addcon_term and xlp_addtoobj of xlpglue.c).
THEOREM StoredSimplified == Spec => []Simplified
BY Invariant, IInv_Simplified, PTL

----------------------------------------------------------------------------
(***************************************************************************)
(* Sums over lists of monos.                                               *)
(***************************************************************************)
\* What is known of sums, in one place.
SumLaws(A, V) ==
  /\ ListSum(<<>>, V) = 0
  /\ \A e \in Seq(A) : ListSum(e, V) \in Int
  /\ \A e \in Seq(A) : \A x \in A : ListSum(Append(e, x), V) = ListSum(e, V) + V[x]
  /\ \A a \in Seq(A) : \A b \in Seq(A) : ListSum(a \o b, V) = ListSum(a, V) + ListSum(b, V)
  /\ \A a \in Seq(A) : \A k \in 1 .. Len(a) : \A y \in A :
       ListSum([a EXCEPT ![k] = y], V) = (ListSum(a, V) - V[a[k]]) + V[y]
  /\ \A a \in Seq(A) : a # <<>> => ListSum(Front(a), V) = ListSum(a, V) - V[a[Len(a)]]

LEMMA SumsObey ==
  ASSUME NEW A, NEW V \in [A -> Int]
  PROVE  SumLaws(A, V)
<1>1. /\ ListSum(<<>>, V) = 0
      /\ (\A e \in Seq(A) : ListSum(e, V) \in Int)
      /\ \A e \in Seq(A) : \A x \in A : ListSum(Append(e, x), V) = ListSum(e, V) + V[x]
  BY SumSteps
<1>2. \A a \in Seq(A) : \A b \in Seq(A) : ListSum(a \o b, V) = ListSum(a, V) + ListSum(b, V)
  BY SumConcat
<1>3. \A a \in Seq(A) : \A k \in 1 .. Len(a) : \A y \in A :
        ListSum([a EXCEPT ![k] = y], V) = (ListSum(a, V) - V[a[k]]) + V[y]
  BY SumChanged
<1>4. ASSUME NEW a \in Seq(A), a # <<>>
      PROVE  ListSum(Front(a), V) = ListSum(a, V) - V[a[Len(a)]]
  <2>1. PICK t \in Seq(A), x \in A : a = Append(t, x)
    BY <1>4, SequenceEmptyOrAppend
  <2>2. Len(a) = Len(t) + 1 /\ a[Len(t) + 1] = x /\ Front(a) = t
    <3>1. Len(a) = Len(t) + 1 /\ Len(t) \in Nat /\ a[Len(t) + 1] = x /\ \A i \in 1 .. Len(t) : a[i] = t[i]
      BY <2>1, AppendProperties
    <3>2. Len(a) # 0 /\ Len(a) - 1 = Len(t)
      BY ONLY <3>1
    <3>3. /\ Front(a) \in Seq(A) /\ Len(Front(a)) = Len(a) - 1
          /\ \A k \in 1 .. Len(a) - 1 : Front(a)[k] = a[k]
      BY <3>2, FrontOf
    <3>4. Front(a) = t
      BY <3>1, <3>2, <3>3, SeqEqual
    <3> QED BY <3>1, <3>4
  <2>3. ListSum(a, V) = ListSum(t, V) + V[x] /\ ListSum(t, V) \in Int /\ V[x] \in Int
    BY <1>1, <2>1
  <2>4. a[Len(a)] = x
    BY ONLY <2>2
  <2> QED BY ONLY <2>2, <2>3, <2>4
<1> QED BY <1>1, <1>2, <1>3, <1>4 DEF SumLaws

Runs(A, S, z, g) ==
  \A e \in Seq(A) :
    /\ \E f : IsFold(f, e, z, g) /\ \A i \in 0 .. Len(e) : f[i] \in S
    /\ \A h : h[0] = z /\ (\A i \in 1 .. Len(e) : h[i - 1] \in S => h[i] = g[e[i]][h[i - 1]])
               => h[Len(e)] = Folded(e, z, g)

LEMMA FoldRuns ==
  ASSUME NEW A, NEW S, NEW z \in S, NEW g \in [A -> [S -> S]]
  PROVE  Runs(A, S, z, g)
<1>1. \A e \in Seq(A) : \E f : IsFold(f, e, z, g) /\ \A i \in 0 .. Len(e) : f[i] \in S
  <2>1. \A e \in Seq(A) :
        \E f : /\ IsFold(f, e, z, g) /\ Folded(e, z, g) = f[Len(e)]
               /\ \A i \in 0 .. Len(e) : f[i] \in S
               /\ f[0] = z /\ \A i \in 1 .. Len(e) : f[i] = g[e[i]][f[i - 1]]
    BY FoldRun
  <2> QED BY ONLY <2>1
<1>2. \A e \in Seq(A) : \A h :
         h[0] = z /\ (\A i \in 1 .. Len(e) : h[i - 1] \in S => h[i] = g[e[i]][h[i - 1]])
           => h[Len(e)] = Folded(e, z, g)
  <2> SUFFICES ASSUME NEW e \in Seq(A), NEW h, h[0] = z,
                      \A i \in 1 .. Len(e) : h[i - 1] \in S => h[i] = g[e[i]][h[i - 1]]
               PROVE  h[Len(e)] = Folded(e, z, g)
    OBVIOUS
  <2>1. Obeys(h, e, S, z, g)
    BY DEF Obeys
  <2> QED BY <2>1, FoldIs
<1> QED BY ONLY <1>1, <1>2 DEF Runs

\* The loops of the model: they have values, and these are sums and products.
Loops(A, V) ==
  \A e \in Seq(A) : \A c \in Int :
    /\ \E f : f = [i \in 0 .. Len(e) |-> IF i = 0 THEN c ELSE f[i - 1] + V[e[i]]]
    /\ \E f : f = [i \in 0 .. Len(e) |-> IF i = 0 THEN c ELSE f[i - 1] * V[e[i]]]
    /\ \A h : h[0] = c /\ (\A i \in 1 .. Len(e) : h[i - 1] \in Int => h[i] = h[i - 1] + V[e[i]])
               => h[Len(e)] = c + ListSum(e, V)
    /\ \A h : h[0] = c /\ (\A i \in 1 .. Len(e) : h[i - 1] \in Int => h[i] = h[i - 1] * V[e[i]])
               => h[Len(e)] = c * ListProd(e, V)

LEMMA LoopsSum ==
  ASSUME NEW A, NEW V \in [A -> Int]
  PROVE  Loops(A, V)
<1> SUFFICES ASSUME NEW e \in Seq(A), NEW c \in Int
             PROVE  /\ \E f : f = [i \in 0 .. Len(e) |-> IF i = 0 THEN c ELSE f[i - 1] + V[e[i]]]
                    /\ \E f : f = [i \in 0 .. Len(e) |-> IF i = 0 THEN c ELSE f[i - 1] * V[e[i]]]
                    /\ \A h : h[0] = c /\ (\A i \in 1 .. Len(e) : h[i - 1] \in Int => h[i] = h[i - 1] + V[e[i]])
                               => h[Len(e)] = c + ListSum(e, V)
                    /\ \A h : h[0] = c /\ (\A i \in 1 .. Len(e) : h[i - 1] \in Int => h[i] = h[i - 1] * V[e[i]])
                               => h[Len(e)] = c * ListProd(e, V)
  BY DEF Loops
<1> DEFINE g == Adding(V)
           k == Multiplying(V)
           n == Len(e)
<1>1. /\ g \in [A -> [Int -> Int]] /\ k \in [A -> [Int -> Int]]
      /\ \A x \in A : \A s \in Int : g[x][s] = s + V[x] /\ k[x][s] = s * V[x]
  BY RoundsOfSums
<1>2. n \in Nat /\ \A i \in 1 .. n : e[i] \in A
  OBVIOUS
<1>3. \A i \in 0 .. n : i # 0 => i \in 1 .. n /\ i - 1 \in 0 .. n
  BY <1>2
<1>4. \E f : f = [i \in 0 .. n |-> IF i = 0 THEN c ELSE f[i - 1] + V[e[i]]]
  <2>1. PICK f : IsFold(f, e, c, g) /\ \A i \in 0 .. n : f[i] \in Int
    <3>1. \E f : IsFold(f, e, c, g) /\ \A i \in 0 .. Len(e) : f[i] \in Int
      <4>1. g \in [A -> [Int -> Int]]
        BY <1>1
      <4> HIDE DEF g
      <4>2. Runs(A, Int, c, g)
        BY ONLY <4>1, FoldRuns, c \in Int
      <4> QED BY <4>2 DEF Runs
    <3> QED BY <3>1
  <2>2. f = [i \in 0 .. n |-> IF i = 0 THEN c ELSE g[e[i]][f[i - 1]]]
    BY <2>1 DEF IsFold
  <2> HIDE DEF g
  <2>3. \A i \in 0 .. n : i # 0 => g[e[i]][f[i - 1]] = f[i - 1] + V[e[i]]
    <3> HIDE DEF n
    <3> QED BY <1>1, <1>2, <1>3, <2>1
  <2>4. f = [i \in 0 .. n |-> IF i = 0 THEN c ELSE f[i - 1] + V[e[i]]]
    BY <2>2, <2>3
  <2> QED BY <2>4
<1>5. \E f : f = [i \in 0 .. n |-> IF i = 0 THEN c ELSE f[i - 1] * V[e[i]]]
  <2>1. PICK f : IsFold(f, e, c, k) /\ \A i \in 0 .. n : f[i] \in Int
    <3>1. \E f : IsFold(f, e, c, k) /\ \A i \in 0 .. Len(e) : f[i] \in Int
      <4>1. k \in [A -> [Int -> Int]]
        BY <1>1
      <4> HIDE DEF k
      <4>2. Runs(A, Int, c, k)
        BY ONLY <4>1, FoldRuns, c \in Int
      <4> QED BY <4>2 DEF Runs
    <3> QED BY <3>1
  <2>2. f = [i \in 0 .. n |-> IF i = 0 THEN c ELSE k[e[i]][f[i - 1]]]
    BY <2>1 DEF IsFold
  <2> HIDE DEF k
  <2>3. \A i \in 0 .. n : i # 0 => k[e[i]][f[i - 1]] = f[i - 1] * V[e[i]]
    <3> HIDE DEF n
    <3> QED BY <1>1, <1>2, <1>3, <2>1
  <2>4. f = [i \in 0 .. n |-> IF i = 0 THEN c ELSE f[i - 1] * V[e[i]]]
    BY <2>2, <2>3
  <2> QED BY <2>4
<1>6. ASSUME NEW h, h[0] = c, \A i \in 1 .. n : h[i - 1] \in Int => h[i] = h[i - 1] + V[e[i]]
      PROVE  h[n] = c + ListSum(e, V)
  <2>1. \A i \in 1 .. Len(e) : h[i - 1] \in Int => h[i] = g[e[i]][h[i - 1]]
    <3> HIDE DEF g
    <3> QED BY ZenonT(60), <1>1, <1>2, <1>6
  <2>2. h[Len(e)] = Folded(e, c, g)
    <3>1. g \in [A -> [Int -> Int]] /\ h[0] = c
      BY <1>1, <1>6
    <3> HIDE DEF g
    <3>2. Runs(A, Int, c, g)
      BY ONLY <3>1, FoldRuns, c \in Int
    <3> QED BY <2>1, <3>1, <3>2 DEF Runs
  <2> QED BY <2>2, SumFrom
<1>7. ASSUME NEW h, h[0] = c, \A i \in 1 .. n : h[i - 1] \in Int => h[i] = h[i - 1] * V[e[i]]
      PROVE  h[n] = c * ListProd(e, V)
  <2>1. \A i \in 1 .. Len(e) : h[i - 1] \in Int => h[i] = k[e[i]][h[i - 1]]
    <3> HIDE DEF k
    <3> QED BY ZenonT(60), <1>1, <1>2, <1>7
  <2>2. h[Len(e)] = Folded(e, c, k)
    <3>1. k \in [A -> [Int -> Int]] /\ h[0] = c
      BY <1>1, <1>7
    <3> HIDE DEF k
    <3>2. Runs(A, Int, c, k)
      BY ONLY <3>1, FoldRuns, c \in Int
    <3> QED BY <2>1, <3>1, <3>2 DEF Runs
  <2> QED BY <2>2, ProdFrom
<1> QED BY <1>4, <1>5, <1>6, <1>7
----------------------------------------------------------------------------
(***************************************************************************)
(* The value of a mono.                                                    *)
(***************************************************************************)
LEMMA TimesSwap == \A x, y, z \in Int : (x * y) * z = (x * z) * y
OBVIOUS

\* Wherever a variable is put in, the product is the same.
LEMMA ProdInserted ==
  ASSUME NEW p \in [Var -> Int], NEW v \in Var
  PROVE  \A s \in Seq(Var) : \A w \in Seq(Var) : \A k \in Nat :
           Inserted(w, s, v, k) => ListProd(w, p) = ListProd(s, p) * p[v]
<1> DEFINE P(s) == \A w \in Seq(Var) : \A k \in Nat :
                     Inserted(w, s, v, k) => ListProd(w, p) = ListProd(s, p) * p[v]
           S == {s \in Seq(Var) : P(s)}
<1>1. /\ (\A d \in Seq(Var) : ListProd(d, p) \in Int) /\ (\A x \in Var : p[x] \in Int)
      /\ \A d \in Seq(Var) : \A x \in Var : ListProd(Append(d, x), p) = ListProd(d, p) * p[x]
  BY ProdSteps
<1>2. <<>> \in S
  <2> SUFFICES ASSUME NEW w \in Seq(Var), NEW k \in Nat, Inserted(w, <<>>, v, k)
               PROVE  ListProd(w, p) = ListProd(<<>>, p) * p[v]
    OBVIOUS
  <2>1. Len(w) = 1 /\ w[1] = v
    BY DEF Inserted
  <2>2. Append(<<>>, v) \in Seq(Var) /\ Len(Append(<<>>, v)) = 1 /\ Append(<<>>, v)[1] = v
    OBVIOUS
  <2>3. w = Append(<<>>, v)
    BY <2>1, <2>2, SeqEqual
  <2>4. <<>> \in Seq(Var)
    OBVIOUS
  <2> QED BY <1>1, <2>3, <2>4
<1>3. ASSUME NEW s \in S, NEW x \in Var PROVE Append(s, x) \in S
  <2> DEFINE e == Append(s, x)
             n == Len(s)
  <2>1. /\ s \in Seq(Var) /\ e \in Seq(Var) /\ Len(e) = n + 1 /\ n \in Nat /\ e[n + 1] = x
        /\ \A i \in 1 .. n : e[i] = s[i]
    BY AppendProperties
  <2>2. ListProd(e, p) = ListProd(s, p) * p[x]
    BY <1>1, <2>1
  <2> HIDE DEF e
  <2>3. ASSUME NEW w \in Seq(Var), NEW k \in Nat, Inserted(w, e, v, k)
        PROVE  ListProd(w, p) = ListProd(e, p) * p[v]
    <3>1. /\ Len(w) = (n + 1) + 1 /\ k \in 1 .. (n + 1) + 1 /\ w[k] = v
          /\ \A i \in 1 .. k - 1 : w[i] = e[i]
          /\ \A i \in k + 1 .. (n + 1) + 1 : w[i] = e[i - 1]
      BY <2>1, <2>3 DEF Inserted
    <3>2. PICK t \in Seq(Var), y \in Var : /\ w = Append(t, y) /\ Len(t) = n + 1 /\ w[(n + 1) + 1] = y
                                           /\ \A i \in 1 .. n + 1 : w[i] = t[i]
      <4>1. n + 1 \in Nat
        BY <2>1
      <4> QED BY ZenonT(60), <3>1, <4>1, LastOff
    <3>3. ListProd(w, p) = ListProd(t, p) * p[y]
      BY <1>1, <3>2
    <3>4. CASE k = (n + 1) + 1
      <4>1. y = v
        BY <3>1, <3>2, <3>4
      <4>2. \A i \in 1 .. n + 1 : i \in 1 .. k - 1
        BY <2>1, <3>4
      <4>3. \A i \in 1 .. n + 1 : t[i] = e[i]
        BY <3>1, <3>2, <4>2
      <4>4. t = e
        BY <2>1, <3>2, <4>3, SeqEqual
      <4> QED BY <3>3, <4>1, <4>4
    <3>5. CASE k # (n + 1) + 1
      <4>1. /\ k \in 1 .. n + 1 /\ (n + 1) + 1 \in k + 1 .. (n + 1) + 1
            /\ ((n + 1) + 1) - 1 = n + 1
        BY SMTT(30), <2>1, <3>1, <3>5
      <4>2. y = x
        BY <2>1, <3>1, <3>2, <4>1
      <4>3. t[k] = v /\ \A i \in 1 .. k - 1 : t[i] = s[i]
        <5>1. \A i \in 1 .. k - 1 : i \in 1 .. n + 1 /\ i \in 1 .. n
          BY SMTT(30), <2>1, <4>1
        <5> QED BY <2>1, <3>1, <3>2, <4>1, <5>1
      <4>4. \A i \in k + 1 .. n + 1 : t[i] = s[i - 1]
        <5>1. \A i \in k + 1 .. n + 1 : i \in k + 1 .. (n + 1) + 1 /\ i \in 1 .. n + 1 /\ i - 1 \in 1 .. n
          BY <2>1, <4>1
        <5> QED BY <2>1, <3>1, <3>2, <5>1
      <4>5. Inserted(t, s, v, k)
        BY <3>2, <4>1, <4>3, <4>4 DEF Inserted
      <4>6. ListProd(t, p) = ListProd(s, p) * p[v]
        BY <4>5
      <4>7. ListProd(s, p) \in Int /\ p[x] \in Int /\ p[v] \in Int
        BY <1>1, <2>1
      <4> QED BY ONLY <2>2, <3>3, <4>2, <4>6, <4>7, TimesSwap
    <3> QED BY <3>4, <3>5
  <2>4. P(e)
    BY <2>1, <2>3
  <2> HIDE DEF P
  <2> QED BY <2>1, <2>4 DEF e
<1>4. S \in SUBSET Seq(Var)
  OBVIOUS
<1>5. S = Seq(Var)
  <2> HIDE DEF S
  <2> QED BY <1>2, <1>3, <1>4, ListInduction
<1> QED BY <1>5

\* Putting in one variable after the other multiplies by them all.
LEMMA EntriesMultiply ==
  ASSUME NEW p \in [Var -> Int], NEW m \in Ordered, NEW list \in Seq(Var)
  PROVE  ListProd(mono_mul_entries(m, list).vars, p) = ListProd(m.vars, p) * ListProd(list, p)
<1>1. PICK f : /\ mono_mul_entries(m, list) = f[Len(list)]
               /\ f[0] = m
               /\ \A i \in 1 .. Len(list) : f[i] = mono_mul_entry(f[i - 1], list[i])
               /\ \A i \in 0 .. Len(list) : f[i] \in Alike(m)
  BY EntriesRun
<1> DEFINE n == Len(list)
           c == ListProd(m.vars, p)
           h == [i \in 0 .. n |-> ListProd(f[i].vars, p)]
<1>2. n \in Nat /\ \A i \in 1 .. n : list[i] \in Var
  OBVIOUS
<1>3. /\ (\A d \in Seq(Var) : ListProd(d, p) \in Int) /\ \A x \in Var : p[x] \in Int
  BY ProdSteps
<1>4. \A x \in Ordered : x.vars \in Seq(Var)
  BY DEF Ordered, Mono
<1>5. c \in Int
  BY <1>3, <1>4
<1>6. \A i \in 0 .. n : f[i] \in Ordered
  BY <1>1 DEF Alike
<1>7. \A x \in Ordered : \A v \in Var :
        ListProd(mono_mul_entry(x, v).vars, p) = ListProd(x.vars, p) * p[v]
  <2> SUFFICES ASSUME NEW x \in Ordered, NEW v \in Var
               PROVE  ListProd(mono_mul_entry(x, v).vars, p) = ListProd(x.vars, p) * p[v]
    OBVIOUS
  <2>1. PICK k : Inserted(mono_mul_entry(x, v).vars, x.vars, v, k)
    BY EntryPlace
  <2>2. k \in Nat /\ mono_mul_entry(x, v).vars \in Seq(Var) /\ x.vars \in Seq(Var)
    BY <1>4, <2>1 DEF Inserted
  <2> QED BY <2>1, <2>2, ProdInserted
<1>8. Loops(Var, p)
  BY LoopsSum
<1>9. h[0] = c /\ \A i \in 1 .. n : h[i - 1] \in Int => h[i] = h[i - 1] * p[list[i]]
  <2>1. 0 \in 0 .. n /\ \A i \in 1 .. n : i \in 0 .. n /\ i - 1 \in 0 .. n
    BY <1>2
  <2>2. h[0] = c
    BY <1>1, <2>1
  <2>3. ASSUME NEW i \in 1 .. n PROVE h[i] = h[i - 1] * p[list[i]]
    <3>1. h[i] = ListProd(f[i].vars, p) /\ h[i - 1] = ListProd(f[i - 1].vars, p)
      BY <2>1
    <3>2. ListProd(f[i].vars, p) = ListProd(f[i - 1].vars, p) * p[list[i]]
      BY <1>1, <1>2, <1>6, <1>7, <2>1
    <3> HIDE DEF h
    <3> QED BY <3>1, <3>2
  <2> QED BY <2>2, <2>3
<1>10. h[Len(list)] = c * ListProd(list, p)
  <2> HIDE DEF h, c
  <2> QED BY <1>5, <1>8, <1>9 DEF Loops
<1>12. h[n] = ListProd(mono_mul_entries(m, list).vars, p)
  <2>1. n \in 0 .. n
    BY <1>2
  <2> QED BY <1>1, <2>1
<1> QED BY <1>10, <1>12

\* A mono is worth its coefficient times its variables; a condition nothing.
ValueRun(f, m, p) == f = [i \in 0 .. Len(m.vars) |-> IF i = 0 THEN m.coeff ELSE f[i - 1] * p[m.vars[i]]]

LEMMA MonoWorth ==
  ASSUME NEW p \in [Var -> Int], NEW m \in Mono
  PROVE  /\ MonoValue(m, p) = IF m.fun = "NONE" THEN m.coeff * ListProd(m.vars, p) ELSE 0
         /\ MonoValue(m, p) \in Int
<1> DEFINE e == m.vars
           c == m.coeff
           n == Len(e)
           h == CHOOSE f : ValueRun(f, m, p)
<1>1. e \in Seq(Var) /\ c \in Int /\ n \in Nat /\ \A i \in 1 .. n : e[i] \in Var
  BY DEF Mono
<1>2. Loops(Var, p)
  BY LoopsSum
<1>3. \E f : ValueRun(f, m, p)
  <2>1. \E f : f = [i \in 0 .. Len(e) |-> IF i = 0 THEN c ELSE f[i - 1] * p[e[i]]]
    <3> HIDE DEF e, c
    <3> QED BY <1>1, <1>2 DEF Loops
  <2> QED BY <2>1 DEF ValueRun
<1>5. ValueRun(h, m, p)
  BY <1>3
<1>6. MonoValue(m, p) = IF m.fun = "NONE" THEN h[n] ELSE 0
  BY DEF MonoValue, ValueRun
<1> HIDE DEF h
<1>7. h[0] = c /\ \A i \in 1 .. n : h[i] = h[i - 1] * p[e[i]]
  <2>1. 0 \in 0 .. n /\ \A i \in 1 .. n : i \in 0 .. n /\ i # 0
    BY <1>1
  <2> QED BY <1>5, <2>1 DEF ValueRun
<1>8. h[Len(e)] = c * ListProd(e, p)
  <2> HIDE DEF e, c
  <2> QED BY <1>1, <1>2, <1>7 DEF Loops
<1>10. ListProd(e, p) \in Int
  <2> HIDE DEF e
  <2> QED BY <1>1, ProdSteps
<1>11. c * ListProd(e, p) \in Int
  <2> HIDE DEF e, c
  <2> QED BY <1>1, <1>10
<1> QED BY <1>6, <1>8, <1>11
----------------------------------------------------------------------------
(***************************************************************************)
(* Monos that mono_equal takes for equal have the same variables.          *)
(***************************************************************************)
First(s, v) == SelectInSeq(s, LAMBDA w : w = v)

LEMMA FirstPlace ==
  ASSUME NEW s \in Seq(Var), NEW i \in 1 .. Len(s)
  PROVE  /\ First(s, s[i]) \in 1 .. i /\ s[First(s, s[i])] = s[i]
         /\ \A k \in 1 .. Len(s) : s[k] = s[i] => First(s, s[i]) <= k
<1> DEFINE v == s[i]
           I == {k \in 1 .. Len(s) : s[k] = v}
<1>1. First(s, v) = IF I # {} THEN Min(I) ELSE 0
  BY DEF First, SelectInSeq
<1>2. I \in SUBSET Nat /\ i \in I /\ \A k \in I : k \in 1 .. Len(s) /\ s[k] = v
  OBVIOUS
<1>3. \A k \in 1 .. Len(s) : s[k] = v => k \in I
  OBVIOUS
<1> HIDE DEF I
<1>4. PICK p \in I : \A k \in I : p <= k
  BY <1>2, Least
<1>5. Min(I) \in I /\ \A k \in I : Min(I) <= k
  BY <1>4 DEF Min
<1>6. First(s, v) = Min(I)
  BY <1>1, <1>2
<1> HIDE DEF v
<1>7. Min(I) \in 1 .. i /\ s[Min(I)] = v /\ \A k \in 1 .. Len(s) : s[k] = v => Min(I) <= k
  <2>1. Min(I) \in 1 .. Len(s) /\ s[Min(I)] = v /\ Min(I) <= i
    BY <1>2, <1>5
  <2>2. \A k \in 1 .. Len(s) : s[k] = v => Min(I) <= k
    BY <1>3, <1>5
  <2> HIDE DEF I
  <2> QED BY <2>1, <2>2
<1> QED BY <1>6, <1>7 DEF v

\* The places from the first v on that are counted.
Ends(s, v) == {i \in First(s, v) .. Len(s) : \A k \in First(s, v) .. i : s[k] = v}

LEMMA RunIs ==
  ASSUME NEW s \in Seq(Var), NEW i \in 1 .. Len(s)
  PROVE  RunOf(s, s[i]) = Cardinality(Ends(s, s[i])) /\ IsFiniteSet(Ends(s, s[i]))
<1> DEFINE f == First(s, s[i])
<1>1. f \in 1 .. i /\ f # 0 /\ Len(s) \in Nat
  BY FirstPlace
<1>2. RunOf(s, s[i]) = IF f = 0 THEN 0 ELSE Cardinality(Ends(s, s[i]))
  BY DEF RunOf, First, Ends
<1>3. Ends(s, s[i]) \subseteq f .. Len(s)
  BY DEF Ends
<1> HIDE DEF f
<1>4. IsFiniteSet(f .. Len(s))
  BY <1>1, FS_Interval
<1> QED BY <1>1, <1>2, <1>3, <1>4, FS_Subset

\* All from the first one on are v, up to place i.
LEMMA RunReaches ==
  ASSUME NEW s \in Seq(Var), Sorted(s), NEW i \in 1 .. Len(s)
  PROVE  i - First(s, s[i]) < RunOf(s, s[i]) /\ RunOf(s, s[i]) \in Nat
<1> DEFINE f == First(s, s[i])
           v == s[i]
           E == Ends(s, v)
<1>1. f \in 1 .. i /\ s[f] = v /\ Len(s) \in Nat
  BY FirstPlace
<1>2. RunOf(s, v) = Cardinality(E) /\ IsFiniteSet(E)
  BY RunIs
<1>3. \A k \in f .. i : s[k] = v
  <2> SUFFICES ASSUME NEW k \in f .. i PROVE s[k] = v
    OBVIOUS
  <2>1. k \in 1 .. Len(s) /\ f \in 1 .. Len(s) /\ f <= k /\ k <= i
    BY <1>1
  <2>2. Addr[s[f]] <= Addr[s[k]] /\ Addr[s[k]] <= Addr[s[i]]
    <3> HIDE DEF f
    <3> QED BY <2>1 DEF Sorted
  <2>3. s[k] \in Var /\ v \in Var /\ Addr[s[k]] \in Nat /\ Addr[v] \in Nat
    BY <2>1, AddrNat
  <2>4. Addr[s[k]] = Addr[v]
    <3> HIDE DEF f
    <3> QED BY <1>1, <2>2, <2>3
  <2> HIDE DEF v
  <2> QED BY <2>3, <2>4, AddrDiffers
<1>4. f .. i \subseteq E
  <2> SUFFICES ASSUME NEW j \in f .. i PROVE j \in E
    OBVIOUS
  <2>1. j \in f .. Len(s) /\ \A k \in f .. j : k \in f .. i
    BY <1>1
  <2>2. \A k \in f .. j : s[k] = v
    BY <1>3, <2>1
  <2> QED BY <2>1, <2>2 DEF Ends
<1> HIDE DEF E, f, v
<1>5. Cardinality(f .. i) = i - f + 1
  <2>1. Cardinality(f .. i) = IF f > i THEN 0 ELSE i - f + 1
    BY <1>1, FS_Interval
  <2> QED BY <1>1, <2>1
<1>6. Cardinality(f .. i) <= Cardinality(E) /\ Cardinality(E) \in Nat
  BY <1>2, <1>4, FS_Subset, FS_CardinalityType
<1> QED BY <1>1, <1>2, <1>5, <1>6 DEF v, f

\* A longer run goes on with v.
LEMMA RunGoesOn ==
  ASSUME NEW s \in Seq(Var), NEW i \in 1 .. Len(s), NEW d \in Nat, d < RunOf(s, s[i])
  PROVE  First(s, s[i]) + d \in 1 .. Len(s) /\ s[First(s, s[i]) + d] = s[i]
<1> DEFINE f == First(s, s[i])
           v == s[i]
           E == Ends(s, v)
<1>1. f \in 1 .. i /\ s[f] = v /\ Len(s) \in Nat
  BY FirstPlace
<1>2. RunOf(s, v) = Cardinality(E) /\ IsFiniteSet(E)
  BY RunIs
<1>3. \A j \in E : /\ j \in f .. Len(s) /\ \A k \in f .. j : s[k] = v
  BY DEF Ends
<1> HIDE DEF E, f, v
<1>4. PICK j \in E : j >= f + d
  <2> SUFFICES ASSUME \A j \in E : ~ j >= f + d PROVE FALSE
    OBVIOUS
  <2> DEFINE g == f + d - 1
  <2>1. E \subseteq f .. g /\ g \in Int
    BY <1>1, <1>3
  <2>2. IsFiniteSet(f .. g) /\ Cardinality(f .. g) = IF f > g THEN 0 ELSE g - f + 1
    <3>1. f \in Int /\ g \in Int
      BY <1>1, <2>1
    <3> HIDE DEF g
    <3> QED BY ONLY <3>1, FS_Interval
  <2>3. Cardinality(E) <= Cardinality(f .. g) /\ Cardinality(E) \in Nat
    <3> HIDE DEF g
    <3> QED BY <1>2, <2>1, <2>2, FS_Subset, FS_CardinalityType
  <2>4. Cardinality(f .. g) <= d
    <3> DEFINE c == Cardinality(f .. g)
    <3>1. c = IF f > g THEN 0 ELSE g - f + 1
      BY <2>2
    <3> HIDE DEF c
    <3>2. c <= d
      BY <1>1, <3>1
    <3> QED BY <3>2 DEF c
  <2>5. d < Cardinality(E)
    BY <1>2 DEF v
  <2>6. Cardinality(f .. g) \in Nat
    <3> HIDE DEF g
    <3> QED BY <2>2, FS_CardinalityType
  <2> QED BY ONLY <2>3, <2>4, <2>5, <2>6, d \in Nat
<1>5. f + d \in f .. j /\ f + d \in 1 .. Len(s)
  BY <1>1, <1>3, <1>4
<1> QED BY <1>3, <1>5 DEF v, f

\* A function that increases in 1 .. n and stays there moves nothing.
LEMMA NothingMoves ==
  ASSUME NEW n \in Nat, NEW f \in [1 .. n -> 1 .. n], \A i, k \in 1 .. n : i < k => f[i] < f[k]
  PROVE  \A i \in 1 .. n : f[i] = i
<1> DEFINE S == {i \in Nat : i \in 1 .. n => f[i] >= i}
           T == {d \in Nat : n - d \in 1 .. n => f[n - d] <= n - d}
<1>1. 0 \in S
  OBVIOUS
<1>2. ASSUME NEW i \in S PROVE i + 1 \in S
  <2>1. CASE i \in 1 .. n /\ i + 1 \in 1 .. n
    <3>1. f[i] < f[i + 1] /\ f[i] >= i
      BY <2>1
    <3> QED BY <2>1, <3>1
  <2>2. CASE ~ (i \in 1 .. n /\ i + 1 \in 1 .. n)
    <3>1. i + 1 \in 1 .. n => i + 1 = 1 /\ f[1] \in 1 .. n
      BY <2>2
    <3> QED BY <3>1
  <2> QED BY <2>1, <2>2
<1>3. S = Nat
  <2>1. S \in SUBSET Nat
    OBVIOUS
  <2> HIDE DEF S
  <2> QED BY <1>1, <1>2, <2>1, Induction
<1>4. 0 \in T
  OBVIOUS
<1>5. ASSUME NEW d \in T PROVE d + 1 \in T
  <2> DEFINE k == n - d
  <2>0. k \in Int /\ n - (d + 1) = k - 1 /\ d + 1 \in Nat /\ (k \in 1 .. n => f[k] <= k) /\ k <= n
    OBVIOUS
  <2> HIDE DEF k
  <2>1. ASSUME k - 1 \in 1 .. n PROVE f[k - 1] <= k - 1
    <3>1. k \in 1 .. n
      BY <2>0, <2>1
    <3>2. f[k - 1] < f[k] /\ f[k] <= k
      BY <2>0, <2>1, <3>1
    <3> QED BY <2>0, <2>1, <3>1, <3>2
  <2>2. n - (d + 1) \in 1 .. n => f[n - (d + 1)] <= n - (d + 1)
    BY <2>0, <2>1
  <2> QED BY <2>0, <2>2
<1>6. T = Nat
  <2>1. T \in SUBSET Nat
    OBVIOUS
  <2> HIDE DEF T
  <2> QED BY <1>4, <1>5, <2>1, Induction
<1>7. ASSUME NEW i \in 1 .. n PROVE f[i] = i
  <2>1. i \in Nat /\ n - i \in Nat /\ n - (n - i) = i
    OBVIOUS
  <2>2. i \in S /\ n - i \in T
    <3> HIDE DEF S, T
    <3> QED BY <1>3, <1>6, <2>1
  <2>3. f[i] >= i
    BY <2>2
  <2>4. f[n - (n - i)] <= n - (n - i)
    BY <2>1, <2>2
  <2>5. f[i] \in Int
    OBVIOUS
  <2> QED BY <2>1, <2>3, <2>4, <2>5
<1> QED BY <1>7

LEMMA EqualVars ==
  ASSUME NEW a \in Ordered, NEW b \in Ordered, mono_equal(a, b)
  PROVE  a.vars = b.vars
<1> DEFINE s == a.vars
           t == b.vars
           n == Len(s)
           f == [i \in 1 .. n |-> First(t, s[i]) + (i - First(s, s[i]))]
<1>1. /\ s \in Seq(Var) /\ t \in Seq(Var) /\ n \in Nat /\ Len(t) = n /\ Sorted(s) /\ Sorted(t)
  BY OrderIsSorted DEF Ordered, Mono, mono_equal
<1>2. \A v \in ToSet(s) : v \in ToSet(t) /\ RunOf(s, v) <= RunOf(t, v)
  BY DEF mono_equal
<1> HIDE DEF s, t
<1>3. \A i \in 1 .. n : /\ s[i] \in Var /\ t[i] \in Var /\ Addr[s[i]] \in Nat /\ Addr[t[i]] \in Nat
  BY <1>1, AddrNat
<1>4. ASSUME NEW i \in 1 .. n
      PROVE  First(s, s[i]) \in 1 .. i /\ f[i] \in 1 .. n /\ t[f[i]] = s[i]
  <2>1. s[i] \in ToSet(s)
    BY <1>1 DEF ToSet
  <2>2. PICK k \in 1 .. n : t[k] = s[i]
    BY <1>1, <1>2, <2>1 DEF ToSet
  <2> DEFINE d == i - First(s, s[i])
  <2>3. d < RunOf(s, s[i]) /\ RunOf(s, s[i]) \in Nat /\ First(s, s[i]) \in 1 .. i
    BY <1>1, RunReaches, FirstPlace
  <2>4. RunOf(t, t[k]) \in Nat
    BY <1>1, RunNat
  <2>5. d < RunOf(t, t[k]) /\ d \in Nat
    <3>1. RunOf(s, s[i]) <= RunOf(t, t[k])
      BY <1>2, <2>1, <2>2
    <3>2. d \in Nat
      BY <2>3
    <3> HIDE DEF d
    <3> QED BY <2>3, <2>4, <3>1, <3>2
  <2> HIDE DEF d
  <2>6. First(t, t[k]) + d \in 1 .. n /\ t[First(t, t[k]) + d] = t[k]
    <3>1. k \in 1 .. Len(t)
      BY <1>1
    <3> QED BY <1>1, <2>5, <3>1, RunGoesOn
  <2>7. f[i] = First(t, t[k]) + d
    BY <2>2 DEF d
  <2> HIDE DEF f
  <2> QED BY <2>2, <2>3, <2>6, <2>7
<1>5. ASSUME NEW i \in 1 .. n, NEW k \in 1 .. n, i < k PROVE f[i] < f[k]
  <2>1. f[i] \in 1 .. n /\ f[k] \in 1 .. n /\ t[f[i]] = s[i] /\ t[f[k]] = s[k]
    BY <1>4
  <2>2. CASE s[i] = s[k]
    <3>1. f[i] = First(t, s[i]) + (i - First(s, s[i])) /\ f[k] = First(t, s[i]) + (k - First(s, s[i]))
      BY <2>2
    <3>2. First(s, s[i]) \in Int
      BY <1>4
    <3>3. First(t, s[i]) \in Int
      <4>1. f[i] \in 1 .. Len(t) /\ t \in Seq(Var)
        BY <1>1, <2>1
      <4> HIDE DEF f
      <4>2. First(t, t[f[i]]) \in 1 .. f[i]
        BY <4>1, FirstPlace
      <4> QED BY <2>1, <4>2
    <3> HIDE DEF f
    <3> QED BY <3>1, <3>2, <3>3, <1>5
  <2>3. CASE s[i] # s[k]
    <3> HIDE DEF f
    <3>1. Addr[s[i]] <= Addr[s[k]] /\ Addr[s[i]] # Addr[s[k]]
      BY <1>1, <1>3, <1>5, <2>3, AddrDiffers DEF Sorted
    <3>2. f[k] <= f[i] => Addr[t[f[k]]] <= Addr[t[f[i]]]
      BY <1>1, <2>1 DEF Sorted
    <3> QED BY <1>3, <2>1, <3>1, <3>2
  <2> QED BY <2>2, <2>3
<1>6. f \in [1 .. n -> 1 .. n]
  <2>1. \A i \in 1 .. n : f[i] \in 1 .. n
    BY <1>4
  <2>2. f = [i \in 1 .. n |-> f[i]]
    OBVIOUS
  <2> HIDE DEF f, n
  <2> QED BY <2>1, <2>2
<1>7. \A i \in 1 .. n : f[i] = i
  <2> HIDE DEF f, n
  <2> QED BY <1>1, <1>5, <1>6, NothingMoves
<1>8. \A i \in 1 .. n : s[i] = t[i]
  <2> HIDE DEF f
  <2> QED BY <1>4, <1>7
<1>9. s = t
  BY <1>1, <1>8, SeqEqual
<1> QED BY <1>9 DEF s, t
----------------------------------------------------------------------------
(***************************************************************************)
(* Joining and cancelling keep the value.                                  *)
(***************************************************************************)
Worths(p) == [m \in Ordered |-> MonoValue(m, p)]

\* A family of monos in which the variables decide the function.
Kind(K) ==
  /\ K \subseteq Ordered
  /\ \A x \in K : \A y \in K : x.vars = y.vars => x.fun = y.fun
  /\ \A x \in K : \A c \in Int : [x EXCEPT !.coeff = c] \in K

LEMMA WorthsAre ==
  ASSUME NEW p \in [Var -> Int]
  PROVE  /\ Worths(p) \in [Ordered -> Int]
         /\ \A m \in Ordered : /\ Worths(p)[m] = IF m.fun = "NONE" THEN m.coeff * ListProd(m.vars, p) ELSE 0
                               /\ m.coeff \in Int /\ ListProd(m.vars, p) \in Int /\ m.vars \in Seq(Var)
<1>1. \A m \in Ordered : /\ m \in Mono /\ m.coeff \in Int /\ m.vars \in Seq(Var)
  BY DEF Ordered, Mono
<1>2. \A s \in Seq(Var) : ListProd(s, p) \in Int
  BY ProdSteps
<1>3. \A m \in Ordered : /\ MonoValue(m, p) \in Int
                         /\ MonoValue(m, p) = IF m.fun = "NONE" THEN m.coeff * ListProd(m.vars, p) ELSE 0
  BY <1>1, MonoWorth
<1> QED BY <1>1, <1>2, <1>3 DEF Worths

\* A coefficient is changed.
LEMMA CoeffChanged ==
  ASSUME NEW m \in Ordered, NEW c \in Int
  PROVE  /\ [m EXCEPT !.coeff = c] \in Ordered
         /\ [m EXCEPT !.coeff = c] = [coeff |-> c, fun |-> m.fun, vars |-> m.vars]
         /\ [m EXCEPT !.coeff = c].coeff = c /\ [m EXCEPT !.coeff = c].fun = m.fun
         /\ [m EXCEPT !.coeff = c].vars = m.vars
<1> DEFINE x == [m EXCEPT !.coeff = c]
<1>1. m \in Mono /\ m = [coeff |-> m.coeff, fun |-> m.fun, vars |-> m.vars]
  BY DEF Ordered, Mono
<1>2. x = [coeff |-> c, fun |-> m.fun, vars |-> m.vars]
  BY <1>1
<1>3. x \in Mono /\ x.coeff = c /\ x.fun = m.fun /\ x.vars = m.vars
  BY <1>1, <1>2 DEF Mono
<1> HIDE DEF x
<1>4. InOrder(x)
  BY <1>3 DEF Ordered, InOrder
<1> QED BY <1>2, <1>3, <1>4 DEF Ordered, x

LEMMA LookupSame ==
  ASSUME NEW e \in Seq(Ordered), NEW m \in Ordered
  PROVE  \/ hash_lookup_mono(e, m) = 0
         \/ hash_lookup_mono(e, m) \in 1 .. Len(e) /\ e[hash_lookup_mono(e, m)].vars = m.vars
<1> DEFINE Same(x) == mono_hash(x) % HASH_SIZE = mono_hash(m) % HASH_SIZE /\ mono_equal(x, m)
           I == {i \in 1 .. Len(e) : Same(e[i])}
<1>1. hash_lookup_mono(e, m) = IF I # {} THEN Min(I) ELSE 0
  BY DEF hash_lookup_mono, SelectInSeq
<1>2. CASE I = {}
  BY <1>1, <1>2
<1>3. CASE I # {}
  <2>1. I \in SUBSET Nat /\ I \subseteq 1 .. Len(e)
    OBVIOUS
  <2>0. \A i \in I : e[i] \in Ordered /\ mono_equal(e[i], m)
    OBVIOUS
  <2> HIDE DEF I
  <2>2. PICK p \in I : \A i \in I : p <= i
    BY <1>3, <2>1, Least
  <2>3. Min(I) \in I
    BY <2>2 DEF Min
  <2>4. e[Min(I)].vars = m.vars
    BY <2>0, <2>3, EqualVars
  <2> QED BY <1>1, <1>3, <2>1, <2>3, <2>4
<1> QED BY <1>2, <1>3

LEMMA Distributes == \A x, y, z \in Int : (x + y) * z = x * z + y * z
OBVIOUS

LEMMA JoinWorth ==
  ASSUME NEW p \in [Var -> Int], NEW K, Kind(K), NEW e \in Seq(K), NEW m \in K
  PROVE  /\ Join(e, m) \in Seq(K)
         /\ ListSum(Join(e, m), Worths(p)) = ListSum(e, Worths(p)) + Worths(p)[m]
         /\ \A i \in 1 .. Len(e) : e[i].fun # m.fun => e[i] \in ToSet(Join(e, m))
         /\ e = <<>> => m \in ToSet(Join(e, m))
<1> DEFINE place == hash_lookup_mono(e, m)
           n == Len(e)
           w == Join(e, m)
           W == Worths(p)
<1>0. /\ K \subseteq Ordered /\ m \in Ordered /\ e \in Seq(Ordered) /\ n \in Nat
      /\ \A i \in 1 .. n : e[i] \in K
  BY DEF Kind
<1>1. w = IF place = 0 THEN Append(e, m) ELSE [e EXCEPT ![place] = mono_add_coeff(@, m.coeff)]
  BY <1>0, CopyIsSame DEF Join, JoinAt
<1>2. \/ place = 0
      \/ place \in 1 .. n /\ e[place].vars = m.vars
  BY <1>0, LookupSame
<1>3. SumLaws(Ordered, W)
  BY WorthsAre, SumsObey
<1> HIDE DEF place, w, W
<1>4. CASE place = 0
  <2>1. w = Append(e, m)
    BY <1>1, <1>4
  <2>2. w \in Seq(K) /\ Len(w) = n + 1 /\ \A i \in 1 .. n : w[i] = e[i]
    BY <2>1, AppendProperties
  <2>3. ListSum(w, W) = ListSum(e, W) + W[m]
    BY <1>0, <1>3, <2>1 DEF SumLaws
  <2>4. \A i \in 1 .. n : e[i] \in ToSet(w)
    <3>1. \A i \in 1 .. n : i \in DOMAIN w /\ w[i] = e[i]
      BY <1>0, <2>2
    <3> QED BY <3>1 DEF ToSet
  <2>5. m \in ToSet(w)
    <3>1. n + 1 \in DOMAIN w /\ w[n + 1] = m
      BY <1>0, <2>1, <2>2, AppendProperties
    <3> QED BY <3>1 DEF ToSet
  <2> QED BY <2>2, <2>3, <2>4, <2>5 DEF w, W
<1>5. CASE place \in 1 .. n /\ e[place].vars = m.vars
  <2> DEFINE y == e[place]
             c == y.coeff + m.coeff
             x == [y EXCEPT !.coeff = c]
  <2>1. y \in K /\ y \in Ordered /\ y.vars = m.vars /\ y.fun = m.fun
    BY <1>0, <1>5 DEF Kind
  <2>2. y.coeff \in Int /\ m.coeff \in Int /\ c \in Int
    <3> HIDE DEF y
    <3>1. y.coeff \in Int /\ m.coeff \in Int
      BY <1>0, <2>1 DEF Ordered, Mono
    <3> QED BY <3>1
  <2> HIDE DEF y, c
  <2>3. x \in Ordered /\ x.coeff = c /\ x.fun = m.fun /\ x.vars = m.vars
    BY <2>1, <2>2, CoeffChanged
  <2>4. x \in K
    BY <2>1, <2>2 DEF Kind
  <2>5. w = [e EXCEPT ![place] = x]
    <3>1. place # 0
      BY <1>5
    <3>2. w = [e EXCEPT ![place] = mono_add_coeff(e[place], m.coeff)]
      BY <1>1, <3>1
    <3>3. mono_add_coeff(e[place], m.coeff) = x
      BY DEF mono_add_coeff, y, c
    <3> QED BY <3>2, <3>3
  <2> HIDE DEF x
  <2>6. w \in Seq(K) /\ Len(w) = n /\ \A j \in 1 .. n : w[j] = IF j = place THEN x ELSE e[j]
    BY <1>5, <2>4, <2>5, ExceptSeq
  <2>7. ListSum(w, W) = (ListSum(e, W) - W[y]) + W[x]
    BY <1>0, <1>3, <1>5, <2>3, <2>5 DEF SumLaws, y
  <2>8. W[x] = W[y] + W[m] /\ W[x] \in Int /\ W[y] \in Int /\ W[m] \in Int
    <3> DEFINE q == ListProd(m.vars, p)
    <3>1. /\ W \in [Ordered -> Int] /\ q \in Int
          /\ W[x] = IF m.fun = "NONE" THEN c * q ELSE 0
          /\ W[y] = IF m.fun = "NONE" THEN y.coeff * q ELSE 0
          /\ W[m] = IF m.fun = "NONE" THEN m.coeff * q ELSE 0
      BY <1>0, <2>1, <2>3, WorthsAre DEF W
    <3> HIDE DEF q
    <3>2. c * q = y.coeff * q + m.coeff * q
      BY <2>2, <3>1, Distributes DEF c
    <3>3. W[x] \in Int /\ W[y] \in Int /\ W[m] \in Int
      BY <1>0, <2>1, <2>3, <3>1
    <3>4. W[x] = W[y] + W[m]
      <4>1. CASE m.fun = "NONE"
        BY <3>1, <3>2, <4>1
      <4>2. CASE m.fun # "NONE"
        BY <3>1, <4>2
      <4> QED BY <4>1, <4>2
    <3> QED BY <3>3, <3>4
  <2>9. ListSum(e, W) \in Int
    BY <1>0, <1>3 DEF SumLaws
  <2>10. ListSum(w, W) = ListSum(e, W) + W[m]
    BY ONLY <2>7, <2>8, <2>9
  <2>11. \A i \in 1 .. n : e[i].fun # m.fun => e[i] \in ToSet(w)
    <3> SUFFICES ASSUME NEW i \in 1 .. n, e[i].fun # m.fun PROVE e[i] \in ToSet(w)
      OBVIOUS
    <3>1. i # place
      BY <2>1 DEF y
    <3>2. w[i] = e[i] /\ i \in DOMAIN w
      BY <2>6, <3>1
    <3> QED BY <3>2 DEF ToSet
  <2>12. e # <<>>
    BY <1>5
  <2> QED BY <2>6, <2>10, <2>11, <2>12 DEF w, W
<1> QED BY <1>2, <1>4, <1>5

\* The loop that joins, one mono after the other.
Joins(K) == [m \in K |-> [x \in Seq(K) |-> Join(x, m)]]

LEMMA JoinsFold ==
  ASSUME NEW K, Kind(K)
  PROVE  /\ Stepwise(K, Seq(K), <<>>, Joins(K))
         /\ \A e \in Seq(K) : AllJoined(e) = Folded(e, <<>>, Joins(K))
<1> DEFINE g == Joins(K)
<1>1. g \in [K -> [Seq(K) -> Seq(K)]] /\ \A m \in K : \A x \in Seq(K) : g[m][x] = Join(x, m)
  <2>1. PICK p : p \in [Var -> Int]
    <3>1. [v \in Var |-> 0] \in [Var -> Int]
      OBVIOUS
    <3> QED BY <3>1
  <2>2. \A m \in K : \A x \in Seq(K) : Join(x, m) \in Seq(K)
    BY <2>1, JoinWorth
  <2>3. \A m \in K : [x \in Seq(K) |-> Join(x, m)] \in [Seq(K) -> Seq(K)]
    BY <2>2
  <2> QED BY <2>3 DEF Joins
<1> HIDE DEF g
<1>2. <<>> \in Seq(K)
  OBVIOUS
<1>3. Stepwise(K, Seq(K), <<>>, g) /\ Runs(K, Seq(K), <<>>, g)
  BY <1>1, <1>2, FoldSteps, FoldRuns
<1>4. ASSUME NEW e \in Seq(K) PROVE AllJoined(e) = Folded(e, <<>>, g)
  <2> DEFINE n == Len(e)
             h == CHOOSE f : JoinRun(f, e)
  <2>1. n \in Nat /\ \A i \in 1 .. n : e[i] \in K
    OBVIOUS
  <2>2. PICK f : IsFold(f, e, <<>>, g) /\ \A i \in 0 .. n : f[i] \in Seq(K)
    BY <1>3 DEF Runs
  <2>3. JoinRun(f, e)
    <3>1. f = [i \in 0 .. n |-> IF i = 0 THEN <<>> ELSE g[e[i]][f[i - 1]]]
      BY <2>2 DEF IsFold
    <3>2. \A i \in 0 .. n : i # 0 => g[e[i]][f[i - 1]] = Join(f[i - 1], e[i])
      <4>1. \A i \in 0 .. n : i # 0 => i \in 1 .. n /\ i - 1 \in 0 .. n
        BY <2>1
      <4> HIDE DEF n
      <4> QED BY <1>1, <2>1, <2>2, <4>1
    <3> QED BY <3>1, <3>2 DEF JoinRun
  <2>4. JoinRun(h, e)
    BY <2>3
  <2>5. AllJoined(e) = h[n]
    BY DEF AllJoined, JoinRun
  <2> HIDE DEF h
  <2>6. h[0] = <<>> /\ \A i \in 1 .. n : h[i] = Join(h[i - 1], e[i])
    <3>1. 0 \in 0 .. n /\ \A i \in 1 .. n : i \in 0 .. n /\ i # 0
      BY <2>1
    <3> QED BY <2>4, <3>1 DEF JoinRun
  <2>7. \A i \in 1 .. Len(e) : h[i - 1] \in Seq(K) => h[i] = g[e[i]][h[i - 1]]
    BY <1>1, <2>1, <2>6
  <2>8. h[Len(e)] = Folded(e, <<>>, g)
    <3>1. /\ \A j : j[0] = <<>> /\ (\A i \in 1 .. Len(e) : j[i - 1] \in Seq(K) => j[i] = g[e[i]][j[i - 1]])
                      => j[Len(e)] = Folded(e, <<>>, g)
      BY <1>3 DEF Runs
    <3> QED BY <2>6, <2>7, <3>1
  <2> QED BY <2>5, <2>8
<1> QED BY <1>3, <1>4 DEF g

LEMMA AllJoinedWorth ==
  ASSUME NEW p \in [Var -> Int], NEW K, Kind(K), NEW e \in Seq(K)
  PROVE  /\ AllJoined(e) \in Seq(K)
         /\ ListSum(AllJoined(e), Worths(p)) = ListSum(e, Worths(p))
         /\ e # <<>> /\ (\A i \in 2 .. Len(e) : e[i].fun # e[1].fun) => e[1] \in ToSet(AllJoined(e))
<1> DEFINE W == Worths(p)
           g == Joins(K)
           F(d) == Folded(d, <<>>, g)
           P(d) == /\ F(d) \in Seq(K) /\ ListSum(F(d), W) = ListSum(d, W)
                   /\ d # <<>> /\ (\A i \in 2 .. Len(d) : d[i].fun # d[1].fun) => d[1] \in ToSet(F(d))
           S == {d \in Seq(K) : P(d)}
<1>1. /\ F(<<>>) = <<>>
      /\ \A d \in Seq(K) : F(d) \in Seq(K)
      /\ \A d \in Seq(K) : \A x \in K : F(Append(d, x)) = g[x][F(d)]
  <2>1. Stepwise(K, Seq(K), <<>>, g)
    BY JoinsFold
  <2> HIDE DEF g
  <2> QED BY <2>1 DEF Stepwise
<1>2. \A d \in Seq(K) : \A x \in K : F(Append(d, x)) = Join(F(d), x)
  <2>1. \A x \in K : \A y \in Seq(K) : g[x][y] = Join(y, x)
    BY DEF Joins
  <2> HIDE DEF g
  <2> QED BY <1>1, <2>1
<1> HIDE DEF F, W
<1>3. SumLaws(Ordered, W) /\ \A d \in Seq(K) : d \in Seq(Ordered)
  BY WorthsAre, SumsObey DEF Kind, W
<1>4. <<>> \in S
  <2>1. <<>> \in Seq(K)
    OBVIOUS
  <2>2. P(<<>>)
    BY <1>1, <2>1
  <2> HIDE DEF P
  <2> QED BY <2>1, <2>2
<1>5. ASSUME NEW d \in S, NEW x \in K PROVE Append(d, x) \in S
  <2> DEFINE e2 == Append(d, x)
             n == Len(d)
  <2>0. x \in Ordered
    BY DEF Kind
  <2>1. /\ d \in Seq(K) /\ e2 \in Seq(K) /\ Len(e2) = n + 1 /\ n \in Nat /\ e2[n + 1] = x
        /\ \A i \in 1 .. n : e2[i] = d[i]
    BY AppendProperties
  <2>2. P(d)
    OBVIOUS
  <2>3. F(e2) = Join(F(d), x) /\ F(d) \in Seq(K)
    BY <1>1, <1>2, <2>1
  <2>4. /\ Join(F(d), x) \in Seq(K)
        /\ ListSum(Join(F(d), x), W) = ListSum(F(d), W) + W[x]
        /\ \A i \in 1 .. Len(F(d)) : F(d)[i].fun # x.fun => F(d)[i] \in ToSet(Join(F(d), x))
        /\ F(d) = <<>> => x \in ToSet(Join(F(d), x))
    BY <2>3, JoinWorth DEF W
  <2>5. ListSum(e2, W) = ListSum(d, W) + W[x]
    BY <1>3, <2>0, <2>1 DEF SumLaws
  <2> HIDE DEF e2
  <2>6. ASSUME \A i \in 2 .. Len(e2) : e2[i].fun # e2[1].fun PROVE e2[1] \in ToSet(F(e2))
    <3>1. CASE d = <<>>
      <4>1. n = 0 /\ F(d) = <<>>
        BY <1>1, <3>1
      <4>2. e2[1] = x
        BY <2>1, <4>1
      <4> QED BY <2>3, <2>4, <4>1, <4>2
    <3>2. CASE d # <<>>
      <4>1. n >= 1 /\ 1 \in 1 .. n /\ n + 1 \in 2 .. n + 1 /\ \A i \in 2 .. n : i \in 1 .. n /\ i \in 2 .. n + 1
        <5>1. n # 0
          BY <2>1, <3>2
        <5> HIDE DEF n
        <5> QED BY <2>1, <5>1
      <4>2. e2[1] = d[1]
        BY <2>1, <4>1
      <4>3. \A i \in 2 .. Len(d) : d[i].fun # d[1].fun
        BY <2>1, <2>6, <4>1, <4>2
      <4>4. d[1] \in ToSet(F(d))
        BY <2>2, <3>2, <4>3
      <4>5. PICK j \in 1 .. Len(F(d)) : F(d)[j] = d[1]
        <5>1. DOMAIN F(d) = 1 .. Len(F(d))
          BY <2>3
        <5> QED BY <4>4, <5>1 DEF ToSet
      <4>6. x.fun # d[1].fun
        BY <2>1, <2>6, <4>1, <4>2
      <4> QED BY <2>3, <2>4, <4>2, <4>5, <4>6
    <3> QED BY <3>1, <3>2
  <2>7. P(e2)
    <3>1. F(e2) \in Seq(K)
      BY <2>3, <2>4
    <3>2. ListSum(F(e2), W) = ListSum(e2, W)
      BY <2>2, <2>3, <2>4, <2>5
    <3> QED BY <2>6, <3>1, <3>2
  <2> HIDE DEF P
  <2> QED BY <2>1, <2>7 DEF e2
<1>6. S \in SUBSET Seq(K)
  OBVIOUS
<1>7. S = Seq(K)
  <2> HIDE DEF S
  <2> QED BY <1>4, <1>5, <1>6, ListInduction
<1>8. P(e)
  BY <1>7
<1>9. AllJoined(e) = F(e)
  BY JoinsFold DEF F
<1> QED BY <1>8, <1>9 DEF W

\* What a round of the second loop keeps: the family, the sum, and every mono
\* that is not zero.
Kept(K, p, d, e) ==
  /\ d \in Seq(K) /\ ListSum(d, Worths(p)) = ListSum(e, Worths(p))
  /\ \A x \in ToSet(e) : x.coeff # 0 => x \in ToSet(d)

LEMMA ZeroWorth ==
  ASSUME NEW p \in [Var -> Int], NEW m \in Ordered, m.coeff = 0
  PROVE  Worths(p)[m] = 0
<1> DEFINE q == ListProd(m.vars, p)
<1>1. q \in Int /\ Worths(p)[m] = IF m.fun = "NONE" THEN m.coeff * q ELSE 0
  BY WorthsAre
<1> HIDE DEF q
<1>2. 0 * q = 0
  BY <1>1
<1> QED BY <1>1, <1>2

LEMMA DropWorth ==
  ASSUME NEW p \in [Var -> Int], NEW K, Kind(K), NEW e \in Seq(K), NEW k \in 1 .. Len(e), e[k].coeff = 0
  PROVE  Kept(K, p, IF k = Len(e) THEN Front(e) ELSE Front([e EXCEPT ![k] = Last(e)]), e)
<1> DEFINE n == Len(e)
           W == Worths(p)
<1>1. /\ n \in Nat /\ n # 0 /\ n \in 1 .. n /\ e # <<>> /\ e \in Seq(Ordered) /\ DOMAIN e = 1 .. n
      /\ \A i \in 1 .. n : e[i] \in K /\ e[i] \in Ordered
  BY DEF Kind
<1>2. SumLaws(Ordered, W) /\ \A i \in 1 .. n : W[e[i]] \in Int
  BY <1>1, WorthsAre, SumsObey
<1>3. W[e[k]] = 0
  BY <1>1, ZeroWorth
<1>4. ListSum(e, W) \in Int
  BY <1>1, <1>2 DEF SumLaws
<1> HIDE DEF W
<1>5. CASE k = n
  <2> DEFINE d == Front(e)
  <2>1. /\ d \in Seq(K) /\ Len(d) = n - 1 /\ \A i \in 1 .. n - 1 : d[i] = e[i]
    BY <1>1, FrontOf
  <2>2. ListSum(d, W) = ListSum(e, W) - W[e[n]]
    BY <1>1, <1>2 DEF SumLaws
  <2> HIDE DEF d
  <2>3. ListSum(d, W) = ListSum(e, W)
    BY ONLY <1>3, <1>4, <1>5, <2>2
  <2>4. ASSUME NEW x \in ToSet(e), x.coeff # 0 PROVE x \in ToSet(d)
    <3>1. PICK i \in 1 .. n : x = e[i]
      BY <1>1 DEF ToSet
    <3>2. i # n
      BY <1>5, <2>4, <3>1
    <3>3. i \in 1 .. n - 1 /\ DOMAIN d = 1 .. n - 1
      <4>1. DOMAIN d = 1 .. n - 1
        BY <2>1
      <4> HIDE DEF n
      <4>2. i \in 1 .. n - 1
        BY <1>1, <3>2
      <4> QED BY <4>1, <4>2
    <3>4. d[i] = x
      BY <2>1, <3>1, <3>3
    <3> QED BY <3>3, <3>4 DEF ToSet
  <2>5. Kept(K, p, d, e)
    BY <2>1, <2>3, <2>4 DEF Kept, W
  <2> QED BY SMTT(30), <1>5, <2>5 DEF d
<1>6. CASE k # n
  <2> DEFINE a == [e EXCEPT ![k] = Last(e)]
             d == Front(a)
  <2>1. Last(e) = e[n] /\ e[n] \in K /\ e[n] \in Ordered
    BY <1>1 DEF Last
  <2>2. /\ a \in Seq(K) /\ Len(a) = n /\ \A j \in 1 .. n : a[j] = IF j = k THEN e[n] ELSE e[j]
    BY <2>1, ExceptSeq
  <2>3. ListSum(a, W) = (ListSum(e, W) - W[e[k]]) + W[e[n]]
    BY ZenonT(60), <1>1, <1>2, <2>1 DEF SumLaws
  <2> HIDE DEF a
  <2>4. a # <<>> /\ a \in Seq(Ordered) /\ a[Len(a)] = e[n]
    BY <1>1, <1>6, <2>2 DEF Kind
  <2>5. ListSum(d, W) = ListSum(a, W) - W[e[n]]
    BY <1>2, <2>4 DEF SumLaws
  <2>6. d \in Seq(K) /\ Len(d) = n - 1 /\ \A i \in 1 .. n - 1 : d[i] = a[i]
    <3>1. a \in Seq(K) /\ Len(a) # 0 /\ Len(a) = n
      BY <1>1, <2>2
    <3>2. /\ d \in Seq(K) /\ Len(d) = Len(a) - 1 /\ \A i \in 1 .. Len(a) - 1 : d[i] = a[i]
      BY <3>1, FrontOf
    <3> QED BY <3>1, <3>2
  <2> HIDE DEF d
  <2>7. ListSum(d, W) = ListSum(e, W)
    <3>1. W[e[n]] \in Int
      BY <1>1, <1>2
    <3> QED BY ONLY <1>3, <1>4, <2>3, <2>5, <3>1
  <2>8. ASSUME NEW x \in ToSet(e), x.coeff # 0 PROVE x \in ToSet(d)
    <3>1. PICK i \in 1 .. n : x = e[i]
      BY <1>1 DEF ToSet
    <3>2. i # k
      BY <2>8, <3>1
    <3>3. DOMAIN d = 1 .. n - 1
      BY <1>1, <2>6
    <3>4. CASE i = n
      <4>1. k \in 1 .. n - 1
        <5>1. k \in 1 .. n
          OBVIOUS
        <5> HIDE DEF n
        <5> QED BY <1>1, <1>6, <5>1
      <4>2. d[k] = x
        BY <2>2, <2>6, <3>1, <3>4, <4>1
      <4> QED BY <3>3, <4>1, <4>2 DEF ToSet
    <3>5. CASE i # n
      <4>1. i \in 1 .. n - 1
        <5> HIDE DEF n
        <5> QED BY <1>1, <3>5
      <4>2. d[i] = x
        BY <2>2, <2>6, <3>1, <3>2, <4>1
      <4> QED BY <3>3, <4>1, <4>2 DEF ToSet
    <3> QED BY <3>4, <3>5
  <2>9. Kept(K, p, d, e)
    BY <2>6, <2>7, <2>8 DEF Kept, W
  <2> QED BY <1>6, <2>9 DEF d, a
<1> QED BY <1>5, <1>6

LEMMA CancelWorth ==
  ASSUME NEW p \in [Var -> Int], NEW K, Kind(K), NEW s, s.elem \in Seq(K), s.at \in Nat \ {0},
         s = [elem |-> s.elem, at |-> s.at]
  PROVE  Kept(K, p, Cancel(s).elem, s.elem)
<1> DEFINE e == s.elem
           k == s.at
           w == IF k = Len(e) THEN Front(e) ELSE Front([e EXCEPT ![k] = Last(e)])
<1>1. Cancel(s) = IF k > Len(e) THEN s
                  ELSE IF e[k].coeff # 0 THEN [s EXCEPT !.at = k + 1]
                  ELSE [s EXCEPT !.elem = w]
  BY DEF Cancel
<1>2. e \in Seq(K) /\ k \in Nat \ {0} /\ s = [elem |-> e, at |-> k]
  OBVIOUS
<1> HIDE DEF w
<1>3. Cancel(s).elem = IF k > Len(e) THEN e ELSE IF e[k].coeff # 0 THEN e ELSE w
  <2> HIDE DEF e, k
  <2> QED BY <1>1, <1>2
<1> HIDE DEF e, k
<1>4. Kept(K, p, e, e)
  BY <1>2 DEF Kept
<1>5. k <= Len(e) /\ ~ e[k].coeff # 0 => Kept(K, p, w, e)
  <2> SUFFICES ASSUME k <= Len(e), e[k].coeff = 0 PROVE Kept(K, p, w, e)
    OBVIOUS
  <2>1. k \in 1 .. Len(e)
    BY <1>2
  <2> QED BY <1>2, <2>1, DropWorth DEF w
<1>6. Kept(K, p, Cancel(s).elem, e)
  <2>1. k > Len(e) \/ k <= Len(e)
    BY <1>2
  <2> QED BY <1>3, <1>4, <1>5, <2>1
<1> QED BY <1>6 DEF e

LEMMA CancelledWorth ==
  ASSUME NEW p \in [Var -> Int], NEW K, Kind(K), NEW e \in Seq(K), Apart(e)
  PROVE  Kept(K, p, Cancelled(e), e)
<1> DEFINE n == Len(e)
           T == [i \in 0 .. n |-> {s \in [elem : Seq(K), at : Nat] : Kept(K, p, s.elem, e)}]
<1>0. e \in Seq(Ordered) /\ n \in Nat
  BY DEF Kind
<1>1. PICK h : /\ Cancelled(e) = h[n].elem
               /\ h[0] = [elem |-> e, at |-> 1]
               /\ \A i \in 1 .. n : h[i] = Cancel(h[i - 1])
               /\ \A i \in 0 .. n : CancelInv(h[i], n, i)
  BY <1>0, CancelledRun
<1>2. h[0] \in T[0]
  <2>1. 0 \in 0 .. n
    BY <1>0
  <2>2. h[0] \in [elem : Seq(K), at : Nat] /\ h[0].elem = e
    BY <1>1
  <2>3. Kept(K, p, h[0].elem, e)
    BY <2>2 DEF Kept
  <2> QED BY <2>1, <2>2, <2>3
<1>3. ASSUME NEW i \in 1 .. n, h[i - 1] \in T[i - 1] PROVE h[i] \in T[i]
  <2> DEFINE s == h[i - 1]
  <2>1. i \in 0 .. n /\ i - 1 \in 0 .. n
    BY <1>0
  <2>2. s.elem \in Seq(K) /\ Kept(K, p, s.elem, e)
    BY <1>3, <2>1
  <2>3. s.at \in Nat \ {0} /\ s = [elem |-> s.elem, at |-> s.at]
    BY <1>1, <2>1 DEF CancelInv
  <2>4. h[i] = Cancel(s) /\ h[i].at \in Nat /\ h[i] = [elem |-> h[i].elem, at |-> h[i].at]
    BY <1>1, <2>1 DEF CancelInv
  <2> HIDE DEF s
  <2>5. Kept(K, p, Cancel(s).elem, s.elem)
    BY <2>2, <2>3, CancelWorth
  <2>6. Kept(K, p, h[i].elem, e)
    BY <2>2, <2>4, <2>5 DEF Kept
  <2>7. h[i].elem \in Seq(K)
    BY <2>6 DEF Kept
  <2>8. h[i] \in [elem : Seq(K), at : Nat]
    BY <2>4, <2>7
  <2> QED BY <2>1, <2>6, <2>8
<1>4. \A i \in 0 .. n : h[i] \in T[i]
  <2> HIDE DEF T, n
  <2> QED BY <1>0, <1>2, <1>3, RoundsKeep
<1>5. n \in 0 .. n
  BY <1>0
<1>6. Kept(K, p, h[n].elem, e)
  BY <1>4, <1>5
<1> QED BY <1>1, <1>6

\* Simplification keeps the value.
LEMMA SimplifiedWorth ==
  ASSUME NEW p \in [Var -> Int], NEW K, Kind(K), NEW t, t.elem \in Seq(K), t.elem \in Seq(Whole)
  PROVE  /\ term_simplify(t).elem \in Seq(K)
         /\ ListSum(term_simplify(t).elem, Worths(p)) = ListSum(t.elem, Worths(p))
         /\ t.elem # <<>> /\ (\A i \in 2 .. Len(t.elem) : t.elem[i].fun # t.elem[1].fun)
              => t.elem[1] \in ToSet(term_simplify(t).elem)
<1> DEFINE e == t.elem
           j == AllJoined(e)
<1>1. term_simplify(t).elem = Cancelled(j)
  BY DEF term_simplify
<1>2. e \in Seq(K) /\ e \in Seq(Whole)
  OBVIOUS
<1> HIDE DEF e
<1>3. /\ j \in Seq(K) /\ ListSum(j, Worths(p)) = ListSum(e, Worths(p))
      /\ e # <<>> /\ (\A i \in 2 .. Len(e) : e[i].fun # e[1].fun) => e[1] \in ToSet(j)
  BY <1>2, AllJoinedWorth
<1>4. Apart(j)
  BY <1>2, JoinedApart
<1> HIDE DEF j
<1>5. Kept(K, p, Cancelled(j), j)
  BY <1>3, <1>4, CancelledWorth
<1>6. e # <<>> => e[1].coeff # 0
  <2>1. e # <<>> => 1 \in 1 .. Len(e)
    BY <1>2
  <2> QED BY <1>2, <2>1 DEF Whole
<1>7. /\ Cancelled(j) \in Seq(K) /\ ListSum(Cancelled(j), Worths(p)) = ListSum(e, Worths(p))
      /\ e # <<>> /\ (\A i \in 2 .. Len(e) : e[i].fun # e[1].fun) => e[1] \in ToSet(Cancelled(j))
  BY <1>3, <1>5, <1>6 DEF Kept
<1> QED BY <1>1, <1>7 DEF e
----------------------------------------------------------------------------
(***************************************************************************)
(* Monos of expressions name neither a function nor a result variable.     *)
(***************************************************************************)
NoResult(s) == ToSet(s) \cap Result = {}
PlainMono   == {m \in Ordered : m.fun = "NONE" /\ NoResult(m.vars)}
Marked(b, f) == PlainMono \cup {m \in Ordered : m.vars = <<b>> /\ m.fun = f}

LEMMA NoResultIs == \A s \in Seq(Var) : NoResult(s) <=> \A i \in 1 .. Len(s) : s[i] \notin Result
<1> SUFFICES ASSUME NEW s \in Seq(Var) PROVE NoResult(s) <=> \A i \in 1 .. Len(s) : s[i] \notin Result
  OBVIOUS
<1>1. ToSet(s) = {s[i] : i \in 1 .. Len(s)}
  BY DEF ToSet
<1> QED BY <1>1 DEF NoResult

LEMMA PlainKind == Kind(PlainMono)
<1>1. PlainMono \subseteq Ordered
  BY DEF PlainMono
<1>2. \A x, y \in PlainMono : x.fun = y.fun
  BY DEF PlainMono
<1>3. \A x \in PlainMono : \A c \in Int : [x EXCEPT !.coeff = c] \in PlainMono
  <2> SUFFICES ASSUME NEW x \in PlainMono, NEW c \in Int PROVE [x EXCEPT !.coeff = c] \in PlainMono
    OBVIOUS
  <2> DEFINE y == [x EXCEPT !.coeff = c]
  <2>1. x \in Ordered /\ x.fun = "NONE" /\ NoResult(x.vars)
    BY DEF PlainMono
  <2>2. y \in Ordered /\ y.fun = x.fun /\ y.vars = x.vars
    BY <2>1, CoeffChanged
  <2> HIDE DEF y
  <2>3. y \in PlainMono
    BY <2>1, <2>2 DEF PlainMono
  <2> QED BY <2>3 DEF y
<1> QED BY <1>1, <1>2, <1>3 DEF Kind

LEMMA MarkedKind ==
  ASSUME NEW b \in Result, NEW f
  PROVE  Kind(Marked(b, f))
<1> DEFINE K == Marked(b, f)
<1>0. b \in Var /\ <<b>> \in Seq(Var)
  BY TermEvalAssumption
<1>1. K \subseteq Ordered
  BY DEF Marked, PlainMono
<1>2. \A x \in PlainMono : x.vars # <<b>>
  <2> SUFFICES ASSUME NEW x \in PlainMono, x.vars = <<b>> PROVE FALSE
    OBVIOUS
  <2>1. NoResult(x.vars)
    BY DEF PlainMono
  <2>2. 1 \in 1 .. Len(<<b>>) /\ <<b>>[1] = b
    OBVIOUS
  <2> QED BY <1>0, <2>1, <2>2, NoResultIs
<1>3. \A x \in K : \A y \in K : x.vars = y.vars => x.fun = y.fun
  <2> SUFFICES ASSUME NEW x \in K, NEW y \in K, x.vars = y.vars PROVE x.fun = y.fun
    OBVIOUS
  <2>1. x \in PlainMono \/ (x.vars = <<b>> /\ x.fun = f)
    BY DEF Marked
  <2>2. y \in PlainMono \/ (y.vars = <<b>> /\ y.fun = f)
    BY DEF Marked
  <2>3. \A z \in PlainMono : z.fun = "NONE"
    BY DEF PlainMono
  <2> QED BY <1>2, <2>1, <2>2, <2>3
<1>4. \A x \in K : \A c \in Int : [x EXCEPT !.coeff = c] \in K
  <2> SUFFICES ASSUME NEW x \in K, NEW c \in Int PROVE [x EXCEPT !.coeff = c] \in K
    OBVIOUS
  <2> DEFINE y == [x EXCEPT !.coeff = c]
  <2>1. CASE x \in PlainMono
    <3>1. y \in PlainMono
      BY <2>1, PlainKind DEF Kind
    <3> HIDE DEF y
    <3>2. y \in K
      BY <3>1 DEF Marked
    <3> QED BY <3>2 DEF y
  <2>2. CASE x \in Ordered /\ x.vars = <<b>> /\ x.fun = f
    <3>1. y \in Ordered /\ y.fun = x.fun /\ y.vars = x.vars
      BY <2>2, CoeffChanged
    <3> HIDE DEF y
    <3>2. y \in K
      BY <2>2, <3>1 DEF Marked
    <3> QED BY <3>2 DEF y
  <2> QED BY <2>1, <2>2 DEF Marked
<1> QED BY <1>1, <1>3, <1>4 DEF Kind

\* A variable put in adds no other.
LEMMA InsertedVars ==
  ASSUME NEW s \in Seq(Var), NoResult(s), NEW v \in Var \ Result, NEW k, NEW w, Inserted(w, s, v, k)
  PROVE  NoResult(w)
<1>1. /\ w \in Seq(Var) /\ Len(w) = Len(s) + 1 /\ k \in 1 .. Len(s) + 1 /\ w[k] = v
      /\ \A i \in 1 .. k - 1 : w[i] = s[i]
      /\ \A i \in k + 1 .. Len(s) + 1 : w[i] = s[i - 1]
      /\ Len(s) \in Nat
  BY DEF Inserted
<1>2. \A i \in 1 .. Len(s) : s[i] \notin Result
  BY NoResultIs
<1>3. ASSUME NEW i \in 1 .. Len(w) PROVE w[i] \notin Result
  <2>1. CASE i = k
    BY <1>1, <2>1
  <2>2. CASE i < k
    <3>1. i \in 1 .. k - 1 /\ i \in 1 .. Len(s)
      BY <1>1, <2>2
    <3> QED BY <1>1, <1>2, <3>1
  <2>3. CASE i > k
    <3>1. i \in k + 1 .. Len(s) + 1 /\ i - 1 \in 1 .. Len(s)
      BY <1>1, <2>3
    <3> QED BY <1>1, <1>2, <3>1
  <2> QED BY <1>1, <2>1, <2>2, <2>3
<1> QED BY <1>1, <1>3, NoResultIs

LEMMA EntriesPlain ==
  ASSUME NEW m \in PlainMono, NEW list \in Seq(Var), NoResult(list)
  PROVE  mono_mul_entries(m, list) \in PlainMono
<1> DEFINE n == Len(list)
           T == [i \in 0 .. n |-> PlainMono]
<1>0. m \in Ordered /\ n \in Nat /\ \A i \in 1 .. n : list[i] \in Var \ Result
  BY NoResultIs DEF PlainMono
<1>1. PICK f : /\ mono_mul_entries(m, list) = f[n]
               /\ f[0] = m
               /\ \A i \in 1 .. n : f[i] = mono_mul_entry(f[i - 1], list[i])
  BY <1>0, EntriesRun
<1>2. \A x \in PlainMono : \A v \in Var \ Result : mono_mul_entry(x, v) \in PlainMono
  <2> SUFFICES ASSUME NEW x \in PlainMono, NEW v \in Var \ Result PROVE mono_mul_entry(x, v) \in PlainMono
    OBVIOUS
  <2>1. x \in Ordered /\ x.fun = "NONE" /\ NoResult(x.vars) /\ x.vars \in Seq(Var)
    BY DEF PlainMono, Ordered, Mono
  <2> DEFINE y == mono_mul_entry(x, v)
  <2>2. y \in Ordered /\ y.fun = x.fun
    BY <2>1, EntryOrdered
  <2>3. PICK k : Inserted(y.vars, x.vars, v, k)
    BY <2>1, EntryPlace
  <2> HIDE DEF y
  <2>4. NoResult(y.vars)
    BY <2>1, <2>3, InsertedVars
  <2>5. y \in PlainMono
    BY <2>1, <2>2, <2>4 DEF PlainMono
  <2> QED BY <2>5 DEF y
<1>3. f[0] \in T[0]
  BY <1>0, <1>1
<1>4. \A i \in 1 .. n : f[i - 1] \in T[i - 1] => f[i] \in T[i]
  <2>1. \A i \in 1 .. n : i \in 0 .. n /\ i - 1 \in 0 .. n
    BY <1>0
  <2> HIDE DEF n
  <2> QED BY <1>0, <1>1, <1>2, <2>1
<1>5. \A i \in 0 .. n : f[i] \in T[i]
  <2> HIDE DEF T, n
  <2> QED BY <1>0, <1>3, <1>4, RoundsKeep
<1>6. n \in 0 .. n
  BY <1>0
<1> QED BY <1>1, <1>5, <1>6

LEMMA FourFactors == \A x, y, u, v \in Int : (x * y) * (u * v) = (x * u) * (y * v)
OBVIOUS

LEMMA MonoProduct ==
  ASSUME NEW a \in PlainMono, NEW b \in PlainMono
  PROVE  /\ mono_mul(a, b) \in PlainMono
         /\ \A p \in [Var -> Int] : Worths(p)[mono_mul(a, b)] = Worths(p)[a] * Worths(p)[b]
<1> DEFINE c == [a EXCEPT !.coeff = @ * b.coeff]
           x == a.coeff * b.coeff
           m == mono_mul(a, b)
<1>1. /\ a \in Ordered /\ b \in Ordered /\ a.fun = "NONE" /\ b.fun = "NONE"
      /\ NoResult(b.vars) /\ NoResult(a.vars) /\ b.vars \in Seq(Var)
      /\ a.coeff \in Int /\ b.coeff \in Int
  BY DEF PlainMono, Ordered, Mono
<1>2. m = mono_mul_entries(c, b.vars)
  BY <1>1, CopyIsSame DEF mono_mul
<1>3. x \in Int
  BY <1>1
<1> HIDE DEF x
<1>4. c = [a EXCEPT !.coeff = x]
  BY DEF x
<1>5. c \in Ordered /\ c.coeff = x /\ c.fun = "NONE" /\ c.vars = a.vars /\ c \in PlainMono
  <2>1. c \in PlainMono
    BY <1>3, <1>4, PlainKind DEF Kind
  <2>2. c \in Ordered /\ c.coeff = x /\ c.fun = a.fun /\ c.vars = a.vars
    <3>1. /\ [a EXCEPT !.coeff = x] \in Ordered /\ [a EXCEPT !.coeff = x].coeff = x
          /\ [a EXCEPT !.coeff = x].fun = a.fun /\ [a EXCEPT !.coeff = x].vars = a.vars
      BY <1>1, <1>3, CoeffChanged
    <3> HIDE DEF c
    <3> QED BY <1>4, <3>1
  <2> QED BY <1>1, <2>1, <2>2
<1> HIDE DEF c, m
<1>6. m \in PlainMono
  BY <1>1, <1>2, <1>5, EntriesPlain
<1>7. m.coeff = x
  BY <1>1, <1>2, <1>5, EntriesOrdered
<1>8. ASSUME NEW p \in [Var -> Int] PROVE Worths(p)[m] = Worths(p)[a] * Worths(p)[b]
  <2> DEFINE s == ListProd(a.vars, p)
             t == ListProd(b.vars, p)
  <2>1. ListProd(m.vars, p) = s * t
    BY <1>1, <1>2, <1>5, EntriesMultiply
  <2>2. s \in Int /\ t \in Int /\ Worths(p)[a] = a.coeff * s /\ Worths(p)[b] = b.coeff * t
    BY <1>1, WorthsAre
  <2>3. Worths(p)[m] = x * (s * t)
    <3>1. m \in Ordered /\ m.fun = "NONE"
      BY <1>6 DEF PlainMono
    <3> QED BY <1>7, <2>1, <3>1, WorthsAre
  <2> HIDE DEF s, t
  <2>4. x * (s * t) = (a.coeff * s) * (b.coeff * t)
    BY <1>1, <2>2, FourFactors DEF x
  <2> QED BY <2>2, <2>3, <2>4
<1> QED BY <1>6, <1>8 DEF m
----------------------------------------------------------------------------
(***************************************************************************)
(* The value of a term, and the operations on terms.                       *)
(***************************************************************************)
TermRun(f, t, p) ==
  f = [i \in 0 .. Len(t.elem) |->
         IF i = 0 THEN t.const ELSE f[i - 1] + MonoValue(t.elem[i], p)]

\* A term is worth its constant and its monos.
LEMMA TermWorth ==
  ASSUME NEW p \in [Var -> Int], NEW t, t.const \in Int, t.elem \in Seq(Ordered)
  PROVE  /\ TermValue(t, p) = t.const + ListSum(t.elem, Worths(p))
         /\ ListSum(t.elem, Worths(p)) \in Int /\ TermValue(t, p) \in Int
<1> DEFINE e == t.elem
           c == t.const
           V == Worths(p)
           n == Len(e)
           h == CHOOSE f : TermRun(f, t, p)
<1>1. e \in Seq(Ordered) /\ c \in Int /\ n \in Nat /\ \A i \in 1 .. n : e[i] \in Ordered
  OBVIOUS
<1>2. V \in [Ordered -> Int] /\ \A m \in Ordered : V[m] = MonoValue(m, p)
  <2>1. V \in [Ordered -> Int]
    BY WorthsAre
  <2> QED BY <2>1 DEF Worths
<1> HIDE DEF V
<1>3. Loops(Ordered, V) /\ SumLaws(Ordered, V)
  BY <1>2, LoopsSum, SumsObey
<1>4. \E f : TermRun(f, t, p)
  <2>1. \E f : f = [i \in 0 .. Len(e) |-> IF i = 0 THEN c ELSE f[i - 1] + V[e[i]]]
    <3> HIDE DEF e, c
    <3> QED BY <1>1, <1>3 DEF Loops
  <2>2. PICK f : f = [i \in 0 .. Len(e) |-> IF i = 0 THEN c ELSE f[i - 1] + V[e[i]]]
    BY <2>1
  <2>3. \A i \in 0 .. Len(e) : i # 0 => f[i - 1] + V[e[i]] = f[i - 1] + MonoValue(e[i], p)
    BY <1>1, <1>2
  <2>4. TermRun(f, t, p)
    <3>1. [i \in 0 .. Len(e) |-> IF i = 0 THEN c ELSE f[i - 1] + V[e[i]]]
            = [i \in 0 .. Len(e) |-> IF i = 0 THEN c ELSE f[i - 1] + MonoValue(e[i], p)]
      BY <2>3
    <3>2. f = [i \in 0 .. Len(e) |-> IF i = 0 THEN c ELSE f[i - 1] + MonoValue(e[i], p)]
      BY <2>2, <3>1
    <3> QED BY <3>2 DEF TermRun
  <2> QED BY <2>4
<1>5. TermRun(h, t, p)
  BY <1>4
<1>6. TermValue(t, p) = h[n]
  BY DEF TermValue, TermRun
<1> HIDE DEF h
<1>7. h[0] = c /\ \A i \in 1 .. n : h[i] = h[i - 1] + V[e[i]]
  <2>1. 0 \in 0 .. n /\ \A i \in 1 .. n : i \in 0 .. n /\ i # 0
    BY <1>1
  <2>2. h[0] = c /\ \A i \in 1 .. n : h[i] = h[i - 1] + MonoValue(e[i], p)
    BY <1>5, <2>1 DEF TermRun
  <2> QED BY <1>1, <1>2, <2>2
<1>8. h[Len(e)] = c + ListSum(e, V)
  <2> HIDE DEF e, c
  <2> QED BY <1>1, <1>3, <1>7 DEF Loops
<1>9. ListSum(e, V) \in Int
  <2> HIDE DEF e
  <2> QED BY <1>1, <1>3 DEF SumLaws
<1>10. c + ListSum(e, V) \in Int
  <2> HIDE DEF e, c
  <2> QED BY <1>1, <1>9
<1> QED BY <1>6, <1>8, <1>9, <1>10 DEF V

\* A plain term is a term of plain monos.
LEMMA PlainIs ==
  ASSUME NEW t \in Term
  PROVE  t \in Plain <=> t.elem \in Seq(PlainMono)
<1>1. t.elem \in Seq(Whole) /\ Len(t.elem) \in Nat /\ DOMAIN t.elem = 1 .. Len(t.elem)
  BY TermParts
<1>2. \A i \in 1 .. Len(t.elem) : t.elem[i] \in Ordered
  BY <1>1 DEF Whole
<1>3. t \in Plain <=> \A i \in 1 .. Len(t.elem) : t.elem[i] \in PlainMono
  BY <1>1, <1>2 DEF Plain, PlainMono, NoResult
<1>4. (\A i \in 1 .. Len(t.elem) : t.elem[i] \in PlainMono) => t.elem \in Seq(PlainMono)
  <2> SUFFICES ASSUME \A i \in 1 .. Len(t.elem) : t.elem[i] \in PlainMono
               PROVE  t.elem \in Seq(PlainMono)
    OBVIOUS
  <2> QED BY <1>1, AllIn
<1>5. t.elem \in Seq(PlainMono) => \A i \in 1 .. Len(t.elem) : t.elem[i] \in PlainMono
  OBVIOUS
<1> QED BY <1>3, <1>4, <1>5

LEMMA PlainOrdered ==
  /\ PlainMono \subseteq Ordered /\ Plain \subseteq Term
  /\ \A s \in Seq(PlainMono) : s \in Seq(Ordered)
  /\ \A s \in Seq(Whole) : s \in Seq(Ordered)
<1>1. PlainMono \subseteq Ordered /\ Plain \subseteq Term /\ Whole \subseteq Ordered
  BY DEF PlainMono, Plain, Whole
<1>2. ASSUME NEW s \in Seq(PlainMono) PROVE s \in Seq(Ordered)
  BY <1>1, AllIn
<1>3. ASSUME NEW s \in Seq(Whole) PROVE s \in Seq(Ordered)
  BY <1>1, AllIn
<1> QED BY <1>1, <1>2, <1>3

\* What is known of a plain term.
Valued(t, p) ==
  /\ t.const \in Int /\ t.elem \in Seq(PlainMono) /\ t.elem \in Seq(Ordered) /\ t.elem \in Seq(Whole)
  /\ ListSum(t.elem, Worths(p)) \in Int /\ TermValue(t, p) \in Int
  /\ TermValue(t, p) = t.const + ListSum(t.elem, Worths(p))

LEMMA PlainWorth ==
  ASSUME NEW t \in Plain, NEW p \in [Var -> Int]
  PROVE  Valued(t, p)
<1>1. t \in Term
  BY PlainOrdered
<1>2. t.elem \in Seq(PlainMono) /\ t.elem \in Seq(Ordered) /\ t.elem \in Seq(Whole) /\ t.const \in Int
  BY <1>1, PlainIs, PlainOrdered, TermParts
<1> QED BY <1>2, TermWorth DEF Valued

LEMMA OrderedLaws ==
  ASSUME NEW p \in [Var -> Int]
  PROVE  SumLaws(Ordered, Worths(p))
<1>1. Worths(p) \in [Ordered -> Int]
  BY WorthsAre
<1> QED BY <1>1, SumsObey

\* A term is plain and worth x at p.
IsWorth(t, x, p) == t \in Plain /\ TermValue(t, p) = x

LEMMA PlainMade ==
  ASSUME NEW p \in [Var -> Int], NEW t \in Term, t.elem \in Seq(PlainMono)
  PROVE  IsWorth(t, t.const + ListSum(t.elem, Worths(p)), p)
<1>1. t \in Plain
  BY PlainIs
<1> QED BY <1>1, PlainWorth DEF Valued, IsWorth

LEMMA NewWorth ==
  ASSUME NEW p \in [Var -> Int]
  PROVE  IsWorth(term_new(1), 0, p)
<1>1. term_new(1) \in Term /\ term_new(1).elem = <<>> /\ term_new(1).const = 0
  BY TermNew
<1>2. <<>> \in Seq(PlainMono) /\ ListSum(<<>>, Worths(p)) = 0
  BY OrderedLaws DEF SumLaws
<1> DEFINE t == term_new(1)
<1>3. t \in Term /\ t.elem \in Seq(PlainMono) /\ t.const = 0 /\ ListSum(t.elem, Worths(p)) = 0
  BY <1>1, <1>2
<1> HIDE DEF t
<1>4. IsWorth(t, t.const + ListSum(t.elem, Worths(p)), p)
  BY <1>3, PlainMade
<1>5. t.const + ListSum(t.elem, Worths(p)) = 0
  BY <1>3
<1> QED BY <1>4, <1>5 DEF t

LEMMA SymbolWorth ==
  ASSUME NEW p \in [Var -> Int], NEW v \in Var \ Result
  PROVE  IsWorth(term_add_elem(term_new(1), v, 1, "NONE"), p[v], p)
<1> DEFINE m == mono_new(1, v, "NONE")
           t == term_add_elem(term_new(1), v, 1, "NONE")
<1>1. term_new(1) \in Term /\ term_new(1).elem = <<>> /\ term_new(1).const = 0
  BY TermNew
<1>2. "NONE" \in MFun /\ 1 \in Int \ {0}
  BY DEF MFun
<1>3. t \in Term /\ t.elem = Append(<<>>, m)
  BY <1>1, <1>2, TermElem
<1>4. t.const = 0
  BY <1>1 DEF term_add_elem, term_new
<1>5. m \in Ordered /\ m.fun = "NONE" /\ m.vars = <<v>> /\ m.coeff = 1
  BY <1>2, SingleOrdered DEF mono_new
<1> HIDE DEF t, m
<1>6. NoResult(<<v>>)
  <2> DEFINE s == <<v>>
  <2>1. s \in Seq(Var) /\ \A i \in 1 .. Len(s) : s[i] = v
    OBVIOUS
  <2> HIDE DEF s
  <2>2. NoResult(s)
    BY <2>1, NoResultIs
  <2> QED BY <2>2 DEF s
<1>7. m \in PlainMono
  BY <1>5, <1>6 DEF PlainMono
<1>8. ListProd(<<v>>, p) = p[v]
  <2>1. /\ ListProd(<<>>, p) = 1
        /\ \A e \in Seq(Var) : \A x \in Var : ListProd(Append(e, x), p) = ListProd(e, p) * p[x]
    BY ProdSteps
  <2>2. <<v>> = Append(<<>>, v) /\ <<>> \in Seq(Var) /\ 1 * p[v] = p[v]
    OBVIOUS
  <2> QED BY <2>1, <2>2
<1>9. Worths(p)[m] = p[v]
  <2>1. Worths(p)[m] = 1 * p[v]
    BY <1>5, <1>8, WorthsAre
  <2> QED BY <2>1
<1>10. ListSum(t.elem, Worths(p)) = p[v]
  <2>1. <<>> \in Seq(Ordered) /\ 0 + p[v] = p[v]
    OBVIOUS
  <2>2. ListSum(Append(<<>>, m), Worths(p)) = ListSum(<<>>, Worths(p)) + Worths(p)[m]
    BY <1>5, <2>1, OrderedLaws DEF SumLaws
  <2>3. ListSum(<<>>, Worths(p)) = 0
    BY OrderedLaws DEF SumLaws
  <2> QED BY <1>3, <1>9, <2>1, <2>2, <2>3
<1>11. t.elem \in Seq(PlainMono)
  BY <1>3, <1>7
<1>12. IsWorth(t, t.const + ListSum(t.elem, Worths(p)), p)
  BY <1>3, <1>11, PlainMade
<1>13. t.const + ListSum(t.elem, Worths(p)) = p[v]
  BY <1>4, <1>10
<1> QED BY <1>12, <1>13 DEF t

LEMMA CopyWorth ==
  ASSUME NEW p \in [Var -> Int], NEW t \in Plain
  PROVE  IsWorth(term_copy(t), TermValue(t, p), p)
<1>1. Valued(t, p) /\ t \in Term
  BY PlainWorth, PlainOrdered
<1>2. term_copy(t) \in Term /\ term_copy(t).elem = t.elem /\ term_copy(t).const = t.const
  BY <1>1, TermCopy
<1> QED BY <1>1, <1>2, PlainMade DEF Valued

LEMMA ThreeSummands == \A x, y, z \in Int : (x + z) + y = (x + y) + z /\ (x - z) + y = (x + y) - z
OBVIOUS

LEMMA ConstWorth ==
  ASSUME NEW p \in [Var -> Int], NEW t \in Plain, NEW c \in Int
  PROVE  /\ IsWorth(term_add_constant(t, c), TermValue(t, p) + c, p)
         /\ IsWorth(term_sub_constant(t, c), TermValue(t, p) - c, p)
<1>1. Valued(t, p) /\ t \in Term
  BY PlainWorth, PlainOrdered
<1> DEFINE a == term_add_constant(t, c)
           b == term_sub_constant(t, c)
           x == t.const
           y == ListSum(t.elem, Worths(p))
<1>2. a \in Term /\ b \in Term /\ a.elem = t.elem /\ b.elem = t.elem
  BY <1>1, TermConst
<1>3. a.const = x + c /\ b.const = x - c
  <2>1. t = [const |-> t.const, size |-> t.size, elem |-> t.elem]
    BY <1>1, TermParts
  <2> QED BY <2>1 DEF term_add_constant, term_sub_constant
<1> HIDE DEF a, b
<1>4. /\ IsWorth(a, a.const + ListSum(a.elem, Worths(p)), p)
      /\ IsWorth(b, b.const + ListSum(b.elem, Worths(p)), p)
  BY <1>1, <1>2, PlainMade DEF Valued
<1>5. x \in Int /\ y \in Int /\ TermValue(t, p) = x + y
  BY <1>1 DEF Valued
<1>6. IsWorth(a, (x + c) + y, p) /\ IsWorth(b, (x - c) + y, p)
  BY <1>2, <1>3, <1>4
<1>7. (x + c) + y = (x + y) + c /\ (x - c) + y = (x + y) - c
  <2> HIDE DEF x, y
  <2> QED BY <1>5, ThreeSummands
<1> QED BY <1>5, <1>6, <1>7 DEF a, b

\* A mono with another coefficient.
Multiple(c, d, m) ==
  d \in PlainMono /\ \A p \in [Var -> Int] : Worths(p)[d] = c * Worths(p)[m]

LEMMA FactorOut == \A x, y, c \in Int : (x * c) * y = c * (x * y) /\ (- x) * y = (- 1) * (x * y)
OBVIOUS

LEMMA MonoTimes ==
  ASSUME NEW m \in PlainMono, NEW c \in Int
  PROVE  Multiple(c, mono_mul_coeff(m, c), m) /\ Multiple(- 1, mono_neg(m), m)
<1>1. m \in Ordered /\ m.fun = "NONE" /\ m.coeff \in Int
  BY DEF PlainMono, Ordered, Mono
<1>2. ASSUME NEW x \in Int
      PROVE  /\ [m EXCEPT !.coeff = x] \in PlainMono
             /\ \A p \in [Var -> Int] : Worths(p)[[m EXCEPT !.coeff = x]] = x * ListProd(m.vars, p)
  <2> DEFINE d == [m EXCEPT !.coeff = x]
  <2>1. d \in PlainMono
    BY PlainKind DEF Kind
  <2>2. d \in Ordered /\ d.coeff = x /\ d.fun = "NONE" /\ d.vars = m.vars
    BY <1>1, CoeffChanged
  <2> HIDE DEF d
  <2>3. \A p \in [Var -> Int] : Worths(p)[d] = x * ListProd(m.vars, p)
    BY <2>2, WorthsAre
  <2> QED BY <2>1, <2>3 DEF d
<1>3. \A p \in [Var -> Int] : /\ Worths(p)[m] = m.coeff * ListProd(m.vars, p)
                              /\ ListProd(m.vars, p) \in Int
  BY <1>1, WorthsAre
<1>4. Multiple(c, mono_mul_coeff(m, c), m)
  <2> DEFINE x == m.coeff * c
             d == [m EXCEPT !.coeff = x]
  <2>1. x \in Int /\ mono_mul_coeff(m, c) = d
    BY <1>1 DEF mono_mul_coeff
  <2>2. d \in PlainMono /\ \A p \in [Var -> Int] : Worths(p)[d] = x * ListProd(m.vars, p)
    BY <1>2, <2>1
  <2>3. ASSUME NEW p \in [Var -> Int] PROVE x * ListProd(m.vars, p) = c * Worths(p)[m]
    <3> DEFINE y == ListProd(m.vars, p)
               z == m.coeff
    <3>1. y \in Int /\ z \in Int /\ Worths(p)[m] = z * y
      BY <1>1, <1>3
    <3> HIDE DEF y, z
    <3>2. (z * c) * y = c * (z * y)
      BY <3>1, FactorOut
    <3> QED BY <3>1, <3>2 DEF y, z
  <2> HIDE DEF x, d
  <2>4. d \in PlainMono /\ \A p \in [Var -> Int] : Worths(p)[d] = c * Worths(p)[m]
    BY <2>2, <2>3
  <2> QED BY <2>1, <2>4 DEF Multiple
<1>5. Multiple(- 1, mono_neg(m), m)
  <2> DEFINE x == - m.coeff
             d == [m EXCEPT !.coeff = x]
  <2>1. x \in Int /\ mono_neg(m) = d
    BY <1>1 DEF mono_neg
  <2>2. d \in PlainMono /\ \A p \in [Var -> Int] : Worths(p)[d] = x * ListProd(m.vars, p)
    BY <1>2, <2>1
  <2>3. ASSUME NEW p \in [Var -> Int] PROVE x * ListProd(m.vars, p) = (- 1) * Worths(p)[m]
    <3> DEFINE y == ListProd(m.vars, p)
               z == m.coeff
    <3>1. y \in Int /\ z \in Int /\ Worths(p)[m] = z * y
      BY <1>1, <1>3
    <3> HIDE DEF y, z
    <3>2. (- z) * y = (- 1) * (z * y)
      BY <3>1, FactorOut
    <3> QED BY <3>1, <3>2 DEF y, z
  <2> HIDE DEF x, d
  <2>4. d \in PlainMono /\ \A p \in [Var -> Int] : Worths(p)[d] = (- 1) * Worths(p)[m]
    BY <2>2, <2>3
  <2> QED BY <2>1, <2>4 DEF Multiple
<1> QED BY <1>4, <1>5

\* All monos of a list get another coefficient.
LEMMA ListTimes ==
  ASSUME NEW s \in Seq(PlainMono), NEW c \in Int, NEW d, d = [i \in 1 .. Len(s) |-> d[i]],
         \A i \in 1 .. Len(s) : Multiple(c, d[i], s[i])
  PROVE  /\ d \in Seq(PlainMono) /\ Len(d) = Len(s)
         /\ \A p \in [Var -> Int] : ListSum(d, Worths(p)) = c * ListSum(s, Worths(p))
<1> DEFINE n == Len(s)
<1>1. n \in Nat /\ \A i \in 1 .. n : d[i] \in PlainMono
  BY DEF Multiple
<1>2. d \in Seq(PlainMono) /\ Len(d) = n
  <2>1. d = [i \in 1 .. n |-> d[i]]
    OBVIOUS
  <2> HIDE DEF n
  <2> QED BY <1>1, <2>1, MappedSeq
<1>3. s \in Seq(Ordered) /\ d \in Seq(Ordered)
  BY <1>2, PlainOrdered
<1>4. ASSUME NEW p \in [Var -> Int]
      PROVE  ListSum(d, Worths(p)) = c * ListSum(s, Worths(p))
  <2> DEFINE W == Worths(p)
  <2>1. W \in [Ordered -> Int]
    BY WorthsAre
  <2>2. ScaledTo(d, W, c, s, W)
    BY <1>2 DEF ScaledTo, Multiple
  <2> HIDE DEF W
  <2>3. SumsScale(Ordered, W, Ordered, W, c)
    BY <2>1, SumMapped
  <2>4. ListSum(d, W) = c * ListSum(s, W)
    BY <1>3, <2>2, <2>3 DEF SumsScale
  <2> QED BY <2>4 DEF W
<1> QED BY <1>2, <1>4

LEMMA ScaledTimes ==
  ASSUME NEW s \in Seq(PlainMono), s \in Seq(Whole), NEW c \in Int
  PROVE  /\ Scaled(s, c) \in Seq(PlainMono)
         /\ \A p \in [Var -> Int] : ListSum(Scaled(s, c), Worths(p)) = c * ListSum(s, Worths(p))
<1> DEFINE d == Scaled(s, c)
<1>1. DOMAIN s = 1 .. Len(s) /\ \A i \in 1 .. Len(s) : s[i] \in PlainMono /\ s[i] \in Whole
  OBVIOUS
<1>2. \A i \in 1 .. Len(s) : d[i] = mono_mul_coeff(s[i], c)
  BY <1>1, WholeCopy DEF Scaled
<1>3. d = [i \in 1 .. Len(s) |-> d[i]]
  BY <1>1 DEF Scaled
<1> HIDE DEF d
<1>4. \A i \in 1 .. Len(s) : Multiple(c, d[i], s[i])
  BY <1>1, <1>2, MonoTimes
<1>5. /\ d \in Seq(PlainMono)
      /\ \A p \in [Var -> Int] : ListSum(d, Worths(p)) = c * ListSum(s, Worths(p))
  BY <1>3, <1>4, ListTimes
<1> QED BY <1>5 DEF d

LEMMA TimesZero == \A x \in Int : 0 * x = 0 /\ x * 0 = 0
OBVIOUS
LEMMA TimesSum == \A x, y, c \in Int : x * c + c * y = c * (x + y)
OBVIOUS

LEMMA CoeffWorth ==
  ASSUME NEW p \in [Var -> Int], NEW t \in Plain, NEW c \in Int
  PROVE  IsWorth(term_mul_coeff(t, c), c * TermValue(t, p), p)
<1>1. Valued(t, p) /\ t \in Term
  BY PlainWorth, PlainOrdered
<1> DEFINE a == term_mul_coeff(t, c)
           x == t.const
           e == t.elem
           y == ListSum(e, Worths(p))
           d == [i \in 1 .. Len(e) |-> mono_mul_coeff(e[i], c)]
<1>2. a \in Term
  BY <1>1, TermScaled
<1>3. a.const = x * c /\ a.elem = IF c = 0 THEN <<>> ELSE d
  <2>1. t = [const |-> t.const, size |-> t.size, elem |-> t.elem] /\ DOMAIN e = 1 .. Len(e)
    BY <1>1, TermParts
  <2>2. a = [t EXCEPT !.const = x * c, !.elem = IF c = 0 THEN <<>> ELSE d]
    BY <2>1 DEF term_mul_coeff
  <2> HIDE DEF d
  <2> QED BY <2>1, <2>2
<1>4. e \in Seq(PlainMono) /\ x \in Int /\ y \in Int /\ TermValue(t, p) = x + y
  BY <1>1 DEF Valued
<1>5. a.elem \in Seq(PlainMono) /\ ListSum(a.elem, Worths(p)) = c * y
  <2>1. CASE c = 0
    <3>1. ListSum(<<>>, Worths(p)) = 0 /\ <<>> \in Seq(PlainMono)
      BY OrderedLaws DEF SumLaws
    <3>2. 0 * y = 0
      <4> HIDE DEF y
      <4> QED BY <1>4
    <3> HIDE DEF d
    <3> QED BY <1>3, <2>1, <3>1, <3>2
  <2>2. CASE c # 0
    <3>1. \A i \in 1 .. Len(e) : Multiple(c, d[i], e[i])
      BY <1>4, MonoTimes
    <3>2. d = [i \in 1 .. Len(e) |-> d[i]]
      OBVIOUS
    <3> HIDE DEF d, e
    <3>3. /\ d \in Seq(PlainMono)
          /\ \A q \in [Var -> Int] : ListSum(d, Worths(q)) = c * ListSum(e, Worths(q))
      BY ZenonT(60), <1>4, <3>1, <3>2, ListTimes
    <3> QED BY <1>3, <2>2, <3>3
  <2> QED BY <2>1, <2>2
<1> HIDE DEF a, d
<1>6. IsWorth(a, a.const + ListSum(a.elem, Worths(p)), p)
  BY <1>2, <1>5, PlainMade
<1>7. x * c + c * y = c * (x + y)
  <2> HIDE DEF x, y
  <2> QED BY <1>4, TimesSum
<1> HIDE DEF x, y, e
<1> QED BY <1>3, <1>4, <1>5, <1>6, <1>7 DEF a

LEMMA FourSummands == \A x, y, u, v \in Int : (x + u) + (y + v) = (x + y) + (u + v)
OBVIOUS

\* A constant and monos are added.
LEMMA ExtendedWorth ==
  ASSUME NEW p \in [Var -> Int], NEW a \in Plain, NEW t \in Term, NEW k \in Int,
         NEW d \in Seq(PlainMono), t.elem = a.elem \o d, t.const = a.const + k
  PROVE  IsWorth(t, TermValue(a, p) + (k + ListSum(d, Worths(p))), p)
<1> DEFINE x == a.const
           e == a.elem
           y == ListSum(e, Worths(p))
           v == ListSum(d, Worths(p))
<1>1. /\ x \in Int /\ y \in Int /\ e \in Seq(PlainMono) /\ e \in Seq(Ordered)
      /\ TermValue(a, p) = x + y
  BY PlainWorth DEF Valued
<1>2. d \in Seq(Ordered)
  BY PlainOrdered
<1>3. ListSum(e \o d, Worths(p)) = y + v /\ v \in Int
  <2> HIDE DEF e
  <2> QED BY <1>1, <1>2, OrderedLaws DEF SumLaws
<1>4. e \o d \in Seq(PlainMono)
  <2> HIDE DEF e
  <2> QED BY <1>1, ConcatProperties
<1>5. IsWorth(t, t.const + ListSum(t.elem, Worths(p)), p)
  BY <1>4, PlainMade
<1>6. (x + k) + (y + v) = (x + y) + (k + v)
  <2> HIDE DEF x, y, v
  <2> QED BY <1>1, <1>3, FourSummands
<1>7. t.const + ListSum(t.elem, Worths(p)) = (x + k) + (y + v)
  BY <1>3
<1> QED BY <1>1, <1>5, <1>6, <1>7

LEMMA AppendWorth ==
  ASSUME NEW p \in [Var -> Int], NEW a \in Plain, NEW b \in Plain
  PROVE  IsWorth(term_append_term(a, b), TermValue(a, p) + TermValue(b, p), p)
<1> DEFINE t == term_append_term(a, b)
<1>1. a \in Term /\ b \in Term
  BY PlainOrdered
<1>2. t \in Term /\ t.elem = a.elem \o b.elem /\ t.const = a.const + b.const
  BY <1>1, TermAppend
<1>3. Valued(b, p)
  BY PlainWorth
<1> HIDE DEF t
<1>4. IsWorth(t, TermValue(a, p) + (b.const + ListSum(b.elem, Worths(p))), p)
  BY <1>2, <1>3, ExtendedWorth DEF Valued
<1> QED BY <1>3, <1>4 DEF Valued, t

LEMMA AddWorth ==
  ASSUME NEW p \in [Var -> Int], NEW a \in Plain, NEW b \in Plain
  PROVE  IsWorth(AddTerm(a, b), TermValue(a, p) + TermValue(b, p), p)
<1> DEFINE t == term_add_term(a, b)
<1>1. a \in Term /\ b \in Term
  BY PlainOrdered
<1>2. t \in Term /\ t.elem = a.elem \o b.elem /\ t.const = a.const + b.const
  <2>1. t \in Term
    BY <1>1, TermAdd
  <2>2. Copies(a) = a.elem /\ Copies(b) = b.elem
    BY <1>1, CopiesAreSame
  <2> QED BY <2>1, <2>2 DEF term_add_term, Joined
<1>3. Valued(b, p)
  BY PlainWorth
<1> HIDE DEF t
<1>4. IsWorth(t, TermValue(a, p) + (b.const + ListSum(b.elem, Worths(p))), p)
  BY <1>2, <1>3, ExtendedWorth DEF Valued
<1>5. IsWorth(t, TermValue(a, p) + TermValue(b, p), p)
  BY <1>3, <1>4 DEF Valued
<1> QED BY <1>5, AppendWorth DEF AddTerm, t

LEMMA Minus == \A x, y, z \in Int : x - y = x + (- y) /\ (- y) + (- 1) * z = - (y + z)
OBVIOUS

\* The difference, and its constant.
LEMMA SubWorth ==
  ASSUME NEW a \in Plain, NEW b \in Plain
  PROVE  /\ term_sub_term(a, b).const = a.const - b.const
         /\ \A p \in [Var -> Int] :
              IsWorth(term_sub_term(a, b), TermValue(a, p) - TermValue(b, p), p)
<1> DEFINE t == term_sub_term(a, b)
           s == b.elem
           d == [i \in DOMAIN s |-> mono_neg(mono_copy(s[i]))]
<1>1. a \in Term /\ b \in Term
  BY PlainOrdered
<1>2. t \in Term /\ t.elem = a.elem \o d /\ t.const = a.const - b.const
  <2>1. t \in Term
    BY <1>1, TermSub
  <2>2. Copies(a) = a.elem
    BY <1>1, CopiesAreSame
  <2> QED BY <2>1, <2>2 DEF term_sub_term, Joined
<1>3. a.const \in Int /\ b.const \in Int /\ s \in Seq(PlainMono) /\ s \in Seq(Whole)
  BY <1>1, TermParts, PlainIs
<1>4. \A i \in 1 .. Len(s) : d[i] = mono_neg(s[i]) /\ s[i] \in PlainMono
  <2> HIDE DEF s
  <2>1. DOMAIN s = 1 .. Len(s) /\ \A i \in 1 .. Len(s) : s[i] \in Whole /\ s[i] \in PlainMono
    BY <1>3
  <2> QED BY <2>1, WholeCopy
<1>5. d = [i \in 1 .. Len(s) |-> d[i]]
  <2> HIDE DEF s
  <2>1. DOMAIN s = 1 .. Len(s)
    BY <1>3
  <2> QED BY <2>1
<1> HIDE DEF t, d, s
<1>6. \A i \in 1 .. Len(s) : Multiple(- 1, d[i], s[i])
  BY <1>4, MonoTimes, - 1 \in Int
<1>0. - 1 \in Int
  OBVIOUS
<1>7. /\ d \in Seq(PlainMono)
      /\ \A p \in [Var -> Int] : ListSum(d, Worths(p)) = (- 1) * ListSum(s, Worths(p))
  BY ZenonT(60), <1>0, <1>3, <1>5, <1>6, ListTimes
<1>8. ASSUME NEW p \in [Var -> Int]
      PROVE  IsWorth(t, TermValue(a, p) - TermValue(b, p), p)
  <2> DEFINE k == - b.const
             x == b.const
             y == ListSum(s, Worths(p))
             u == TermValue(a, p)
             w == TermValue(b, p)
  <2>1. Valued(b, p) /\ Valued(a, p)
    BY PlainWorth
  <2>2. x \in Int /\ y \in Int /\ w = x + y /\ w \in Int /\ u \in Int
    BY <2>1 DEF Valued, s
  <2>3. k \in Int /\ t.const = a.const + k
    BY <1>2, <1>3, Minus
  <2> HIDE DEF k
  <2>4. IsWorth(t, TermValue(a, p) + (k + ListSum(d, Worths(p))), p)
    BY <1>2, <1>7, <2>3, ExtendedWorth
  <2>5. k + ListSum(d, Worths(p)) = (- x) + (- 1) * y
    BY <1>7 DEF k
  <2> HIDE DEF x, y, u, w
  <2>6. u + ((- x) + (- 1) * y) = u - w
    BY <2>2, Minus
  <2>7. IsWorth(t, u + (k + ListSum(d, Worths(p))), p)
    BY <2>4 DEF u
  <2>8. IsWorth(t, u - w, p)
    BY <2>5, <2>6, <2>7
  <2> QED BY <2>8 DEF u, w
<1> QED BY <1>2, <1>8 DEF t

\* The number of a pair gives the pair.
LEMMA PairNumber ==
  ASSUME NEW a \in Nat, NEW k \in Nat, NEW s \in 0 .. k - 1
  PROVE  (a * k + s) \div k = a /\ (a * k + s) % k = s
<1> DEFINE x == a * k
           j == x + s
           q == j \div k
           r == j % k
<1>1. k > 0 /\ x \in Nat
  OBVIOUS
<1>2. j \in Nat
  <2> HIDE DEF x
  <2> QED BY <1>1
<1>3. q \in Nat /\ r \in 0 .. k - 1 /\ j = k * q + r
  <2> HIDE DEF j
  <2> QED BY <1>1, <1>2
<1> HIDE DEF q, r
<1>4. q = a
  <2>1. CASE q > a
    <3>1. q - a - 1 \in Nat /\ k * q = x + k + k * (q - a - 1)
      BY <1>3, <2>1
    <3>2. k * (q - a - 1) >= 0
      BY <3>1
    <3> DEFINE y == k * (q - a - 1)
               z == k * q
    <3>3. z = x + k + y /\ y >= 0 /\ y \in Int
      BY <3>1, <3>2
    <3>4. x + s = z + r
      BY <1>3
    <3> HIDE DEF x, y, z
    <3>5. FALSE
      BY <1>1, <1>3, <3>3, <3>4
    <3> QED BY <3>5
  <2>2. CASE q < a
    <3>1. a - q - 1 \in Nat /\ x = k * q + k + k * (a - q - 1) /\ k * q \in Nat
      BY <1>3, <2>2
    <3>2. k * (a - q - 1) >= 0
      BY <3>1
    <3> DEFINE y == k * (a - q - 1)
               z == k * q
    <3>3. x = z + k + y /\ y >= 0 /\ y \in Int /\ z \in Nat
      BY <3>1, <3>2
    <3>4. x + s = z + r
      BY <1>3
    <3> HIDE DEF x, y, z
    <3>5. FALSE
      BY <1>1, <1>3, <3>3, <3>4
    <3> QED BY <3>5
  <2> QED BY <1>3, <2>1, <2>2
<1>5. r = s
  <2>1. k * q = x
    BY <1>4
  <2> HIDE DEF x
  <2>2. x + s = x + r
    BY <1>3, <2>1
  <2> QED BY <1>1, <1>3, <2>2
<1> QED BY <1>4, <1>5 DEF q, r

\* Every mono of the one list times every mono of the other.
LEMMA ProductsWorth ==
  ASSUME NEW a, NEW b, a.elem \in Seq(PlainMono), b.elem \in Seq(PlainMono)
  PROVE  /\ Products(a, b) \in Seq(PlainMono)
         /\ \A p \in [Var -> Int] : ListSum(Products(a, b), Worths(p))
              = ListSum(a.elem, Worths(p)) * ListSum(b.elem, Worths(p))
<1> DEFINE s == a.elem
           t == b.elem
           n == Len(s)
           k == Len(t)
           x(i) == ((i - 1) \div k) + 1
           y(i) == ((i - 1) % k) + 1
           d == [i \in 1 .. n * k |-> mono_mul(s[x(i)], t[y(i)])]
<1>1. n \in Nat /\ k \in Nat /\ (\A i \in 1 .. n : s[i] \in PlainMono) /\ \A i \in 1 .. k : t[i] \in PlainMono
  OBVIOUS
<1>2. n * k \in Nat
  <2> HIDE DEF n, k
  <2> QED BY <1>1
<1>3. ASSUME NEW i \in 1 .. n * k PROVE d[i] \in PlainMono
  <2>1. x(i) \in 1 .. n /\ y(i) \in 1 .. k
    <3> HIDE DEF n, k
    <3> QED BY <1>1, PairAt
  <2> HIDE DEF x, y, n, k
  <2> QED BY <1>1, <2>1, MonoProduct
<1>4. ASSUME NEW q \in 1 .. n, NEW r \in 1 .. k
      PROVE  (q - 1) * k + r \in 1 .. n * k /\ d[(q - 1) * k + r] = mono_mul(s[q], t[r])
  <2> DEFINE i == (q - 1) * k + r
  <2>1. i \in 1 .. n * k
    <3> HIDE DEF n, k
    <3> QED BY <1>1, IndexOfPair
  <2>2. x(i) = q /\ y(i) = r
    <3> HIDE DEF n, k
    <3>1. q - 1 \in Nat /\ r - 1 \in 0 .. k - 1
      BY <1>1
    <3>2. ((q - 1) * k + (r - 1)) \div k = q - 1 /\ ((q - 1) * k + (r - 1)) % k = r - 1
      BY <1>1, <3>1, PairNumber
    <3> DEFINE z == (q - 1) * k
    <3>3. z \in Nat
      BY <1>1, <3>1
    <3>4. i - 1 = z + (r - 1)
      <4> HIDE DEF z
      <4>1. (z + r) - 1 = z + (r - 1)
        BY <1>1, <3>3
      <4> QED BY <4>1 DEF z
    <3>5. (i - 1) \div k = q - 1 /\ (i - 1) % k = r - 1
      BY <3>2, <3>4
    <3> HIDE DEF i, z
    <3> QED BY <1>1, <3>5
  <2> HIDE DEF x, y, n, k, i
  <2>3. d[i] = mono_mul(s[x(i)], t[y(i)])
    BY <2>1
  <2> HIDE DEF d
  <2> QED BY <2>1, <2>2, <2>3 DEF i
<1>5. d = [i \in 1 .. n * k |-> d[i]] /\ Products(a, b) = d
  BY DEF Products
<1> HIDE DEF d, x, y
<1>6. d \in Seq(PlainMono) /\ Len(d) = n * k
  <2> DEFINE l == n * k
  <2>1. l \in Nat /\ d = [i \in 1 .. l |-> d[i]] /\ \A i \in 1 .. l : d[i] \in PlainMono
    BY <1>2, <1>3, <1>5
  <2> HIDE DEF l
  <2>2. d \in Seq(PlainMono) /\ Len(d) = l
    BY <2>1, MappedSeq
  <2> QED BY <2>2 DEF l
<1>7. d \in Seq(Ordered) /\ s \in Seq(Ordered) /\ t \in Seq(Ordered)
  BY <1>6, PlainOrdered
<1>8. ASSUME NEW p \in [Var -> Int]
      PROVE  ListSum(d, Worths(p)) = ListSum(s, Worths(p)) * ListSum(t, Worths(p))
  <2> DEFINE W == Worths(p)
  <2>1. W \in [Ordered -> Int]
    BY WorthsAre
  <2>2. ASSUME NEW q \in 1 .. n, NEW r \in 1 .. k PROVE W[d[(q - 1) * k + r]] = W[s[q]] * W[t[r]]
    <3>1. d[(q - 1) * k + r] = mono_mul(s[q], t[r]) /\ s[q] \in PlainMono /\ t[r] \in PlainMono
      BY <1>1, <1>4
    <3> HIDE DEF s, t
    <3>2. W[mono_mul(s[q], t[r])] = W[s[q]] * W[t[r]]
      BY <3>1, MonoProduct
    <3> QED BY <3>1, <3>2
  <2> HIDE DEF W
  <2>3. PairsOf(d, W, s, W, t, W)
    BY <1>6, <2>2 DEF PairsOf
  <2> HIDE DEF s, t, n, k
  <2>4. PairsMultiply(Ordered, W, W, W)
    BY ONLY <2>1, SumPairs
  <2>5. ListSum(d, W) = ListSum(s, W) * ListSum(t, W)
    BY ONLY <1>7, <2>3, <2>4 DEF PairsMultiply
  <2> QED BY <2>5 DEF W
<1> QED BY <1>5, <1>6, <1>8

LEMMA Expanded ==
  \A x, y, u, v \in Int : (x * u) + ((y * v + u * y) + x * v) = (x + y) * (u + v)
OBVIOUS

\* One part of a product: the monos of the one side, times a constant.
LEMMA PartWorth ==
  ASSUME NEW s \in Seq(PlainMono), s \in Seq(Whole), NEW c \in Int
  PROVE  /\ (IF c = 0 THEN <<>> ELSE Scaled(s, c)) \in Seq(PlainMono)
         /\ \A p \in [Var -> Int] :
              ListSum(IF c = 0 THEN <<>> ELSE Scaled(s, c), Worths(p)) = c * ListSum(s, Worths(p))
<1>1. CASE c = 0
  <2>1. <<>> \in Seq(PlainMono)
    OBVIOUS
  <2>2. ASSUME NEW p \in [Var -> Int] PROVE ListSum(<<>>, Worths(p)) = c * ListSum(s, Worths(p))
    <3>1. s \in Seq(Ordered)
      BY PlainOrdered
    <3>2. ListSum(s, Worths(p)) \in Int /\ ListSum(<<>>, Worths(p)) = 0
      BY <3>1, OrderedLaws DEF SumLaws
    <3> QED BY <1>1, <3>2, TimesZero
  <2> QED BY <1>1, <2>1, <2>2
<1>2. CASE c # 0
  BY <1>2, ScaledTimes
<1> QED BY <1>1, <1>2

LEMMA MulTermWorth ==
  ASSUME NEW a \in Plain, NEW b \in Plain
  PROVE  /\ MulTerm(a, b).elem \in Seq(PlainMono)
         /\ \A p \in [Var -> Int] :
              MulTerm(a, b).const + ListSum(MulTerm(a, b).elem, Worths(p))
                = TermValue(a, p) * TermValue(b, p)
<1> DEFINE d == Products(a, b)
           s == a.elem
           t == b.elem
           x == IF b.const = 0 THEN <<>> ELSE Scaled(s, b.const)
           y == IF a.const = 0 THEN <<>> ELSE Scaled(t, a.const)
<1>0. a \in Term /\ b \in Term
  BY PlainOrdered
<1>1. /\ s \in Seq(PlainMono) /\ t \in Seq(PlainMono) /\ s \in Seq(Whole) /\ t \in Seq(Whole)
      /\ a.const \in Int /\ b.const \in Int
  BY <1>0, TermParts, PlainIs
<1>2. /\ d \in Seq(PlainMono)
      /\ \A p \in [Var -> Int] : ListSum(d, Worths(p)) = ListSum(s, Worths(p)) * ListSum(t, Worths(p))
  BY <1>1, ProductsWorth
<1>3. /\ x \in Seq(PlainMono)
      /\ \A p \in [Var -> Int] : ListSum(x, Worths(p)) = b.const * ListSum(s, Worths(p))
  <2> HIDE DEF s
  <2> QED BY <1>1, PartWorth
<1>4. /\ y \in Seq(PlainMono)
      /\ \A p \in [Var -> Int] : ListSum(y, Worths(p)) = a.const * ListSum(t, Worths(p))
  <2> HIDE DEF t
  <2> QED BY <1>1, PartWorth
<1>5. MulTerm(a, b).const = a.const * b.const /\ MulTerm(a, b).elem = (d \o x) \o y
  BY DEF MulTerm
<1> HIDE DEF d, x, y
<1>6. (d \o x) \in Seq(PlainMono) /\ (d \o x) \o y \in Seq(PlainMono)
  BY <1>2, <1>3, <1>4, ConcatProperties
<1>7. ASSUME NEW p \in [Var -> Int]
      PROVE  a.const * b.const + ListSum((d \o x) \o y, Worths(p)) = TermValue(a, p) * TermValue(b, p)
  <2> DEFINE W == Worths(p)
             u == ListSum(s, W)
             v == ListSum(t, W)
  <2>1. /\ d \in Seq(Ordered) /\ x \in Seq(Ordered) /\ y \in Seq(Ordered) /\ d \o x \in Seq(Ordered)
    BY <1>2, <1>3, <1>4, <1>6, PlainOrdered
  <2>2. SumLaws(Ordered, W)
    BY OrderedLaws
  <2>3. /\ ListSum(d \o x, W) = ListSum(d, W) + ListSum(x, W)
        /\ ListSum((d \o x) \o y, W) = ListSum(d \o x, W) + ListSum(y, W)
    <3> HIDE DEF W
    <3> QED BY <2>1, <2>2 DEF SumLaws
  <2>4. /\ ListSum(d, W) = u * v /\ ListSum(x, W) = b.const * u /\ ListSum(y, W) = a.const * v
    BY <1>2, <1>3, <1>4
  <2>5. Valued(a, p) /\ Valued(b, p)
    BY PlainWorth
  <2>6. /\ u \in Int /\ v \in Int /\ TermValue(a, p) = a.const + u /\ TermValue(b, p) = b.const + v
    BY <2>5 DEF Valued
  <2> DEFINE g == a.const
             h == b.const
  <2>7. g \in Int /\ h \in Int
    BY <1>1
  <2> HIDE DEF W, u, v, g, h
  <2>8. (g * h) + ((u * v + h * u) + g * v) = (g + u) * (h + v)
    BY <2>6, <2>7, Expanded
  <2>9. ListSum((d \o x) \o y, W) = (u * v + h * u) + g * v
    BY <2>3, <2>4 DEF g, h
  <2>10. TermValue(a, p) = g + u /\ TermValue(b, p) = h + v
    BY <2>6 DEF g, h
  <2>11. g * h + ListSum((d \o x) \o y, W) = TermValue(a, p) * TermValue(b, p)
    BY <2>8, <2>9, <2>10
  <2> QED BY <2>11 DEF g, h, W
<1> QED BY <1>5, <1>6, <1>7

LEMMA ProductWorth ==
  ASSUME NEW p \in [Var -> Int], NEW a \in Plain, NEW b \in Plain
  PROVE  IsWorth(term_mul_term(a, b), TermValue(a, p) * TermValue(b, p), p)
<1> DEFINE m == MulTerm(a, b)
           t == term_simplify(m)
<1>1. a \in Term /\ b \in Term
  BY PlainOrdered
<1>2. m.const \in Int /\ m.elem \in Seq(Whole)
  BY <1>1, MulTermParts
<1>3. /\ m.elem \in Seq(PlainMono)
      /\ m.const + ListSum(m.elem, Worths(p)) = TermValue(a, p) * TermValue(b, p)
  BY MulTermWorth
<1> HIDE DEF m
<1>4. t \in Term /\ t.const = m.const
  BY <1>2, TermSimple
<1>5. t.elem \in Seq(PlainMono) /\ ListSum(t.elem, Worths(p)) = ListSum(m.elem, Worths(p))
  BY <1>2, <1>3, PlainKind, SimplifiedWorth
<1> HIDE DEF t
<1>6. IsWorth(t, t.const + ListSum(t.elem, Worths(p)), p)
  BY <1>4, <1>5, PlainMade
<1>7. t.const + ListSum(t.elem, Worths(p)) = TermValue(a, p) * TermValue(b, p)
  BY <1>3, <1>4, <1>5
<1> QED BY <1>6, <1>7 DEF term_mul_term, t, m
----------------------------------------------------------------------------
(***************************************************************************)
(* Loops over terms against the loops over what they are worth.            *)
(***************************************************************************)
LEMMA PointsAre == \A p \in Point : p \in [Var -> Int]
BY TermEvalAssumption

Listed(s) ==
  /\ DOMAIN Worth(s) = 1 .. Len(s) /\ Len(Worth(s)) = Len(s) /\ Len(s) \in Nat
  /\ \E V : Worth(s) \in Seq([Point -> V])
  /\ \A i \in 1 .. Len(s) : /\ Worth(s)[i] = [p \in Point |-> TermValue(s[i], p)]
                            /\ \A p \in Point : Worth(s)[i][p] = TermValue(s[i], p)

LEMMA WorthOf ==
  ASSUME NEW s \in Seq(Term)
  PROVE  Listed(s)
<1> DEFINE n == Len(s)
           V == {TermValue(t, p) : t \in Term, p \in Point}
           w == [i \in 1 .. n |-> [p \in Point |-> TermValue(s[i], p)]]
<1>1. n \in Nat /\ DOMAIN s = 1 .. n /\ \A i \in 1 .. n : s[i] \in Term
  OBVIOUS
<1>2. Worth(s) = w
  BY <1>1 DEF Worth
<1>3. \A i \in 1 .. n : w[i] \in [Point -> V]
  BY <1>1
<1> HIDE DEF V
<1>4. w \in Seq([Point -> V]) /\ Len(w) = n
  <2>1. w = [i \in 1 .. n |-> w[i]]
    OBVIOUS
  <2> HIDE DEF w, n
  <2> QED BY <1>1, <1>3, <2>1, MappedSeq
<1>5. \A i \in 1 .. n : /\ w[i] = [p \in Point |-> TermValue(s[i], p)]
                        /\ \A p \in Point : w[i][p] = TermValue(s[i], p)
  OBVIOUS
<1>6. DOMAIN w = 1 .. n
  OBVIOUS
<1> HIDE DEF w
<1> QED BY <1>1, <1>2, <1>4, <1>5, <1>6 DEF Listed

TotalRun(f, a, p) ==
  f = [i \in 0 .. Len(a) |-> IF i = 0 THEN 0 ELSE f[i - 1] + a[i][p]]

\* What the functions are worth together, as a sum of the terms' values.
LEMMA TotalSteps ==
  ASSUME NEW p \in Point, NEW terms \in Seq(Plain)
  PROVE  \E f : /\ Promise!Total(Worth(terms), p) = f[Len(terms)] /\ f[0] = 0
                /\ \A i \in 1 .. Len(terms) : f[i] = f[i - 1] + TermValue(terms[i], p)
<1> DEFINE V == [t \in Plain |-> TermValue(t, p)]
           n == Len(terms)
           a == Worth(terms)
<1>1. p \in [Var -> Int] /\ n \in Nat /\ (\A i \in 1 .. n : terms[i] \in Plain) /\ terms \in Seq(Term)
  <2>1. \A i \in 1 .. Len(terms) : terms[i] \in Term
    BY PlainOrdered
  <2>2. terms \in Seq(Term)
    BY <2>1, AllIn
  <2> QED BY <2>2, PointsAre
<1>2. V \in [Plain -> Int]
  BY <1>1, PlainWorth DEF Valued
<1>3. \A i \in 1 .. n : V[terms[i]] = a[i][p] /\ V[terms[i]] = TermValue(terms[i], p)
  BY ZenonT(60), <1>1, WorthOf DEF Listed
<1>4. Len(a) = n
  BY <1>1, WorthOf DEF Listed
<1> HIDE DEF V, a
<1>5. PICK f : f = [i \in 0 .. n |-> IF i = 0 THEN 0 ELSE f[i - 1] + V[terms[i]]]
  <2>1. Loops(Plain, V)
    BY <1>2, LoopsSum
  <2> QED BY <2>1 DEF Loops
<1>6. TotalRun(f, a, p)
  <2>1. \A i \in 0 .. n : i # 0 => f[i - 1] + V[terms[i]] = f[i - 1] + a[i][p]
    BY <1>1, <1>3
  <2>2. [i \in 0 .. n |-> IF i = 0 THEN 0 ELSE f[i - 1] + V[terms[i]]]
          = [i \in 0 .. n |-> IF i = 0 THEN 0 ELSE f[i - 1] + a[i][p]]
    BY <2>1
  <2>3. f = [i \in 0 .. n |-> IF i = 0 THEN 0 ELSE f[i - 1] + a[i][p]]
    BY <1>5, <2>2
  <2> QED BY <1>4, <2>3 DEF TotalRun
<1> DEFINE h == CHOOSE g : TotalRun(g, a, p)
<1>7. TotalRun(h, a, p)
  BY <1>6
<1>8. Promise!Total(a, p) = h[n]
  BY <1>4 DEF Promise!Total, TotalRun
<1> HIDE DEF h, n
<1>9. h[0] = 0 /\ \A i \in 1 .. n : h[i] = h[i - 1] + a[i][p]
  <2>1. 0 \in 0 .. n /\ \A i \in 1 .. n : i \in 0 .. n /\ i # 0
    BY <1>1
  <2> QED BY <1>4, <1>7, <2>1 DEF TotalRun
<1> QED BY <1>3, <1>8, <1>9 DEF n, a

LEMMA SumWorth ==
  ASSUME NEW p \in Point, NEW terms \in Seq(Plain)
  PROVE  IsWorth(SumTerm(terms), Promise!Total(Worth(terms), p), p)
<1> DEFINE n == Len(terms)
<1>1. p \in [Var -> Int] /\ n \in Nat /\ (\A i \in 1 .. n : terms[i] \in Plain) /\ terms \in Seq(Term)
  <2>1. \A i \in 1 .. Len(terms) : terms[i] \in Term
    BY PlainOrdered
  <2>2. terms \in Seq(Term)
    BY <2>1, AllIn
  <2> QED BY <2>2, PointsAre
<1>2. PICK h : /\ SumTerm(terms) = h[n] /\ h[0] = term_new(1)
               /\ \A i \in 1 .. n : h[i] = term_append_term(h[i - 1], terms[i])
  BY <1>1, SumTermRun
<1>3. PICK f : /\ Promise!Total(Worth(terms), p) = f[n] /\ f[0] = 0
               /\ \A i \in 1 .. n : f[i] = f[i - 1] + TermValue(terms[i], p)
  BY TotalSteps
<1> DEFINE T == [i \in 0 .. n |-> {t \in Plain : TermValue(t, p) = f[i]}]
<1>4. h[0] \in T[0]
  <2>1. 0 \in 0 .. n
    BY <1>1
  <2> QED BY <1>1, <1>2, <1>3, <2>1, NewWorth DEF IsWorth
<1>5. \A i \in 1 .. n : h[i - 1] \in T[i - 1] => h[i] \in T[i]
  <2> SUFFICES ASSUME NEW i \in 1 .. n, h[i - 1] \in T[i - 1] PROVE h[i] \in T[i]
    OBVIOUS
  <2>1. i \in 0 .. n /\ i - 1 \in 0 .. n
    BY <1>1
  <2>2. h[i - 1] \in Plain /\ TermValue(h[i - 1], p) = f[i - 1]
    BY <2>1
  <2>3. IsWorth(term_append_term(h[i - 1], terms[i]), f[i - 1] + TermValue(terms[i], p), p)
    BY <1>1, <2>2, AppendWorth
  <2> QED BY <1>2, <1>3, <2>1, <2>3 DEF IsWorth
<1>6. \A i \in 0 .. n : h[i] \in T[i]
  <2> HIDE DEF T, n
  <2> QED BY <1>1, <1>4, <1>5, RoundsKeep
<1>7. n \in 0 .. n
  BY <1>1
<1> QED BY <1>2, <1>3, <1>6, <1>7 DEF IsWorth

PowersRun(f, x, k) == f = [i \in 0 .. k |-> IF i = 0 THEN 1 ELSE f[i - 1] * x]

LEMMA PowerSteps ==
  ASSUME NEW x \in Int, NEW k \in Nat
  PROVE  \E f : /\ Promise!Power(x, k) = f[k] /\ f[0] = 1
                /\ \A i \in 1 .. k : f[i] = f[i - 1] * x
<1> DEFINE F == [i \in 1 .. k |-> [y \in Int |-> y * x]]
           T == [i \in 0 .. k |-> Int]
<1>0. \A i \in 1 .. k : i \in 0 .. k /\ i - 1 \in 0 .. k
  OBVIOUS
<1>1. \A i \in 1 .. k : \A y \in T[i - 1] : F[i][y] \in T[i]
  BY <1>0
<1>2. 1 \in T[0]
  OBVIOUS
<1>3. PICK f : IsRun(f, k, 1, F) /\ \A i \in 0 .. k : f[i] \in T[i]
  <2> HIDE DEF T, F
  <2> QED BY <1>1, <1>2, Rounds
<1>4. PowersRun(f, x, k)
  <2>1. f = [i \in 0 .. k |-> IF i = 0 THEN 1 ELSE F[i][f[i - 1]]]
    BY <1>3 DEF IsRun
  <2>2. \A i \in 0 .. k : i # 0 => F[i][f[i - 1]] = f[i - 1] * x
    <3> SUFFICES ASSUME NEW i \in 0 .. k, i # 0 PROVE F[i][f[i - 1]] = f[i - 1] * x
      OBVIOUS
    <3>1. i \in 1 .. k /\ i - 1 \in 0 .. k
      OBVIOUS
    <3>2. f[i - 1] \in Int
      BY <1>3, <3>1
    <3> QED BY <3>1, <3>2
  <2> HIDE DEF F
  <2> QED BY <2>1, <2>2 DEF PowersRun
<1> DEFINE h == CHOOSE g : PowersRun(g, x, k)
<1>5. PowersRun(h, x, k)
  BY <1>4
<1>6. Promise!Power(x, k) = h[k]
  BY DEF Promise!Power, PowersRun
<1> HIDE DEF h
<1>7. h[0] = 1 /\ \A i \in 1 .. k : h[i] = h[i - 1] * x
  <2>1. 0 \in 0 .. k /\ \A i \in 1 .. k : i \in 0 .. k /\ i # 0
    OBVIOUS
  <2> QED BY <1>5, <2>1 DEF PowersRun
<1> QED BY <1>6, <1>7

LEMMA PowerWorth ==
  ASSUME NEW p \in [Var -> Int], NEW t \in Plain, NEW e \in Nat
  PROVE  IsWorth(PowerTerm(t, e), Promise!Power(TermValue(t, p), e), p)
<1> DEFINE x == TermValue(t, p)
<1>1. x \in Int /\ t \in Term
  BY PlainWorth, PlainOrdered DEF Valued
<1> HIDE DEF x
<1>2. PICK f : Promise!Power(x, e) = f[e] /\ f[0] = 1 /\ \A i \in 1 .. e : f[i] = f[i - 1] * x
  BY <1>1, PowerSteps
<1>3. CASE e = 0
  <2>1. IsWorth(term_new(1), 0, p)
    BY NewWorth
  <2>2. IsWorth(term_add_constant(term_new(1), 1), 0 + 1, p)
    BY <2>1, ConstWorth DEF IsWorth
  <2> QED BY <1>2, <1>3, <2>2 DEF PowerTerm, x
<1>4. CASE e # 0
  <2>0. \E h : /\ PowerTerm(t, e) = h[e - 1] /\ h[0] = term_copy(t)
               /\ \A i \in 1 .. e - 1 : h[i] = term_mul_term(h[i - 1], t)
               /\ \A i \in 0 .. e - 1 : h[i] \in Term
    BY ONLY <1>1, <1>4, e \in Nat, PowerTermRun
  <2>1. PICK h : /\ PowerTerm(t, e) = h[e - 1] /\ h[0] = term_copy(t)
                 /\ \A i \in 1 .. e - 1 : h[i] = term_mul_term(h[i - 1], t)
    BY <2>0
  <2> DEFINE n == e - 1
             T == [i \in 0 .. n |-> {u \in Plain : TermValue(u, p) = f[i + 1]}]
  <2>2. n \in Nat /\ n + 1 = e
    BY <1>4
  <2>3. h[0] \in T[0]
    <3>1. 0 \in 0 .. n /\ 1 \in 1 .. e /\ 1 - 1 = 0 /\ 0 + 1 = 1
      BY <2>2
    <3>2. f[1] = x
      <4>1. f[1] = 1 * x
        BY <1>2, <3>1
      <4> QED BY <1>1, <4>1
    <3>3. IsWorth(term_copy(t), x, p)
      BY CopyWorth DEF x
    <3> QED BY <2>1, <3>1, <3>2, <3>3 DEF IsWorth
  <2>4. \A i \in 1 .. n : h[i - 1] \in T[i - 1] => h[i] \in T[i]
    <3> SUFFICES ASSUME NEW i \in 1 .. n, h[i - 1] \in T[i - 1] PROVE h[i] \in T[i]
      OBVIOUS
    <3>1. i \in 0 .. n /\ i - 1 \in 0 .. n /\ i + 1 \in 1 .. e /\ (i + 1) - 1 = i /\ (i - 1) + 1 = i
      BY <2>2
    <3>2. h[i - 1] \in Plain /\ TermValue(h[i - 1], p) = f[i]
      BY <3>1
    <3>3. IsWorth(term_mul_term(h[i - 1], t), f[i] * x, p)
      BY <3>2, ProductWorth DEF x
    <3>4. f[i + 1] = f[i] * x
      BY <1>2, <3>1
    <3> QED BY <2>1, <3>1, <3>3, <3>4 DEF IsWorth
  <2>5. \A i \in 0 .. n : h[i] \in T[i]
    <3> HIDE DEF T, n
    <3> QED BY <2>2, <2>3, <2>4, RoundsKeep
  <2>6. n \in 0 .. n
    BY <2>2
  <2> QED BY <1>2, <2>1, <2>2, <2>5, <2>6 DEF IsWorth, x
<1> QED BY <1>3, <1>4
----------------------------------------------------------------------------
(***************************************************************************)
(* Sums over the variables, which take one after the other in an order     *)
(* that nothing is known about.                                            *)
(***************************************************************************)
Some(s)      == CHOOSE x \in s : TRUE
Partial(f, g) ==
  g = [s \in SUBSET DOMAIN f |-> IF s = {} THEN 0 ELSE f[Some(s)] + g[s \ {Some(s)}]]

LEMMA SumIs == \A f : SumOf(f) = (CHOOSE g : Partial(f, g))[DOMAIN f]
BY DEF SumOf, MapThenSumSet, MapThenFoldSet, Partial, Some

\* A finite set is made by adding.
LEMMA SetInduction ==
  ASSUME NEW D, IsFiniteSet(D), NEW C \in SUBSET SUBSET D, {} \in C,
         \A s \in SUBSET D : s # {} /\ (\A x \in s : s \ {x} \in C) => s \in C
  PROVE  C = SUBSET D
<1> DEFINE N == {n \in Nat : \A s \in SUBSET D : Cardinality(s) = n => s \in C}
<1>1. \A s \in SUBSET D : IsFiniteSet(s) /\ Cardinality(s) \in Nat
  BY FS_Subset, FS_CardinalityType
<1>2. 0 \in N
  <2>1. \A s \in SUBSET D : Cardinality(s) = 0 => s = {}
    BY <1>1, FS_EmptySet
  <2> QED BY <2>1
<1>3. ASSUME NEW n \in N PROVE n + 1 \in N
  <2>1. n \in Nat /\ \A s \in SUBSET D : Cardinality(s) = n => s \in C
    OBVIOUS
  <2>2. ASSUME NEW s \in SUBSET D, Cardinality(s) = n + 1 PROVE s \in C
    <3>1. s # {}
      <4>1. Cardinality({}) = 0 /\ n + 1 # 0
        BY <2>1, FS_EmptySet
      <4> QED BY <2>2, <4>1
    <3>2. ASSUME NEW x \in s PROVE s \ {x} \in C
      <4>1. Cardinality(s \ {x}) = Cardinality(s) - 1
        BY <1>1, FS_RemoveElement
      <4>2. Cardinality(s \ {x}) = n
        BY ONLY <2>1, <2>2, <4>1
      <4> QED BY <2>1, <4>2
    <3> QED BY <3>1, <3>2
  <2> QED BY <2>1, <2>2
<1>4. N \in SUBSET Nat
  OBVIOUS
<1>5. N = Nat
  <2> HIDE DEF N
  <2> QED BY <1>2, <1>3, <1>4, Induction
<1> QED BY <1>1, <1>5
Lessened(f, h) ==
  [s \in SUBSET DOMAIN f |-> IF s = {} THEN 0 ELSE f[Some(s)] + h[s \ {Some(s)}]]

LEMMA SomeIn == \A s : s # {} => Some(s) \in s
BY DEF Some

\* The values of the sum's recursion exist, on every set of variables.
LEMMA PartialExists ==
  ASSUME NEW D, IsFiniteSet(D), NEW f \in [D -> Int]
  PROVE  \E g : Partial(f, g)
<1> DEFINE S == [SUBSET D -> Int]
           z == [s \in SUBSET D |-> 0]
           step == [h \in S |-> Lessened(f, h)]
<1>1. z \in S
  OBVIOUS
<1>2. \A h \in S : Lessened(f, h) \in S
  <2> SUFFICES ASSUME NEW h \in S, NEW s \in SUBSET D, s # {}
               PROVE  f[Some(s)] + h[s \ {Some(s)}] \in Int
    BY DEF Lessened
  <2>1. Some(s) \in D /\ s \ {Some(s)} \in SUBSET D
    BY SomeIn
  <2> QED BY <2>1
<1>3. step \in [S -> S]
  BY <1>2
<1>4. PICK G : Repeats(G, S, z, step)
  <2> HIDE DEF S, z, step
  <2> QED BY <1>1, <1>3, Repeated
<1>5. (\A k \in Nat : G[k] \in S) /\ \A k \in Nat : G[k + 1] = Lessened(f, G[k])
  BY <1>4 DEF Repeats
<1> DEFINE C == {s \in SUBSET D : \A k \in Nat : k >= Cardinality(s) => G[k + 1][s] = G[k][s]}
<1>6. \A s \in SUBSET D : IsFiniteSet(s) /\ Cardinality(s) \in Nat
  BY FS_Subset, FS_CardinalityType
<1>7. \A h \in S : /\ Lessened(f, h)[{}] = 0
                   /\ \A s \in SUBSET D : s # {} => Lessened(f, h)[s] = f[Some(s)] + h[s \ {Some(s)}]
  BY DEF Lessened
<1>8. {} \in C
  <2> SUFFICES ASSUME NEW k \in Nat PROVE G[k + 1][{}] = G[k][{}]
    OBVIOUS
  <2>1. G[k + 1][{}] = 0
    BY ZenonT(60), <1>5, <1>7
  <2>2. CASE k = 0
    <3>1. G[0] = z
      BY <1>4 DEF Repeats
    <3> QED BY <2>1, <2>2, <3>1
  <2>3. CASE k # 0
    <3>1. k - 1 \in Nat /\ (k - 1) + 1 = k
      BY <2>3
    <3>2. G[k] = Lessened(f, G[k - 1])
      BY <1>5, <3>1
    <3> QED BY ZenonT(60), <1>5, <1>7, <2>1, <3>1, <3>2
  <2> QED BY <2>2, <2>3
<1>9. ASSUME NEW s \in SUBSET D, s # {}, \A x \in s : s \ {x} \in C
      PROVE  s \in C
  <2> SUFFICES ASSUME NEW k \in Nat, k >= Cardinality(s) PROVE G[k + 1][s] = G[k][s]
    OBVIOUS
  <2> DEFINE x == Some(s)
             t == s \ {x}
  <2>1. x \in s /\ t \in C /\ t \in SUBSET D
    BY <1>9, SomeIn
  <2>2. Cardinality(t) = Cardinality(s) - 1 /\ Cardinality(s) # 0
    BY <1>6, <1>9, <2>1, FS_RemoveElement, FS_EmptySet
  <2> HIDE DEF x
  <2>3. k - 1 \in Nat /\ (k - 1) + 1 = k /\ k - 1 >= Cardinality(t)
    BY <1>6, <2>1, <2>2
  <2>4. G[k][t] = G[k - 1][t]
    BY <2>1, <2>3
  <2>5. G[k + 1][s] = f[x] + G[k][t]
    BY ZenonT(60), <1>5, <1>7, <1>9 DEF x
  <2>6. G[k][s] = f[x] + G[k - 1][t]
    <3>1. G[k] = Lessened(f, G[k - 1])
      BY <1>5, <2>3
    <3> QED BY ZenonT(60), <1>5, <1>7, <1>9, <2>3, <3>1 DEF x
  <2> QED BY <2>4, <2>5, <2>6
<1>10. C = SUBSET D
  <2>1. C \in SUBSET SUBSET D
    OBVIOUS
  <2> HIDE DEF C
  <2> QED BY <1>8, <1>9, <2>1, SetInduction
<1> DEFINE n == Cardinality(D)
<1>11. n \in Nat /\ \A s \in SUBSET D : Cardinality(s) <= n
  BY FS_Subset, FS_CardinalityType
<1>12. \A s \in SUBSET D : G[n + 1][s] = G[n][s]
  BY <1>6, <1>10, <1>11
<1>13. G[n + 1] = G[n]
  <2> HIDE DEF n
  <2>1. G[n + 1] \in S /\ G[n] \in S
    <3>1. n + 1 \in Nat
      BY <1>11
    <3> HIDE DEF S
    <3> QED BY <1>5, <1>11, <3>1
  <2> QED BY <1>12, <2>1
<1>14. G[n] = Lessened(f, G[n])
  BY <1>5, <1>11, <1>13
<1> QED BY <1>14 DEF Partial, Lessened
\* Whichever variable is taken first, the sum is the same.
Swaps(D, f, g) ==
  /\ g[{}] = 0
  /\ \A s \in SUBSET D : g[s] \in Int /\ \A x \in s : g[s] = f[x] + g[s \ {x}]

LEMMA PartialSwaps ==
  ASSUME NEW D, IsFiniteSet(D), NEW f \in [D -> Int], NEW g, Partial(f, g)
  PROVE  Swaps(D, f, g)
<1>1. /\ g[{}] = 0
      /\ \A s \in SUBSET D : s # {} => g[s] = f[Some(s)] + g[s \ {Some(s)}]
  <2>1. g = [s \in SUBSET D |-> IF s = {} THEN 0 ELSE f[Some(s)] + g[s \ {Some(s)}]]
    BY DEF Partial
  <2>2. {} \in SUBSET D
    OBVIOUS
  <2> QED BY <2>1, <2>2
<1> DEFINE I == {s \in SUBSET D : g[s] \in Int}
           C == {s \in SUBSET D : \A x \in s : g[s] = f[x] + g[s \ {x}]}
<1>2. {} \in C /\ {} \in I
  BY <1>1
<1>5. ASSUME NEW s \in SUBSET D, s # {}, \A x \in s : s \ {x} \in I
      PROVE  s \in I
  <2> DEFINE y == Some(s)
             t == s \ {y}
  <2>1. y \in s /\ y \in D /\ t \in I
    BY <1>5, SomeIn
  <2>2. g[s] = f[y] + g[t]
    BY <1>1, <1>5
  <2> HIDE DEF y, t
  <2>3. f[y] \in Int /\ g[t] \in Int
    BY <2>1
  <2> QED BY <2>2, <2>3
<1>6. I = SUBSET D
  <2>1. I \in SUBSET SUBSET D
    OBVIOUS
  <2> HIDE DEF I
  <2> QED BY <1>2, <1>5, <2>1, SetInduction
<1>7. \A s \in SUBSET D : g[s] \in Int
  BY <1>6
<1> HIDE DEF I
<1>3. ASSUME NEW s \in SUBSET D, s # {}, \A x \in s : s \ {x} \in C
      PROVE  s \in C
  <2> DEFINE y == Some(s)
             t == s \ {y}
  <2>1. y \in s /\ y \in D /\ t \in C
    BY <1>3, SomeIn
  <2>2. g[s] = f[y] + g[t] /\ f[y] \in Int /\ g[t] \in Int
    BY <1>1, <1>3, <1>7, <2>1
  <2> HIDE DEF y
  <2>3. ASSUME NEW x \in s PROVE g[s] = f[x] + g[s \ {x}]
    <3>1. CASE x = y
      BY <2>2, <3>1
    <3>2. CASE x # y
      <4> DEFINE u == s \ {x}
                 w == t \ {x}
      <4>1. u \in C /\ x \in t /\ y \in u /\ w = u \ {y} /\ w \in SUBSET D
        BY <1>3, <2>1, <3>2
      <4>2. g[t] = f[x] + g[w] /\ g[u] = f[y] + g[w]
        BY <2>1, <4>1
      <4>3. g[w] \in Int /\ f[x] \in Int
        BY <1>7, <4>1
      <4> HIDE DEF t, u, w
      <4> QED BY <2>2, <4>2, <4>3 DEF u
    <3> QED BY <3>1, <3>2
  <2> QED BY <2>3
<1>4. C = SUBSET D
  <2>1. C \in SUBSET SUBSET D
    OBVIOUS
  <2> HIDE DEF C
  <2> QED BY <1>2, <1>3, <2>1, SetInduction
<1> QED BY <1>1, <1>4, <1>7 DEF Swaps
\* Sums of integers.
SumsUp(D, f) ==
  /\ SumOf(f) \in Int
  /\ D = {} => SumOf(f) = 0
  /\ \A x \in D : SumOf(f) = f[x] + SumOf([v \in D \ {x} |-> f[v]])

LEMMA SumOfIs ==
  ASSUME NEW D, IsFiniteSet(D), NEW f \in [D -> Int]
  PROVE  SumsUp(D, f)
<1> DEFINE g == CHOOSE k : Partial(f, k)
<1>1. Partial(f, g) /\ SumOf(f) = g[D]
  <2>1. \E k : Partial(f, k)
    BY PartialExists
  <2> QED BY <2>1, SumIs
<1> HIDE DEF g
<1>2. /\ g[{}] = 0
      /\ \A s \in SUBSET D : g[s] \in Int /\ \A x \in s : g[s] = f[x] + g[s \ {x}]
  <2>1. Swaps(D, f, g)
    BY <1>1, PartialSwaps
  <2> QED BY <2>1 DEF Swaps
<1>3. ASSUME NEW x \in D
      PROVE  SumOf([v \in D \ {x} |-> f[v]]) = g[D \ {x}]
  <2> DEFINE E == D \ {x}
             e == [v \in E |-> f[v]]
             h == CHOOSE k : Partial(e, k)
  <2>1. IsFiniteSet(E) /\ e \in [E -> Int]
    BY FS_Subset
  <2>2. Partial(e, h) /\ SumOf(e) = h[E]
    <3> HIDE DEF e, E
    <3>1. \E k : Partial(e, k)
      BY <2>1, PartialExists
    <3>2. DOMAIN e = E
      BY <2>1
    <3> QED BY <3>1, <3>2, SumIs
  <2> HIDE DEF h
  <2>3. /\ h[{}] = 0
        /\ \A s \in SUBSET E : h[s] \in Int /\ \A y \in s : h[s] = e[y] + h[s \ {y}]
    <3> HIDE DEF e, E
    <3>1. Swaps(E, e, h)
      BY <2>1, <2>2, PartialSwaps
    <3> QED BY <3>1 DEF Swaps
  <2> DEFINE C == {s \in SUBSET E : g[s] = h[s]}
  <2>4. {} \in C
    BY <1>2, <2>3
  <2>5. ASSUME NEW s \in SUBSET E, s # {}, \A y \in s : s \ {y} \in C
        PROVE  s \in C
    <3> DEFINE y == Some(s)
    <3>1. y \in s /\ y \in E /\ s \in SUBSET D /\ s \ {y} \in C
      BY <2>5, SomeIn
    <3> HIDE DEF y
    <3>2. g[s] = f[y] + g[s \ {y}] /\ h[s] = e[y] + h[s \ {y}] /\ e[y] = f[y]
      BY <1>2, <2>3, <3>1
    <3> QED BY <3>1, <3>2
  <2>6. C = SUBSET E
    <3>1. C \in SUBSET SUBSET E
      OBVIOUS
    <3> HIDE DEF C, E
    <3> QED BY <2>1, <2>4, <2>5, <3>1, SetInduction
  <2> QED BY <2>2, <2>6
<1> QED BY <1>1, <1>2, <1>3 DEF SumsUp
----------------------------------------------------------------------------
(***************************************************************************)
(* Coefficients times values.                                              *)
(***************************************************************************)
Weighed(f, q) == SumOf([v \in DOMAIN f |-> f[v] * q[v]])

\* The sum of coefficients f on a finite set of variables.
WeighedLaws(D, f, q) ==
  /\ Weighed(f, q) \in Int
  /\ D = {} => Weighed(f, q) = 0
  /\ \A x \in D : Weighed(f, q) = f[x] * q[x] + Weighed([v \in D \ {x} |-> f[v]], q)

LEMMA WeighedIs ==
  ASSUME NEW D, IsFiniteSet(D), NEW f \in [D -> Int], NEW q, \A v \in D : q[v] \in Int
  PROVE  WeighedLaws(D, f, q)
<1> DEFINE F == [v \in D |-> f[v] * q[v]]
<1>1. F \in [D -> Int] /\ Weighed(f, q) = SumOf(F)
  BY DEF Weighed
<1>2. SumsUp(D, F)
  <2> HIDE DEF F
  <2> QED BY <1>1, SumOfIs
<1>3. ASSUME NEW x \in D
      PROVE  /\ F[x] = f[x] * q[x]
             /\ SumOf([v \in D \ {x} |-> F[v]]) = Weighed([v \in D \ {x} |-> f[v]], q)
  <2>1. [v \in D \ {x} |-> F[v]] = [v \in D \ {x} |-> f[v] * q[v]]
    OBVIOUS
  <2>2. [v \in DOMAIN [v \in D \ {x} |-> f[v]] |-> [w \in D \ {x} |-> f[w]][v] * q[v]]
          = [v \in D \ {x} |-> f[v] * q[v]]
    OBVIOUS
  <2> QED BY <2>1, <2>2 DEF Weighed
<1> HIDE DEF F
<1> QED BY <1>1, <1>2, <1>3 DEF SumsUp, WeighedLaws

Moved(D, f, q) ==
  \A x \in D : \A c \in Int : Weighed([f EXCEPT ![x] = f[x] + c], q) = Weighed(f, q) + c * q[x]

LEMMA WeighedChanged ==
  ASSUME NEW D, IsFiniteSet(D), NEW f \in [D -> Int], NEW q, \A v \in D : q[v] \in Int
  PROVE  Moved(D, f, q)
<1> SUFFICES ASSUME NEW x \in D, NEW c \in Int
             PROVE  Weighed([f EXCEPT ![x] = f[x] + c], q) = Weighed(f, q) + c * q[x]
  BY DEF Moved
<1> DEFINE g == [f EXCEPT ![x] = f[x] + c]
<1>1. g \in [D -> Int] /\ g[x] = f[x] + c /\ f[x] \in Int /\ q[x] \in Int
  OBVIOUS
<1>2. [v \in D \ {x} |-> g[v]] = [v \in D \ {x} |-> f[v]]
  OBVIOUS
<1> DEFINE rest == Weighed([v \in D \ {x} |-> f[v]], q)
<1> HIDE DEF g
<1>3. WeighedLaws(D, f, q) /\ WeighedLaws(D, g, q) /\ WeighedLaws(D \ {x}, [v \in D \ {x} |-> f[v]], q)
  <2>1. IsFiniteSet(D \ {x}) /\ [v \in D \ {x} |-> f[v]] \in [D \ {x} -> Int]
    BY FS_Subset
  <2>2. WeighedLaws(D \ {x}, [v \in D \ {x} |-> f[v]], q)
    <3> DEFINE h == [v \in D \ {x} |-> f[v]]
    <3> HIDE DEF h
    <3> QED BY <2>1, WeighedIs
  <2> QED BY <1>1, <2>2, WeighedIs
<1>4. /\ Weighed(f, q) = f[x] * q[x] + rest /\ Weighed(g, q) = g[x] * q[x] + rest
      /\ rest \in Int
  BY <1>2, <1>3 DEF WeighedLaws
<1> HIDE DEF rest
<1>5. (f[x] + c) * q[x] = f[x] * q[x] + c * q[x]
  BY <1>1, Distributes
<1>6. f[x] * q[x] \in Int /\ c * q[x] \in Int
  BY <1>1
<1>7. Weighed(g, q) = Weighed(f, q) + c * q[x]
  BY ONLY <1>1, <1>4, <1>5, <1>6
<1> QED BY <1>7 DEF g

LEMMA WeighedMore ==
  ASSUME NEW D, IsFiniteSet(D), NEW f \in [D -> Int], NEW q, \A v \in D : q[v] \in Int,
         NEW x, x \notin D, q[x] \in Int, NEW c \in Int
  PROVE  Weighed(With(f, x, c), q) = Weighed(f, q) + c * q[x]
<1> DEFINE g == With(f, x, c)
           E == D \cup {x}
<1>1. g \in [E -> Int] /\ g[x] = c /\ \A v \in E : q[v] \in Int
  BY DEF With
<1>2. E \ {x} = D /\ [v \in E \ {x} |-> g[v]] = f
  BY DEF With
<1>3. IsFiniteSet(E) /\ x \in E
  BY FS_AddElement
<1> HIDE DEF g, E
<1>4. WeighedLaws(D, f, q) /\ WeighedLaws(E, g, q)
  BY <1>1, <1>3, WeighedIs
<1>5. Weighed(g, q) = c * q[x] + Weighed(f, q) /\ Weighed(f, q) \in Int /\ c * q[x] \in Int
  <2>1. Weighed(g, q) = g[x] * q[x] + Weighed([v \in E \ {x} |-> g[v]], q)
    BY <1>3, <1>4 DEF WeighedLaws
  <2>2. Weighed(f, q) \in Int /\ c * q[x] \in Int
    BY <1>4 DEF WeighedLaws
  <2> QED BY <1>1, <1>2, <2>1, <2>2
<1>6. Weighed(g, q) = Weighed(f, q) + c * q[x]
  BY ONLY <1>5
<1> QED BY <1>6 DEF g

LEMMA WeighedZero ==
  ASSUME NEW D, IsFiniteSet(D), NEW q, \A v \in D : q[v] \in Int
  PROVE  Weighed([v \in D |-> 0], q) = 0
<1> DEFINE C == {s \in SUBSET D : Weighed([v \in s |-> 0], q) = 0}
<1>1. \A s \in SUBSET D : WeighedLaws(s, [v \in s |-> 0], q)
  <2> SUFFICES ASSUME NEW s \in SUBSET D PROVE WeighedLaws(s, [v \in s |-> 0], q)
    OBVIOUS
  <2>1. IsFiniteSet(s) /\ [v \in s |-> 0] \in [s -> Int]
    BY FS_Subset
  <2> DEFINE f == [v \in s |-> 0]
  <2> HIDE DEF f
  <2> QED BY <2>1, WeighedIs
<1>2. {} \in C
  BY <1>1 DEF WeighedLaws
<1>3. ASSUME NEW s \in SUBSET D, s # {}, \A x \in s : s \ {x} \in C
      PROVE  s \in C
  <2>1. PICK x \in s : TRUE
    BY <1>3
  <2>2. Weighed([v \in s |-> 0], q)
          = [v \in s |-> 0][x] * q[x] + Weighed([v \in s \ {x} |-> [w \in s |-> 0][v]], q)
    BY <1>1, <2>1 DEF WeighedLaws
  <2>3. [v \in s \ {x} |-> [w \in s |-> 0][v]] = [v \in s \ {x} |-> 0] /\ [v \in s |-> 0][x] = 0
    BY <2>1
  <2>4. Weighed([v \in s \ {x} |-> 0], q) = 0 /\ q[x] \in Int
    BY <1>3, <2>1
  <2>5. 0 * q[x] = 0
    BY <2>4, TimesZero
  <2>6. Weighed([v \in s |-> 0], q) = 0 + 0
    BY <2>2, <2>3, <2>4, <2>5
  <2> QED BY <2>6
<1>4. C \in SUBSET SUBSET D
  OBVIOUS
<1>5. C = SUBSET D
  <2> HIDE DEF C
  <2> QED BY <1>2, <1>3, <1>4, SetInduction
<1> QED BY <1>5
----------------------------------------------------------------------------
(***************************************************************************)
(* Linear rows: the nonzeros and the condition.                            *)
(***************************************************************************)
LEMMA NzoWeighed ==
  ASSUME NEW f \in Nzo, NEW p \in [Var -> Int]
  PROVE  /\ IsFiniteSet(DOMAIN f) /\ f \in [DOMAIN f -> Int] /\ DOMAIN f \subseteq Var
         /\ \A v \in DOMAIN f : f[v] \in Int /\ p[v] \in Int
         /\ Weighed(f, p) \in Int
<1>1. /\ f = [v \in DOMAIN f |-> f[v]] /\ DOMAIN f \subseteq Var
      /\ \A v \in DOMAIN f : f[v] \in Int \ {0}
  BY NzoIs
<1>2. IsFiniteSet(DOMAIN f)
  BY <1>1, TermEvalAssumption, FS_Subset
<1> DEFINE D == DOMAIN f
<1>3. f \in [D -> Int] /\ \A v \in D : p[v] \in Int
  BY <1>1
<1>4. WeighedLaws(D, f, p)
  <2> HIDE DEF D
  <2> QED BY <1>2, <1>3, WeighedIs DEF D
<1> QED BY <1>1, <1>2, <1>3, <1>4 DEF WeighedLaws

LEMMA NzoAddedWorth ==
  ASSUME NEW f \in Nzo, NEW v \in Var, NEW c \in Int \ {0}, NEW p \in [Var -> Int]
  PROVE  Weighed(AddNzo(f, v, c), p) = Weighed(f, p) + c * p[v]
<1> DEFINE D == DOMAIN f
<1>1. /\ IsFiniteSet(D) /\ f \in [D -> Int] /\ D \subseteq Var
      /\ \A w \in D : f[w] \in Int /\ p[w] \in Int
      /\ Weighed(f, p) \in Int /\ p[v] \in Int
  BY NzoWeighed
<1>2. \A w \in D : p[w] \in Int
  BY <1>1
<1>3. CASE v \notin D
  <2>1. AddNzo(f, v, c) = With(f, v, c)
    BY <1>3 DEF AddNzo
  <2> HIDE DEF D
  <2>2. Weighed(With(f, v, c), p) = Weighed(f, p) + c * p[v]
    BY <1>1, <1>2, <1>3, WeighedMore
  <2> QED BY <2>1, <2>2
<1>4. CASE v \in D /\ f[v] + c = 0
  <2> DEFINE g == [w \in D \ {v} |-> f[w]]
  <2>1. AddNzo(f, v, c) = g
    BY <1>4 DEF AddNzo
  <2>2. WeighedLaws(D, f, p)
    <3> HIDE DEF D
    <3> QED BY <1>1, <1>2, WeighedIs
  <2>3. Weighed(f, p) = f[v] * p[v] + Weighed(g, p)
    BY <1>4, <2>2 DEF WeighedLaws
  <2>4. Weighed(g, p) \in Int
    <3>1. IsFiniteSet(D \ {v}) /\ g \in [D \ {v} -> Int] /\ \A w \in D \ {v} : p[w] \in Int
      BY <1>1, FS_Subset
    <3> HIDE DEF g, D
    <3>2. WeighedLaws(D \ {v}, g, p)
      BY <3>1, WeighedIs
    <3> QED BY <3>2 DEF WeighedLaws
  <2>5. f[v] = - c /\ f[v] \in Int
    BY <1>1, <1>4
  <2>6. (- c) * p[v] = - (c * p[v]) /\ c * p[v] \in Int
    BY <1>1, FactorOut
  <2> HIDE DEF g
  <2>7. Weighed(g, p) = Weighed(f, p) + c * p[v]
    BY ONLY <1>1, <2>3, <2>4, <2>5, <2>6
  <2> QED BY <2>1, <2>7
<1>5. CASE v \in D /\ f[v] + c # 0
  <2>1. AddNzo(f, v, c) = [f EXCEPT ![v] = f[v] + c]
    BY <1>5 DEF AddNzo
  <2> HIDE DEF D
  <2>2. Weighed([f EXCEPT ![v] = f[v] + c], p) = Weighed(f, p) + c * p[v]
    <3>1. IsFiniteSet(D) /\ f \in [D -> Int] /\ v \in D /\ c \in Int
      BY <1>1, <1>5
    <3>2. Moved(D, f, p)
      BY <1>2, <3>1, WeighedChanged
    <3> QED BY <3>1, <3>2 DEF Moved
  <2> QED BY <2>1, <2>2
<1> QED BY <1>3, <1>4, <1>5

\* The monos of a linear row: of degree one, and the condition.
LineOf(b, f) ==
  {m \in Whole : Len(m.vars) = 1 /\ (m.fun = "NONE" \/ (m.fun = f /\ m.vars = <<b>>))}

LEMMA ProdOfOne ==
  ASSUME NEW p \in [Var -> Int], NEW s \in Seq(Var), Len(s) = 1
  PROVE  ListProd(s, p) = p[s[1]] /\ s[1] \in Var /\ p[s[1]] \in Int /\ s = <<s[1]>>
<1>1. s = Append(<<>>, s[1]) /\ s[1] \in Var /\ <<>> \in Seq(Var) /\ s = <<s[1]>>
  <2>1. PICK t \in Seq(Var), x \in Var : s = Append(t, x) /\ Len(t) = 0 /\ s[0 + 1] = x
    <3>1. \E t \in Seq(Var), x \in Var :
            /\ s = Append(t, x) /\ Len(t) = 0 /\ s[0 + 1] = x
            /\ \A i \in 1 .. 0 : s[i] = t[i]
      <4>1. Len(s) = 0 + 1 /\ 0 \in Nat
        OBVIOUS
      <4> QED BY ZenonT(60), <4>1, LastOff
    <3> QED BY <3>1
  <2>2. t = <<>> /\ Append(<<>>, x) = <<x>> /\ s[1] = x /\ <<>> \in Seq(Var)
    BY <2>1
  <2> QED BY <2>1, <2>2
<1> DEFINE v == s[1]
<1>2. v \in Var /\ p[v] \in Int
  BY <1>1
<1> HIDE DEF v
<1>3. ListProd(Append(<<>>, v), p) = ListProd(<<>>, p) * p[v] /\ ListProd(<<>>, p) = 1
  BY <1>1, <1>2, ProdSteps
<1>4. ListProd(Append(<<>>, v), p) = p[v]
  BY <1>2, <1>3
<1> QED BY <1>1, <1>2, <1>4 DEF v

\* What one mono does to a row.
Entered(r, c, m, b, f, p) ==
  /\ r \in Linear /\ r.type = c.type /\ r.lhs = c.lhs /\ r.rhs = c.rhs
  /\ Weighed(r.nzo, p) = Weighed(c.nzo, p) + Worths(p)[m]
  /\ r.ind = IF m.fun = "NONE" THEN c.ind ELSE <<b, f = "TRUE">>

LEMMA MonoEntered ==
  ASSUME NEW b, NEW f \in {"TRUE", "FALSE"}, NEW c \in Linear, NEW m \in LineOf(b, f),
         NEW p \in [Var -> Int]
  PROVE  Entered(AddMono(c, m), c, m, b, f, p)
<1> DEFINE r == AddMono(c, m)
<1>1. /\ m \in Whole /\ m \in Ordered /\ m.vars \in Seq(Var) /\ Len(m.vars) = 1
      /\ m.coeff \in Int \ {0} /\ m.vars[1] \in Var
      /\ m.fun = "NONE" \/ (m.fun = f /\ m.vars = <<b>>)
  BY WholeParts DEF LineOf, Whole
<1>2. r \in Linear
  BY <1>1, LinearGrows
<1>3. /\ c.nzo \in Nzo /\ DOMAIN c = {"type", "lhs", "rhs", "nzo", "term", "ind"}
  BY DEF Linear, Row
<1>4. /\ ListProd(m.vars, p) = p[m.vars[1]]
      /\ Worths(p)[m] = IF m.fun = "NONE" THEN m.coeff * ListProd(m.vars, p) ELSE 0
      /\ Weighed(c.nzo, p) \in Int
  BY <1>1, <1>3, ProdOfOne, WorthsAre, NzoWeighed
<1>5. CASE m.fun = "NONE"
  <2> DEFINE n == AddNzo(c.nzo, m.vars[1], m.coeff)
  <2>1. r = [c EXCEPT !.nzo = n]
    BY <1>5 DEF AddMono
  <2>2. Weighed(n, p) = Weighed(c.nzo, p) + m.coeff * p[m.vars[1]]
    <3> DEFINE v == m.vars[1]
               k == m.coeff
               z == c.nzo
    <3>1. v \in Var /\ k \in Int \ {0} /\ z \in Nzo
      BY <1>1, <1>3
    <3> HIDE DEF v, k, z
    <3>2. Weighed(AddNzo(z, v, k), p) = Weighed(z, p) + k * p[v]
      BY <3>1, NzoAddedWorth
    <3> QED BY <3>2 DEF v, k, z
  <2> HIDE DEF n
  <2>3. r.nzo = n /\ r.type = c.type /\ r.lhs = c.lhs /\ r.rhs = c.rhs /\ r.ind = c.ind
    BY <1>3, <2>1
  <2> HIDE DEF r
  <2> QED BY <1>2, <1>4, <1>5, <2>2, <2>3 DEF Entered, r
<1>6. CASE m.fun # "NONE"
  <2>1. m.fun = f /\ m.vars[1] = b
    BY <1>1, <1>6
  <2>2. r = [c EXCEPT !.ind = <<b, f = "TRUE">>]
    BY <2>1 DEF AddMono
  <2>3. /\ r.nzo = c.nzo /\ r.type = c.type /\ r.lhs = c.lhs /\ r.rhs = c.rhs
        /\ r.ind = <<b, f = "TRUE">>
    BY <1>3, <2>2
  <2>4. Weighed(c.nzo, p) = Weighed(c.nzo, p) + Worths(p)[m]
    BY <1>4, <1>6
  <2> HIDE DEF r
  <2> QED BY <1>2, <1>6, <2>3, <2>4 DEF Entered, r
<1> QED BY <1>5, <1>6

Adds == [m \in Whole |-> [c \in Linear |-> AddMono(c, m)]]

AddsSteps(c) ==
  /\ AddMonos(c, <<>>) = c
  /\ \A e \in Seq(Whole) : AddMonos(c, e) \in Linear
  /\ \A e \in Seq(Whole) : \A m \in Whole :
       AddMonos(c, Append(e, m)) = AddMono(AddMonos(c, e), m)

LEMMA AddsFold ==
  ASSUME NEW c \in Linear
  PROVE  AddsSteps(c)
<1> DEFINE g == Adds
<1>1. g \in [Whole -> [Linear -> Linear]] /\ \A m \in Whole : \A x \in Linear : g[m][x] = AddMono(x, m)
  <2>1. \A m \in Whole : \A x \in Linear : AddMono(x, m) \in Linear
    BY LinearGrows
  <2>2. \A m \in Whole : [x \in Linear |-> AddMono(x, m)] \in [Linear -> Linear]
    BY <2>1
  <2> QED BY <2>2 DEF Adds
<1> HIDE DEF g
<1>2. Stepwise(Whole, Linear, c, g) /\ Runs(Whole, Linear, c, g)
  BY <1>1, FoldSteps, FoldRuns
<1>3. ASSUME NEW e \in Seq(Whole) PROVE AddMonos(c, e) = Folded(e, c, g)
  <2> DEFINE n == Len(e)
             h == CHOOSE f : MonosRun(f, c, e)
  <2>1. n \in Nat /\ \A i \in 1 .. n : e[i] \in Whole
    OBVIOUS
  <2>2. PICK f : IsFold(f, e, c, g) /\ \A i \in 0 .. n : f[i] \in Linear
    BY <1>2 DEF Runs
  <2>3. MonosRun(f, c, e)
    <3>1. f = [i \in 0 .. n |-> IF i = 0 THEN c ELSE g[e[i]][f[i - 1]]]
      BY <2>2 DEF IsFold
    <3>2. \A i \in 0 .. n : i # 0 => g[e[i]][f[i - 1]] = AddMono(f[i - 1], e[i])
      <4>1. \A i \in 0 .. n : i # 0 => i \in 1 .. n /\ i - 1 \in 0 .. n
        BY <2>1
      <4> HIDE DEF n
      <4> QED BY <1>1, <2>1, <2>2, <4>1
    <3> QED BY <3>1, <3>2 DEF MonosRun
  <2>4. MonosRun(h, c, e)
    BY <2>3
  <2>5. AddMonos(c, e) = h[n]
    BY DEF AddMonos, MonosRun
  <2> HIDE DEF h
  <2>6. h[0] = c /\ \A i \in 1 .. n : h[i] = AddMono(h[i - 1], e[i])
    <3>1. 0 \in 0 .. n /\ \A i \in 1 .. n : i \in 0 .. n /\ i # 0
      BY <2>1
    <3> QED BY <2>4, <3>1 DEF MonosRun
  <2>7. \A i \in 1 .. Len(e) : h[i - 1] \in Linear => h[i] = g[e[i]][h[i - 1]]
    BY <1>1, <2>1, <2>6
  <2>8. h[Len(e)] = Folded(e, c, g)
    <3>1. /\ \A j : j[0] = c /\ (\A i \in 1 .. Len(e) : j[i - 1] \in Linear => j[i] = g[e[i]][j[i - 1]])
                      => j[Len(e)] = Folded(e, c, g)
      BY <1>2 DEF Runs
    <3> QED BY <2>6, <2>7, <3>1
  <2> QED BY <2>5, <2>8
<1>4. \A e \in Seq(Whole) : \A m \in Whole : Append(e, m) \in Seq(Whole)
  OBVIOUS
<1>5. <<>> \in Seq(Whole)
  OBVIOUS
<1>6. Folded(<<>>, c, g) = c /\ \A e \in Seq(Whole) : /\ Folded(e, c, g) \in Linear
        /\ \A m \in Whole : Folded(Append(e, m), c, g) = g[m][Folded(e, c, g)]
  BY <1>2 DEF Stepwise
<1> QED BY ZenonT(60), <1>1, <1>3, <1>4, <1>5, <1>6 DEF AddsSteps

\* What the monos of a linear term do to a row.
Filling(r, c, e, b, f, p) ==
  /\ r \in Linear /\ r.type = c.type /\ r.lhs = c.lhs /\ r.rhs = c.rhs
  /\ Weighed(r.nzo, p) = Weighed(c.nzo, p) + ListSum(e, Worths(p))
  /\ (\A i \in 1 .. Len(e) : e[i].fun = "NONE") => r.ind = c.ind
  /\ (\E i \in 1 .. Len(e) : e[i].fun # "NONE") => r.ind = <<b, f = "TRUE">>

LEMMA LineFilled ==
  ASSUME NEW b, NEW f \in {"TRUE", "FALSE"}, NEW c \in Linear, NEW e \in Seq(LineOf(b, f)),
         NEW p \in [Var -> Int]
  PROVE  Filling(AddMonos(c, e), c, e, b, f, p)
<1> DEFINE A == LineOf(b, f)
           S == {s \in Seq(A) : Filling(AddMonos(c, s), c, s, b, f, p)}
<1>1. A \subseteq Whole /\ A \subseteq Ordered /\ \A s \in Seq(A) : s \in Seq(Whole) /\ s \in Seq(Ordered)
  <2>1. A \subseteq Whole /\ Whole \subseteq Ordered
    BY DEF LineOf, Whole
  <2> HIDE DEF A
  <2> QED BY <2>1
<1>2. AddsSteps(c) /\ SumLaws(Ordered, Worths(p)) /\ c.nzo \in Nzo
  BY AddsFold, OrderedLaws DEF Linear, Row
<1>3. Weighed(c.nzo, p) \in Int
  BY <1>2, NzoWeighed
<1>4. \A s \in Seq(A) : ListSum(s, Worths(p)) \in Int
  BY <1>1, <1>2 DEF SumLaws
<1>5. <<>> \in S
  <2>1. AddMonos(c, <<>>) = c /\ ListSum(<<>>, Worths(p)) = 0
    BY <1>2 DEF AddsSteps, SumLaws
  <2>2. <<>> \in Seq(A) /\ Len(<<>>) = 0
    OBVIOUS
  <2>3. Filling(c, c, <<>>, b, f, p)
    BY <1>3, <2>1, <2>2 DEF Filling
  <2> QED BY <2>1, <2>2, <2>3
<1>6. ASSUME NEW s \in S, NEW m \in A PROVE Append(s, m) \in S
  <2> DEFINE r == AddMonos(c, s)
             q == AddMono(r, m)
             w == Append(s, m)
             n == Len(s)
  <2>1. s \in Seq(A) /\ Filling(r, c, s, b, f, p)
    BY <1>6
  <2>2. r \in Linear
    BY <2>1 DEF Filling
  <2>3. Entered(q, r, m, b, f, p)
    <3> HIDE DEF r
    <3> QED BY <2>2, MonoEntered
  <2>4. AddMonos(c, w) = q /\ ListSum(w, Worths(p)) = ListSum(s, Worths(p)) + Worths(p)[m]
    <3>1. s \in Seq(Whole) /\ s \in Seq(Ordered) /\ m \in Whole /\ m \in Ordered
      BY <1>1, <2>1
    <3> HIDE DEF A
    <3> QED BY <1>2, <3>1 DEF AddsSteps, SumLaws
  <2>5. /\ w \in Seq(A) /\ Len(w) = n + 1 /\ n \in Nat /\ w[n + 1] = m
        /\ \A i \in 1 .. n : w[i] = s[i]
    <3> HIDE DEF A
    <3> QED BY <2>1, AppendProperties
  <2>6. Worths(p)[m] \in Int
    BY <1>1, WorthsAre
  <2> HIDE DEF r, q, w, n, A
  <2>7. Weighed(q.nzo, p) = Weighed(c.nzo, p) + ListSum(w, Worths(p))
    <3>1. /\ Weighed(q.nzo, p) = Weighed(r.nzo, p) + Worths(p)[m]
          /\ Weighed(r.nzo, p) = Weighed(c.nzo, p) + ListSum(s, Worths(p))
          /\ ListSum(s, Worths(p)) \in Int
      BY <1>4, <2>1, <2>3 DEF Entered, Filling
    <3> QED BY ONLY <1>3, <2>4, <2>6, <3>1
  <2>8. /\ q \in Linear /\ q.type = c.type /\ q.lhs = c.lhs /\ q.rhs = c.rhs
        /\ q.ind = IF m.fun = "NONE" THEN r.ind ELSE <<b, f = "TRUE">>
        /\ (\A i \in 1 .. n : s[i].fun = "NONE") => r.ind = c.ind
        /\ (\E i \in 1 .. n : s[i].fun # "NONE") => r.ind = <<b, f = "TRUE">>
    BY <2>1, <2>3 DEF Entered, Filling, n
  <2>9. (\A i \in 1 .. Len(w) : w[i].fun = "NONE") => q.ind = c.ind
    <3> SUFFICES ASSUME \A i \in 1 .. n + 1 : w[i].fun = "NONE" PROVE q.ind = c.ind
      BY <2>5
    <3>1. n + 1 \in 1 .. n + 1 /\ \A i \in 1 .. n : i \in 1 .. n + 1
      BY <2>5
    <3>2. m.fun = "NONE" /\ \A i \in 1 .. n : s[i].fun = "NONE"
      BY <2>5, <3>1
    <3> QED BY <2>8, <3>2
  <2>10. (\E i \in 1 .. Len(w) : w[i].fun # "NONE") => q.ind = <<b, f = "TRUE">>
    <3> SUFFICES ASSUME NEW i \in 1 .. n + 1, w[i].fun # "NONE" PROVE q.ind = <<b, f = "TRUE">>
      BY <2>5
    <3>1. CASE i = n + 1
      BY <2>5, <2>8, <3>1
    <3>2. CASE i # n + 1
      <4>1. i \in 1 .. n
        BY <2>5, <3>2
      <4>2. s[i].fun # "NONE"
        BY <2>5, <4>1
      <4> QED BY <2>8, <4>1, <4>2
    <3> QED BY <3>1, <3>2
  <2>11. Filling(q, c, w, b, f, p)
    BY <2>7, <2>8, <2>9, <2>10 DEF Filling
  <2> QED BY <2>4, <2>5, <2>11 DEF w
<1>7. S = Seq(A)
  <2>1. S \in SUBSET Seq(A)
    OBVIOUS
  <2> HIDE DEF S, A
  <2> QED BY <1>5, <1>6, <2>1, ListInduction
<1> QED BY <1>7
----------------------------------------------------------------------------
(***************************************************************************)
(* Degrees.                                                                *)
(***************************************************************************)
DegreesOf(s) == {mono_get_degree(s[i]) : i \in DOMAIN s}
Highest(d, s) == d \in DegreesOf(s) \cup {0} /\ \A e \in DegreesOf(s) : e <= d

LEMMA DegreeNat ==
  ASSUME NEW s \in Seq(Whole)
  PROVE  /\ DegreesOf(s) \subseteq Nat \ {0}
         /\ \A i \in 1 .. Len(s) : Len(s[i].vars) \in DegreesOf(s)
         /\ \A d \in DegreesOf(s) : \E i \in 1 .. Len(s) : d = Len(s[i].vars)
<1>1. DOMAIN s = 1 .. Len(s) /\ \A i \in 1 .. Len(s) : s[i] \in Whole
  OBVIOUS
<1>2. \A m \in Whole : Len(m.vars) \in Nat \ {0}
  <2> SUFFICES ASSUME NEW m \in Whole PROVE Len(m.vars) \in Nat \ {0}
    OBVIOUS
  <2> DEFINE v == m.vars
  <2>1. v \in Seq(Var) /\ v # <<>>
    BY DEF Whole, Ordered, Mono
  <2> HIDE DEF v
  <2>2. Len(v) \in Nat \ {0}
    BY <2>1
  <2> QED BY <2>2 DEF v
<1> QED BY <1>1, <1>2 DEF DegreesOf, mono_get_degree

LEMMA HighestExists == \A s \in Seq(Whole) : \E d \in Nat : Highest(d, s)
<1> DEFINE S == {s \in Seq(Whole) : \E d \in Nat : Highest(d, s)}
<1>1. <<>> \in S
  <2>1. DegreesOf(<<>>) = {} /\ <<>> \in Seq(Whole)
    <3>1. <<>> \in Seq(Whole) /\ Len(<<>>) = 0 /\ 1 .. 0 = {}
      OBVIOUS
    <3>2. DOMAIN <<>> = {}
      BY <3>1
    <3> QED BY <3>1, <3>2 DEF DegreesOf
  <2>2. Highest(0, <<>>)
    BY <2>1 DEF Highest
  <2> QED BY <2>1, <2>2
<1>2. ASSUME NEW s \in S, NEW m \in Whole PROVE Append(s, m) \in S
  <2> DEFINE w == Append(s, m)
             k == Len(m.vars)
             n == Len(s)
  <2>1. /\ s \in Seq(Whole) /\ w \in Seq(Whole) /\ n \in Nat /\ Len(w) = n + 1 /\ w[n + 1] = m
        /\ \A i \in 1 .. n : w[i] = s[i]
    BY AppendProperties
  <2>2. PICK d \in Nat : Highest(d, s)
    BY <1>2
  <2>3. DegreesOf(w) = DegreesOf(s) \cup {k}
    <3>1. DOMAIN w = 1 .. n + 1 /\ DOMAIN s = 1 .. n
      BY <2>1
    <3> HIDE DEF w, n
    <3>2. 1 .. n + 1 = 1 .. n \cup {n + 1}
      BY <2>1
    <3> QED BY <2>1, <3>1, <3>2 DEF DegreesOf, mono_get_degree
  <2>4. k \in DegreesOf(w) /\ DegreesOf(w) \subseteq Nat \ {0} /\ DegreesOf(s) \subseteq Nat \ {0}
    <3> HIDE DEF w
    <3> QED BY <2>1, <2>3, DegreeNat
  <2> HIDE DEF w, k, n
  <2>5. CASE k <= d
    <3>1. Highest(d, w)
      BY <2>2, <2>3, <2>5 DEF Highest
    <3> QED BY <2>1, <3>1 DEF w
  <2>6. CASE d < k
    <3>1. \A e \in DegreesOf(w) : e <= k
      <4> SUFFICES ASSUME NEW e \in DegreesOf(s) PROVE e <= k
        BY <2>3, <2>4
      <4>1. e <= d /\ e \in Nat /\ k \in Nat
        BY <2>2, <2>4 DEF Highest
      <4> QED BY <2>6, <4>1
    <3>2. Highest(k, w) /\ k \in Nat
      BY <2>4, <3>1 DEF Highest
    <3> QED BY <2>1, <3>2 DEF w
  <2> QED BY <2>4, <2>5, <2>6
<1>3. S = Seq(Whole)
  <2>1. S \in SUBSET Seq(Whole)
    OBVIOUS
  <2> HIDE DEF S
  <2> QED BY <1>1, <1>2, <2>1, ListInduction
<1> QED BY <1>3

LEMMA DegreeIs ==
  ASSUME NEW t, t.elem \in Seq(Whole)
  PROVE  Highest(term_get_degree(t), t.elem)
<1> DEFINE s == t.elem
<1>1. term_get_degree(t) = CHOOSE d \in DegreesOf(s) \cup {0} : \A e \in DegreesOf(s) : e <= d
  BY DEF term_get_degree, DegreesOf
<1>2. \E d \in DegreesOf(s) \cup {0} : \A e \in DegreesOf(s) : e <= d
  BY HighestExists DEF Highest
<1> QED BY <1>1, <1>2 DEF Highest

\* A term of degree less than two has monos of degree one.
LEMMA LowDegree ==
  ASSUME NEW t, t.elem \in Seq(Whole)
  PROVE  term_get_degree(t) >= 2 <=> ~ \A i \in 1 .. Len(t.elem) : Len(t.elem[i].vars) = 1
<1> DEFINE s == t.elem
           d == term_get_degree(t)
<1>1. /\ d \in DegreesOf(s) \cup {0} /\ \A e \in DegreesOf(s) : e <= d
      /\ DegreesOf(s) \subseteq Nat \ {0}
      /\ \A i \in 1 .. Len(s) : Len(s[i].vars) \in DegreesOf(s)
      /\ \A e \in DegreesOf(s) : \E i \in 1 .. Len(s) : e = Len(s[i].vars)
  BY DegreeIs, DegreeNat DEF Highest
<1> HIDE DEF d, s
<1>2. d \in Nat
  BY <1>1
<1>3. ASSUME d >= 2, \A i \in 1 .. Len(s) : Len(s[i].vars) = 1 PROVE FALSE
  <2>1. d # 0
    BY <1>2, <1>3
  <2>2. PICK i \in 1 .. Len(s) : d = Len(s[i].vars)
    BY <1>1, <2>1
  <2>3. d = 1
    BY <1>3, <2>2
  <2> QED BY <1>2, <1>3, <2>3
<1>4. ASSUME ~ (d >= 2), NEW i \in 1 .. Len(s) PROVE Len(s[i].vars) = 1
  <2> DEFINE k == Len(s[i].vars)
  <2>1. k \in DegreesOf(s) /\ k \in Nat \ {0} /\ k <= d
    BY <1>1
  <2> HIDE DEF k
  <2>2. k = 1
    BY <1>2, <1>4, <2>1
  <2> QED BY <2>2 DEF k
<1>5. d >= 2 <=> ~ \A i \in 1 .. Len(s) : Len(s[i].vars) = 1
  BY <1>3, <1>4
<1> QED BY <1>5 DEF d, s
----------------------------------------------------------------------------
(***************************************************************************)
(* What a row asks for.                                                    *)
(***************************************************************************)
Within(contype, lhs, rhs, sum) ==
  /\ contype # "LHS" => sum <= rhs
  /\ contype # "RHS" => lhs <= sum

\* A row with the sides of c.
Sided(r, c) == r.type = c.type /\ r.lhs = c.lhs /\ r.rhs = c.rhs

LEMMA SidesJudge ==
  ASSUME NEW contype \in Sides, NEW lhs \in Int, NEW rhs \in Int,
         NEW r, Sided(r, SetSides(lps_addcon, contype, lhs, rhs)), NEW sum \in Int
  PROVE  ~ Violates(r, sum) <=> Within(contype, lhs, rhs, sum)
<1> DEFINE Fresh(t, l, h) == [type |-> t, lhs |-> l, rhs |-> h, nzo |-> <<>>, term |-> <<>>, ind |-> <<>>]
<1>1. lps_addcon = Fresh("FREE", 0, 0)
  BY DEF lps_addcon
<1>2. SetSides(lps_addcon, "RHS", lhs, rhs) = Fresh("RHS", 0, rhs)
  BY <1>1 DEF SetSides, lps_setrhs, BothSides
<1>3. lps_setlhs(lps_addcon, lhs) = Fresh("LHS", lhs, 0)
  <2>1. lps_setlhs(lps_addcon, lhs) =
          [lps_addcon EXCEPT !.lhs = lhs,
             !.type = BothSides(lps_addcon.type, "LHS", <<"EQUAL", "RANGE">>, lhs = lps_addcon.rhs)]
    BY DEF lps_setlhs
  <2>2. BothSides(lps_addcon.type, "LHS", <<"EQUAL", "RANGE">>, lhs = lps_addcon.rhs) = "LHS"
    BY <1>1 DEF BothSides
  <2> QED BY <1>1, <2>1, <2>2
<1>4. SetSides(lps_addcon, "LHS", lhs, rhs) = Fresh("LHS", lhs, 0)
  BY <1>3 DEF SetSides
<1>5. contype = "RHS" \/ contype = "LHS" \/ contype \in {"EQUAL", "RANGE"}
  BY DEF Sides
<1>6. CASE contype = "RHS"
  <2>1. r.type = "RHS" /\ r.rhs = rhs
    BY <1>2, <1>6 DEF Sided
  <2> QED BY <1>6, <2>1 DEF Violates, Within
<1>7. CASE contype = "LHS"
  <2>1. r.type = "LHS" /\ r.lhs = lhs
    BY <1>4, <1>7 DEF Sided
  <2> QED BY <1>7, <2>1 DEF Violates, Within
<1>8. CASE contype \in {"EQUAL", "RANGE"}
  <2> DEFINE c == Fresh("LHS", lhs, 0)
             t == IF lhs = rhs THEN "EQUAL" ELSE "RANGE"
             q == [c EXCEPT !.rhs = rhs, !.type = t]
  <2>1. c.type = "LHS" /\ c.lhs = lhs /\ DOMAIN c = {"type", "lhs", "rhs", "nzo", "term", "ind"}
    OBVIOUS
  <2> HIDE DEF c
  <2>2. BothSides(c.type, "RHS", <<"EQUAL", "RANGE">>, c.lhs = rhs) = t
    BY <2>1 DEF BothSides
  <2>3. lps_setrhs(c, rhs) = q
    <3> HIDE DEF t
    <3> QED BY <2>2 DEF lps_setrhs
  <2>4. SetSides(lps_addcon, contype, lhs, rhs) = q
    BY <1>3, <1>8, <2>3 DEF SetSides, c
  <2> HIDE DEF t
  <2>5. r.type = t /\ r.lhs = lhs /\ r.rhs = rhs
    BY <2>1, <2>4 DEF Sided
  <2>6. Within(contype, lhs, rhs, sum) <=> sum <= rhs /\ lhs <= sum
    BY <1>8 DEF Within
  <2>7. CASE lhs = rhs
    <3>1. t = "EQUAL"
      BY <2>7 DEF t
    <3>2. Violates(r, sum) <=> lhs # sum \/ rhs # sum
      BY <2>5, <3>1 DEF Violates
    <3> QED BY <2>6, <2>7, <3>2
  <2>8. CASE lhs # rhs
    <3>1. t = "RANGE"
      BY <2>8 DEF t
    <3>2. Violates(r, sum) <=> sum > rhs \/ lhs > sum
      BY <2>5, <3>1 DEF Violates
    <3> QED BY <2>6, <3>2
  <2> QED BY <2>7, <2>8
<1> QED BY <1>5, <1>6, <1>7, <1>8

LEMMA NothingWeighed ==
  ASSUME NEW p \in [Var -> Int]
  PROVE  Weighed(<<>>, p) = 0
<1>1. DOMAIN <<>> = {} /\ <<>> = [v \in {} |-> 0] /\ IsFiniteSet({})
  <2>1. <<>> \in Seq(Int) /\ Len(<<>>) = 0
    OBVIOUS
  <2>2. DOMAIN <<>> = {}
    BY <2>1
  <2> QED BY <2>2, FS_EmptySet
<1>2. Weighed([v \in {} |-> 0], p) = 0
  BY <1>1, WeighedZero
<1> QED BY <1>1, <1>2

\* The row made of a linear term.
LineRow(r, c, e, b, f, p) ==
  /\ Sided(r, c) /\ RowSum(r, p) = ListSum(e, Worths(p))
  /\ (\A i \in 1 .. Len(e) : e[i].fun = "NONE") => r.ind = <<>>
  /\ (\E i \in 1 .. Len(e) : e[i].fun # "NONE") => r.ind = <<b, f = "TRUE">>

LEMMA RowOfLine ==
  ASSUME NEW contype \in Sides, NEW lhs \in Int, NEW rhs \in Int, NEW b, NEW f \in {"TRUE", "FALSE"},
         NEW e \in Seq(LineOf(b, f)), NEW p \in [Var -> Int]
  PROVE  LineRow(AddMonos(SetSides(lps_addcon, contype, lhs, rhs), e),
                 SetSides(lps_addcon, contype, lhs, rhs), e, b, f, p)
<1> DEFINE c == SetSides(lps_addcon, contype, lhs, rhs)
           r == AddMonos(c, e)
<1>1. c \in Linear /\ c.nzo = <<>> /\ c.ind = <<>> /\ c.term = <<>>
  BY SidesSet
<1> HIDE DEF c
<1>2. Filling(r, c, e, b, f, p)
  BY <1>1, LineFilled
<1> HIDE DEF r
<1>3. /\ r \in Linear /\ Sided(r, c)
      /\ Weighed(r.nzo, p) = Weighed(c.nzo, p) + ListSum(e, Worths(p))
      /\ (\A i \in 1 .. Len(e) : e[i].fun = "NONE") => r.ind = c.ind
      /\ (\E i \in 1 .. Len(e) : e[i].fun # "NONE") => r.ind = <<b, f = "TRUE">>
  BY <1>2 DEF Filling, Sided
<1>4. ListSum(e, Worths(p)) \in Int
  <2>1. LineOf(b, f) \subseteq Ordered
    BY DEF LineOf, Whole
  <2>2. e \in Seq(Ordered)
    <3> DEFINE A == LineOf(b, f)
    <3>1. e \in Seq(A) /\ A \subseteq Ordered
      BY <2>1
    <3> HIDE DEF A
    <3> QED BY <3>1
  <2> QED BY <2>2, OrderedLaws DEF SumLaws
<1>5. r.term = <<>> /\ RowSum(r, p) = Weighed(r.nzo, p)
  BY <1>3 DEF Linear, RowSum, NzoSum, Weighed
<1>6. Weighed(c.nzo, p) = 0
  BY <1>1, NothingWeighed
<1>7. RowSum(r, p) = ListSum(e, Worths(p))
  BY <1>3, <1>4, <1>5, <1>6
<1> QED BY <1>1, <1>3, <1>7 DEF r, c, LineRow

RowOf(contype, lhs, rhs, t) == Filled(SetSides(lps_addcon, contype, lhs, rhs), term_simplify(t))

LEMMA NoFunction == \A t \in Term : ~ term_has_realfunction(t)
<1> SUFFICES ASSUME NEW t \in Term PROVE ~ term_has_realfunction(t)
  OBVIOUS
<1>1. t.elem \in Seq(Whole)
  BY TermParts
<1> DEFINE e == t.elem
<1>2. \A i \in DOMAIN e : e[i] \in Whole
  BY <1>1
<1>3. \A i \in DOMAIN e : e[i].fun \in MFun
  BY <1>2, WholeParts
<1> QED BY <1>3 DEF term_has_realfunction, MFun

\* What a row of a constraint without condition asks for.
Asks(r, p, c, x) == Sided(r, c) /\ r.ind = <<>> /\ RowSum(r, p) = x

LEMMA PlainRow ==
  ASSUME NEW contype \in Sides, NEW lhs \in Int, NEW rhs \in Int, NEW t \in Plain, t.const = 0,
         NEW p \in [Var -> Int]
  PROVE  RowHolds(RowOf(contype, lhs, rhs, t), p) <=> Within(contype, lhs, rhs, TermValue(t, p))
<1> DEFINE c == SetSides(lps_addcon, contype, lhs, rhs)
           s == term_simplify(t)
           r == Filled(c, s)
           x == TermValue(t, p)
<1>1. /\ t \in Term /\ t.const \in Int /\ t.elem \in Seq(PlainMono) /\ t.elem \in Seq(Whole)
      /\ x = 0 + ListSum(t.elem, Worths(p)) /\ x \in Int /\ ListSum(t.elem, Worths(p)) \in Int
  BY PlainWorth, PlainOrdered DEF Valued
<1>2. s \in Term /\ s.const = 0
  BY <1>1, TermSimple
<1>3. s.elem \in Seq(PlainMono) /\ ListSum(s.elem, Worths(p)) = ListSum(t.elem, Worths(p))
  BY <1>1, PlainKind, SimplifiedWorth
<1>4. x = ListSum(s.elem, Worths(p))
  BY <1>1, <1>3
<1>5. c \in Linear /\ c.nzo = <<>> /\ c.ind = <<>> /\ c.term = <<>>
  BY SidesSet
<1> HIDE DEF c, s, x
<1>6. s \in Plain /\ s.elem \in Seq(Whole)
  BY <1>2, <1>3, PlainIs, TermParts
<1>7. ASSUME term_get_degree(s) >= 2 PROVE Asks(r, p, c, x)
  <2> DEFINE u == term_copy(s)
  <2>1. r = [c EXCEPT !.term = <<u>>]
    BY <1>7 DEF Filled
  <2>2. u \in Plain /\ TermValue(u, p) = TermValue(s, p)
    BY <1>6, CopyWorth DEF IsWorth
  <2>3. TermValue(s, p) = 0 + ListSum(s.elem, Worths(p))
    BY <1>2, <1>6, PlainWorth DEF Valued
  <2> HIDE DEF r, u
  <2>4. DOMAIN c = {"type", "lhs", "rhs", "nzo", "term", "ind"}
    BY <1>5 DEF Linear, Row
  <2>5. Sided(r, c) /\ r.ind = <<>> /\ r.nzo = <<>> /\ r.term = <<u>>
    BY <1>5, <2>1, <2>4 DEF Sided
  <2>6. <<u>> # <<>> /\ <<u>>[1] = u
    OBVIOUS
  <2>7. RowSum(r, p) = NzoSum(r, p) + TermValue(u, p)
    BY <2>5, <2>6 DEF RowSum
  <2>8. NzoSum(r, p) = 0
    <3>1. NzoSum(r, p) = Weighed(r.nzo, p)
      BY DEF NzoSum, Weighed
    <3> QED BY <2>5, <3>1, NothingWeighed
  <2>9. RowSum(r, p) = x
    BY <1>1, <1>3, <1>4, <2>2, <2>3, <2>7, <2>8
  <2> QED BY <2>5, <2>9 DEF Asks
<1>8. ASSUME ~ (term_get_degree(s) >= 2) PROVE Asks(r, p, c, x)
  <2> DEFINE e == s.elem
             A == LineOf(0, "TRUE")
  <2>1. r = AddMonos(c, e)
    BY <1>2, <1>8, NoFunction DEF Filled
  <2>2. \A i \in 1 .. Len(e) : Len(e[i].vars) = 1
    BY <1>6, <1>8, LowDegree
  <2>3. /\ e \in Seq(PlainMono) /\ e \in Seq(Whole)
    BY <1>3, <1>6
  <2> HIDE DEF e, r
  <2>4. \A i \in 1 .. Len(e) : e[i].fun = "NONE" /\ e[i] \in Whole
    BY <2>3 DEF PlainMono
  <2>5. e \in Seq(A)
    <3>1. \A i \in 1 .. Len(e) : e[i] \in A
      BY <2>2, <2>4 DEF LineOf
    <3> HIDE DEF A
    <3> QED BY <2>3, <3>1, AllIn
  <2>6. LineRow(AddMonos(c, e), c, e, 0, "TRUE", p)
    BY <2>5, RowOfLine DEF c
  <2> QED BY <1>4, <2>1, <2>4, <2>6 DEF Asks, LineRow, e
<1>9. Asks(r, p, c, x)
  BY <1>7, <1>8
<1> HIDE DEF r
<1>10. ~ Violates(r, x) <=> Within(contype, lhs, rhs, x)
  BY <1>1, <1>9, SidesJudge DEF Asks, c
<1>11. RowHolds(r, p) <=> ~ Violates(r, x)
  BY <1>9 DEF Asks, RowHolds
<1> QED BY <1>10, <1>11 DEF r, c, s, x, RowOf

\* The monos of a conditional row.
Conditional(b, f) == {x \in Marked(b, f) : Len(x.vars) = 1}

LEMMA ConditionalKind ==
  ASSUME NEW b \in Result, NEW f
  PROVE  Kind(Conditional(b, f))
<1> DEFINE K == Marked(b, f)
<1>1. /\ K \subseteq Ordered
      /\ \A x \in K : \A y \in K : x.vars = y.vars => x.fun = y.fun
      /\ \A x \in K : \A c \in Int : [x EXCEPT !.coeff = c] \in K
  BY MarkedKind DEF Kind
<1>2. \A x \in K : \A c \in Int : [x EXCEPT !.coeff = c].vars = x.vars
  BY <1>1, CoeffChanged
<1> HIDE DEF K
<1>3. /\ \A x : x \in Conditional(b, f) <=> x \in K /\ Len(x.vars) = 1
  BY DEF Conditional, K
<1> QED BY ZenonT(60), <1>1, <1>2, <1>3 DEF Kind

LEMMA ConditionalLine ==
  ASSUME NEW b \in Result, NEW f, NEW s \in Seq(Conditional(b, f)), s \in Seq(Whole)
  PROVE  s \in Seq(LineOf(b, f))
<1> DEFINE K == Conditional(b, f)
           A == LineOf(b, f)
<1>1. \A i \in 1 .. Len(s) : s[i] \in K /\ s[i] \in Whole
  OBVIOUS
<1>2. \A i \in 1 .. Len(s) : s[i] \in A
  BY <1>1 DEF Conditional, Marked, PlainMono, LineOf
<1> HIDE DEF K, A
<1> QED BY <1>2, AllIn DEF A

\* What a row with a condition asks for.
AsksIf(r, p, c, x, b, then) == Sided(r, c) /\ r.ind = <<b, then>> /\ RowSum(r, p) = x

LEMMA LeadingMono ==
  ASSUME NEW m \in Ordered, NEW s \in Seq(Ordered), NEW p \in [Var -> Int]
  PROVE  ListSum(<<m>> \o s, Worths(p)) = Worths(p)[m] + ListSum(s, Worths(p))
<1> DEFINE one == <<m>>
<1>1. one \in Seq(Ordered) /\ <<>> \in Seq(Ordered) /\ one = Append(<<>>, m)
  OBVIOUS
<1> HIDE DEF one
<1>2. SumLaws(Ordered, Worths(p)) /\ Worths(p)[m] \in Int
  BY OrderedLaws, WorthsAre
<1>3. ListSum(one \o s, Worths(p)) = ListSum(one, Worths(p)) + ListSum(s, Worths(p))
  BY <1>1, <1>2 DEF SumLaws
<1>4. ListSum(one, Worths(p)) = 0 + Worths(p)[m]
  BY <1>1, <1>2 DEF SumLaws
<1>5. ListSum(one, Worths(p)) = Worths(p)[m]
  BY <1>2, <1>4
<1> QED BY <1>3, <1>5 DEF one

LEMMA ConditionalRow ==
  ASSUME NEW contype \in Sides, NEW lhs \in Int, NEW rhs \in Int, NEW t \in Plain, t.const = 0,
         NEW b \in Result, NEW then \in BOOLEAN, \A i \in 1 .. Len(t.elem) : Len(t.elem[i].vars) = 1,
         NEW p \in [Var -> Int]
  PROVE  LET u == term_make_conditional(term_add_elem(term_new(1), b, 1, "NONE"), t, then)
         IN  RowHolds(RowOf(contype, lhs, rhs, u), p)
               <=> ((p[b] = 1) = then => Within(contype, lhs, rhs, TermValue(t, p)))
<1> DEFINE f == IF then THEN "TRUE" ELSE "FALSE"
           m == [coeff |-> 1, fun |-> f, vars |-> <<b>>]
           u == term_make_conditional(term_add_elem(term_new(1), b, 1, "NONE"), t, then)
           K == Conditional(b, f)
           c == SetSides(lps_addcon, contype, lhs, rhs)
           s == term_simplify(u)
           r == Filled(c, s)
           x == TermValue(t, p)
           e == t.elem
           d == u.elem
           g == s.elem
<1>1. /\ t \in Term /\ e \in Seq(PlainMono) /\ e \in Seq(Ordered) /\ e \in Seq(Whole)
      /\ x = 0 + ListSum(e, Worths(p)) /\ x \in Int /\ ListSum(e, Worths(p)) \in Int
  BY PlainWorth, PlainOrdered DEF Valued
<1>2. b \in Var /\ <<b>> \in Seq(Var) /\ f \in {"TRUE", "FALSE"} /\ (f = "TRUE") = then
  BY TermEvalAssumption
<1>3. u \in Term /\ u.const = 0 /\ m \in Whole /\ d = <<m>> \o e
  BY <1>1, <1>2, TermConditional
<1>4. m \in K /\ m \in Ordered /\ m.fun = f /\ m.fun # "NONE" /\ f # "NONE"
  BY <1>2, <1>3 DEF Conditional, Marked, Whole
<1>5. \A i \in 1 .. Len(e) : e[i] \in K /\ e[i].fun = "NONE"
  BY <1>1 DEF Conditional, Marked, PlainMono
<1> HIDE DEF f, m, u, K, c, s, x, e, d, g
<1>6. e \in Seq(K)
  BY <1>1, <1>5, AllIn
<1>7. /\ d \in Seq(K) /\ d # <<>> /\ d[1] = m
      /\ \A i \in 2 .. Len(d) : d[i].fun = "NONE"
  <2>1. /\ Len(<<m>>) = 1 /\ <<m>> \in Seq(K) /\ <<m>>[1] = m /\ Len(e) \in Nat
    BY <1>4, <1>6
  <2>2. d \in Seq(K) /\ Len(d) = 1 + Len(e)
    BY <1>3, <1>6, <2>1
  <2>3. d[1] = m /\ \A i \in 1 .. Len(e) : d[1 + i] = e[i]
    BY <1>3, <1>6, <2>1
  <2>4. \A i \in 2 .. Len(d) : d[i].fun = "NONE"
    <3> SUFFICES ASSUME NEW i \in 2 .. Len(d) PROVE d[i].fun = "NONE"
      OBVIOUS
    <3> DEFINE j == i - 1
    <3>1. j \in 1 .. Len(e) /\ i = 1 + j
      BY <2>1, <2>2
    <3> HIDE DEF j
    <3> QED BY <1>5, <2>3, <3>1
  <2>5. d # <<>>
    BY <2>1, <2>2
  <2> QED BY <2>2, <2>3, <2>4, <2>5
<1>8. d \in Seq(Whole) /\ s \in Term
  BY <1>3, TermParts, TermSimple DEF d, s
<1>9. /\ g \in Seq(K) /\ ListSum(g, Worths(p)) = ListSum(d, Worths(p)) /\ m \in ToSet(g)
  <2>1. Kind(K)
    BY ConditionalKind DEF K
  <2>2. \A i \in 2 .. Len(d) : d[i].fun # d[1].fun
    BY <1>4, <1>7
  <2>3. /\ g \in Seq(K) /\ ListSum(g, Worths(p)) = ListSum(d, Worths(p))
        /\ d # <<>> /\ (\A i \in 2 .. Len(d) : d[i].fun # d[1].fun) => d[1] \in ToSet(g)
    BY <1>7, <1>8, <2>1, SimplifiedWorth DEF d, g, s
  <2> QED BY <1>7, <2>2, <2>3
<1>10. g \in Seq(Whole) /\ g \in Seq(LineOf(b, f))
  <2>1. g \in Seq(Whole)
    BY <1>8, TermParts DEF g
  <2> QED BY <1>9, <2>1, ConditionalLine DEF K
<1>11. ListSum(d, Worths(p)) = x
  <2>1. ListSum(d, Worths(p)) = Worths(p)[m] + ListSum(e, Worths(p))
    BY <1>1, <1>3, <1>4, LeadingMono
  <2>2. Worths(p)[m] = 0
    BY <1>4, WorthsAre
  <2> QED BY <1>1, <2>1, <2>2
<1>12. r = AddMonos(c, g)
  <2>1. \A i \in 1 .. Len(g) : Len(g[i].vars) = 1
    <3> DEFINE A == LineOf(b, f)
    <3>1. \A i \in 1 .. Len(g) : g[i] \in A
      BY <1>10
    <3> QED BY <3>1 DEF LineOf
  <2>2. ~ (term_get_degree(s) >= 2)
    BY <1>10, <2>1, LowDegree DEF g
  <2> QED BY <1>8, <2>2, NoFunction DEF Filled, g
<1>13. LineRow(AddMonos(c, g), c, g, b, f, p)
  BY <1>2, <1>10, RowOfLine DEF c
<1>14. \E i \in 1 .. Len(g) : g[i].fun # "NONE"
  <2>1. \E i \in DOMAIN g : g[i] = m
    BY <1>9 DEF ToSet
  <2>2. DOMAIN g = 1 .. Len(g)
    BY <1>10
  <2> QED BY <1>4, <2>1, <2>2
<1>15. AsksIf(r, p, c, x, b, then)
  BY <1>2, <1>9, <1>11, <1>12, <1>13, <1>14 DEF LineRow, AsksIf
<1> HIDE DEF r
<1>16. ~ Violates(r, x) <=> Within(contype, lhs, rhs, x)
  BY <1>1, <1>15, SidesJudge DEF AsksIf, c
<1>17. RowHolds(r, p) <=> ((p[b] = 1) # then) \/ ~ Violates(r, x)
  <2>1. <<b, then>> # <<>> /\ <<b, then>>[1] = b /\ <<b, then>>[2] = then
    OBVIOUS
  <2> QED BY <1>15, <2>1 DEF AsksIf, RowHolds
<1> QED BY <1>16, <1>17 DEF r, c, s, x, u, RowOf
----------------------------------------------------------------------------
(***************************************************************************)
(* The objective.                                                          *)
(***************************************************************************)
CostChanges(D, x, m) ==
  /\ AddCost(x, m) \in [D -> Int]
  /\ AddCost(x, m) = [x EXCEPT ![m.vars[1]] = x[m.vars[1]] + m.coeff]
  /\ m.vars[1] \in D /\ m.coeff \in Int

LEMMA CostAdded ==
  ASSUME NEW D, Var \subseteq D, NEW x \in [D -> Int], NEW m \in Whole
  PROVE  CostChanges(D, x, m)
<1> DEFINE v == m.vars[1]
<1>1. v \in D /\ m.coeff \in Int
  BY WholeParts
<1>2. AddCost(x, m) = [x EXCEPT ![v] = x[v] + m.coeff]
  BY DEF AddCost
<1> HIDE DEF v
<1>3. x[v] + m.coeff \in Int
  BY <1>1
<1>4. [x EXCEPT ![v] = x[v] + m.coeff] \in [D -> Int]
  BY <1>3
<1> QED BY <1>1, <1>2, <1>4 DEF CostChanges, v

Costs(D) == [m \in Whole |-> [x \in [D -> Int] |-> AddCost(x, m)]]

CostsSteps(D, cost) ==
  /\ AddCosts(cost, <<>>) = cost
  /\ \A e \in Seq(Whole) : AddCosts(cost, e) \in [D -> Int]
  /\ \A e \in Seq(Whole) : \A m \in Whole :
       AddCosts(cost, Append(e, m)) = AddCost(AddCosts(cost, e), m)

LEMMA CostsFold ==
  ASSUME NEW D, Var \subseteq D, NEW cost \in [D -> Int]
  PROVE  CostsSteps(D, cost)
<1> DEFINE g == Costs(D)
           C == [D -> Int]
<1>1. g \in [Whole -> [C -> C]] /\ \A m \in Whole : \A x \in C : g[m][x] = AddCost(x, m)
  <2>1. \A m \in Whole : \A x \in C : AddCost(x, m) \in C
    BY CostAdded DEF CostChanges
  <2> HIDE DEF C
  <2>2. \A m \in Whole : [x \in C |-> AddCost(x, m)] \in [C -> C]
    BY <2>1
  <2> QED BY <2>2 DEF Costs, C
<1>2. cost \in C
  OBVIOUS
<1> HIDE DEF g, C
<1>3. Stepwise(Whole, C, cost, g) /\ Runs(Whole, C, cost, g)
  BY <1>1, <1>2, FoldSteps, FoldRuns
<1>4. ASSUME NEW e \in Seq(Whole) PROVE AddCosts(cost, e) = Folded(e, cost, g)
  <2> DEFINE n == Len(e)
             h == CHOOSE f : CostsRun(f, cost, e)
  <2>1. n \in Nat /\ \A i \in 1 .. n : e[i] \in Whole
    OBVIOUS
  <2>2. PICK f : IsFold(f, e, cost, g) /\ \A i \in 0 .. n : f[i] \in C
    BY <1>3 DEF Runs
  <2>3. CostsRun(f, cost, e)
    <3>1. f = [i \in 0 .. n |-> IF i = 0 THEN cost ELSE g[e[i]][f[i - 1]]]
      BY <2>2 DEF IsFold
    <3>2. \A i \in 0 .. n : i # 0 => g[e[i]][f[i - 1]] = AddCost(f[i - 1], e[i])
      <4>1. \A i \in 0 .. n : i # 0 => i \in 1 .. n /\ i - 1 \in 0 .. n
        BY <2>1
      <4> HIDE DEF n
      <4> QED BY <1>1, <2>1, <2>2, <4>1
    <3> QED BY <3>1, <3>2 DEF CostsRun
  <2>4. CostsRun(h, cost, e)
    BY <2>3
  <2>5. AddCosts(cost, e) = h[n]
    BY DEF AddCosts, CostsRun
  <2> HIDE DEF h
  <2>6. h[0] = cost /\ \A i \in 1 .. n : h[i] = AddCost(h[i - 1], e[i])
    <3>1. 0 \in 0 .. n /\ \A i \in 1 .. n : i \in 0 .. n /\ i # 0
      BY <2>1
    <3> QED BY <2>4, <3>1 DEF CostsRun
  <2>7. \A i \in 1 .. Len(e) : h[i - 1] \in C => h[i] = g[e[i]][h[i - 1]]
    BY <1>1, <2>1, <2>6
  <2>8. h[Len(e)] = Folded(e, cost, g)
    <3>1. /\ \A j : j[0] = cost /\ (\A i \in 1 .. Len(e) : j[i - 1] \in C => j[i] = g[e[i]][j[i - 1]])
                      => j[Len(e)] = Folded(e, cost, g)
      BY <1>3 DEF Runs
    <3> QED BY <2>6, <2>7, <3>1
  <2> QED BY <2>5, <2>8
<1>5. \A e \in Seq(Whole) : \A m \in Whole : Append(e, m) \in Seq(Whole)
  OBVIOUS
<1>6. <<>> \in Seq(Whole)
  OBVIOUS
<1>7. Folded(<<>>, cost, g) = cost /\ \A e \in Seq(Whole) : /\ Folded(e, cost, g) \in C
        /\ \A m \in Whole : Folded(Append(e, m), cost, g) = g[m][Folded(e, cost, g)]
  BY <1>3 DEF Stepwise
<1>8. AddCosts(cost, <<>>) = cost /\ \A e \in Seq(Whole) : AddCosts(cost, e) \in C
  BY ONLY <1>4, <1>6, <1>7
<1>9. \A e \in Seq(Whole) : \A m \in Whole : AddCosts(cost, Append(e, m)) = AddCost(AddCosts(cost, e), m)
  <2> SUFFICES ASSUME NEW e \in Seq(Whole), NEW m \in Whole
               PROVE  AddCosts(cost, Append(e, m)) = AddCost(AddCosts(cost, e), m)
    OBVIOUS
  <2>1. Append(e, m) \in Seq(Whole)
    BY <1>5
  <2>2. AddCosts(cost, Append(e, m)) = Folded(Append(e, m), cost, g)
    BY <1>4, <2>1
  <2>3. Folded(Append(e, m), cost, g) = g[m][AddCosts(cost, e)]
    BY <1>4, <1>7
  <2>4. AddCosts(cost, e) \in C
    BY <1>8
  <2> QED BY <1>1, <2>2, <2>3, <2>4
<1> QED BY <1>8, <1>9 DEF CostsSteps, C

\* The costs grow by what the monos are worth; q extends p to more variables.
Grown(cost, q, e, p) == Weighed(AddCosts(cost, e), q) = Weighed(cost, q) + ListSum(e, Worths(p))

LEMMA CostsWorth ==
  ASSUME NEW D, IsFiniteSet(D), Var \subseteq D, NEW cost \in [D -> Int],
         NEW q, \A v \in D : q[v] \in Int, NEW p \in [Var -> Int], \A v \in Var : q[v] = p[v],
         NEW e \in Seq(LineOf(0, "NONE"))
  PROVE  Grown(cost, q, e, p)
<1> DEFINE A == LineOf(0, "NONE")
           S == {s \in Seq(A) : Weighed(AddCosts(cost, s), q) = Weighed(cost, q) + ListSum(s, Worths(p))}
<1>1. A \subseteq Whole /\ A \subseteq Ordered /\ \A s \in Seq(A) : s \in Seq(Whole) /\ s \in Seq(Ordered)
  <2>1. A \subseteq Whole /\ Whole \subseteq Ordered
    BY DEF LineOf, Whole
  <2> HIDE DEF A
  <2> QED BY <2>1
<1>2. CostsSteps(D, cost) /\ SumLaws(Ordered, Worths(p))
  BY CostsFold, OrderedLaws
<1>3. Weighed(cost, q) \in Int
  BY WeighedIs DEF WeighedLaws
<1>4. \A s \in Seq(A) : ListSum(s, Worths(p)) \in Int
  BY <1>1, <1>2 DEF SumLaws
<1>5. <<>> \in S
  <2>1. AddCosts(cost, <<>>) = cost /\ ListSum(<<>>, Worths(p)) = 0
    BY <1>2 DEF CostsSteps, SumLaws
  <2>2. <<>> \in Seq(A)
    OBVIOUS
  <2> QED BY <1>3, <2>1, <2>2
<1>6. ASSUME NEW s \in S, NEW m \in A PROVE Append(s, m) \in S
  <2> DEFINE r == AddCosts(cost, s)
             w == Append(s, m)
             v == m.vars[1]
             k == m.coeff
  <2>1. s \in Seq(A) /\ Weighed(r, q) = Weighed(cost, q) + ListSum(s, Worths(p))
    BY <1>6
  <2>2. s \in Seq(Whole) /\ s \in Seq(Ordered) /\ m \in Whole /\ m \in Ordered
    BY <1>1, <2>1
  <2>3. /\ r \in [D -> Int] /\ AddCosts(cost, w) = AddCost(r, m)
        /\ ListSum(w, Worths(p)) = ListSum(s, Worths(p)) + Worths(p)[m]
    BY <1>2, <2>2 DEF CostsSteps, SumLaws
  <2>4. v \in D /\ k \in Int /\ AddCost(r, m) = [r EXCEPT ![v] = r[v] + k]
    <3> HIDE DEF r
    <3>1. CostChanges(D, r, m)
      BY <2>2, <2>3, CostAdded
    <3> QED BY <3>1 DEF CostChanges
  <2>5. w \in Seq(A)
    <3> HIDE DEF A
    <3> QED BY <2>1, AppendProperties
  <2>6. m.fun = "NONE" /\ Len(m.vars) = 1 /\ m.vars \in Seq(Var)
    BY <2>2, WholeParts DEF LineOf
  <2>7. Worths(p)[m] = k * q[v] /\ k * q[v] \in Int
    <3>1. Worths(p)[m] = m.coeff * ListProd(m.vars, p)
      BY <2>2, <2>6, WorthsAre
    <3>2. ListProd(m.vars, p) = p[v] /\ v \in Var /\ p[v] \in Int
      BY <2>6, ProdOfOne
    <3> QED BY <2>4, <3>1, <3>2
  <2> HIDE DEF r, w, v, k, A
  <2>8. Weighed([r EXCEPT ![v] = r[v] + k], q) = Weighed(r, q) + k * q[v]
    <3>1. Moved(D, r, q)
      BY <2>3, WeighedChanged
    <3> QED BY <2>4, <3>1 DEF Moved
  <2>9. Weighed(AddCosts(cost, w), q) = Weighed(cost, q) + ListSum(w, Worths(p))
    <3>1. ListSum(s, Worths(p)) \in Int
      BY <1>4, <2>1
    <3> QED BY <1>3, <2>1, <2>3, <2>4, <2>7, <2>8, <3>1
  <2> QED BY <2>5, <2>9 DEF w
<1>7. S = Seq(A)
  <2>1. S \in SUBSET Seq(A)
    OBVIOUS
  <2> HIDE DEF S, A
  <2> QED BY <1>5, <1>6, <2>1, ListInduction
<1> QED BY <1>7 DEF Grown

PointAt(l, v, p) == IF v = ObjOffset THEN l.vars[v].lower ELSE p[v]
CostOf(l, p)     == SumOf([v \in DOMAIN l.cost |-> l.cost[v] * PointAt(l, v, p)])
ObjOf(l, p)      == CostOf(l, p) + (IF l.obj_term = <<>> THEN 0 ELSE TermValue(l.obj_term[1], p))

\* A store in which the variable of the constant is one, if it is there.
Fixed(l) ==
  /\ Store(l) /\ DOMAIN l.vars \subseteq Var \cup {ObjOffset}
  /\ ObjOffset \in DOMAIN l.vars => l.vars[ObjOffset].lower = 1

\* The points of its variables.
Extended(l, q, p) ==
  /\ q = [v \in DOMAIN l.vars |-> PointAt(l, v, p)]
  /\ IsFiniteSet(DOMAIN l.vars) /\ Var \subseteq DOMAIN l.vars
  /\ l.cost \in [DOMAIN l.vars -> Int]
  /\ \A v \in DOMAIN l.vars : q[v] \in Int
  /\ \A v \in Var : q[v] = p[v]
  /\ ObjOffset \in DOMAIN l.vars => q[ObjOffset] = 1
  /\ CostOf(l, p) = Weighed(l.cost, q)

LEMMA FixedPoint ==
  ASSUME NEW l, Fixed(l), NEW p \in [Var -> Int]
  PROVE  Extended(l, [v \in DOMAIN l.vars |-> PointAt(l, v, p)], p)
<1> DEFINE D == DOMAIN l.vars
           q == [v \in D |-> PointAt(l, v, p)]
<1>1. IsFiniteSet(D) /\ Var \subseteq D /\ l.cost \in [D -> Int] /\ D \subseteq Var \cup {ObjOffset}
  BY DEF Fixed, Store, VarsAre, CostIs
<1>2. ObjOffset \in D => l.vars[ObjOffset].lower = 1
  BY DEF Fixed
<1>3. ObjOffset \notin Var
  BY TermEvalAssumption
<1> HIDE DEF D
<1>4. \A v \in Var : q[v] = p[v] /\ q[v] \in Int
  BY <1>1, <1>3 DEF PointAt
<1>5. ObjOffset \in D => q[ObjOffset] = 1
  BY <1>2 DEF PointAt
<1>6. \A v \in D : q[v] \in Int
  BY SMTT(30), <1>1, <1>4, <1>5
<1>7. CostOf(l, p) = Weighed(l.cost, q)
  <2>1. DOMAIN l.cost = D
    BY <1>1
  <2>2. [v \in D |-> l.cost[v] * PointAt(l, v, p)] = [v \in D |-> l.cost[v] * q[v]]
    OBVIOUS
  <2> QED BY <2>1, <2>2 DEF CostOf, Weighed
<1> QED BY <1>1, <1>4, <1>5, <1>6, <1>7 DEF Extended, D

\* The costs are cleared.
LEMMA ClearedIs ==
  ASSUME NEW l, Store(l), l.dir = "NONE", DOMAIN l.vars = Var, NEW minimize \in BOOLEAN
  PROVE  LET a == xlp_setobj(l, minimize)
         IN  /\ Store(a) /\ a.vars = l.vars /\ a.cost = [v \in Var |-> 0] /\ a.obj_term = <<>>
             /\ a.dir # "NONE" /\ a.rows = l.rows
<1> DEFINE a == xlp_setobj(l, minimize)
<1>1. Store(a) /\ a.obj_term = <<>> /\ a.dir # "NONE" /\ a.rows = l.rows
  BY DirSet
<1>2. a = [l EXCEPT !.cost = [v \in DOMAIN l.cost |-> 0], !.dir = IF minimize THEN "MIN" ELSE "MAX"]
  BY DEF xlp_setobj
<1>3. DOMAIN l.cost = Var /\ Fields(l)
  BY DEF Store, CostIs
<1> HIDE DEF a
<1>4. a.vars = l.vars /\ a.cost = [v \in Var |-> 0]
  BY <1>2, <1>3 DEF Fields
<1> QED BY <1>1, <1>4 DEF a

OffsetVar == xlp_addvar("IMP", 1, 1, [num |-> 0, den |-> 1], 0)

LEMMA OffsetOne == OffsetVar.lower = 1
<1> DEFINE low  == lps_setlower(lps_addvar, 1)
           both == lps_setupper(low, 1)
<1>1. DOMAIN lps_addvar = {"vclass", "type", "lower", "upper", "startval", "priority"}
  BY DEF lps_addvar
<1>2. low.lower = 1 /\ DOMAIN low = DOMAIN lps_addvar
  <2> DEFINE t == BothSides(lps_addvar.type, "LOWER", <<"FIXED", "BOXED">>, 1 = lps_addvar.upper)
             y == lps_addvar
  <2>1. low = [y EXCEPT !.lower = 1, !.type = t]
    BY DEF lps_setlower
  <2>2. "lower" \in DOMAIN y
    BY <1>1
  <2> HIDE DEF t, y, low
  <2>3. low.lower = 1 /\ DOMAIN low = DOMAIN y
    BY <2>1, <2>2
  <2> QED BY <2>3 DEF y
<1>3. both.lower = 1 /\ DOMAIN both = DOMAIN lps_addvar
  <2> DEFINE t == BothSides(low.type, "UPPER", <<"FIXED", "BOXED">>, low.lower = 1)
  <2> HIDE DEF low
  <2>1. both = [low EXCEPT !.upper = 1, !.type = t]
    BY DEF lps_setupper
  <2> HIDE DEF both, t
  <2>2. both.lower = low.lower /\ DOMAIN both = DOMAIN low
    BY <2>1
  <2> QED BY <1>2, <2>2
<1> HIDE DEF low, both
<1>4. \E c, pr, st : OffsetVar = [both EXCEPT !.vclass = c, !.priority = pr, !.startval = st]
  <2> DEFINE st == IF 0 = Unknown THEN 0 ELSE 0
             pr == [num |-> 0, den |-> 1].num
  <2>1. Infty # 1
    BY TermEvalAssumption
  <2>2. OffsetVar = [both EXCEPT !.vclass = "IMP", !.priority = pr, !.startval = st]
    BY <2>1 DEF OffsetVar, xlp_addvar, both, low
  <2> HIDE DEF st, pr
  <2> QED BY <2>2
<1> QED BY <1>3, <1>4

OffsetIs(b, c, p) ==
  Fixed(b) /\ b.obj_term = <<>> /\ b.dir # "NONE" /\ CostOf(b, p) = c

LEMMA OffsetWorth ==
  ASSUME NEW a, Store(a), DOMAIN a.vars = Var, a.cost = [v \in Var |-> 0], a.obj_term = <<>>,
         a.dir # "NONE", NEW c \in Int, NEW p \in [Var -> Int]
  PROVE  OffsetIs(WithOffset(a, c), c, p)
<1> DEFINE b == WithOffset(a, c)
           q == [v \in DOMAIN b.vars |-> PointAt(b, v, p)]
<1>1. Store(b) /\ b.obj_term = <<>> /\ b.dir # "NONE"
  BY OffsetAdded
<1>2. ObjOffset \notin Var /\ IsFiniteSet(Var)
  BY TermEvalAssumption
<1>3. ASSUME c = 0 PROVE Fixed(b) /\ Weighed(b.cost, q) = c
  <2>1. b = a
    BY <1>3 DEF WithOffset
  <2>2. Fixed(b)
    BY <1>1, <1>2, <2>1 DEF Fixed
  <2>3. Extended(b, q, p)
    <3> HIDE DEF b
    <3> QED BY <2>2, FixedPoint
  <2>4. b.cost = [v \in Var |-> 0] /\ \A v \in Var : q[v] \in Int
    BY <2>1, <2>3 DEF Extended
  <2> HIDE DEF q, b
  <2>5. Weighed(b.cost, q) = 0
    BY <1>2, <2>4, WeighedZero
  <2> QED BY <1>3, <2>2, <2>5
<1>4. ASSUME c # 0 PROVE Fixed(b) /\ Weighed(b.cost, q) = c
  <2>1. b = [a EXCEPT !.vars = With(@, ObjOffset, OffsetVar), !.cost = With(@, ObjOffset, c)]
    BY <1>2, <1>4 DEF WithOffset, OffsetVar
  <2>2. Fields(a)
    BY DEF Store
  <2>3. b.vars = With(a.vars, ObjOffset, OffsetVar) /\ b.cost = With(a.cost, ObjOffset, c)
    <3> HIDE DEF b
    <3> QED BY <2>1, <2>2 DEF Fields
  <2>4. DOMAIN b.vars = Var \cup {ObjOffset} /\ b.vars[ObjOffset] = OffsetVar
    BY <2>3 DEF With
  <2>5. Fixed(b)
    <3> HIDE DEF b
    <3> QED BY <1>1, <2>4, OffsetOne DEF Fixed
  <2>6. Extended(b, q, p)
    <3> HIDE DEF b
    <3> QED BY <2>5, FixedPoint
  <2>7. (\A v \in Var : q[v] \in Int) /\ q[ObjOffset] = 1
    BY <2>4, <2>6 DEF Extended
  <2> HIDE DEF q, b
  <2> DEFINE z == [v \in Var |-> 0]
  <2>8. z \in [Var -> Int] /\ a.cost = z
    OBVIOUS
  <2>9. Weighed(z, q) = 0
    BY <1>2, <2>7, WeighedZero
  <2> HIDE DEF z
  <2>10. Weighed(With(z, ObjOffset, c), q) = Weighed(z, q) + c * q[ObjOffset]
    BY <1>2, <2>7, <2>8, WeighedMore
  <2>11. Weighed(b.cost, q) = c
    BY <2>3, <2>7, <2>8, <2>9, <2>10
  <2> QED BY <2>5, <2>11
<1>5. Fixed(b) /\ Weighed(b.cost, q) = c
  BY <1>3, <1>4
<1>6. CostOf(b, p) = Weighed(b.cost, q)
  <2>1. Extended(b, q, p)
    <3> HIDE DEF b
    <3> QED BY <1>5, FixedPoint
  <2> QED BY <2>1 DEF Extended
<1> QED BY <1>1, <1>5, <1>6 DEF OffsetIs

\* Only the costs change.
LEMMA CostReplaced ==
  ASSUME NEW b, Fixed(b), NEW d \in [DOMAIN b.vars -> Int], NEW p \in [Var -> Int]
  PROVE  LET k == [b EXCEPT !.cost = d]
             q == [v \in DOMAIN b.vars |-> PointAt(b, v, p)]
         IN  CostOf(k, p) = Weighed(d, q) /\ k.obj_term = b.obj_term
<1> DEFINE D == DOMAIN b.vars
           k == [b EXCEPT !.cost = d]
           q == [v \in D |-> PointAt(b, v, p)]
<1>1. Fields(b)
  BY DEF Fixed, Store
<1>2. k.vars = b.vars /\ k.cost = d /\ k.obj_term = b.obj_term
  BY <1>1 DEF Fields
<1> HIDE DEF k, D
<1>3. \A v : PointAt(k, v, p) = PointAt(b, v, p)
  BY <1>2 DEF PointAt
<1>4. DOMAIN d = D
  BY DEF D
<1>5. [v \in D |-> d[v] * PointAt(k, v, p)] = [v \in D |-> d[v] * q[v]]
  BY <1>3
<1>6. CostOf(k, p) = Weighed(d, q)
  BY <1>2, <1>4, <1>5 DEF CostOf, Weighed
<1> QED BY <1>2, <1>6 DEF k, D

TermOnly(k, b, o, p) == CostOf(k, p) = CostOf(b, p) /\ k.obj_term = o

LEMMA TermReplaced ==
  ASSUME NEW b, Fixed(b), NEW o, NEW u, NEW p \in [Var -> Int]
  PROVE  TermOnly([b EXCEPT !.obj_term = o, !.used = u], b, o, p)
<1> DEFINE k == [b EXCEPT !.obj_term = o, !.used = u]
<1>1. Fields(b)
  BY DEF Fixed, Store
<1>2. k.vars = b.vars /\ k.cost = b.cost /\ k.obj_term = o
  BY <1>1 DEF Fields
<1> HIDE DEF k
<1>3. \A v : PointAt(k, v, p) = PointAt(b, v, p)
  BY <1>2 DEF PointAt
<1>4. CostOf(k, p) = CostOf(b, p)
  BY <1>2, <1>3 DEF CostOf
<1> QED BY <1>2, <1>4 DEF k, TermOnly

\* The objective is worth what its expression is worth.
LEMMA ObjectiveWorth ==
  ASSUME NEW l, Store(l), l.dir = "NONE", DOMAIN l.vars = Var, NEW minimize \in BOOLEAN,
         NEW t \in Plain, NEW p \in [Var -> Int]
  PROVE  ObjOf(xlp_addtoobj(xlp_setobj(l, minimize), t), p) = TermValue(t, p)
<1> DEFINE a == xlp_setobj(l, minimize)
           s == term_simplify(t)
           c == s.const
           b == WithOffset(a, c)
           u == term_sub_constant(s, c)
           k == xlp_addtoobj(a, t)
           e == u.elem
<1>1. /\ Store(a) /\ a.cost = [v \in Var |-> 0] /\ a.obj_term = <<>> /\ a.dir # "NONE"
      /\ DOMAIN a.vars = Var
  BY ClearedIs
<1>2. /\ t \in Term /\ t.const \in Int /\ t.elem \in Seq(PlainMono) /\ t.elem \in Seq(Whole)
      /\ TermValue(t, p) = t.const + ListSum(t.elem, Worths(p)) /\ TermValue(t, p) \in Int
      /\ ListSum(t.elem, Worths(p)) \in Int
  BY PlainWorth, PlainOrdered DEF Valued
<1>3. s \in Term /\ c = t.const /\ Apart(s.elem)
  BY <1>2, TermSimple
<1>4. s.elem \in Seq(PlainMono) /\ ListSum(s.elem, Worths(p)) = ListSum(t.elem, Worths(p))
  BY <1>2, PlainKind, SimplifiedWorth
<1> HIDE DEF a, s
<1>5. c \in Int
  BY <1>2, <1>3
<1> HIDE DEF c
<1>6. OffsetIs(b, c, p)
  BY <1>1, <1>5, OffsetWorth
<1>7. u \in Term /\ e = s.elem /\ u.const = 0
  <2>1. u \in Term /\ e = s.elem
    BY <1>3, <1>5, TermConst
  <2>2. u.const = s.const - c
    <3>1. s = [const |-> s.const, size |-> s.size, elem |-> s.elem]
      BY <1>3, TermParts
    <3> QED BY <3>1 DEF term_sub_constant
  <2> QED BY <1>5, <2>1, <2>2 DEF c
<1>8. k = AddObj(b, u)
  BY DEF xlp_addtoobj, AddSimple, s, c
<1> HIDE DEF b, u, k, e
<1>9. /\ e \in Seq(PlainMono) /\ e \in Seq(Whole) /\ e \in Seq(Ordered)
      /\ ListSum(e, Worths(p)) \in Int /\ TermValue(t, p) = c + ListSum(e, Worths(p))
  <2>1. e \in Seq(PlainMono) /\ e \in Seq(Whole)
    BY <1>4, <1>7, TermParts DEF e
  <2> QED BY <1>2, <1>3, <1>4, <1>7, <2>1, PlainOrdered
<1>10. Fixed(b) /\ b.obj_term = <<>> /\ CostOf(b, p) = c
  BY <1>6 DEF OffsetIs
<1>11. term_is_polynomial(u)
  <2>1. \A i \in DOMAIN e : e[i].fun = "NONE"
    BY <1>9 DEF PlainMono
  <2> QED BY <2>1 DEF term_is_polynomial, e
<1>12. ASSUME term_get_degree(u) >= 2 PROVE ObjOf(k, p) = c + ListSum(e, Worths(p))
  <2> DEFINE n == Cardinality(DOMAIN b.vars)
             w == term_append_term(term_new(n), u)
             o == <<w>>
             used == b.used \cup VarsOf(u)
  <2>1. k = [b EXCEPT !.obj_term = o, !.used = used]
    BY <1>8, <1>10, <1>12 DEF AddObj, lps_addtoobjterm
  <2>2. e # <<>>
    BY <1>12, HighNotEmpty DEF e
  <2>3. u \in Simple
    BY <1>3, <1>7 DEF Simple, e
  <2>4. n \in Nat
    BY <1>10, FS_CardinalityType DEF Fixed, Store, VarsAre
  <2>5. w.elem = e /\ w.const = 0
    <3>1. w.elem = e
      <4> HIDE DEF n
      <4> QED BY <2>2, <2>3, <2>4, EmptyGrows DEF e
    <3>2. w.const = 0 + u.const
      BY DEF term_append_term, term_new
    <3> QED BY <1>7, <3>1, <3>2
  <2> HIDE DEF w, used
  <2>6. TermValue(w, p) = 0 + ListSum(e, Worths(p))
    BY <1>9, <2>5, TermWorth
  <2>7. o # <<>> /\ o[1] = w
    OBVIOUS
  <2> HIDE DEF o
  <2>8. CostOf(k, p) = CostOf(b, p) /\ k.obj_term = o
    <3>1. TermOnly(k, b, o, p)
      BY <1>10, <2>1, TermReplaced
    <3> QED BY <3>1 DEF TermOnly
  <2>9. ObjOf(k, p) = c + TermValue(w, p)
    BY <1>10, <2>7, <2>8 DEF ObjOf
  <2> QED BY <1>9, <2>6, <2>9
<1>13. ASSUME ~ (term_get_degree(u) >= 2) PROVE ObjOf(k, p) = c + ListSum(e, Worths(p))
  <2> DEFINE D == DOMAIN b.vars
             q == [v \in D |-> PointAt(b, v, p)]
             d == AddCosts(b.cost, e)
             A == LineOf(0, "NONE")
  <2>1. k = [b EXCEPT !.cost = d]
    BY <1>8, <1>11, <1>13 DEF AddObj, e
  <2>2. Extended(b, q, p)
    BY <1>10, FixedPoint
  <2>3. /\ IsFiniteSet(D) /\ Var \subseteq D /\ b.cost \in [D -> Int]
        /\ \A v \in D : q[v] \in Int
        /\ \A v \in Var : q[v] = p[v]
        /\ CostOf(b, p) = Weighed(b.cost, q)
    BY <2>2 DEF Extended
  <2>4. e \in Seq(A)
    <3>1. \A i \in 1 .. Len(e) : Len(e[i].vars) = 1
      BY <1>9, <1>13, LowDegree DEF e
    <3>2. \A i \in 1 .. Len(e) : e[i].fun = "NONE" /\ e[i] \in Whole
      BY <1>9 DEF PlainMono
    <3>3. \A i \in 1 .. Len(e) : e[i] \in A
      BY <3>1, <3>2 DEF LineOf
    <3> HIDE DEF A
    <3> QED BY <1>9, <3>3, AllIn
  <2>5. d \in [D -> Int]
    <3> HIDE DEF D
    <3> QED BY <1>9, <2>3, CostsAdded
  <2>6. Weighed(d, q) = Weighed(b.cost, q) + ListSum(e, Worths(p))
    <3> DEFINE cost == b.cost
    <3>1. cost \in [D -> Int]
      BY <2>3
    <3> HIDE DEF D, q, A, cost
    <3>2. Grown(cost, q, e, p)
      BY <2>3, <2>4, <3>1, CostsWorth DEF A
    <3> QED BY <3>2 DEF cost, Grown
  <2>7. CostOf(k, p) = Weighed(d, q) /\ k.obj_term = b.obj_term
    <3> HIDE DEF d
    <3> QED BY <1>10, <2>1, <2>5, CostReplaced
  <2> HIDE DEF d, q
  <2>8. ObjOf(k, p) = CostOf(k, p) + 0
    BY <1>10, <2>7 DEF ObjOf
  <2> QED BY <1>5, <1>9, <1>10, <2>3, <2>6, <2>7, <2>8
<1> QED BY <1>9, <1>12, <1>13 DEF k, a
----------------------------------------------------------------------------
(***************************************************************************)
(* What the state stands for.                                              *)
(***************************************************************************)
Satisfied(rows) == {p \in Point : \A i \in DOMAIN rows : RowHolds(rows[i], p)}

LEMMA ObjValueIs == /\ \A p : ObjValue(p) = ObjOf(lp, p)
                    /\ \A p : ObjValue(p)' = ObjOf(lp', p)
BY DEF ObjValue, At, ObjOf, CostOf, PointAt

LEMMA NothingWorth == Worth(<<>>) = <<>>
<1>1. DOMAIN <<>> = {}
  <2>1. <<>> \in Seq(Int) /\ Len(<<>>) = 0
    OBVIOUS
  <2> QED BY <2>1
<1> QED BY <1>1 DEF Worth

LEMMA ExpressionStep ==
  ASSUME error = 0, UNCHANGED <<lp, error>>, Worth(stack') # <<>>,
         Promise!Combined(node', Worth(stack), Worth(stack'), Len(Worth(stack')) - 1)
  PROVE  Promise!Next
<1>1. \A p : ObjValue(p)' = ObjValue(p)
  BY DEF ObjValue, At
<1> QED BY <1>1 DEF Promise!Next, Promise!Expression

LEMMA RefuseStep ==
  ASSUME error = 0, lp' = lp, stack' = <<>>, error' \notin {0, 106, 108, 109}
  PROVE  Promise!Next
<1>1. \A p : ObjValue(p)' = ObjValue(p)
  BY DEF ObjValue, At
<1>2. Worth(stack') = <<>>
  BY NothingWorth
<1> QED BY <1>1, <1>2 DEF Promise!Next, Promise!Refuse

\* A constraint that no point satisfies ends the program.
LEMMA InfeasibleStep ==
  ASSUME error = 0, lp' = lp, stack' = <<>>, error' \in {106, 108, 109},
         node'[1] # "objective", Promise!Good(node', Worth(stack)) = {}
  PROVE  Promise!Next
<1>1. \A p : ObjValue(p)' = ObjValue(p)
  BY DEF ObjValue, At
<1>2. Worth(stack') = <<>>
  BY NothingWorth
<1> QED BY <1>1, <1>2 DEF Promise!Next, Promise!Statement, Promise!Require

\* A constraint takes the other points away.
LEMMA RequireStep ==
  ASSUME error = 0, error' = 0, stack' = <<>>, node'[1] # "objective",
         lp'.dir = lp.dir, \A p \in Point : ObjOf(lp', p) = ObjOf(lp, p),
         Satisfied(lp'.rows) = Satisfied(lp.rows) \cap Promise!Good(node', Worth(stack))
  PROVE  Promise!Next
<1>1. \A p \in Point : ObjValue(p)' = ObjValue(p)
  BY ObjValueIs
<1>2. Worth(stack') = <<>>
  BY NothingWorth
<1> QED BY <1>1, <1>2 DEF Promise!Next, Promise!Statement, Promise!Require, Satisfied

LEMMA ObjectiveStep ==
  ASSUME error = 0, error' = 0, stack' = <<>>, node'[1] = "objective",
         lp'.dir # "NONE", lp'.rows = lp.rows,
         \A p \in Point : ObjOf(lp', p) = Worth(stack)[1][p]
  PROVE  Promise!Next
<1>1. \A p \in Point : ObjValue(p)' = Worth(stack)[1][p]
  BY ObjValueIs
<1>2. Worth(stack') = <<>>
  BY NothingWorth
<1> QED BY <1>1, <1>2 DEF Promise!Next, Promise!Statement
----------------------------------------------------------------------------
(***************************************************************************)
(* Instructions are steps of the promise.                                  *)
(***************************************************************************)
KInv == /\ IInv /\ stack \in Seq(Plain)
        /\ lp.dir = "NONE" => DOMAIN lp.vars = Var

LEMMA PlainSeq == \A s \in Seq(Plain) : s \in Seq(Term)
<1>1. Plain \subseteq Term
  BY PlainOrdered
<1> QED BY <1>1

\* A part of a list of terms is worth the part of what the list is worth.
LEMMA WorthSub ==
  ASSUME NEW s \in Seq(Plain), NEW k \in 0 .. Len(s)
  PROVE  LET t == SubSeq(s, Len(s) - k + 1, Len(s))
         IN  /\ t \in Seq(Plain) /\ Len(t) = k
             /\ \A i \in 1 .. k : t[i] = s[Len(s) - k + i]
             /\ SubSeq(Worth(s), Len(s) - k + 1, Len(s)) = Worth(t)
<1> DEFINE n == Len(s)
           m == n - k + 1
           t == SubSeq(s, m, n)
           w == Worth(s)
           u == SubSeq(w, m, n)
<1>1. n \in Nat /\ m \in 1 .. n + 1 /\ k \in 0 .. n
  OBVIOUS
<1>2. t \in Seq(Plain) /\ Len(t) = k /\ \A i \in 1 .. k : t[i] = s[n - k + i]
  <2>1. \A i \in m .. n : i \in 1 .. n /\ s[i] \in Plain
    BY <1>1
  <2>2. /\ t \in Seq(Plain) /\ Len(t) = (IF m <= n THEN n - m + 1 ELSE 0)
        /\ \A i \in 1 .. n - m + 1 : t[i] = s[m + i - 1]
    <3> HIDE DEF m, n
    <3>1. m \in Int /\ n \in Int /\ \A i \in m .. n : i \in 1 .. n /\ s[i] \in Plain
      BY <1>1, <2>1
    <3> QED BY <3>1, SubSeqProperties DEF n
  <2>3. n - m + 1 = k /\ (IF m <= n THEN n - m + 1 ELSE 0) = k
    BY <1>1
  <2>4. \A i \in 1 .. k : m + i - 1 = n - k + i
    BY <1>1
  <2> HIDE DEF t, m, n
  <2> QED BY <2>2, <2>3, <2>4
<1>3. Listed(s) /\ Listed(t)
  <2> HIDE DEF t
  <2> QED BY <1>2, PlainSeq, WorthOf
<1>4. PICK V : w \in Seq([Point -> V])
  BY <1>3 DEF Listed
<1>5. Len(w) = n /\ \A i \in 1 .. n : w[i] = [p \in Point |-> TermValue(s[i], p)]
  BY <1>3 DEF Listed
<1>6. Len(u) = k /\ DOMAIN u = 1 .. k /\ u = [i \in 1 .. k |-> u[i]]
      /\ \A i \in 1 .. k : u[i] = w[n - k + i]
  <2>0. w \in Seq([Point -> V]) /\ m \in Int /\ n \in Int
    BY <1>1, <1>4
  <2>1. \A i \in m .. n : i \in 1 .. n
    BY <1>1
  <2> HIDE DEF w, m, n
  <2>2. /\ u \in Seq([Point -> V]) /\ Len(u) = (IF m <= n THEN n - m + 1 ELSE 0)
        /\ \A i \in 1 .. n - m + 1 : u[i] = w[m + i - 1]
    <3> DEFINE S == [Point -> V]
    <3>1. w \in Seq(S) /\ \A i \in m .. n : w[i] \in S
      BY SMTT(30), <1>5, <2>0, <2>1
    <3> HIDE DEF S
    <3>2. /\ u \in Seq(S) /\ Len(u) = (IF m <= n THEN n - m + 1 ELSE 0)
          /\ \A i \in 1 .. n - m + 1 : u[i] = w[m + i - 1]
      BY <1>5, <2>0, <2>1, <3>1, SubSeqProperties
    <3> QED BY <3>2 DEF S
  <2>3. n - m + 1 = k /\ (IF m <= n THEN n - m + 1 ELSE 0) = k
    BY <1>1 DEF m
  <2>4. \A i \in 1 .. k : m + i - 1 = n - k + i
    BY <1>1 DEF m
  <2> HIDE DEF u
  <2>5. Len(u) = k /\ \A i \in 1 .. k : u[i] = w[n - k + i]
    BY <2>2, <2>3, <2>4
  <2>6. DOMAIN u = 1 .. k /\ u = [i \in 1 .. k |-> u[i]]
    BY <2>2, <2>5
  <2> QED BY <2>5, <2>6
<1>7. \A i \in 1 .. k : u[i] = [p \in Point |-> TermValue(t[i], p)]
  <2> SUFFICES ASSUME NEW i \in 1 .. k PROVE u[i] = [p \in Point |-> TermValue(t[i], p)]
    OBVIOUS
  <2>1. n - k + i \in 1 .. n
    BY <1>1
  <2> HIDE DEF u, t, w, n
  <2> QED BY ZenonT(60), <1>2, <1>5, <1>6, <2>1
<1>8. Worth(t) = [i \in 1 .. k |-> [p \in Point |-> TermValue(t[i], p)]]
  <2>1. DOMAIN t = 1 .. k
    BY <1>2
  <2> HIDE DEF t
  <2> QED BY <2>1 DEF Worth
<1> HIDE DEF t, u
<1>9. u = Worth(t)
  BY <1>6, <1>7, <1>8
<1> QED BY <1>2, <1>9 DEF t, u, w, m, n

LEMMA SameStart ==
  ASSUME NEW f, NEW g, NEW k \in Nat, \A i \in 1 .. k : g[i] = f[i]
  PROVE  SubSeq(g, 1, k) = SubSeq(f, 1, k)
<1> DEFINE S == {f[i] : i \in 1 .. k}
<1>1. 1 \in Int /\ k \in Int /\ (\A i \in 1 .. k : f[i] \in S /\ g[i] \in S)
  OBVIOUS
<1> HIDE DEF S
<1>2. /\ SubSeq(f, 1, k) \in Seq(S) /\ Len(SubSeq(f, 1, k)) = (IF 1 <= k THEN k - 1 + 1 ELSE 0)
      /\ \A i \in 1 .. k - 1 + 1 : SubSeq(f, 1, k)[i] = f[1 + i - 1]
  BY <1>1, SubSeqProperties
<1>3. /\ SubSeq(g, 1, k) \in Seq(S) /\ Len(SubSeq(g, 1, k)) = (IF 1 <= k THEN k - 1 + 1 ELSE 0)
      /\ \A i \in 1 .. k - 1 + 1 : SubSeq(g, 1, k)[i] = g[1 + i - 1]
  BY <1>1, SubSeqProperties
<1>4. k - 1 + 1 = k /\ \A i \in 1 .. k : 1 + i - 1 = i
  OBVIOUS
<1>5. \A i \in 1 .. Len(SubSeq(f, 1, k)) : SubSeq(g, 1, k)[i] = SubSeq(f, 1, k)[i]
  BY <1>1, <1>2, <1>3, <1>4
<1> QED BY <1>2, <1>3, <1>5, SeqEqual

\* A node whose term has the right value is a step of the promise.
Operands(k) == SubSeq(stack, Len(stack) - k + 1, Len(stack))

LEMMA ValueMeans ==
  ASSUME KInv, error = 0, NEW n, NEW k \in 0 .. Len(stack), NEW term \in Plain,
         code_value_term(n, k, term),
         \A p \in Point : TermValue(term, p) = Promise!At(n, Worth(Operands(k)), p)
  PROVE  Promise!Next /\ stack' \in Seq(Plain) /\ lp' = lp
<1> DEFINE N == Len(stack)
           s == SubSeq(stack, 1, N - k)
           w == Append(s, term)
           f == Worth(stack)
           g == Worth(w)
<1>1. stack \in Seq(Plain) /\ N \in Nat /\ k \in 0 .. N /\ N - k \in Nat
  BY DEF KInv
<1>2. /\ stack' = w /\ node' = n /\ lp' = lp /\ error' = error
  BY DEF code_value_term
<1>3. s \in Seq(Plain) /\ Len(s) = N - k /\ \A i \in 1 .. N - k : s[i] = stack[i]
  <2>1. 1 \in Int /\ N - k \in Int /\ \A i \in 1 .. N - k : i \in 1 .. N /\ stack[i] \in Plain
    BY <1>1
  <2> DEFINE j == N - k
  <2>2. j \in Int /\ \A i \in 1 .. j : stack[i] \in Plain
    BY <2>1
  <2> HIDE DEF j
  <2>3. /\ SubSeq(stack, 1, j) \in Seq(Plain)
        /\ Len(SubSeq(stack, 1, j)) = (IF 1 <= j THEN j - 1 + 1 ELSE 0)
        /\ \A i \in 1 .. j - 1 + 1 : SubSeq(stack, 1, j)[i] = stack[1 + i - 1]
    BY <2>1, <2>2, SubSeqProperties
  <2>4. j - 1 + 1 = j /\ (\A i \in 1 .. j : 1 + i - 1 = i) /\ j \in Nat
    BY <1>1, <2>2 DEF j
  <2>5. /\ SubSeq(stack, 1, j) \in Seq(Plain) /\ Len(SubSeq(stack, 1, j)) = j
        /\ \A i \in 1 .. j : SubSeq(stack, 1, j)[i] = stack[i]
    BY <2>3, <2>4
  <2> QED BY <2>5 DEF j
<1> HIDE DEF s
<1>4. /\ w \in Seq(Plain) /\ Len(w) = N - k + 1 /\ w[N - k + 1] = term
      /\ \A i \in 1 .. N - k : w[i] = stack[i]
  BY <1>1, <1>3, AppendProperties
<1> HIDE DEF w
<1>5. Listed(stack) /\ Listed(w)
  BY <1>1, <1>4, PlainSeq, WorthOf
<1>6. /\ Len(f) = N /\ \A i \in 1 .. N : f[i] = [p \in Point |-> TermValue(stack[i], p)]
      /\ Len(g) = N - k + 1 /\ \A i \in 1 .. N - k + 1 : g[i] = [p \in Point |-> TermValue(w[i], p)]
  BY <1>4, <1>5 DEF Listed
<1> HIDE DEF f, g
<1>7. \A i \in 1 .. N - k : g[i] = f[i]
  <2> SUFFICES ASSUME NEW i \in 1 .. N - k PROVE g[i] = f[i]
    OBVIOUS
  <2>1. i \in 1 .. N /\ i \in 1 .. N - k + 1
    BY <1>1
  <2>2. w[i] = stack[i]
    BY <1>4
  <2> QED BY <1>6, <2>1, <2>2
<1>8. SubSeq(g, 1, N - k) = SubSeq(f, 1, N - k)
  BY <1>1, <1>7, SameStart
<1>9. Operands(k) = SubSeq(stack, N - k + 1, N) /\ SubSeq(f, N - k + 1, N) = Worth(Operands(k))
  BY <1>1, WorthSub DEF Operands, f
<1>10. \A p \in Point : g[N - k + 1][p] = Promise!At(n, SubSeq(f, N - k + 1, N), p)
  <2>1. N - k + 1 \in 1 .. N - k + 1
    BY <1>1
  <2>2. g[N - k + 1] = [p \in Point |-> TermValue(term, p)]
    BY <1>4, <1>6, <2>1
  <2> QED BY <1>9, <2>2
<1>11. Promise!Combined(n, f, g, N - k)
  <2>1. Len(f) = N
    BY <1>6
  <2> HIDE DEF N
  <2> QED BY <1>8, <1>10, <2>1 DEF Promise!Combined
<1>12. Len(g) - 1 = N - k /\ g # <<>>
  <2>1. Len(g) # 0 /\ Len(g) - 1 = N - k
    BY <1>1, <1>6
  <2>2. Len(<<>>) = 0
    OBVIOUS
  <2> QED BY <2>1, <2>2
<1>13. Promise!Next
  <2>1. Promise!Combined(node', Worth(stack), Worth(stack'), Len(Worth(stack')) - 1)
    BY <1>2, <1>11, <1>12 DEF f, g
  <2>2. Worth(stack') # <<>>
    BY <1>2, <1>12 DEF g
  <2>3. lp' = lp /\ error' = error
    BY <1>2
  <2> QED BY <2>1, <2>2, <2>3, ExpressionStep
<1> QED BY <1>2, <1>4, <1>13

\* The values of the operands, and the operands of small numbers.
OperandsOf(k) ==
  /\ Operands(k) \in Seq(Plain) /\ Len(Operands(k)) = k
  /\ \A i \in 1 .. k : Operands(k)[i] = stack[Len(stack) - k + i]
  /\ \A i \in 1 .. k : \A p \in Point :
       Worth(Operands(k))[i][p] = TermValue(stack[Len(stack) - k + i], p)

LEMMA OperandsAre ==
  ASSUME KInv, NEW k \in 0 .. Len(stack)
  PROVE  OperandsOf(k)
<1>1. stack \in Seq(Plain)
  BY DEF KInv
<1>2. /\ Operands(k) \in Seq(Plain) /\ Len(Operands(k)) = k
      /\ \A i \in 1 .. k : Operands(k)[i] = stack[Len(stack) - k + i]
  BY <1>1, WorthSub DEF Operands
<1>3. Listed(Operands(k))
  BY <1>2, PlainSeq, WorthOf
<1>4. \A i \in 1 .. k : \A p \in Point : Worth(Operands(k))[i][p] = TermValue(Operands(k)[i], p)
  BY <1>2, <1>3 DEF Listed
<1> QED BY <1>2, <1>4 DEF OperandsOf

OneOperand == /\ Top1 \in Plain /\ 1 \in 0 .. Len(stack)
              /\ \A p \in Point : Worth(Operands(1))[1][p] = TermValue(Top1, p)

LEMMA FirstOperand ==
  ASSUME KInv, Len(stack) >= 1
  PROVE  OneOperand
<1>1. stack \in Seq(Plain) /\ Len(stack) \in Nat
  BY DEF KInv
<1>2. 1 \in 0 .. Len(stack) /\ Len(stack) - 1 + 1 = Len(stack) /\ Len(stack) \in 1 .. Len(stack)
  BY <1>1
<1>3. OperandsOf(1)
  BY <1>2, OperandsAre
<1>4. 1 \in 1 .. 1
  OBVIOUS
<1>5. \A p \in Point : Worth(Operands(1))[1][p] = TermValue(stack[Len(stack) - 1 + 1], p)
  BY <1>3, <1>4 DEF OperandsOf
<1> QED BY <1>1, <1>2, <1>5 DEF OneOperand, Top1

TwoOperands == /\ Top1 \in Plain /\ Top2 \in Plain /\ 2 \in 0 .. Len(stack)
               /\ \A p \in Point : /\ Worth(Operands(2))[1][p] = TermValue(Top2, p)
                                   /\ Worth(Operands(2))[2][p] = TermValue(Top1, p)

LEMMA BothOperands ==
  ASSUME KInv, Len(stack) >= 2
  PROVE  TwoOperands
<1>1. stack \in Seq(Plain) /\ Len(stack) \in Nat
  BY DEF KInv
<1>2. /\ 2 \in 0 .. Len(stack) /\ Len(stack) - 2 + 1 = Len(stack) - 1
      /\ Len(stack) - 2 + 2 = Len(stack) /\ Len(stack) \in 1 .. Len(stack)
      /\ Len(stack) - 1 \in 1 .. Len(stack)
  BY <1>1
<1>3. OperandsOf(2)
  BY <1>2, OperandsAre
<1>4. 1 \in 1 .. 2 /\ 2 \in 1 .. 2
  OBVIOUS
<1>5. \A p \in Point : /\ Worth(Operands(2))[1][p] = TermValue(stack[Len(stack) - 2 + 1], p)
                       /\ Worth(Operands(2))[2][p] = TermValue(stack[Len(stack) - 2 + 2], p)
  BY <1>3, <1>4 DEF OperandsOf
<1> QED BY <1>1, <1>2, <1>5 DEF TwoOperands, Top1, Top2

\* An instruction does what the promise says, and leaves the store alone.
Means == Promise!Next /\ stack' \in Seq(Plain) /\ lp' = lp

LEMMA SymbolMeans ==
  ASSUME KInv, NEW v \in Var \ Result, i_symbol_deref(v)
  PROVE  Means
<1> DEFINE t == term_add_elem(term_new(1), v, 1, "NONE")
           n == <<"i_symbol_deref", v>>
<1>1. error = 0 /\ 0 \in 0 .. Len(stack) /\ code_value_term(n, 0, t)
  BY DEF i_symbol_deref, Room, KInv
<1>2. \A p \in [Var -> Int] : t \in Plain /\ TermValue(t, p) = p[v]
  BY SymbolWorth DEF IsWorth
<1>3. \A a, p : Promise!At(n, a, p) = p[v]
  BY DEF Promise!At
<1>4. t \in Plain
  <2>1. [w \in Var |-> 0] \in [Var -> Int]
    OBVIOUS
  <2> QED BY <1>2, <2>1
<1> HIDE DEF t, n
<1>5. \A p \in Point : TermValue(t, p) = Promise!At(n, Worth(Operands(0)), p)
  BY <1>2, <1>3, PointsAre
<1> QED BY <1>1, <1>4, <1>5, ValueMeans DEF Means

LEMMA ExprMeans ==
  ASSUME KInv, NEW c \in Int, i_term_expr(c)
  PROVE  Means
<1> DEFINE t == term_add_constant(term_new(1), c)
           n == <<"i_term_expr", c>>
<1>1. error = 0 /\ 0 \in 0 .. Len(stack) /\ code_value_term(n, 0, t)
  BY DEF i_term_expr, Room, KInv
<1>2. \A p \in [Var -> Int] : t \in Plain /\ TermValue(t, p) = c
  <2> SUFFICES ASSUME NEW p \in [Var -> Int] PROVE t \in Plain /\ TermValue(t, p) = c
    OBVIOUS
  <2>1. term_new(1) \in Plain /\ TermValue(term_new(1), p) = 0
    BY NewWorth DEF IsWorth
  <2>2. IsWorth(t, TermValue(term_new(1), p) + c, p)
    BY <2>1, ConstWorth
  <2> QED BY <2>1, <2>2 DEF IsWorth
<1>3. \A a, p : Promise!At(n, a, p) = c
  BY DEF Promise!At
<1>4. t \in Plain
  <2>1. [w \in Var |-> 0] \in [Var -> Int]
    OBVIOUS
  <2> QED BY <1>2, <2>1
<1> HIDE DEF t, n
<1>5. \A p \in Point : TermValue(t, p) = Promise!At(n, Worth(Operands(0)), p)
  BY <1>2, <1>3, PointsAre
<1> QED BY <1>1, <1>4, <1>5, ValueMeans DEF Means

LEMMA SomePoint == [w \in Var |-> 0] \in [Var -> Int]
OBVIOUS

LEMMA CoeffMeans ==
  ASSUME KInv, NEW c \in Int, i_term_coeff(c)
  PROVE  Means
<1> DEFINE t == term_mul_coeff(term_copy(Top1), c)
           n == <<"i_term_coeff", c>>
<1>1. error = 0 /\ Len(stack) >= 1 /\ code_value_term(n, 1, t)
  BY DEF i_term_coeff, Reduce
<1>2. OneOperand
  BY <1>1, FirstOperand
<1>3. \A p \in [Var -> Int] : t \in Plain /\ TermValue(t, p) = c * TermValue(Top1, p)
  <2> SUFFICES ASSUME NEW p \in [Var -> Int]
               PROVE  t \in Plain /\ TermValue(t, p) = c * TermValue(Top1, p)
    OBVIOUS
  <2>1. Top1 \in Plain
    BY <1>2 DEF OneOperand
  <2>2. term_copy(Top1) \in Plain /\ TermValue(term_copy(Top1), p) = TermValue(Top1, p)
    BY <2>1, CopyWorth DEF IsWorth
  <2>3. IsWorth(t, c * TermValue(term_copy(Top1), p), p)
    BY <2>2, CoeffWorth
  <2> QED BY <2>2, <2>3 DEF IsWorth
<1>4. \A a, p : Promise!At(n, a, p) = c * a[1][p]
  BY DEF Promise!At
<1>5. t \in Plain
  BY <1>3, SomePoint
<1> HIDE DEF t, n
<1>6. \A p \in Point : TermValue(t, p) = Promise!At(n, Worth(Operands(1)), p)
  BY <1>2, <1>3, <1>4, PointsAre DEF OneOperand
<1>7. 1 \in 0 .. Len(stack)
  BY <1>2 DEF OneOperand
<1> QED BY <1>1, <1>5, <1>6, <1>7, ValueMeans DEF Means

LEMMA ConstMeans ==
  ASSUME KInv, NEW c \in Int, i_term_const(c)
  PROVE  Means
<1> DEFINE t == term_add_constant(term_copy(Top1), c)
           n == <<"i_term_const", c>>
<1>1. error = 0 /\ Len(stack) >= 1 /\ code_value_term(n, 1, t)
  BY DEF i_term_const, Reduce
<1>2. OneOperand
  BY <1>1, FirstOperand
<1>3. \A p \in [Var -> Int] : t \in Plain /\ TermValue(t, p) = c + TermValue(Top1, p)
  <2> SUFFICES ASSUME NEW p \in [Var -> Int]
               PROVE  t \in Plain /\ TermValue(t, p) = c + TermValue(Top1, p)
    OBVIOUS
  <2>1. Top1 \in Plain /\ TermValue(Top1, p) \in Int
    BY <1>2, PlainWorth DEF OneOperand, Valued
  <2>2. term_copy(Top1) \in Plain /\ TermValue(term_copy(Top1), p) = TermValue(Top1, p)
    BY <2>1, CopyWorth DEF IsWorth
  <2>3. IsWorth(t, TermValue(term_copy(Top1), p) + c, p)
    BY <2>2, ConstWorth
  <2>4. t \in Plain /\ TermValue(t, p) = TermValue(Top1, p) + c
    BY <2>2, <2>3 DEF IsWorth
  <2> HIDE DEF t
  <2> QED BY <2>1, <2>4
<1>4. \A a, p : Promise!At(n, a, p) = c + a[1][p]
  BY DEF Promise!At
<1>5. t \in Plain
  BY <1>3, SomePoint
<1> HIDE DEF t, n
<1>6. \A p \in Point : TermValue(t, p) = Promise!At(n, Worth(Operands(1)), p)
  BY <1>2, <1>3, <1>4, PointsAre DEF OneOperand
<1>7. 1 \in 0 .. Len(stack)
  BY <1>2 DEF OneOperand
<1> QED BY <1>1, <1>5, <1>6, <1>7, ValueMeans DEF Means

LEMMA AddMeans ==
  ASSUME KInv, i_term_add
  PROVE  Means
<1> DEFINE t == AddTerm(Top2, Top1)
           n == <<"i_term_add">>
<1>1. error = 0 /\ Len(stack) >= 2 /\ code_value_term(n, 2, t)
  BY DEF i_term_add, Reduce
<1>2. TwoOperands
  BY <1>1, BothOperands
<1>3. \A p \in [Var -> Int] : t \in Plain /\ TermValue(t, p) = TermValue(Top2, p) + TermValue(Top1, p)
  BY <1>2, AddWorth DEF TwoOperands, IsWorth
<1>4. \A a, p : Promise!At(n, a, p) = a[1][p] + a[2][p]
  BY DEF Promise!At
<1>5. t \in Plain
  BY <1>3, SomePoint
<1> HIDE DEF t, n
<1>6. \A p \in Point : TermValue(t, p) = Promise!At(n, Worth(Operands(2)), p)
  BY <1>2, <1>3, <1>4, PointsAre DEF TwoOperands
<1>7. 2 \in 0 .. Len(stack)
  BY <1>2 DEF TwoOperands
<1> QED BY <1>1, <1>5, <1>6, <1>7, ValueMeans DEF Means

LEMMA SubMeans ==
  ASSUME KInv, i_term_sub
  PROVE  Means
<1> DEFINE t == term_sub_term(Top2, Top1)
           n == <<"i_term_sub">>
<1>1. error = 0 /\ Len(stack) >= 2 /\ code_value_term(n, 2, t)
  BY DEF i_term_sub, Reduce
<1>2. TwoOperands
  BY <1>1, BothOperands
<1>3. \A p \in [Var -> Int] : t \in Plain /\ TermValue(t, p) = TermValue(Top2, p) - TermValue(Top1, p)
  BY <1>2, SubWorth DEF TwoOperands, IsWorth
<1>4. \A a, p : Promise!At(n, a, p) = a[1][p] - a[2][p]
  BY DEF Promise!At
<1>5. t \in Plain
  BY <1>3, SomePoint
<1> HIDE DEF t, n
<1>6. \A p \in Point : TermValue(t, p) = Promise!At(n, Worth(Operands(2)), p)
  BY <1>2, <1>3, <1>4, PointsAre DEF TwoOperands
<1>7. 2 \in 0 .. Len(stack)
  BY <1>2 DEF TwoOperands
<1> QED BY <1>1, <1>5, <1>6, <1>7, ValueMeans DEF Means

LEMMA MulMeans ==
  ASSUME KInv, i_term_mul
  PROVE  Means
<1> DEFINE t == term_mul_term(Top2, Top1)
           n == <<"i_term_mul">>
<1>1. error = 0 /\ Len(stack) >= 2 /\ code_value_term(n, 2, t)
  BY DEF i_term_mul, Reduce
<1>2. TwoOperands
  BY <1>1, BothOperands
<1>3. \A p \in [Var -> Int] : t \in Plain /\ TermValue(t, p) = TermValue(Top2, p) * TermValue(Top1, p)
  BY <1>2, ProductWorth DEF TwoOperands, IsWorth
<1>4. \A a, p : Promise!At(n, a, p) = a[1][p] * a[2][p]
  BY DEF Promise!At
<1>5. t \in Plain
  BY <1>3, SomePoint
<1> HIDE DEF t, n
<1>6. \A p \in Point : TermValue(t, p) = Promise!At(n, Worth(Operands(2)), p)
  BY <1>2, <1>3, <1>4, PointsAre DEF TwoOperands
<1>7. 2 \in 0 .. Len(stack)
  BY <1>2 DEF TwoOperands
<1> QED BY <1>1, <1>5, <1>6, <1>7, ValueMeans DEF Means

LEMMA SumPlain == \A terms \in Seq(Plain) : SumTerm(terms) \in Plain
<1> SUFFICES ASSUME NEW terms \in Seq(Plain) PROVE SumTerm(terms) \in Plain
  OBVIOUS
<1> DEFINE n == Len(terms)
           T == [i \in 0 .. n |-> Plain]
<1>1. n \in Nat /\ (\A i \in 1 .. n : terms[i] \in Plain) /\ terms \in Seq(Term)
  BY PlainSeq
<1>2. PICK h : /\ SumTerm(terms) = h[n] /\ h[0] = term_new(1)
               /\ \A i \in 1 .. n : h[i] = term_append_term(h[i - 1], terms[i])
  BY <1>1, SumTermRun
<1>3. h[0] \in T[0]
  <2>1. 0 \in 0 .. n
    BY <1>1
  <2> QED BY <1>2, <2>1, SomePoint, NewWorth DEF IsWorth
<1>4. \A i \in 1 .. n : h[i - 1] \in T[i - 1] => h[i] \in T[i]
  <2> SUFFICES ASSUME NEW i \in 1 .. n, h[i - 1] \in T[i - 1] PROVE h[i] \in T[i]
    OBVIOUS
  <2>1. i \in 0 .. n /\ i - 1 \in 0 .. n
    BY <1>1
  <2>2. h[i - 1] \in Plain /\ terms[i] \in Plain
    BY <1>1, <2>1
  <2>3. term_append_term(h[i - 1], terms[i]) \in Plain
    BY <2>2, SomePoint, AppendWorth DEF IsWorth
  <2> QED BY <1>2, <2>1, <2>3
<1>5. \A i \in 0 .. n : h[i] \in T[i]
  <2> HIDE DEF T, n
  <2> QED BY <1>1, <1>3, <1>4, RoundsKeep
<1>6. n \in 0 .. n
  BY <1>1
<1> QED BY <1>2, <1>5, <1>6

LEMMA SumMeans ==
  ASSUME KInv, NEW k \in 0 .. Len(stack), i_term_sum(k)
  PROVE  Means
<1> DEFINE t == SumTerm(Operands(k))
           n == <<"i_term_sum", k>>
<1>1. error = 0 /\ code_value_term(n, k, t)
  BY DEF i_term_sum, Reduce, Operands
<1>2. Operands(k) \in Seq(Plain)
  BY OperandsAre DEF OperandsOf
<1>3. \A p \in Point : TermValue(t, p) = Promise!Total(Worth(Operands(k)), p)
  BY <1>2, SumWorth DEF IsWorth
<1>4. \A a, p : Promise!At(n, a, p) = Promise!Total(a, p)
  BY DEF Promise!At
<1>5. t \in Plain
  BY <1>2, SumPlain
<1> HIDE DEF t, n
<1>6. \A p \in Point : TermValue(t, p) = Promise!At(n, Worth(Operands(k)), p)
  BY <1>3, <1>4
<1> QED BY <1>1, <1>5, <1>6, ValueMeans DEF Means

\* A refusal takes neither a point away nor changes the costs.
Refused(number) == stack' = <<>> /\ lp' = lp /\ error' = number /\ number \notin {0, 106, 108, 109}

LEMMA RefusedMeans ==
  ASSUME error = 0, NEW number, Refused(number)
  PROVE  Promise!Next /\ stack' \in Seq(Plain) /\ lp' = lp
<1>1. stack' \in Seq(Plain)
  <2>1. <<>> \in Seq(Plain)
    OBVIOUS
  <2> QED BY <2>1 DEF Refused
<1> QED BY <1>1, RefuseStep DEF Refused

LEMMA PowerMeans ==
  ASSUME KInv, NEW e \in Fraction, i_term_power(e)
  PROVE  Means
<1>0. error = 0 /\ Len(stack) >= 1
  BY DEF i_term_power, Reduce
<1>1. e.num \in Int
  BY DEF Fraction
<1>2. CASE e.den # 1
  <2>1. Refused(112)
    BY <1>2 DEF i_term_power, Fail, Refused
  <2> QED BY <1>0, <2>1, RefusedMeans DEF Means
<1>3. CASE e.den = 1 /\ e.num < 0
  <2>1. Refused(121)
    BY <1>3 DEF i_term_power, Fail, Refused
  <2> QED BY <1>0, <2>1, RefusedMeans DEF Means
<1>4. CASE e.den = 1 /\ ~ e.num < 0
  <2> DEFINE k == e.num
             t == PowerTerm(Top1, k)
             n == <<"i_term_power", k>>
  <2>1. k \in Nat /\ code_value_term(n, 1, t)
    BY <1>1, <1>4 DEF i_term_power
  <2>2. OneOperand
    BY <1>0, FirstOperand
  <2>3. \A p \in [Var -> Int] : t \in Plain /\ TermValue(t, p) = Promise!Power(TermValue(Top1, p), k)
    BY <2>1, <2>2, PowerWorth DEF OneOperand, IsWorth
  <2>4. \A a, p : Promise!At(n, a, p) = Promise!Power(a[1][p], k)
    BY DEF Promise!At
  <2>5. t \in Plain
    BY <2>3, SomePoint
  <2> HIDE DEF t, n, k
  <2>6. \A p \in Point : TermValue(t, p) = Promise!At(n, Worth(Operands(1)), p)
    BY <2>2, <2>3, <2>4, PointsAre DEF OneOperand
  <2>7. 1 \in 0 .. Len(stack)
    BY <2>2 DEF OneOperand
  <2> QED BY <1>0, <2>1, <2>5, <2>6, <2>7, ValueMeans DEF Means
<1> QED BY <1>1, <1>2, <1>3, <1>4
----------------------------------------------------------------------------
(***************************************************************************)
(* So are statements.                                                      *)
(***************************************************************************)
\* A statement does what the promise says; the store it leaves has the
\* declared variables, or an objective.
Follows == /\ Promise!Next /\ stack' = <<>>
           /\ lp'.dir = "NONE" => lp.dir = "NONE" /\ DOMAIN lp'.vars = DOMAIN lp.vars

\* Rows and sets leave the variables and the objective as they are.
SameObjective(k, l) == /\ k.vars = l.vars /\ k.dir = l.dir
                       /\ k.cost = l.cost /\ k.obj_term = l.obj_term

LEMMA SameObjOf ==
  ASSUME NEW k, NEW l, SameObjective(k, l)
  PROVE  \A p : ObjOf(k, p) = ObjOf(l, p)
BY DEF SameObjective, ObjOf, CostOf, PointAt

LEMMA RowsOnly ==
  ASSUME NEW l, Store(l), NEW rows, NEW used
  PROVE  LET k == [l EXCEPT !.rows = rows, !.used = used]
         IN  SameObjective(k, l) /\ k.rows = rows
<1>1. DOMAIN l = {"vars", "cost", "obj_term", "dir", "rows", "soss", "used"}
  BY DEF Store, Fields
<1> QED BY <1>1 DEF SameObjective

LEMMA SetsOnly ==
  ASSUME NEW l, Store(l), NEW soss, NEW used
  PROVE  LET k == [l EXCEPT !.soss = soss, !.used = used]
         IN  SameObjective(k, l) /\ k.rows = l.rows
<1>1. DOMAIN l = {"vars", "cost", "obj_term", "dir", "rows", "soss", "used"}
  BY DEF Store, Fields
<1> QED BY <1>1 DEF SameObjective

LEMMA RowAlone ==
  ASSUME NEW l, Store(l), NEW contype, NEW lhs, NEW rhs, NEW t
  PROVE  LET k == xlp_addcon_term(l, contype, lhs, rhs, t)
         IN  SameObjective(k, l) /\ k.rows = Append(l.rows, RowOf(contype, lhs, rhs, t))
<1> DEFINE c == RowOf(contype, lhs, rhs, t)
           rows == Append(l.rows, c)
           used == l.used \cup UNION {VarsOf(c.term[i]) : i \in DOMAIN c.term}
           k == xlp_addcon_term(l, contype, lhs, rhs, t)
<1>1. k = [l EXCEPT !.rows = rows, !.used = used]
  BY DEF xlp_addcon_term, RowOf
<1> HIDE DEF rows, used, k
<1>2. SameObjective(k, l) /\ k.rows = rows
  BY <1>1, RowsOnly
<1> QED BY <1>2 DEF rows, k

LEMMA SetAlone ==
  ASSUME NEW l, Store(l), NEW type, NEW priority, NEW t
  PROVE  LET k == xlp_addsos_term(l, type, priority, t)
         IN  SameObjective(k, l) /\ k.rows = l.rows
<1> DEFINE soss == Append(l.soss, [type |-> type, priority |-> priority.num,
                         sses |-> Reverse([i \in DOMAIN t.elem |->
                                    <<t.elem[i].vars[1], t.elem[i].coeff>>])])
           used == l.used \cup {t.elem[i].vars[1] : i \in DOMAIN t.elem}
           k == xlp_addsos_term(l, type, priority, t)
<1>1. k = [l EXCEPT !.soss = soss, !.used = used]
  BY DEF xlp_addsos_term
<1> HIDE DEF soss, used, k
<1>2. SameObjective(k, l) /\ k.rows = l.rows
  BY <1>1, SetsOnly
<1> QED BY <1>2 DEF k

\* One more row.
LEMMA OneMoreRow ==
  ASSUME NEW rows, NEW S, rows \in Seq(S), NEW c, NEW good,
         \A p \in Point : RowHolds(c, p) <=> p \in good
  PROVE  Satisfied(Append(rows, c)) = Satisfied(rows) \cap good
<1> DEFINE T == S \cup {c}
           w == Append(rows, c)
           n == Len(rows)
<1>1. \A i \in 1 .. Len(rows) : rows[i] \in T
  OBVIOUS
<1>2. rows \in Seq(T) /\ c \in T
  BY <1>1, AllIn
<1> HIDE DEF T
<1>3. w \in Seq(T) /\ Len(w) = n + 1 /\ w[n + 1] = c /\ \A i \in 1 .. n : w[i] = rows[i]
  BY <1>2, AppendProperties
<1>4. n \in Nat /\ DOMAIN rows = 1 .. n /\ DOMAIN w = 1 .. n + 1
  BY <1>2, <1>3
<1> HIDE DEF w, n
<1>5. ASSUME NEW p \in Point
      PROVE  (\A i \in DOMAIN w : RowHolds(w[i], p)) <=> (\A i \in DOMAIN rows : RowHolds(rows[i], p)) /\ p \in good
  <2>1. RowHolds(c, p) <=> p \in good
    OBVIOUS
  <2>2. \A i \in 1 .. n + 1 : i \in 1 .. n \/ i = n + 1
    BY <1>4
  <2>3. (\A i \in 1 .. n : i \in 1 .. n + 1) /\ n + 1 \in 1 .. n + 1
    BY <1>4
  <2>4. ASSUME \A i \in 1 .. n + 1 : RowHolds(w[i], p)
        PROVE  (\A i \in 1 .. n : RowHolds(rows[i], p)) /\ p \in good
    <3>1. RowHolds(w[n + 1], p)
      BY <2>3, <2>4
    <3>2. ASSUME NEW i \in 1 .. n PROVE RowHolds(rows[i], p)
      <4>1. RowHolds(w[i], p)
        BY <2>3, <2>4
      <4> QED BY <1>3, <4>1
    <3> QED BY <1>3, <2>1, <3>1, <3>2
  <2>5. ASSUME \A i \in 1 .. n : RowHolds(rows[i], p), p \in good
        PROVE  \A i \in 1 .. n + 1 : RowHolds(w[i], p)
    <3> SUFFICES ASSUME NEW i \in 1 .. n + 1 PROVE RowHolds(w[i], p)
      OBVIOUS
    <3>1. CASE i = n + 1
      BY <1>3, <2>1, <2>5, <3>1
    <3>2. CASE i \in 1 .. n
      <4>1. w[i] = rows[i]
        BY <1>3, <3>2
      <4>2. RowHolds(rows[i], p)
        BY <2>5, <3>2
      <4> QED BY <4>1, <4>2
    <3> QED BY <2>2, <3>1, <3>2
  <2> QED BY <1>4, <2>4, <2>5
<1> QED BY <1>5 DEF Satisfied, w

LEMMA RowMeans ==
  ASSUME KInv, error = 0, NEW n, n[1] # "objective", NEW contype \in Sides,
         NEW lhs \in Int, NEW rhs \in Int, NEW term, AddRow(n, contype, lhs, rhs, term),
         \A p \in Point : RowHolds(RowOf(contype, lhs, rhs, term), p)
                            <=> p \in Promise!Good(n, Worth(stack))
  PROVE  Follows
<1> DEFINE k == xlp_addcon_term(lp, contype, lhs, rhs, term)
           c == RowOf(contype, lhs, rhs, term)
           good == Promise!Good(n, Worth(stack))
<1>1. lp' = k /\ node' = n /\ stack' = <<>> /\ error' = error
  BY DEF AddRow
<1>2. Store(lp)
  BY DEF KInv, IInv
<1>3. SameObjective(k, lp) /\ k.rows = Append(lp.rows, c)
  BY <1>2, RowAlone
<1> HIDE DEF k, c, good
<1>4. lp.rows \in Seq(StoredRow)
  BY <1>2 DEF Store, ListsAre
<1>5. Satisfied(k.rows) = Satisfied(lp.rows) \cap good
  BY <1>3, <1>4, OneMoreRow DEF c, good
<1>6. \A p : ObjOf(k, p) = ObjOf(lp, p)
  BY <1>3, SameObjOf
<1>7. k.dir = lp.dir /\ k.vars = lp.vars
  BY <1>3 DEF SameObjective
<1>8. Promise!Next
  <2>1. /\ error = 0 /\ error' = 0 /\ stack' = <<>> /\ node'[1] # "objective" /\ lp'.dir = lp.dir
        /\ \A p \in Point : ObjOf(lp', p) = ObjOf(lp, p)
    BY <1>1, <1>6, <1>7
  <2>2. Satisfied(lp'.rows) = Satisfied(lp.rows) \cap Promise!Good(node', Worth(stack))
    BY <1>1, <1>5 DEF good
  <2> QED BY <2>1, <2>2, RequireStep
<1> QED BY <1>1, <1>7, <1>8 DEF Follows

\* A statement that needs no row.
LEMMA NoRowMeans ==
  ASSUME KInv, error = 0, NEW n, n[1] # "objective", NEW failed \in BOOLEAN,
         NEW number \in {106, 108}, Trivial(n, failed, number),
         failed => Promise!Good(n, Worth(stack)) = {},
         ~ failed => Promise!Good(n, Worth(stack)) = Point
  PROVE  Follows
<1>1. CASE failed
  <2>1. lp' = lp /\ stack' = <<>> /\ error' \in {106, 108, 109} /\ node' = n
    BY <1>1 DEF Trivial, Fail
  <2>2. Promise!Next
    BY <1>1, <2>1, InfeasibleStep
  <2> QED BY <2>1, <2>2 DEF Follows
<1>2. CASE ~ failed
  <2>1. lp' = lp /\ stack' = <<>> /\ error' = 0 /\ node' = n
    BY <1>2 DEF Trivial
  <2>2. Satisfied(lp.rows) \subseteq Point
    BY DEF Satisfied
  <2>3. Satisfied(lp'.rows) = Satisfied(lp.rows) \cap Promise!Good(node', Worth(stack))
    BY <1>2, <2>1, <2>2
  <2>4. lp'.dir = lp.dir /\ \A p \in Point : ObjOf(lp', p) = ObjOf(lp, p)
    BY <2>1
  <2>5. Promise!Next
    BY <2>1, <2>3, <2>4, RequireStep
  <2> QED BY <2>1, <2>5 DEF Follows
<1> QED BY <1>1, <1>2

LEMMA RefusedFollows ==
  ASSUME error = 0, NEW number, Refused(number)
  PROVE  Follows
BY RefusedMeans DEF Refused, Follows

\* The difference of two sides, its constant moved to the right.
SideMoved(term, rhs, a, b) ==
  /\ term \in Plain /\ rhs \in Int /\ term.const = 0 - rhs
  /\ term_add_constant(term, rhs) \in Plain /\ term_add_constant(term, rhs).const = 0
  /\ term_add_constant(term, rhs).elem = term.elem
  /\ \A p \in [Var -> Int] :
       /\ TermValue(a, p) \in Int /\ TermValue(b, p) \in Int
       /\ TermValue(term_add_constant(term, rhs), p) = (TermValue(a, p) - TermValue(b, p)) + rhs
       /\ term.elem = <<>> => TermValue(a, p) - TermValue(b, p) = 0 - rhs

LEMMA EmptyWorth ==
  ASSUME NEW t \in Plain, t.elem = <<>>, NEW p \in [Var -> Int]
  PROVE  TermValue(t, p) = t.const
<1>1. t.const \in Int /\ TermValue(t, p) = t.const + ListSum(t.elem, Worths(p))
  BY PlainWorth DEF Valued
<1>2. ListSum(<<>>, Worths(p)) = 0
  BY OrderedLaws DEF SumLaws
<1> QED BY <1>1, <1>2

LEMMA MovedIs ==
  ASSUME NEW a \in Plain, NEW b \in Plain
  PROVE  SideMoved(term_sub_term(a, b), b.const - a.const, a, b)
<1> DEFINE term == term_sub_term(a, b)
           rhs == b.const - a.const
           u == term_add_constant(term, rhs)
<1>1. a.const \in Int /\ b.const \in Int
  BY SomePoint, PlainWorth DEF Valued
<1>2. term.const = a.const - b.const /\ term \in Plain
  BY SomePoint, SubWorth DEF IsWorth
<1>3. rhs \in Int /\ term.const = 0 - rhs /\ term.const + rhs = 0
  <2> HIDE DEF term
  <2> QED BY <1>1, <1>2
<1>4. \A p \in [Var -> Int] : TermValue(term, p) = TermValue(a, p) - TermValue(b, p)
  BY SubWorth DEF IsWorth
<1> HIDE DEF term, rhs
<1>5. term \in Term
  BY <1>2, PlainOrdered
<1>6. u.elem = term.elem /\ u.const = 0
  <2>1. u.elem = term.elem
    BY <1>3, <1>5, TermConst
  <2>2. term = [const |-> term.const, size |-> term.size, elem |-> term.elem]
    BY <1>5, TermParts
  <2>3. u.const = term.const + rhs
    BY <2>2 DEF term_add_constant
  <2> QED BY <1>3, <2>1, <2>3
<1>7. \A p \in [Var -> Int] : u \in Plain /\ TermValue(u, p) = TermValue(term, p) + rhs
  BY <1>2, <1>3, ConstWorth DEF IsWorth
<1>8. \A p \in [Var -> Int] : TermValue(a, p) \in Int /\ TermValue(b, p) \in Int
  BY PlainWorth DEF Valued
<1>9. ASSUME term.elem = <<>>, NEW p \in [Var -> Int] PROVE TermValue(a, p) - TermValue(b, p) = 0 - rhs
  <2>1. TermValue(term, p) = term.const
    BY <1>2, <1>9, EmptyWorth
  <2> QED BY <1>3, <1>4, <2>1
<1>10. u \in Plain
  BY <1>7, SomePoint
<1> HIDE DEF u
<1> QED BY <1>2, <1>3, <1>4, <1>6, <1>7, <1>8, <1>9, <1>10 DEF SideMoved, term, rhs, u

\* Moving the constant does not change what a constraint asks for.
LEMMA SidesMoved ==
  ASSUME NEW contype \in ConType, NEW x \in Int, NEW y \in Int, NEW rhs \in Int
  PROVE  /\ Within(contype, rhs, rhs, (x - y) + rhs) <=> Promise!Holds(contype, x, y)
         /\ x - y = 0 - rhs =>
              (Promise!Holds(contype, x, y)
                 <=> ~ ((contype = "EQUAL" /\ rhs # 0) \/ (contype = "LHS" /\ rhs > 0)
                          \/ (contype = "RHS" /\ rhs < 0)))
<1>1. CASE contype = "RHS"
  BY <1>1 DEF Within, Promise!Holds
<1>2. CASE contype = "LHS"
  BY <1>2 DEF Within, Promise!Holds
<1>3. CASE contype = "EQUAL"
  <2>1. Within(contype, rhs, rhs, (x - y) + rhs) <=> (x - y) + rhs <= rhs /\ rhs <= (x - y) + rhs
    BY <1>3 DEF Within
  <2>2. Promise!Holds(contype, x, y) <=> x = y
    BY <1>3 DEF Promise!Holds
  <2>3. (x - y) + rhs <= rhs /\ rhs <= (x - y) + rhs <=> x = y
    OBVIOUS
  <2>4. x - y = 0 - rhs => (x = y <=> rhs = 0)
    OBVIOUS
  <2>5. (contype = "EQUAL" /\ rhs # 0) \/ (contype = "LHS" /\ rhs > 0)
                          \/ (contype = "RHS" /\ rhs < 0) <=> rhs # 0
    BY <1>3
  <2> QED BY <2>1, <2>2, <2>3, <2>4, <2>5
<1> QED BY <1>1, <1>2, <1>3 DEF ConType

\* The terms of a statement.
LEMMA StackTwo ==
  ASSUME KInv, Len(stack) = 2
  PROVE  /\ Top1 \in Plain /\ Top2 \in Plain
         /\ \A p \in Point : /\ Worth(stack)[1][p] = TermValue(Top2, p)
                             /\ Worth(stack)[2][p] = TermValue(Top1, p)
<1>1. stack \in Seq(Plain)
  BY DEF KInv
<1>2. Listed(stack)
  BY <1>1, PlainSeq, WorthOf
<1>3. 1 \in 1 .. Len(stack) /\ 2 \in 1 .. Len(stack) /\ Len(stack) - 1 = 1
  OBVIOUS
<1>4. Top1 = stack[2] /\ Top2 = stack[1]
  BY <1>3 DEF Top1, Top2
<1>5. \A p \in Point : Worth(stack)[1][p] = TermValue(stack[1], p) /\ Worth(stack)[2][p] = TermValue(stack[2], p)
  BY <1>2, <1>3 DEF Listed
<1>6. stack[1] \in Plain /\ stack[2] \in Plain
  <2>1. \A s \in Seq(Plain) : \A i \in 1 .. Len(s) : s[i] \in Plain
    OBVIOUS
  <2> QED BY ONLY <1>1, <1>3, <2>1
<1> QED BY <1>4, <1>5, <1>6

LEMMA StackOne ==
  ASSUME KInv, Len(stack) = 1
  PROVE  Top1 \in Plain /\ \A p \in Point : Worth(stack)[1][p] = TermValue(Top1, p)
<1>1. stack \in Seq(Plain)
  BY DEF KInv
<1>2. Listed(stack)
  BY <1>1, PlainSeq, WorthOf
<1>3. 1 \in 1 .. Len(stack)
  OBVIOUS
<1>4. Top1 = stack[1]
  BY DEF Top1
<1> QED BY SMTT(30), <1>1, <1>2, <1>3, <1>4 DEF Listed

LEMMA ConstraintMeans ==
  ASSUME KInv, NEW contype \in ConType, i_constraint(contype)
  PROVE  Follows
<1> DEFINE n == <<"i_constraint", contype>>
           term == term_sub_term(Top2, Top1)
           rhs == Top1.const - Top2.const
           good == Promise!Good(n, Worth(stack))
           failed == (contype = "EQUAL" /\ rhs # 0) \/ (contype = "LHS" /\ rhs > 0)
                       \/ (contype = "RHS" /\ rhs < 0)
<1>1. error = 0 /\ Len(stack) = 2 /\ Compared(n, contype, term, rhs)
  BY DEF i_constraint, Statement
<1>2. /\ Top1 \in Plain /\ Top2 \in Plain
      /\ \A p \in Point : /\ Worth(stack)[1][p] = TermValue(Top2, p)
                          /\ Worth(stack)[2][p] = TermValue(Top1, p)
  BY <1>1, StackTwo
<1>3. SideMoved(term, rhs, Top2, Top1)
  BY <1>2, MovedIs
<1>4. n[1] # "objective" /\ contype \in Sides
  BY DEF ConType, Sides
<1>5. good = {p \in Point : Promise!Holds(contype, TermValue(Top2, p), TermValue(Top1, p))}
  <2>1. good = {p \in Point : Promise!Holds(contype, Worth(stack)[1][p], Worth(stack)[2][p])}
    BY DEF Promise!Good
  <2> QED BY <1>2, <2>1
<1> HIDE DEF term, rhs, n, good
<1>6. CASE term.elem = <<>>
  <2>1. Trivial(n, failed, 106)
    BY <1>1, <1>6 DEF Compared
  <2>2. \A p \in Point : p \in good <=> ~ failed
    <3> SUFFICES ASSUME NEW p \in Point PROVE p \in good <=> ~ failed
      OBVIOUS
    <3> DEFINE x == TermValue(Top2, p)
               y == TermValue(Top1, p)
    <3>1. x \in Int /\ y \in Int /\ x - y = 0 - rhs /\ rhs \in Int
      BY <1>3, <1>6, PointsAre DEF SideMoved
    <3>2. p \in good <=> Promise!Holds(contype, x, y)
      BY <1>5
    <3> HIDE DEF x, y
    <3>3. Promise!Holds(contype, x, y) <=> ~ failed
      BY <3>1, SidesMoved
    <3> HIDE DEF failed
    <3> QED BY <3>2, <3>3
  <2>3. good \subseteq Point /\ failed \in BOOLEAN
    BY <1>5
  <2> HIDE DEF failed
  <2>4. (failed => good = {}) /\ (~ failed => good = Point)
    BY <2>2, <2>3
  <2>5. (failed => Promise!Good(n, Worth(stack)) = {})
        /\ (~ failed => Promise!Good(n, Worth(stack)) = Point)
    BY <2>4 DEF good
  <2> QED BY <1>1, <1>4, <2>1, <2>3, <2>5, NoRowMeans
<1>7. CASE term.elem # <<>>
  <2> DEFINE u == term_add_constant(term, rhs)
  <2>1. AddRow(n, contype, rhs, rhs, u)
    BY <1>1, <1>7 DEF Compared
  <2>2. \A p \in Point : RowHolds(RowOf(contype, rhs, rhs, u), p) <=> p \in good
    <3> SUFFICES ASSUME NEW p \in Point PROVE RowHolds(RowOf(contype, rhs, rhs, u), p) <=> p \in good
      OBVIOUS
    <3> DEFINE x == TermValue(Top2, p)
               y == TermValue(Top1, p)
    <3>1. x \in Int /\ y \in Int /\ rhs \in Int /\ u \in Plain /\ u.const = 0
          /\ TermValue(u, p) = (x - y) + rhs /\ p \in [Var -> Int]
      BY <1>3, PointsAre DEF SideMoved
    <3>2. p \in good <=> Promise!Holds(contype, x, y)
      BY <1>5
    <3> HIDE DEF x, y, u
    <3>3. RowHolds(RowOf(contype, rhs, rhs, u), p) <=> Within(contype, rhs, rhs, TermValue(u, p))
      BY <1>4, <3>1, PlainRow
    <3>4. Within(contype, rhs, rhs, (x - y) + rhs) <=> Promise!Holds(contype, x, y)
      BY <3>1, SidesMoved
    <3> QED BY <3>1, <3>2, <3>3, <3>4
  <2>3. rhs \in Int
    BY <1>3 DEF SideMoved
  <2> HIDE DEF u
  <2>4. \A p \in Point : RowHolds(RowOf(contype, rhs, rhs, u), p)
                            <=> p \in Promise!Good(n, Worth(stack))
    BY <2>2 DEF good
  <2> QED BY <1>1, <1>4, <2>1, <2>3, <2>4, RowMeans
<1> QED BY <1>6, <1>7

Ranging(n, lhs, rhs, t) ==
  Promise!Good(n, Worth(stack)) = {p \in Point : lhs <= TermValue(t, p) /\ TermValue(t, p) <= rhs}

\* A range, its sides moved by the constant of the expression.
LEMMA BetweenMeans ==
  ASSUME KInv, error = 0, NEW n, n[1] # "objective", NEW lhs \in Int, NEW rhs \in Int,
         NEW t \in Plain, Between(n, lhs - t.const, rhs - t.const, t),
         Ranging(n, lhs, rhs, t)
  PROVE  Follows
<1> DEFINE good == Promise!Good(n, Worth(stack))
           c == t.const
           low == lhs - c
           high == rhs - c
           u == term_sub_constant(t, c)
           failed == low > 0 \/ high < 0
<1>1. c \in Int /\ \A p \in [Var -> Int] : TermValue(t, p) \in Int
  BY SomePoint, PlainWorth DEF Valued
<1>2. \A p : p \in good <=> p \in Point /\ lhs <= TermValue(t, p) /\ TermValue(t, p) <= rhs
  BY DEF Ranging
<1>3. low \in Int /\ high \in Int /\ (\A x \in Int : lhs <= x <=> low <= x - c)
      /\ (\A x \in Int : x <= rhs <=> x - c <= high)
  <2> HIDE DEF c
  <2> QED BY <1>1
<1>4. Between(n, low, high, t)
  OBVIOUS
<1> HIDE DEF good, c, low, high
<1>5. CASE t.elem = <<>>
  <2>1. Trivial(n, failed, 108)
    BY <1>4, <1>5 DEF Between
  <2>2. \A p \in Point : p \in good <=> ~ failed
    <3> SUFFICES ASSUME NEW p \in Point PROVE p \in good <=> ~ failed
      OBVIOUS
    <3>1. p \in [Var -> Int]
      BY PointsAre
    <3>2. TermValue(t, p) = c
      BY <1>5, <3>1, EmptyWorth DEF c
    <3>3. (lhs <= c <=> low <= c - c) /\ (c <= rhs <=> c - c <= high)
      BY <1>1, <1>3
    <3>4. c - c = 0
      BY <1>1
    <3> QED BY <1>2, <1>3, <3>2, <3>3, <3>4
  <2>3. good \subseteq Point /\ failed \in BOOLEAN
    BY <1>2
  <2> HIDE DEF failed
  <2>4. (failed => good = {}) /\ (~ failed => good = Point)
    BY <2>2, <2>3
  <2> QED BY <2>1, <2>3, <2>4, NoRowMeans DEF good
<1>6. CASE t.elem # <<>> /\ low > high
  <2>1. Fail(n, 109)
    BY <1>4, <1>6 DEF Between
  <2>2. \A p \in Point : p \notin good
    <3> SUFFICES ASSUME NEW p \in Point, p \in good PROVE FALSE
      OBVIOUS
    <3> DEFINE x == TermValue(t, p)
    <3>1. x \in Int /\ lhs <= x /\ x <= rhs
      BY <1>1, <1>2, PointsAre
    <3> HIDE DEF x
    <3>2. low <= x - c /\ x - c <= high /\ x - c \in Int
      BY <1>1, <1>3, <3>1
    <3> QED BY <1>3, <1>6, <3>2
  <2>3. good = {}
    BY <1>2, <2>2
  <2>4. lp' = lp /\ stack' = <<>> /\ error' \in {106, 108, 109} /\ node' = n
    BY <2>1 DEF Fail
  <2>5. Promise!Next
    BY <2>3, <2>4, InfeasibleStep DEF good
  <2> QED BY <2>4, <2>5 DEF Follows
<1>7. CASE t.elem # <<>> /\ ~ low > high
  <2>1. AddRow(n, "RANGE", low, high, u)
    BY <1>4, <1>7 DEF Between, c
  <2>2. u.const = 0 /\ \A p \in [Var -> Int] : u \in Plain /\ TermValue(u, p) = TermValue(t, p) - c
    <3>1. \A p \in [Var -> Int] : u \in Plain /\ TermValue(u, p) = TermValue(t, p) - c
      BY <1>1, ConstWorth DEF IsWorth
    <3>2. t = [const |-> t.const, size |-> t.size, elem |-> t.elem]
      BY PlainOrdered, TermParts
    <3>3. u.const = t.const - c
      BY <3>2 DEF term_sub_constant
    <3>4. t.const - c = 0
      BY <1>1 DEF c
    <3> QED BY <3>1, <3>3, <3>4
  <2>3. u \in Plain
    BY <2>2, SomePoint
  <2> HIDE DEF u
  <2>4. \A p \in Point : RowHolds(RowOf("RANGE", low, high, u), p) <=> p \in good
    <3> SUFFICES ASSUME NEW p \in Point
                 PROVE  RowHolds(RowOf("RANGE", low, high, u), p) <=> p \in good
      OBVIOUS
    <3> DEFINE x == TermValue(t, p)
    <3>1. p \in [Var -> Int] /\ x \in Int /\ TermValue(u, p) = x - c
      BY <1>1, <2>2, PointsAre
    <3>2. p \in good <=> lhs <= x /\ x <= rhs
      BY <1>2
    <3> HIDE DEF x
    <3>3. "RANGE" \in Sides
      BY DEF Sides
    <3>4. RowHolds(RowOf("RANGE", low, high, u), p) <=> Within("RANGE", low, high, TermValue(u, p))
      BY <1>3, <2>2, <2>3, <3>1, <3>3, PlainRow
    <3>5. Within("RANGE", low, high, TermValue(u, p)) <=> x - c <= high /\ low <= x - c
      BY <3>1 DEF Within
    <3>6. (lhs <= x <=> low <= x - c) /\ (x <= rhs <=> x - c <= high)
      BY <1>3, <3>1
    <3> QED BY <3>2, <3>4, <3>5, <3>6
  <2>5. "RANGE" \in Sides
    BY DEF Sides
  <2> QED BY <1>3, <2>1, <2>4, <2>5, RowMeans DEF good
<1> QED BY <1>5, <1>6, <1>7

LEMMA RangeMeans ==
  ASSUME KInv, NEW lhs \in Int, NEW rhs \in Int, NEW same \in BOOLEAN, i_rangeconst(lhs, rhs, same)
  PROVE  Follows
<1> DEFINE n == <<"i_rangeconst", lhs, rhs>>
           t == term_copy(Top1)
<1>1. error = 0 /\ Len(stack) = 1
  BY DEF i_rangeconst, Statement
<1>2. Top1 \in Plain /\ \A p \in Point : Worth(stack)[1][p] = TermValue(Top1, p)
  BY <1>1, StackOne
<1>3. CASE ~ same
  <2>1. Refused(107)
    BY <1>3 DEF i_rangeconst, Fail, Refused
  <2> QED BY <1>1, <2>1, RefusedFollows
<1>4. CASE same
  <2>1. Between(n, lhs - Top1.const, rhs - Top1.const, t)
    BY <1>4 DEF i_rangeconst
  <2>2. t \in Plain /\ t.const = Top1.const
    BY <1>2, SomePoint, CopyWorth, PlainOrdered, TermCopy DEF IsWorth
  <2>3. \A p \in Point : TermValue(t, p) = Worth(stack)[1][p]
    BY <1>2, PointsAre, CopyWorth DEF IsWorth
  <2>4. Promise!Good(n, Worth(stack)) = {p \in Point : lhs <= Worth(stack)[1][p] /\ Worth(stack)[1][p] <= rhs}
    BY DEF Promise!Good
  <2>5. n[1] # "objective"
    OBVIOUS
  <2> HIDE DEF n, t
  <2>6. Ranging(n, lhs, rhs, t)
    BY <2>3, <2>4 DEF Ranging
  <2>7. Between(n, lhs - t.const, rhs - t.const, t)
    BY <2>1, <2>2
  <2> QED BY <1>1, <2>2, <2>5, <2>6, <2>7, BetweenMeans
<1> QED BY <1>3, <1>4

LEMMA SosMeans ==
  ASSUME KInv, NEW type \in {1, 2}, NEW priority, i_soset(type, priority)
  PROVE  Follows
<1>1. error = 0 /\ Len(stack) = 1
  BY DEF i_soset
<1>2. CASE Fail(<<"i_soset">>, 199) \/ Fail(<<"i_soset">>, -1)
  <2>1. Refused(199) \/ Refused(-1)
    BY <1>2 DEF Fail, Refused
  <2> QED BY <1>1, <2>1, RefusedFollows
<1>3. CASE /\ node' = <<"i_soset">> /\ lp' = xlp_addsos_term(lp, type, priority, Top1)
           /\ stack' = <<>> /\ UNCHANGED <<ops, error>>
  <2>1. Store(lp)
    BY DEF KInv, IInv
  <2>2. SameObjective(lp', lp) /\ lp'.rows = lp.rows
    BY <1>3, <2>1, SetAlone
  <2>3. \A p : ObjOf(lp', p) = ObjOf(lp, p)
    BY <2>2, SameObjOf
  <2>4. node'[1] # "objective" /\ Promise!Good(node', Worth(stack)) = Point
    <3>1. node'[1] = "i_soset"
      BY <1>3
    <3> QED BY <3>1 DEF Promise!Good
  <2>5. Satisfied(lp'.rows) = Satisfied(lp.rows) \cap Promise!Good(node', Worth(stack))
    BY <2>2, <2>4 DEF Satisfied
  <2>6. lp'.dir = lp.dir /\ lp'.vars = lp.vars /\ stack' = <<>> /\ error' = 0
    BY <1>1, <1>3, <2>2 DEF SameObjective
  <2>7. Promise!Next
    BY <1>1, <2>3, <2>4, <2>5, <2>6, RequireStep
  <2> QED BY <2>6, <2>7 DEF Follows
<1> QED BY <1>2, <1>3 DEF i_soset

LEMMA ObjDir ==
  ASSUME NEW l, Store(l), l.dir = "NONE", NEW minimize \in BOOLEAN, NEW t \in Term
  PROVE  xlp_addtoobj(xlp_setobj(l, minimize), t).dir # "NONE"
<1> DEFINE a == xlp_setobj(l, minimize)
           s == term_simplify(t)
           c == s.const
           b == WithOffset(a, c)
           u == term_sub_constant(s, c)
           k == xlp_addtoobj(a, t)
<1>1. Store(a) /\ a.obj_term = <<>> /\ a.dir # "NONE"
  BY DirSet
<1>2. c \in Int
  BY TermParts, TermSimple
<1> HIDE DEF a, s
<1>3. k = AddObj(b, u)
  BY DEF xlp_addtoobj, AddSimple, s
<1> HIDE DEF c
<1>4. Store(b) /\ b.dir # "NONE"
  BY <1>1, <1>2, OffsetAdded
<1> HIDE DEF b, u, k
<1>5. AddObj(b, u).dir = b.dir
  <2>1. DOMAIN b = {"vars", "cost", "obj_term", "dir", "rows", "soss", "used"}
    BY <1>4 DEF Store, Fields
  <2>2. \A x, y : [b EXCEPT !.obj_term = x, !.used = y].dir = b.dir /\ [b EXCEPT !.cost = x].dir = b.dir
    BY <2>1
  <2> QED BY <2>2 DEF AddObj, lps_addtoobjterm
<1> QED BY <1>3, <1>4, <1>5 DEF k, a

LEMMA ObjectiveMeans ==
  ASSUME KInv, NEW minimize \in BOOLEAN, objective(minimize)
  PROVE  Follows
<1> DEFINE k == xlp_addtoobj(xlp_setobj(lp, minimize), Top1)
<1>1. /\ error = 0 /\ Len(stack) = 1 /\ lp.dir = "NONE" /\ node' = <<"objective">>
      /\ lp' = k /\ stack' = <<>> /\ error' = error
  BY DEF objective, Statement
<1>2. Top1 \in Plain /\ \A p \in Point : Worth(stack)[1][p] = TermValue(Top1, p)
  BY <1>1, StackOne
<1>3. Store(lp) /\ DOMAIN lp.vars = Var
  BY <1>1 DEF KInv, IInv
<1>4. Top1 \in Term
  BY <1>2, PlainOrdered
<1>5. k.dir # "NONE"
  BY <1>1, <1>3, <1>4, ObjDir
<1>6. k.rows = lp.rows
  BY <1>1, <1>3, <1>4, ObjAdded
<1>7. \A p \in Point : ObjOf(k, p) = TermValue(Top1, p)
  BY <1>1, <1>2, <1>3, PointsAre, ObjectiveWorth
<1> HIDE DEF k
<1>8. error' = 0 /\ node'[1] = "objective" /\ lp'.dir # "NONE" /\ lp'.rows = lp.rows
      /\ \A p \in Point : ObjOf(lp', p) = Worth(stack)[1][p]
  BY <1>1, <1>2, <1>5, <1>6, <1>7
<1>9. Promise!Next
  BY <1>1, <1>8, ObjectiveStep
<1> QED BY <1>1, <1>8, <1>9 DEF Follows

LEMMA IndicatorMeans ==
  ASSUME KInv, NEW b \in Result, NEW then \in BOOLEAN, NEW contype \in ConType,
         handle_vif_then_else(b, then, contype)
  PROVE  Follows
<1> DEFINE n == <<"handle_vif_then_else", b, then, contype>>
           term == term_sub_term(Top2, Top1)
           rhs == Top1.const - Top2.const
           u == term_add_constant(term, rhs)
           w == term_make_conditional(term_add_elem(term_new(1), b, 1, "NONE"), u, then)
           good == Promise!Good(n, Worth(stack))
<1>1. error = 0 /\ Len(stack) = 2 /\ Indicated(n, b, then, contype, term, rhs)
  BY DEF handle_vif_then_else, Statement
<1>2. /\ Top1 \in Plain /\ Top2 \in Plain
      /\ \A p \in Point : /\ Worth(stack)[1][p] = TermValue(Top2, p)
                          /\ Worth(stack)[2][p] = TermValue(Top1, p)
  BY <1>1, StackTwo
<1>3. SideMoved(term, rhs, Top2, Top1)
  BY <1>2, MovedIs
<1>4. n[1] # "objective" /\ contype \in Sides
  BY DEF ConType, Sides
<1>5. \A p : p \in good <=> /\ p \in Point
                            /\ (p[b] = 1) = then => Promise!Holds(contype, TermValue(Top2, p), TermValue(Top1, p))
  <2>1. good = {p \in Point : (p[b] = 1) = then => Promise!Holds(contype, Worth(stack)[1][p], Worth(stack)[2][p])}
    BY DEF Promise!Good
  <2> QED BY <1>2, <2>1
<1> HIDE DEF n, term, rhs, good
<1>6. \/ Fail(n, 181) \/ Fail(n, 222)
      \/ term_is_linear(term) /\ AddRow(n, contype, rhs, rhs, w)
  BY <1>1 DEF Indicated
<1>7. CASE Fail(n, 181) \/ Fail(n, 222)
  <2>1. Refused(181) \/ Refused(222)
    BY <1>7 DEF Fail, Refused
  <2> QED BY <1>1, <2>1, RefusedFollows
<1>8. CASE term_is_linear(term) /\ AddRow(n, contype, rhs, rhs, w)
  <2>1. rhs \in Int /\ u \in Plain /\ u.const = 0 /\ u.elem = term.elem
    BY <1>3 DEF SideMoved
  <2>2. \A i \in 1 .. Len(u.elem) : Len(u.elem[i].vars) = 1
    <3> DEFINE e == term.elem
    <3>1. e \in Seq(PlainMono)
      BY <1>3, SomePoint, PlainWorth DEF SideMoved, Valued
    <3>2. \A i \in DOMAIN e : Len(e[i].vars) = 1
      BY <1>8 DEF term_is_linear, mono_is_linear
    <3>3. DOMAIN e = 1 .. Len(e)
      BY <3>1
    <3> HIDE DEF e, u
    <3> QED BY <2>1, <3>2, <3>3 DEF e
  <2> HIDE DEF u
  <2>3. \A p \in Point : RowHolds(RowOf(contype, rhs, rhs, w), p) <=> p \in good
    <3> SUFFICES ASSUME NEW p \in Point PROVE RowHolds(RowOf(contype, rhs, rhs, w), p) <=> p \in good
      OBVIOUS
    <3> DEFINE x == TermValue(Top2, p)
               y == TermValue(Top1, p)
    <3>1. x \in Int /\ y \in Int /\ p \in [Var -> Int] /\ TermValue(u, p) = (x - y) + rhs
      BY <1>3, PointsAre DEF SideMoved, u
    <3>2. p \in good <=> ((p[b] = 1) = then => Promise!Holds(contype, x, y))
      BY <1>5
    <3> HIDE DEF x, y
    <3>3. RowHolds(RowOf(contype, rhs, rhs, w), p)
             <=> ((p[b] = 1) = then => Within(contype, rhs, rhs, TermValue(u, p)))
      BY <1>4, <2>1, <2>2, <3>1, ConditionalRow
    <3>4. Within(contype, rhs, rhs, (x - y) + rhs) <=> Promise!Holds(contype, x, y)
      BY <2>1, <3>1, SidesMoved
    <3> HIDE DEF w
    <3> QED BY <3>1, <3>2, <3>3, <3>4
  <2> HIDE DEF w
  <2>4. \A p \in Point : RowHolds(RowOf(contype, rhs, rhs, w), p)
                            <=> p \in Promise!Good(n, Worth(stack))
    BY <2>3 DEF good
  <2> QED BY <1>1, <1>4, <1>8, <2>1, <2>4, RowMeans
<1> QED BY <1>6, <1>7, <1>8

\* The invariant holds at the beginning and with it what is promised.
LEMMA Init_Means == Init => KInv /\ Promise!Init
<1> SUFFICES ASSUME Init PROVE KInv /\ Promise!Init
  OBVIOUS
<1>1. IInv
  BY Init_IInv
<1>2. stack \in Sources /\ stack \in Seq(Plain) /\ lp = xlp_alloc(Declared) /\ node = <<>> /\ error = 0
  BY TermEvalAssumption DEF Init
<1>3. lp.dir = "NONE" /\ lp.rows = <<>> /\ DOMAIN lp.vars = Var
  BY <1>2 DEF xlp_alloc, Declared
<1>4. KInv
  BY <1>1, <1>2, <1>3 DEF KInv
<1>5. Worth(stack) \in {Worth(terms) : terms \in Sources}
  BY <1>2
<1>6. DOMAIN lp.rows = {}
  <2>1. <<>> \in Seq(Int) /\ Len(<<>>) = 0
    OBVIOUS
  <2> QED BY <1>3, <2>1
<1>7. {p \in Point : \A i \in DOMAIN lp.rows : RowHolds(lp.rows[i], p)} = Point
  BY <1>6
<1>8. [p \in Point |-> IF lp.dir = "NONE" THEN 0 ELSE ObjValue(p)] = [p \in Point |-> 0]
  BY <1>3
<1>9. Promise!Init
  BY <1>2, <1>5, <1>7, <1>8 DEF Promise!Init
<1> QED BY <1>4, <1>9

\* A step of the program is a step of the promise, or changes nothing of it.
LEMMA Next_Means == KInv /\ [Next]_vars => KInv' /\ [Promise!Next]_(Promise!vars)
<1> SUFFICES ASSUME KInv, [Next]_vars PROVE KInv' /\ [Promise!Next]_(Promise!vars)
  OBVIOUS
<1>1. IInv'
  BY Next_IInv DEF KInv
<1>2. ASSUME Means PROVE KInv' /\ [Promise!Next]_(Promise!vars)
  BY <1>1, <1>2 DEF Means, KInv
<1>3. ASSUME Follows PROVE KInv' /\ [Promise!Next]_(Promise!vars)
  <2>1. stack' \in Seq(Plain)
    <3>1. <<>> \in Seq(Plain)
      OBVIOUS
    <3> QED BY <1>3, <3>1 DEF Follows
  <2>2. lp'.dir = "NONE" => DOMAIN lp'.vars = Var
    BY <1>3 DEF Follows, KInv
  <2>3. Promise!Next
    BY <1>3 DEF Follows
  <2> QED BY <1>1, <2>1, <2>2, <2>3 DEF KInv
<1>4. ASSUME NEW v \in Var \ Result, i_symbol_deref(v) PROVE Means
  BY <1>4, SymbolMeans
<1>5. ASSUME NEW c \in Number, i_term_expr(c) PROVE Means
  BY <1>5, ExprMeans, TermEvalAssumption
<1>6. ASSUME NEW c \in Factor, i_term_coeff(c) PROVE Means
  BY <1>6, CoeffMeans, TermEvalAssumption
<1>7. ASSUME NEW c \in Shift, i_term_const(c) PROVE Means
  BY <1>7, ConstMeans, TermEvalAssumption
<1>8. ASSUME i_term_add \/ i_term_sub \/ i_term_mul PROVE Means
  BY <1>8, AddMeans, SubMeans, MulMeans
<1>9. ASSUME NEW k \in 0 .. Len(stack), i_term_sum(k) PROVE Means
  BY <1>9, SumMeans
<1>10. ASSUME NEW e \in Exponent, i_term_power(e) PROVE Means
  BY <1>10, PowerMeans, TermEvalAssumption
<1>11. ASSUME NEW contype \in ConType, i_constraint(contype) PROVE Follows
  BY <1>11, ConstraintMeans
<1>12. ASSUME NEW lhs \in Number, NEW rhs \in Number, NEW same \in BOOLEAN,
              i_rangeconst(lhs, rhs, same)
       PROVE  Follows
  BY <1>12, RangeMeans, TermEvalAssumption
<1>13. ASSUME NEW type \in {1, 2}, NEW priority \in Priorities, i_soset(type, priority)
       PROVE  Follows
  BY <1>13, SosMeans
<1>14. ASSUME NEW minimize \in BOOLEAN, objective(minimize) PROVE Follows
  BY <1>14, ObjectiveMeans
<1>15. ASSUME NEW b \in Result, NEW then \in BOOLEAN, NEW contype \in ConType,
              handle_vif_then_else(b, then, contype)
       PROVE  Follows
  BY <1>15, IndicatorMeans
<1>16. ASSUME UNCHANGED vars PROVE KInv' /\ [Promise!Next]_(Promise!vars)
  <2>1. node' = node /\ stack' = stack /\ lp' = lp /\ error' = error
    BY <1>16 DEF vars
  <2>2. \A p : ObjValue(p)' = ObjValue(p)
    BY <2>1 DEF ObjValue, At
  <2>3. UNCHANGED Promise!vars
    BY <2>1, <2>2 DEF Promise!vars
  <2>4. KInv'
    BY <1>1, <2>1 DEF KInv
  <2> QED BY <2>3, <2>4
<1> QED BY <1>2, <1>3, <1>4, <1>5, <1>6, <1>7, <1>8, <1>9, <1>10, <1>11, <1>12, <1>13, <1>14,
           <1>15, <1>16 DEF Next
----------------------------------------------------------------------------
\* What the program keeps of an expression, a constraint or the objective has
\* the value it was written with: the arrays of monos (term2.c, mono.c), the
\* rows (xlpglue.c xlp_addcon_term, ratlpstore.c) and the costs (xlp_addtoobj)
\* implement functions of the points and sets of them, whatever is joined,
\* cancelled, split off or moved to the other side, and a constraint reported
\* as infeasible has no point (inst.c i_constraint, i_rangeconst).
THEOREM ExpressionsMean == Spec => Refines
<1>1. Init => KInv /\ Promise!Init
  BY Init_Means
<1>2. KInv /\ [Next]_vars => KInv' /\ [Promise!Next]_(Promise!vars)
  BY Next_Means
<1> QED BY <1>1, <1>2, PTL DEF Spec, Refines, Promise!Spec
=============================================================================
