------------------------------ MODULE LpMatrix -----------------------------
(***************************************************************************)
(* What the matrix of ratlpstore.c promises, without structs or pointers:  *)
(* for every variable its column, for every constraint its row, newest     *)
(* entry first, and the two always describe the same set of nonzeros.      *)
(***************************************************************************)
EXTENDS Integers, Sequences, FiniteSets, SequencesExt

CONSTANTS Var, Con, Value

VARIABLES column,   \* variable |-> sequence of <<constraint, coefficient>>
          row       \* constraint |-> sequence of <<variable, coefficient>>

Init == column = <<>> /\ row = <<>>

AddVar(v) ==
  /\ v \in Var \ DOMAIN column
  /\ column' = [w \in DOMAIN column \cup {v} |-> IF w = v THEN <<>> ELSE column[w]]
  /\ row' = row

AddCon(c) ==
  /\ c \in Con \ DOMAIN row
  /\ row' = [d \in DOMAIN row \cup {c} |-> IF d = c THEN <<>> ELSE row[d]]
  /\ column' = column

AddEntry(c, v, x) ==
  /\ c \in DOMAIN row /\ v \in DOMAIN column
  /\ column' = [column EXCEPT ![v] = <<<<c, x>>>> \o @]
  /\ row' = [row EXCEPT ![c] = <<<<v, x>>>> \o @]

\* Entry i of column v and entry j of row c are the same nonzero.
Same(c, v, i, j) == row[c][j] = <<v, column[v][i][2]>> /\ column[v][i][1] = c

DelEntry(c, v) ==
  \E i \in DOMAIN column[v], j \in DOMAIN row[c] :
     /\ Same(c, v, i, j)
     /\ column' = [column EXCEPT ![v] = RemoveAt(@, i)]
     /\ row' = [row EXCEPT ![c] = RemoveAt(@, j)]

SetEntry(c, v, x) ==
  \E i \in DOMAIN column[v], j \in DOMAIN row[c] :
     /\ Same(c, v, i, j)
     /\ column' = [column EXCEPT ![v][i] = <<c, x>>]
     /\ row' = [row EXCEPT ![c][j] = <<v, x>>]

Next ==
  \/ \E v \in Var : AddVar(v)
  \/ \E c \in Con : AddCon(c)
  \/ \E c \in DOMAIN row, v \in DOMAIN column :
        \/ \E x \in Value : AddEntry(c, v, x) \/ SetEntry(c, v, x)
        \/ DelEntry(c, v)

Spec == Init /\ [][Next]_<<column, row>>
============================================================================
