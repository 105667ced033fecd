------------------------------- MODULE LpFiles ------------------------------
(***************************************************************************)
(* The files: ratlpfwrite.c (formats LPF, RLP, PIP and HUM), ratmpswrite.c,*)
(* ratopbwrite.c, ratqbowrite.c, ratordwrite.c, ratmstwrite.c and the      *)
(* names and the table of ratlpstore.c.                                    *)
(*                                                                         *)
(* A file is what it says, not how: names as they are written, numbers as  *)
(* they are in the store (the formats print 6, 10, 15 or 17 digits), the   *)
(* order of lines only where it is read.  The store is the record of       *)
(* XlpGlue with names, numbers and flags of the rows; a nonzero is         *)
(* nzo[v] / nden, the sides are lhs / lden and rhs / rden.                 *)
(***************************************************************************)
EXTENDS XlpGlue, TLC

CONSTANT Forbidden   \* the characters that occur and are not allowed in files
----------------------------------------------------------------------------
(***************************************************************************)
(* The names of variables and rows: those that are too long for a format,  *)
(* or have characters it does not allow, are cut and get the number of the *)
(* variable or row.                                                        *)
(***************************************************************************)
Formats == {"LPF", "MPS", "HUM", "RLP", "PIP", "QBO", "OPB"}

MIN_NAME_LEN == 8
NameLen(format) ==
  CASE format \in {"LPF", "RLP"} -> 16 [] format = "MPS" -> 8
    [] format \in {"PIP", "QBO"} -> 255 [] format = "OPB" -> 64

\* The size of the memory for a name, one more than the characters it has.
lps_getnamesize(name_len, format) ==
  IF format = "HUM" THEN 4096
  ELSE 1 + (IF name_len < MIN_NAME_LEN THEN NameLen(format) ELSE name_len)

Char(s, i) == SubSeq(s, i, i)
Left(s, len) == IF Len(s) <= len THEN s ELSE SubSeq(s, 1, len)

was_smashed(s) == \E i \in 1 .. Len(s) : Char(s, i) \in Forbidden
lpfstrncpy(s) ==
  LET t[i \in 0 .. Len(s)] ==
        IF i = 0 THEN "" ELSE t[i - 1] \o (IF Char(s, i) \in Forbidden THEN "_" ELSE Char(s, i))
  IN  t[Len(s)]

\* A name for readers: x$a#1 becomes x["a",1]; it is given up as soon as fewer
\* than seven places are left.
FullStep(s, c, size) ==
  IF size <= Len(s.text) + 6 THEN s
  ELSE IF c \notin {"#", "$"} THEN [s EXCEPT !.text = @ \o c]
  ELSE [text      |-> s.text \o (IF s.first THEN "[" ELSE (IF s.in_string THEN "\"" ELSE "") \o ",")
                             \o (IF c = "$" THEN "\"" ELSE ""),
        first     |-> FALSE,
        in_string |-> c = "$"]
FullEnd(s, size) ==
  IF size > Len(s.text) + 2
  THEN s.text \o (IF s.in_string THEN "\"" ELSE "") \o (IF s.first THEN "" ELSE "]")
  ELSE s.text
make_full_name(size, name) ==
  LET s[i \in 0 .. Len(name)] ==
        IF i = 0 THEN [text |-> "", first |-> TRUE, in_string |-> FALSE]
        ELSE FullStep(s[i - 1], Char(name, i), size)
  IN  FullEnd(s[Len(name)], size)

\* The number is written in hexadecimal; the numbers here have one digit.
Appendix(no) == "@" \o ToString(no)

Mangled_Bare(size, name, no) == \* mutant: the number is left out
  Left(lpfstrncpy(name), size - 1)
Mangled(size, name, no) ==
  Left(lpfstrncpy(name), size - Len(Appendix(no)) - 1) \o Appendix(no)

lps_makename(size, name, no) ==
  IF no = -1 THEN make_full_name(size, name)
  ELSE IF Len(name) < size /\ ~ was_smashed(name) THEN name
  ELSE Mangled(size, name, no)

\* The table allows for the longest name of a variable, not for more.
TableSize(size, names) ==
  LET lengths == {Len(n) : n \in names} \cup {MIN_NAME_LEN}
      maxlen  == 1 + CHOOSE m \in lengths : \A l \in lengths : l <= m
  IN  IF maxlen < size THEN maxlen ELSE size
----------------------------------------------------------------------------
Sized(lp, v)  == \E i \in DOMAIN lp.rows : v \in DOMAIN lp.rows[i].nzo
Mentioned(lp, v) == Sized(lp, v) \/ lp.cost[v] # 0 \/ v \in lp.used
Variables(lp) == DOMAIN lp.vars

\* lps_scale: rows with the attribute are divided by their largest
\* coefficient; without nonzeros this is a division by zero.
Scaling(c)  == "SCALE" \in c.flags
Undivided(lp) == \E i \in DOMAIN lp.rows : Scaling(lp.rows[i]) /\ lp.rows[i].nzo = <<>>
Maxi(c) ==
  LET values == {IF c.nzo[v] < 0 THEN -c.nzo[v] ELSE c.nzo[v] : v \in DOMAIN c.nzo}
  IN  CHOOSE m \in values : \A k \in values : k <= m
DivideRow_Right(c) == \* mutant: the left hand side is left as it is
  [c EXCEPT !.nden = @ * Maxi(c), !.rden = @ * Maxi(c)]
DivideRow(c) == [c EXCEPT !.nden = @ * Maxi(c), !.lden = @ * Maxi(c), !.rden = @ * Maxi(c)]
lps_scale(lp) ==
  [lp EXCEPT !.rows = [i \in DOMAIN @ |-> IF Scaling(@[i]) THEN DivideRow(@[i]) ELSE @[i]]]
----------------------------------------------------------------------------
(***************************************************************************)
(* Names: lpf_write asks for the size of format LPF in all its formats.    *)
(***************************************************************************)
Size(lp, format) ==
  lps_getnamesize(lp.name_len, IF format \in {"RLP", "PIP", "HUM"} THEN "LPF" ELSE format)
Column(lp, format, v) ==
  lps_makename(Size(lp, format), v, IF format = "HUM" THEN -1 ELSE lp.number[v])
RowName(lp, format, i) ==
  lps_makename(Size(lp, format), lp.rows[i].name, IF format = "HUM" THEN -1 ELSE i - 1)

\* A product of variables as powers of names.
Powers(lp, format, vars) ==
  FoldLeft(LAMBDA s, v : IF s # <<>> /\ Last(s)[1] = Column(lp, format, v)
                         THEN Append(Front(s), <<Last(s)[1], Last(s)[2] + 1>>)
                         ELSE Append(s, <<Column(lp, format, v), 1>>), <<>>, vars)

\* OPB writes a variable of degree one as a square.
Factors(lp, format, vars) ==
  IF format = "OPB" /\ Len(vars) = 1 THEN <<<<Column(lp, format, vars[1]), 2>>>>
  ELSE Powers(lp, format, vars)

\* LP files have no products of more than two: such a term is a comment.
\* In an objective the part in brackets is divided by two.
Halved(format, is_objective) == is_objective /\ format \in {"LPF", "RLP"}
write_term(lp, format, term, is_objective) ==
  LET elem == term_simplify(term).elem
      Doubled(m) == IF Len(m.vars) > 1 /\ Halved(format, is_objective) THEN 2 * m.coeff ELSE m.coeff
  IN  [comment |-> format \in {"LPF", "RLP"} /\ \E i \in DOMAIN elem : Len(elem[i].vars) > 2,
       elem    |-> [i \in DOMAIN elem |->
                      [coeff |-> Doubled(elem[i]), powers |-> Factors(lp, format, elem[i].vars)]]]
Terms1(lp, format, term, is_objective) == \* none or one
  [i \in DOMAIN term |-> write_term(lp, format, term[i], is_objective)]

Nonzeros(lp, format, nzo) == [v \in DOMAIN nzo |-> [name |-> Column(lp, format, v), value |-> nzo[v]]]
Cost(lp, format) == Nonzeros(lp, format, [v \in {w \in Variables(lp) : lp.cost[w] # 0} |-> lp.cost[v]])

\* A row under a name, with one of its sides, both or an equation.
Line(lp, format, i, name, type) ==
  LET c == lp.rows[i]
  IN  [name |-> name,
       ind  |-> IF c.type = "RANGE" \/ c.ind = <<>> THEN <<>>
                ELSE <<Column(lp, format, c.ind[1]), c.ind[2]>>,
       nzo  |-> Nonzeros(lp, format, c.nzo), nden |-> c.nden,
       term |-> Terms1(lp, format, c.term, FALSE),
       type |-> type, lhs |-> c.lhs, rhs |-> c.rhs, lden |-> c.lden, rden |-> c.rden]
----------------------------------------------------------------------------
(***************************************************************************)
(* lpf_write: rows, user cuts and lazy constraints, in the order of the    *)
(* table (shuffled by format RLP).                                         *)
(***************************************************************************)
Empty(c) == c.nzo = <<>> /\ c.term = <<>>

InSection(c, section) ==
  CASE section = 0 -> {"SEPAR", "CHECK"} \cap c.flags = {}
    [] section = 1 -> "SEPAR" \in c.flags [] section = 2 -> "CHECK" \in c.flags

\* Ranges are split in two, but for readers.
Lines(lp, format, i, section) ==
  LET c    == lp.rows[i]
      name == RowName(lp, format, i)
  IN  IF Empty(c) \/ ~ InSection(c, section) THEN <<>>
      ELSE IF c.type = "RANGE" /\ format = "HUM" THEN <<Line(lp, format, i, name, "RANGE")>>
      ELSE IF c.type = "RANGE"
      THEN <<Line(lp, format, i, name \o "R", "RHS"), Line(lp, format, i, name \o "L", "LHS")>>
      ELSE <<Line(lp, format, i, name \o <<"", "U", "Z">>[section + 1], c.type)>>

AllLines(lp, format, order) ==
  FlattenSeq([k \in 1 .. 3 * Len(order) |->
     Lines(lp, format, order[((k - 1) % Len(order)) + 1], (k - 1) \div Len(order))])

LowerBound(v) == IF v.type \in {"FIXED", "LOWER", "BOXED"} THEN v.lower ELSE Infty
UpperBound(v) ==
  IF v.type = "FIXED" THEN v.lower ELSE IF v.type \in {"UPPER", "BOXED"} THEN v.upper ELSE Infty
BoundLine(lp, format, v) == [name |-> Column(lp, format, v), lower |-> LowerBound(lp.vars[v]),
                             upper |-> UpperBound(lp.vars[v])]

\* The section of integers is only written for one that is not fixed.
IntegerNames(lp, format) ==
  LET integers == {v \in Variables(lp) : Mentioned(lp, v) /\ lp.vars[v].vclass = "INT"}
  IN  IF \E v \in integers : lp.vars[v].type # "FIXED"
      THEN {Column(lp, format, v) : v \in integers} ELSE {}

SosLines(lp, column) ==
  [i \in DOMAIN lp.soss |->
     [name |-> lp.soss[i].name, type |-> lp.soss[i].type,
      sses |-> [k \in DOMAIN lp.soss[i].sses |->
                  <<column[lp.soss[i].sses[k][1]], lp.soss[i].sses[k][2]>>]]]

ObjectiveName(lp, size) ==
  lps_makename(size, IF lp.objname = "" THEN "Objective" ELSE lp.objname, 0)

lpf_write(lp, format, order) ==
  [name    |-> ObjectiveName(lp, Size(lp, format)), dir |-> lp.dir,
   cost    |-> Cost(lp, format),
   term    |-> Terms1(lp, format, lp.obj_term, TRUE), halved |-> Halved(format, TRUE),
   rows    |-> AllLines(lp, format, order),
   bounds  |-> {BoundLine(lp, format, v) : v \in {w \in Variables(lp) : Mentioned(lp, w)}},
   general |-> IntegerNames(lp, format),
   soss    |-> SosLines(lp, [v \in Variables(lp) |-> Column(lp, format, v)])]
----------------------------------------------------------------------------
(***************************************************************************)
(* mps_write: the sections are filled independently of each other, names   *)
(* are cut to the eight places of a field, terms are not written.          *)
(***************************************************************************)
Field(name)  == Left(name, 8)
MpsRow(lp, i) == Field(RowName(lp, "MPS", i))
MpsColumn(lp, v) == Field(Column(lp, "MPS", v))

Indicator(type) == CASE type \in {"EQUAL", "RANGE"} -> "E" [] type = "LHS" -> "G" [] type = "RHS" -> "L"

Negative(lp) == lp.dir = "MAX"
MpsColumns(lp) ==
  {[column |-> MpsColumn(lp, v), row |-> "OBJECTIV", den |-> 1,
    value |-> IF Negative(lp) THEN -lp.cost[v] ELSE lp.cost[v]]
     : v \in {w \in Variables(lp) : lp.cost[w] # 0}}
  \cup {[column |-> MpsColumn(lp, v), row |-> MpsRow(lp, i), den |-> lp.rows[i].nden,
         value |-> lp.rows[i].nzo[v]]
          : <<v, i>> \in {x \in Variables(lp) \X DOMAIN lp.rows : x[1] \in DOMAIN lp.rows[x[2]].nzo}}

\* The right hand side of a row, for a range the left one.
MpsSide(c) ==
  IF c.type \in {"LHS", "RANGE"} THEN [value |-> c.lhs, den |-> c.lden]
  ELSE [value |-> c.rhs, den |-> c.rden]

mps_write(lp) ==
  LET sized  == {i \in DOMAIN lp.rows : lp.rows[i].nzo # <<>>}
      ranges == {i \in DOMAIN lp.rows : lp.rows[i].type = "RANGE"}
      listed == {v \in Variables(lp) : Sized(lp, v) \/ lp.cost[v] # 0 \/ lp.soss # <<>>}
  IN  [rows    |-> {[row |-> MpsRow(lp, i), ind |-> Indicator(lp.rows[i].type)] : i \in sized},
       columns |-> MpsColumns(lp),
       general |-> {MpsColumn(lp, v) : v \in {w \in Variables(lp) : lp.vars[w].vclass = "INT"}},
       rhs     |-> {MpsSide(lp.rows[i]) @@ [row |-> MpsRow(lp, i)]
                      : i \in {k \in DOMAIN lp.rows : MpsSide(lp.rows[k]).value # 0}},
       ranges  |-> IF ranges \cap sized = {} THEN {}
                   ELSE {[row |-> MpsRow(lp, i), den |-> lp.rows[i].rden,
                          value |-> lp.rows[i].rhs - lp.rows[i].lhs] : i \in ranges},
       bounds  |-> {[name |-> MpsColumn(lp, v), lower |-> LowerBound(lp.vars[v]),
                     upper |-> UpperBound(lp.vars[v])] : v \in listed},
       soss    |-> SosLines(lp, [v \in Variables(lp) |-> MpsColumn(lp, v)])]
----------------------------------------------------------------------------
(***************************************************************************)
(* opb_write: everything is at least something or an equation; <= is       *)
(* negated, and so is an objective that is maximised.                      *)
(***************************************************************************)
Negate(line) ==
  [line EXCEPT !.nzo  = [v \in DOMAIN @ |-> [@[v] EXCEPT !.value = -@]],
               !.term = [i \in DOMAIN @ |->
                           [@[i] EXCEPT !.elem = [k \in DOMAIN @ |-> [@[k] EXCEPT !.coeff = -@]]]],
               !.type = "LHS", !.lhs = -line.rhs, !.lden = line.rden]

OpbLine(lp, i, type) ==
  LET line == Line(lp, "OPB", i, RowName(lp, "OPB", i), type)
  IN  [IF type = "RHS" THEN Negate(line) ELSE line EXCEPT !.ind = <<>>]
OpbLines(lp, i) ==
  IF Empty(lp.rows[i]) THEN <<>>
  ELSE IF lp.rows[i].type = "RANGE" THEN <<OpbLine(lp, i, "RHS"), OpbLine(lp, i, "LHS")>>
  ELSE <<OpbLine(lp, i, lp.rows[i].type)>>

opb_write(lp) ==
  [objective |-> lp.objname # "",
   negated   |-> Negative(lp),
   cost      |-> Cost(lp, "OPB"), term |-> Terms1(lp, "OPB", lp.obj_term, TRUE),
   rows      |-> FlattenSeq([i \in DOMAIN lp.rows |-> OpbLines(lp, i)])]
----------------------------------------------------------------------------
(***************************************************************************)
(* qbo_write: the objective as an upper triangular matrix over the numbers *)
(* of the binary variables; x^2 is x.  Twice the entries are noted, since  *)
(* entries off the diagonal are halved.                                    *)
(***************************************************************************)
lps_is_binary(v) ==
  /\ v.vclass \in {"INT", "IMP"}
  /\ \/ v.type = "FIXED" /\ (v.lower = 0 \/ v.upper = 1)
     \/ v.type = "BOXED" /\ v.lower = 0 /\ v.upper = 1

LinearPart(lp) ==
  LET costs == {v \in Variables(lp) : /\ v # ObjOffset /\ lp.cost[v] # 0
                                      /\ lps_is_binary(lp.vars[v])}
  IN  [i \in 1 .. Cardinality(costs) |->
         LET v == CHOOSE w \in costs : Cardinality({u \in costs : lp.number[u] <= lp.number[w]}) = i
         IN  mono_new(lp.cost[v], v, "NONE")]

\* Of a product only the first variable is looked at.
SquareFree(m) ==
  IF Len(m.vars) = 2 /\ m.vars[1] = m.vars[2] THEN mono_new(m.coeff, m.vars[1], "NONE") ELSE m
QuadraticPart(lp) ==
  LET elem == IF lp.obj_term = <<>> THEN <<>> ELSE lp.obj_term[1].elem
      kept == SelectSeq(elem, LAMBDA m : Len(m.vars) = 1 \/ lps_is_binary(lp.vars[m.vars[1]]))
  IN  [i \in DOMAIN kept |-> SquareFree(kept[i])]

Entry(lp, m) ==
  LET first == lp.number[m.vars[1]]
      last  == lp.number[m.vars[Len(m.vars)]]
      sign  == IF lp.dir = "MIN" THEN 1 ELSE -1
  IN  [row |-> IF first <= last THEN first ELSE last, col |-> IF first <= last THEN last ELSE first,
       twice |-> (IF first = last THEN 2 ELSE 1) * sign * m.coeff]

\* Warnings 602 and 603: the file says that there is nothing.
Nothing == [vars |-> 0, entries |-> {}, offset |-> 0]
qbo_write(lp) ==
  LET elem == term_simplify([term_new(1) EXCEPT !.elem = LinearPart(lp) \o QuadraticPart(lp)]).elem
      vars == Cardinality(Variables(lp))
      has_offset == ObjOffset \in Variables(lp)
  IN  IF (lp.obj_term # <<>> /\ term_get_degree(lp.obj_term[1]) > 2) \/ elem = <<>> THEN Nothing
      ELSE [vars    |-> vars - (IF has_offset /\ lp.number[ObjOffset] = vars - 1 THEN 1 ELSE 0),
            entries |-> {Entry(lp, elem[i]) : i \in DOMAIN elem},
            offset  |-> IF has_offset THEN lp.cost[ObjOffset] ELSE 0]
----------------------------------------------------------------------------
(***************************************************************************)
(* The files besides: branching order, start values, and the table of      *)
(* names, whose size may be smaller than the one of the file.              *)
(***************************************************************************)
Discrete(lp) == {v \in Variables(lp) : lp.vars[v].vclass # "CON" /\ Sized(lp, v)}
Plain(lp, format, v) == lps_makename(lps_getnamesize(lp.name_len, format), v, lp.number[v])

lps_orderfile(lp, format) ==
  {[name |-> Plain(lp, format, v), var |-> v, priority |-> lp.vars[v].priority,
    startval |-> lp.vars[v].startval] : v \in {w \in Discrete(lp) : lp.vars[w].type # "FIXED"}}
lps_mstfile(lp, format) ==
  {[name |-> Plain(lp, format, v), var |-> v, startval |-> lp.vars[v].startval] : v \in Discrete(lp)}

lps_transtable(lp, format) ==
  LET size == TableSize(lps_getnamesize(lp.name_len, format), Variables(lp))
  IN  {[kind |-> "v", number |-> lp.number[v], name |-> lps_makename(size, v, lp.number[v])]
         : v \in {w \in Variables(lp) : lp.vars[w].type = "FIXED" \/ Mentioned(lp, w)}}
      \cup {[kind |-> "c", number |-> i - 1, name |-> lps_makename(size, lp.rows[i].name, i - 1)]
              : i \in DOMAIN lp.rows}
      \cup {[kind |-> "o", number |-> 0, name |-> lps_makename(size, n, 0)] : n \in {lp.objname} \ {""}}
=============================================================================
