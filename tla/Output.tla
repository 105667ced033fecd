-------------------------------- MODULE Output ------------------------------
(***************************************************************************)
(* From the names to the files: the program is read (module ConName says   *)
(* under which names its rows and sets are entered), and main of zimpl.c   *)
(* writes the order file, the file of start values, the problem itself and *)
(* the table of names, in this order, as the options want.                 *)
(*                                                                         *)
(* What the rows hold is chosen when the program has been read; it does    *)
(* not depend on the names.                                                *)
(***************************************************************************)
EXTENDS ConName, LpFiles

CONSTANTS
  Values,  \* [Var -> set of numbers], what the variables are tried with
  Jobs     \* what rows, sets, variables and objective may hold, and the
           \* options: format, length of names, and the files wanted

VARIABLES
  problem,   \* <<>>, or the store when the program has been read
  options,   \* of the command line, looked at here for the first time
  todo,      \* the files that are still to be written
  files,     \* [FileKinds -> <<>> or what was written]
  result     \* "running", "done", "Error 104" or "aborted"

outVars == <<problem, options, todo, files, result>>
allVars == <<vars, outVars>>

FileKinds == {"ord", "mst", "out", "tbl"}
NoOptions == [format |-> "LPF", name_len |-> 0, write_order |-> FALSE, write_mst |-> FALSE]

OutputInit ==
  /\ Init
  /\ problem = <<>> /\ options = NoOptions
  /\ todo = <<>> /\ files = [k \in FileKinds |-> <<>>] /\ result = "running"

Reading_ == result = "running" /\ problem = <<>>

\* The program is read: prog_execute.
Execute == Reading_ /\ Next /\ UNCHANGED outVars
----------------------------------------------------------------------------
\* The store as it is filled: a row of the program under each name.
WithRow(lp, row, name) ==
  LET new == xlp_addcon_term(lp, row.type, row.lhs, row.rhs, row.term)
      c   == Last(new.rows) @@ [name |-> name, flags |-> row.flags,
                                nden |-> 1, lden |-> 1, rden |-> 1]
  IN  [new EXCEPT !.rows[Len(new.rows)] = c]
WithSet(lp, set, name) ==
  LET new == xlp_addsos_term(lp, set.type, set.priority, set.term)
      s   == Last(new.soss) @@ [name |-> name]
  IN  [new EXCEPT !.soss[Len(new.soss)] = s]

WithRows(lp, program) ==
  FoldLeft(LAMBDA l, i : WithRow(l, program.rows[i], cons[i]), lp, [i \in DOMAIN cons |-> i])
WithSets(lp, program) ==
  FoldLeft(LAMBDA l, i : WithSet(l, program.soss[i], soss[i]), lp, [i \in DOMAIN soss |-> i])
WithObjective(lp, program) ==
  IF objname = NoName THEN [lp EXCEPT !.dir = "MIN"]     \* as lps_alloc sets it
  ELSE xlp_addtoobj(xlp_setobj(lp, program.minimize), program.objective)

\* Numbers are given when a variable is added.
Store(program, name_len) ==
  LET lp == WithObjective(WithSets(WithRows(xlp_alloc(program.vars), program), program), program)
  IN  lp @@ [number   |-> [v \in DOMAIN lp.vars |->
                             IF v = ObjOffset THEN Cardinality(DOMAIN program.vars)
                             ELSE program.number[v]],
             name_len |-> name_len,
             objname  |-> IF objname = NoName THEN "" ELSE objname]

\* The program is a command: one session.
Wanted(opts) ==
  SelectSeq(<<"ord", "mst", "out", "tbl">>,
            LAMBDA k : CASE k = "ord" -> opts.write_order
                         [] k = "mst" -> opts.write_mst
                         [] k = "tbl" -> opts.format # "HUM" [] k = "out" -> TRUE)

StartWriting(program, opts) ==
  /\ Reading_ /\ running = "idle" /\ ahead = <<>> /\ session = 1
  /\ problem' = Store(program, opts.name_len)
  /\ options' = opts
  /\ todo' = Wanted(opts)
  /\ UNCHANGED <<vars, files, result>>
----------------------------------------------------------------------------
Writing(kind) == result = "running" /\ todo # <<>> /\ Head(todo) = kind

Wrote(kind, content) ==
  /\ files' = [files EXCEPT ![kind] = <<content>>]
  /\ todo' = Tail(todo)
  /\ result' = IF Len(todo) = 1 THEN "done" ELSE result
  /\ UNCHANGED <<vars, problem, options>>

Abort ==
  /\ result' = "aborted"
  /\ UNCHANGED <<vars, problem, options, todo, files>>

\* The two files besides are for two formats only.
Asserted == options.format \in {"LPF", "MPS"}

WriteOrder ==
  /\ Writing("ord")
  /\ IF Asserted THEN Wrote("ord", lps_orderfile(problem, options.format)) ELSE Abort
WriteMst ==
  /\ Writing("mst")
  /\ IF Asserted THEN Wrote("mst", lps_mstfile(problem, options.format)) ELSE Abort

\* permute: some order, for three rows and more.
Orders ==
  LET rows == DOMAIN problem.rows
  IN  IF options.format = "RLP" /\ Len(problem.rows) >= 3
      THEN {f \in [rows -> rows] : IsInjective(f)}
      ELSE {[i \in rows |-> i]}

lps_write(order) ==
  LET lp == lps_scale(problem)
  IN  CASE options.format \in {"LPF", "RLP", "PIP", "HUM"} -> lpf_write(lp, options.format, order)
        [] options.format = "MPS" -> mps_write(lp)
        [] options.format = "OPB" -> opb_write(lp)
        [] options.format = "QBO" -> qbo_write(lp)

zlp_write ==
  /\ Writing("out")
  /\ \E order \in Orders :
        IF Undivided(problem) THEN Abort ELSE Wrote("out", lps_write(order))

WriteTable ==
  /\ Writing("tbl")
  /\ Wrote("tbl", lps_transtable(problem, options.format))

\* Error 104: a file cannot be opened; those written before remain.
OpenFails_GoesOn == \* mutant: the file is skipped
  /\ result = "running" /\ todo # <<>>
  /\ todo' = Tail(todo)
  /\ result' = IF Len(todo) = 1 THEN "done" ELSE result
  /\ UNCHANGED <<vars, problem, options, files>>
OpenFails ==
  /\ result = "running" /\ todo # <<>>
  /\ result' = "Error 104"
  /\ UNCHANGED <<vars, problem, options, todo, files>>

OutputNext ==
  \/ Execute
  \/ \E job \in Jobs : StartWriting(job.program, job.opts)
  \/ WriteOrder \/ WriteMst \/ zlp_write \/ WriteTable \/ OpenFails

OutputSpec == OutputInit /\ [][OutputNext]_allVars
----------------------------------------------------------------------------
(***************************************************************************)
(* What a file means to one who reads it with the rules of its format:     *)
(* the points it admits and what they cost; and what the store means.      *)
(* Everything written is checked against this.                             *)
(***************************************************************************)
Points(lp) == {p \in [Variables(lp) -> UNION {Values[v] : v \in Variables(lp)}] :
                 \A v \in Variables(lp) : p[v] \in Values[v]}
Binary(lp) == [Variables(lp) -> {0, 1}]

\* The point p by the names of the variables in the file.
ByName(p, Name(_)) ==
  [n \in {Name(v) : v \in DOMAIN p} |-> p[CHOOSE v \in DOMAIN p : Name(v) = n]]

\* sum / den on the right side of the bounds of a row.
Within(type, sum, den, lhs, lden, rhs, rden) ==
  /\ type \in {"LHS", "RANGE", "EQUAL"} => lhs * den <= sum * lden
  /\ type \in {"RHS", "RANGE", "EQUAL"} => sum * rden <= rhs * den

InBounds(lower, upper, value) ==
  (lower = Infty \/ lower <= value) /\ (upper = Infty \/ value <= upper)
----------------------------------------------------------------------------
\* The store.
RowValue(c, p) ==
  MapThenSumSet(LAMBDA v : c.nzo[v] * p[v], DOMAIN c.nzo)
  + (IF c.term = <<>> THEN 0 ELSE TermValue(c.term[1], p))

StoreAdmits(lp, p) ==
  /\ \A i \in DOMAIN lp.rows :
        LET c == lp.rows[i]
        IN  (c.ind = <<>> \/ (p[c.ind[1]] = 1) = c.ind[2])
              => Within(c.type, RowValue(c, p), 1, c.lhs, 1, c.rhs, 1)
  /\ \A v \in Variables(lp) :
        Mentioned(lp, v) => InBounds(LowerBound(lp.vars[v]), UpperBound(lp.vars[v]), p[v])

StoreCost(lp, p) ==
  MapThenSumSet(LAMBDA v : lp.cost[v] * p[v], Variables(lp))
  + (IF lp.obj_term = <<>> THEN 0 ELSE TermValue(lp.obj_term[1], p))

\* Lines of LP and OPB files.  The point x has the names of the file.
Product(powers, x) ==
  LET prod[i \in 0 .. Len(powers)] ==
        IF i = 0 THEN 1 ELSE prod[i - 1] * x[powers[i][1]] ^ powers[i][2]
  IN  prod[Len(powers)]
Quadratic(m) == Len(m.powers) > 1 \/ m.powers[1][2] > 1

\* What stands in brackets may be divided by two; a comment counts nothing.
PartValue(part, halved, x) ==
  LET Part(i) == LET m == part.elem[i]
                 IN  IF halved /\ Quadratic(m) THEN (m.coeff * Product(m.powers, x)) \div 2
                     ELSE m.coeff * Product(m.powers, x)
  IN  IF part.comment THEN 0 ELSE MapThenSumSet(Part, DOMAIN part.elem)
SumValue(nzo, term, halved, x) ==
  MapThenSumSet(LAMBDA v : nzo[v].value * x[nzo[v].name], DOMAIN nzo)
  + (IF term = <<>> THEN 0 ELSE PartValue(term[1], halved, x))

LineAdmits(l, x) ==
  (l.ind = <<>> \/ (x[l.ind[1]] = 1) = l.ind[2])
    => Within(l.type, SumValue(l.nzo, l.term, FALSE, x), l.nden, l.lhs, l.lden, l.rhs, l.rden)

\* Variables without a line of their own are between zero and infinity.
BoundsAdmit(bounds, occurring, x) ==
  \A n \in occurring :
     IF \E b \in bounds : b.name = n
     THEN \A b \in bounds : b.name = n => InBounds(b.lower, b.upper, x[n])
     ELSE x[n] >= 0
----------------------------------------------------------------------------
\* The sets of a file are those of the store, member for member.
SameSets(lp, Name(_), sets) ==
  /\ Len(sets) = Len(lp.soss)
  /\ \A i \in DOMAIN sets :
        /\ sets[i].type = lp.soss[i].type
        /\ sets[i].sses = [k \in DOMAIN lp.soss[i].sses |->
                             <<Name(lp.soss[i].sses[k][1]), lp.soss[i].sses[k][2]>>]

\* A variable is integer in the file if it is in the program, unless it is
\* fixed.
SameIntegers(lp, Name(_), general) ==
  \A v \in Variables(lp) :
     Mentioned(lp, v) /\ lp.vars[v].type # "FIXED"
       => (Name(v) \in general <=> lp.vars[v].vclass = "INT")

Occurring(lp, Name(_)) == {Name(v) : v \in {w \in Variables(lp) : Mentioned(lp, w)}}

LpSays(lp, format, file) ==
  LET Name(v) == Column(lp, format, v)
  IN  /\ file.dir = lp.dir
      /\ SameSets(lp, Name, file.soss)
      /\ SameIntegers(lp, Name, file.general)
      /\ \A p \in Points(lp) :
            LET x == ByName(p, Name)
            IN  /\ SumValue(file.cost, file.term, file.halved, x) = StoreCost(lp, p)
                /\ (/\ \A i \in DOMAIN file.rows : LineAdmits(file.rows[i], x)
                    /\ BoundsAdmit(file.bounds, Occurring(lp, Name), x)) <=> StoreAdmits(lp, p)

\* A row of an MPS file collects its entries from the sections.
MpsAdmits(file, r, x) ==
  LET entries == {c \in file.columns : c.row = r.row}
      den     == IF entries = {} THEN 1 ELSE (CHOOSE c \in entries : TRUE).den
      sides   == {s \in file.rhs : s.row = r.row}
      side    == IF sides = {} THEN [value |-> 0, den |-> den] ELSE CHOOSE s \in sides : TRUE
      spans   == {s \in file.ranges : s.row = r.row}
      span    == IF spans = {} THEN 0 ELSE (CHOOSE s \in spans : TRUE).value
      sum     == MapThenSumSet(LAMBDA c : c.value * x[c.column], entries)
  IN  Within(CASE r.ind = "E" -> "EQUAL" [] r.ind = "G" -> "LHS" [] r.ind = "L" -> "RHS",
             sum, den, side.value, side.den, side.value, side.den)
      \/ /\ span # 0
         /\ Within("RANGE", sum, den, side.value, side.den, side.value + span, side.den)

MpsSays(lp, file) ==
  LET Name(v) == MpsColumn(lp, v)
  IN  /\ SameSets(lp, Name, file.soss)
      /\ SameIntegers(lp, Name, file.general)
      /\ \A p \in Points(lp) :
            LET x     == ByName(p, Name)
                costs == {c \in file.columns : c.row = "OBJECTIV"}
            IN  /\ MapThenSumSet(LAMBDA c : c.value * x[c.column], costs)
                     = (IF Negative(lp) THEN -1 ELSE 1) * StoreCost(lp, p)
                /\ (/\ \A r \in file.rows : MpsAdmits(file, r, x)
                    /\ BoundsAdmit(file.bounds, Occurring(lp, Name), x)) <=> StoreAdmits(lp, p)

OpbSays(lp, file) ==
  \A p \in Binary(lp) :
     LET x    == ByName(p, LAMBDA v : Column(lp, "OPB", v))
         cost == SumValue(file.cost, file.term, FALSE, x)
     IN  /\ file.objective =>
              (IF file.negated THEN -cost ELSE cost)
                = (IF Negative(lp) THEN -1 ELSE 1) * StoreCost(lp, p)
         /\ (\A i \in DOMAIN file.rows : LineAdmits(file.rows[i], x)) <=> StoreAdmits(lp, p)

\* The offset stands apart; the constant of the program is not multiplied.
QboSays(lp, file) ==
  LET x(p, n) == p[CHOOSE v \in Variables(lp) : lp.number[v] = n]
      sign    == IF lp.dir = "MIN" THEN 1 ELSE -1
  IN  \A p \in {q \in Binary(lp) : ObjOffset \in DOMAIN q => q[ObjOffset] = 1} :
         MapThenSumSet(LAMBDA e : e.twice * x(p, e.row) * x(p, e.col)
                                  * (IF e.row = e.col THEN 1 ELSE 2), file.entries)
           = 2 * sign * (StoreCost(lp, p) - file.offset)
----------------------------------------------------------------------------
\* What a format can say.
Degree(term)   == IF term = <<>> THEN 0 ELSE term_get_degree(term[1])
Harmless(c)    == ~ Empty(c) \/ Within(c.type, 0, 1, c.lhs, 1, c.rhs, 1)
Degrees(lp)    == {Degree(lp.obj_term)} \cup {Degree(lp.rows[i].term) : i \in DOMAIN lp.rows}
AllBinary(lp)  == \A v \in Variables(lp) :
                     lp.vars[v].type = "BOXED" /\ lps_is_binary(lp.vars[v])
NamesDiffer(lp, Name(_)) ==
  \A v, w \in {u \in Variables(lp) : Mentioned(lp, u)} : Name(v) = Name(w) => v = w

Expressible(lp, format) ==
  /\ \A i \in DOMAIN lp.rows : Harmless(lp.rows[i])
  /\ CASE format \in {"LPF", "RLP"} -> \A d \in Degrees(lp) : d <= 2
       [] format = "PIP" -> TRUE
       [] format = "HUM" -> NamesDiffer(lp, LAMBDA v : Column(lp, format, v))
       [] format = "MPS" -> /\ Degrees(lp) = {0} /\ lp.name_len <= MIN_NAME_LEN
                            /\ \A i \in DOMAIN lp.rows : lp.rows[i].ind = <<>>
                            /\ IsInjective([i \in DOMAIN lp.rows |-> MpsRow(lp, i)])
       [] format = "OPB" -> AllBinary(lp) /\ \A i \in DOMAIN lp.rows : lp.rows[i].ind = <<>>
       [] format = "QBO" -> /\ Degree(lp.obj_term) <= 2
                            /\ \A v \in Variables(lp) : lps_is_binary(lp.vars[v])
                            /\ Cardinality({StoreCost(lp, p) : p \in Binary(lp)}) > 1

Says(lp, format, file) ==
  CASE format \in {"LPF", "RLP", "PIP", "HUM"} -> LpSays(lp, format, file)
    [] format = "MPS" -> MpsSays(lp, file)
    [] format = "OPB" -> OpbSays(lp, file)
    [] format = "QBO" -> QboSays(lp, file)
----------------------------------------------------------------------------
Written(kind) == files[kind] # <<>>
File(kind)    == files[kind][1]

(***************************************************************************)
(* Rows, sets and files have the types the code means, and only a file     *)
(* that is wanted is written, after those that come before it.             *)
(***************************************************************************)
TypeOK ==
  /\ count \in 1 .. MaxCount /\ internal_cons \in 0 .. MaxInternal
  /\ Len(cons) <= MaxRows /\ objname \in Prefix \cup {NoName}
  /\ problem # <<>> => /\ Len(problem.rows) = Len(cons) /\ Len(problem.soss) = Len(soss)
                       /\ IsInjective(problem.number)
                       /\ \A i \in DOMAIN problem.rows :
                             problem.rows[i].nzo # <<>> => problem.rows[i].term = <<>>
  /\ result = "done" => \A k \in FileKinds : Written(k) <=> k \in ToSet(Wanted(options))
  /\ Written("tbl") => Written("out")

\* The names in a file are what tells variables and rows apart: two of them
\* never get the same name, however long the names of the program are and
\* whatever characters they have, and all the files agree on them.
\* (Not in format hum, and not in MPS with names longer than its fields; a
\* range that is both a user cut and a lazy constraint is written twice.)
Twice(c) == c.type = "RANGE" /\ {"SEPAR", "CHECK"} \subseteq c.flags
NamesIdentify ==
  (/\ Written("out") /\ ~ clashed /\ options.format # "HUM"
   /\ options.format = "MPS" => options.name_len <= MIN_NAME_LEN) =>
    /\ \A v, w \in Variables(problem) :
          Column(problem, options.format, v) = Column(problem, options.format, w) => v = w
    /\ (options.format \in {"LPF", "RLP", "PIP"} /\ ~ \E i \in DOMAIN problem.rows : Twice(problem.rows[i]))
         => IsInjective([i \in DOMAIN File("out").rows |-> File("out").rows[i].name])
    /\ options.format = "MPS"
         => \A i, k \in DOMAIN problem.rows : MpsRow(problem, i) = MpsRow(problem, k) => i = k
    /\ \A kind \in {"ord", "mst"} : Written(kind) =>
          \A e \in File(kind) : e.name = Column(problem, options.format, e.var)

\* Whoever reads the file gets the problem that is in the store: the same
\* points within rows, bounds and sets, the same integers, the same costs in
\* the same direction, as far as the format can say it.  (Looked at when the
\* file has been written; it does not change afterwards.)
ReadsBack ==
  (Written("out") /\ result # "Error 104" /\ ~ Written("tbl")
   /\ Expressible(problem, options.format))
    => Says(problem, options.format, File("out"))

\* "The table file lists all variable and constraint names used in the model
\* and their corresponding names in the problem file" (zimplug.tex:286-287).
TableTells ==
  Written("tbl") =>
    \A e \in File("tbl") :
       CASE e.kind = "v" -> \A v \in Variables(problem) : problem.number[v] = e.number
                              => e.name = Column(problem, options.format, v)
         [] e.kind = "c" -> e.name = RowName(problem, options.format, e.number + 1)
         [] e.kind = "o" -> TRUE
============================================================================
