------------------------------- MODULE ConName ------------------------------
(***************************************************************************)
(* The names of constraints: conname.c, the number internal_cons of the    *)
(* rows generated by vinst.c, and the statements that use them (i_subto,   *)
(* i_sos and objective of inst.c).                                         *)
(*                                                                         *)
(* Names are strings.  The rows and the special ordered sets are listed in *)
(* the order they are entered, which is the order of their numbers; what   *)
(* they hold is added by module Output.                                    *)
(***************************************************************************)
EXTENDS Integers, Sequences, FiniteSets, SequencesExt, TLC

CONSTANTS Forms,       \* formats used: subset of "MAKE", "NAME" and "FULL"
          Prefix,      \* names given in the program
          Plans,       \* programs, sequences of statements <<kind, name>>
          Locals,      \* what local_tostrall returns inside a forall
          Exts,        \* the rows an operator makes, sequences of name parts
          Branches,    \* the rows of a then or an else part, likewise
          NoName,      \* the pointer NULL
          MaxCount, MaxInternal, MaxRows, MaxSets, MaxSession  \* bounds of the model

Statements == {"subto", "sos", "objective"}

ASSUME ConNameAssumption ==
  /\ Forms \subseteq {"MAKE", "NAME", "FULL"}
  /\ \A plan \in Plans : plan \in Seq(Statements \X Prefix)
  /\ NoName \notin Prefix

VARIABLES
  ahead,     \* the statements of the program that are still to be executed
  cform,     \* set by conname_format, options -n cm, cn, cf
  cname,     \* NoName or the prefix (cname and cpfix are set and freed together)
  count,
  internal_cons,
  cons,      \* the names of the rows
  soss,      \* the names of the special ordered sets
  objname,   \* the name of the objective, or NoName
  clashed,   \* auxiliary: a name was given to two of them
  running,   \* the statement being executed, or "idle", or "exit"
  locals,    \* the tuple of the forall, or ""
  seen,      \* tuples this forall has had
  used,      \* auxiliary: prefixes accepted by conname_set in this session
  repeated,  \* auxiliary: one of them was accepted twice
  session

names == <<cons, soss, objname, clashed>>
vars == <<ahead, cform, cname, count, internal_cons, names, running, locals, seen, used,
          repeated, session>>

Init ==
  /\ ahead \in Plans /\ cform \in Forms
  /\ cname = NoName /\ count = 1 /\ internal_cons = 0
  /\ cons = <<>> /\ soss = <<>> /\ objname = NoName /\ clashed = FALSE
  /\ running = "idle" /\ locals = "" /\ seen = {}
  /\ used = {} /\ repeated = FALSE /\ session = 1

\* lps_getcon finds a row by its name.
xlp_conname_exists(name) == name \in ToSet(cons)

conname_get ==
  CASE cform = "MAKE" -> "c" \o ToString(count)
    [] cform = "NAME" -> cname \o "_" \o ToString(count)
    [] cform = "FULL" -> cname \o "_" \o (IF locals = "" THEN "" ELSE ";" \o locals)
----------------------------------------------------------------------------
\* The test of conname_set: the first row or the first internal row of the
\* prefix exists.
Taken(prefix) ==
  /\ cform = "NAME"
  /\ \/ xlp_conname_exists(prefix \o "_1")
     \/ xlp_conname_exists(prefix \o "_1_a_0")

\* i_subto, i_sos, objective: conname_set, Error 105 if the name is taken.
conname_set ==
  /\ running = "idle" /\ ahead # <<>>
  /\ LET prefix == Head(ahead)[2]
     IN  /\ cname' = prefix
         /\ count' = IF cform = "NAME" THEN 1 ELSE count
         /\ IF Taken(prefix)
            THEN running' = "exit" /\ UNCHANGED <<used, repeated>>
            ELSE /\ running' = Head(ahead)[1]
                 /\ used' = used \cup {prefix}
                 /\ repeated' = (repeated \/ prefix \in used)
  /\ ahead' = Tail(ahead)
  /\ UNCHANGED <<cform, internal_cons, names, locals, seen, session>>

\* i_forall: the next tuple.
i_forall(tuple) ==
  /\ running \in {"subto", "sos"} /\ tuple \notin seen
  /\ locals' = tuple
  /\ seen' = seen \cup {tuple}
  /\ UNCHANGED <<ahead, cform, cname, count, internal_cons, names, running, used, repeated, session>>

\* A name is given; none of those given at once may be there already.
Clash(given) ==
  ~ IsInjective(given) \/ ToSet(given) \cap (ToSet(cons) \cup ToSet(soss)) # {}

\* xlp_addcon_term with these names.
AddRows(given) ==
  /\ Len(cons) + Len(given) <= MaxRows
  /\ cons' = cons \o given
  /\ clashed' = (clashed \/ Clash(given))
  /\ UNCHANGED <<soss, objname>>

\* conname_next
conname_next == count < MaxCount /\ count' = count + 1

\* i_constraint, i_rangeconst: a row, or none if it is converted into a
\* penalty (attribute qubo); the number is used in both cases.
i_constraint(qubo) ==
  /\ running = "subto"
  /\ AddRows(IF qubo THEN <<>> ELSE <<conname_get>>)
  /\ conname_next
  /\ UNCHANGED <<ahead, cform, cname, internal_cons, running, locals, seen, used, repeated, session>>

\* create_new_constraint for the rows of an operator on variables, inside a
\* constraint or an objective.
InternalNumber_Local(i) == \* mutant: the rows of every operator are counted from 0
  i - 1
InternalNumber(i) == internal_cons + i - 1

i_vbool(exts) ==
  /\ running \in {"subto", "objective"}
  /\ AddRows([i \in DOMAIN exts |-> conname_get \o "_" \o exts[i] \o "_" \o ToString(InternalNumber(i))])
  /\ internal_cons + Len(exts) <= MaxInternal
  /\ internal_cons' = internal_cons + Len(exts)
  /\ UNCHANGED <<ahead, cform, cname, count, running, locals, seen, used, repeated, session>>

\* The end of i_vif and i_vif_else: the rows of the then and the else part
\* that are not always true; the number is used.
Sided(then, sides) == [i \in DOMAIN sides |-> conname_get \o "_" \o then \o "_" \o sides[i]]

i_vif_else(then, else, indicator) ==
  /\ running = "subto"
  /\ AddRows(IF indicator THEN <<conname_get \o "_t", conname_get \o "_f">>
             ELSE Sided("t", then) \o Sided("e", else))
  /\ conname_next
  /\ UNCHANGED <<ahead, cform, cname, internal_cons, running, locals, seen, used, repeated, session>>

\* i_soset: xlp_addsos_term.
i_soset ==
  /\ running = "sos"
  /\ Len(soss) < MaxSets
  /\ soss' = Append(soss, conname_get)
  /\ clashed' = (clashed \/ Clash(<<conname_get>>))
  /\ conname_next
  /\ UNCHANGED <<ahead, cform, cname, internal_cons, cons, objname, running, locals, seen, used, repeated, session>>

\* The end of the statement; an objective gives its name to the store.
conname_free ==
  /\ running \in Statements
  /\ cname' = NoName
  /\ objname' = IF running = "objective" THEN cname ELSE objname
  /\ running' = "idle" /\ locals' = "" /\ seen' = {}
  /\ UNCHANGED <<ahead, cform, count, internal_cons, cons, soss, clashed, used, repeated, session>>

\* An error inside the statement: zpl_exit jumps out of it.
zpl_exit ==
  /\ running \in Statements
  /\ running' = "exit"
  /\ UNCHANGED <<ahead, cform, cname, count, internal_cons, names, locals, seen, used, repeated, session>>

\* The end of zpl_read and the next one: xlp_free, local_exit, interns_exit.
zpl_read ==
  /\ running \in {"idle", "exit"} /\ session < MaxSession
  /\ cons' = <<>> /\ soss' = <<>> /\ objname' = NoName /\ clashed' = FALSE
  /\ internal_cons' = 0
  /\ locals' = "" /\ seen' = {}
  /\ used' = {} /\ repeated' = FALSE
  /\ running' = "idle" /\ session' = session + 1
  /\ ahead' \in Plans
  /\ UNCHANGED <<cform, cname, count>>

Next ==
  \/ conname_set
  \/ \E tuple \in Locals : i_forall(tuple)
  \/ \E qubo \in BOOLEAN : i_constraint(qubo)
  \/ \E exts \in Exts : i_vbool(exts)
  \/ \E then, else \in Branches, indicator \in BOOLEAN : i_vif_else(then, else, indicator)
  \/ i_soset
  \/ conname_free
  \/ zpl_exit
  \/ zpl_read

Spec == Init /\ [][Next]_vars
----------------------------------------------------------------------------
\* No two rows and no two special ordered sets of the problem have the same
\* name, and no row the name of a set ("sos use the same namespace as
\* constraints", zimplug.tex:1302-1303; lps_addcon and lps_addsos assert it,
\* ratlpstore.c:1053 and 1166).
UniqueNames == ~clashed

\* In format cn a statement may be given a name that begins as the generated
\* rows of another one do: row c_1_a_1 of statement c_1_a is also the second
\* row generated for an operator in statement c (vinst.c:104), and the test of
\* conname_set looks for neither of them (conname.c:97-105).
LikeGenerated ==
  \E p, q \in used, k \in 1 .. MaxCount, e \in UNION {ToSet(exts) : exts \in Exts} :
    q = p \o "_" \o ToString(k) \o "_" \o e

\* Format cm never gives a name twice, nor does format cn as long as no name
\* of the program is used by two statements and none is that of a generated
\* row without its number, whatever rows are generated, with errors, in any
\* order of statements and over two sessions.
UniqueByFormat ==
  (cform = "MAKE" \/ (cform = "NAME" /\ ~repeated /\ ~LikeGenerated)) => UniqueNames
============================================================================
