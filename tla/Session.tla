------------------------------ MODULE Session ------------------------------
(***************************************************************************)
(* Calls of the library (zimpllib.c) and what they leave behind.           *)
(*                                                                         *)
(* All state of ZIMPL is in static variables.  zpl_read and                *)
(* zpl_read_with_args set them up, load a program, scan, parse and execute *)
(* its statements one after the other under setjmp, and take everything    *)
(* down again; an error anywhere jumps to the take-down.  A record holds   *)
(* the static variables, as two processes are compared: the one that makes *)
(* all the calls, and a twin started afresh for the current call.          *)
(***************************************************************************)
EXTENDS Integers, Sequences, FiniteSets

CONSTANTS Name,      \* names of symbols, defines and constraints
          Index,     \* the local name every forall of the programs uses
          None,      \* no name
          Option,    \* the lists of options zpl_read_with_args is called with
          MaxCalls,  \* bounds of the model: calls of the library,
          MaxStmts   \* statements of a program

ASSUME SessionAssumption ==
  /\ Index \notin Name /\ None \notin Name \cup {Index}
  /\ MaxCalls \in Nat /\ MaxStmts \in Nat
  /\ \A o \in Option :
        /\ o \in Seq([opt : {"D"}, name : Name]
                     \cup [opt : {"nm", "nn", "bad", "P"}, name : {None}])
        \* A name given twice would make two symbols, of which one is found.
        /\ \A i, j \in DOMAIN o : o[i].opt = "D" /\ o[i] = o[j] => i = j

\* The keyword a statement starts with: "do" declares nothing.
Decl == {"DECLPAR", "DECLVAR", "DECLSUB", "DEFNUMB"}

\* A statement declares name and uses one other name:
\*   param name := use + 1;      var name binary;      defnumb name(i) := i;
\*   subto name: forall <Index> in {1} : vabs(use) <= 1;    do print use + 1;
\* fault says where it is wrong: behind the keyword, behind the declared name,
\* or when it is evaluated (a subto within its loop).
Stmt == {s \in [decl : Decl \cup {"DO"}, name : Name \cup {None},
                use : Name \cup {Index, None},
                fault : {"none", "keyword", "name", "eval"}] :
           /\ (s.name = None) <=> (s.decl = "DO")
           /\ s.decl \in {"DECLVAR", "DEFNUMB"} => s.use = None
           /\ s.decl = "DECLSUB" => s.use # None
           /\ s.decl = "DO" => s.use # None /\ s.fault # "name"}

VARIABLES p,      \* the static variables of the process
          twin,   \* those of a process whose first call is the current one
          pc,     \* "idle", "ready" (statements follow), "error" (jumped),
                  \* "crash", "undefined"
          call,   \* calls made
          api,    \* the function called
          given,  \* the names defined with -D in the current call
          done,   \* statements begun in the current call
          first,  \* the keyword of the first of them
          past    \* how the earlier calls ended
vars == <<p, twin, pc, call, api, given, done, first, past>>

\* A process that has not called the library yet.
Fresh(cform, count) ==
  [cform |-> cform, count |-> count, yydecl |-> "0",
   param_count |-> 0, param_table |-> {}, inppipe |-> FALSE,
   symbols |-> {}, defines |-> {}, frames |-> {}, internals |-> 0,
   rows |-> {}, out |-> <<>>]

Init ==
  /\ p = Fresh("CON_FORM_NAME", 1) /\ twin = p
  /\ pc = "idle" /\ call = 0 /\ api = "zpl_read"
  /\ given = {} /\ done = 0 /\ first = None /\ past = {}
----------------------------------------------------------------------------
\* What callers and readers of the output see of a call.
Shown(x, what) == [x EXCEPT !.out = Append(@, what)]

Symbol(x, n) == {s \in x.symbols : s.name = n}
\* Mutant: the defines are not looked at.
InUse_Symbols(x, n) == Symbol(x, n) # {}
InUse(x, n) == Symbol(x, n) # {} \/ \E d \in x.defines : d.name = n

\* The options before the first bad one, and those of one kind among them.
Before(opts) == {i \in DOMAIN opts : \A j \in 1 .. i : opts[j].opt # "bad"}
Given(opts, kinds) == {i \in Before(opts) : opts[i].opt \in kinds}
Names(opts) == {opts[i].name : i \in Given(opts, {"D"})}

\* The loop over the options.  The table of parameters is new in every call,
\* and -D writes the cell behind those counted: param_table holds the names
\* written in this call, param_count what the counter says.
getopt(x, opts) ==
  LET forms == Given(opts, {"nm", "nn"})
      last  == CHOOSE i \in forms : \A j \in forms : j <= i
  IN  [x EXCEPT !.cform = IF forms = {} THEN @
                          ELSE IF opts[last].opt = "nm" THEN "CON_FORM_MAKE" ELSE "CON_FORM_NAME",
                !.inppipe = @ \/ Given(opts, {"P"}) # {},
                !.param_count = @ + Cardinality(Given(opts, {"D"})),
                !.param_table = Names(opts)]

\* zpl_add_parameter for every cell counted.
Parameters(x) ==
  [x EXCEPT !.symbols = @ \cup {[name |-> n, type |-> "NUMB", from |-> "-D"]
                                : n \in x.param_table}]
----------------------------------------------------------------------------
\* A name to be declared that is in use: an error, which leaves yydecl, unless
\* it is a parameter's.  (Mutant: a parameter is declared again.)
Taken_Again(x) == [x |-> [x EXCEPT !.yydecl = "0"], token |-> "NAME"]
Taken(x) ==
  IF x.yydecl = "DECLPAR" THEN [x |-> [x EXCEPT !.yydecl = "0"], token |-> "EOF"]
  ELSE [x |-> x, token |-> "error"]

\* A name read by the scanner, as the keyword before it says (mmlscan.l).
yylex(x, n) ==
  LET plain == [x EXCEPT !.yydecl = "0"]
  IN  CASE x.yydecl = "DECLSUB" -> [x |-> plain, token |-> "NAME"]
        [] x.yydecl \in {"DECLPAR", "DECLVAR", "DEFNUMB"} /\ InUse(x, n) -> Taken(x)
        [] x.yydecl = "DEFNUMB" /\ ~InUse(x, n) ->
             [x |-> [plain EXCEPT !.defines = @ \cup {[name |-> n, param |-> FALSE]}],
              token |-> "DEFNAME"]
        [] x.yydecl \in {"DECLPAR", "DECLVAR"} /\ ~InUse(x, n) ->
             [x |-> plain, token |-> "NAME"]
        [] x.yydecl = "0" ->
             [x |-> x,
              token |-> IF Symbol(x, n) # {} THEN (CHOOSE s \in Symbol(x, n) : TRUE).type
                        ELSE IF InUse(x, n) THEN "NUMBDEF" ELSE "NAME"]

\* The tokens the grammar takes where a statement uses a name: vabs wants a
\* variable, an expression has none, and a define needs arguments.
Admitted(decl) == IF decl = "DECLSUB" THEN {"VAR"} ELSE {"none", "NUMB", "NAME"}

\* stmt_parse: the tokens of a statement until the grammar refuses one.
stmt_parse(x, s) ==
  LET keyword == IF s.decl = "DO" THEN x ELSE [x EXCEPT !.yydecl = s.decl]
      name == IF s.decl = "DO" THEN [x |-> keyword, token |-> "none"]
              ELSE yylex(keyword, s.name)
      use  == IF s.use = None THEN [x |-> name.x, token |-> "none"]
              ELSE yylex(name.x, s.use)
      End(y, how, token) == [x |-> y, end |-> how, token |-> token]
  IN  CASE s.fault = "keyword" -> End(keyword, "syntax", "none")
        [] s.fault # "keyword" /\ name.token = "EOF" -> End(name.x, "nop", "none")
        [] s.fault # "keyword" /\ (name.token = "error" \/ (s.fault = "name" /\ name.token # "EOF")) ->
             End(name.x, "syntax", "none")
        [] s.fault \in {"none", "eval"} /\ name.token \notin {"EOF", "error"} ->
             IF use.token \in Admitted(s.decl) THEN End(use.x, "parsed", use.token)
             ELSE End(use.x, "syntax", "none")

\* The name conname_get gives the row of constraint n.
RowName(x, n) == IF x.cform = "CON_FORM_NAME" THEN <<n, 1>> ELSE <<"c", x.count>>

\* The locals a statement finds: its own forall and whatever is left behind.
Locals(x, s) == x.frames \cup (IF s.decl = "DECLSUB" THEN {Index} ELSE {})

\* conname_set refuses the name of a constraint that exists.
Duplicate(x, s) ==
  s.decl = "DECLSUB" /\ x.cform = "CON_FORM_NAME" /\ <<s.name, 1>> \in x.rows

\* A statement that is evaluated fails because of itself, of a name that is
\* no local, or of its own name.
Fails(x, s, token) ==
  s.fault = "eval" \/ (token = "NAME" /\ s.use \notin x.frames) \/ Duplicate(x, s)

\* stmt_execute: an error leaves the locals of the loop it is in.
stmt_execute(x, s, token) ==
  IF Fails(x, s, token)
  THEN [x |-> IF s.decl # "DECLSUB" THEN x
              ELSE [x EXCEPT !.frames = IF Duplicate(x, s) THEN @ ELSE @ \cup {Index},
                             !.count = IF x.cform = "CON_FORM_NAME" THEN 1 ELSE @],
        end |-> "eval"]
  ELSE [end |-> "ok",
        x |-> CASE s.decl = "DECLPAR" ->
                     Shown([x EXCEPT !.symbols = @ \cup {[name |-> s.name, type |-> "NUMB",
                                                          from |-> "text"]}],
                           <<"param", s.name>>)
                [] s.decl = "DECLVAR" ->
                     Shown([x EXCEPT !.symbols = @ \cup {[name |-> s.name, type |-> "VAR",
                                                          from |-> "text"]}],
                           <<"var", s.name>>)
                [] s.decl = "DEFNUMB" ->
                     [x EXCEPT !.defines = (@ \ {[name |-> s.name, param |-> FALSE]})
                                           \cup {[name |-> s.name, param |-> TRUE]}]
                [] s.decl = "DECLSUB" ->
                     Shown([x EXCEPT !.rows = @ \cup {RowName(x, s.name)},
                                     !.count = IF x.cform = "CON_FORM_NAME" THEN 2 ELSE @ + 1,
                                     !.internals = @ + 1],
                           <<"row", RowName(x, s.name), x.internals>>)
                [] s.decl = "DO" ->
                     Shown(x, <<"print", s.use, {y.from : y \in Symbol(x, s.use)}>>)]

\* One round of the loop of prog_execute.
Round(x, s) ==
  LET parsed == stmt_parse(x, s)
      run    == IF parsed.end = "parsed" THEN stmt_execute(parsed.x, s, parsed.token)
                ELSE [x |-> parsed.x, end |-> IF parsed.end = "nop" THEN "ok" ELSE "syntax"]
  IN  IF run.end = "ok" THEN run
      ELSE [run EXCEPT !.x = Shown(run.x, <<"error", run.end>>)]
----------------------------------------------------------------------------
\* The parts that are taken down at the end of a call.  (Mutants: the locals
\* stay; the counter runs one too far.)
local_exit_Forgotten(x) == x
local_exit(x)   == [x EXCEPT !.frames = {}]
interns_exit(x) == [x EXCEPT !.internals = 0]
symbol_exit(x)  == [x EXCEPT !.symbols = {}]
define_exit(x)  == [x EXCEPT !.defines = {}]
xlp_free(x)     == [x EXCEPT !.rows = {}, !.out = <<>>]
args_free_Below(x) == [x EXCEPT !.inppipe = FALSE, !.param_count = -1, !.param_table = {}]
args_free(x)    == [x EXCEPT !.inppipe = FALSE, !.param_count = 0, !.param_table = {}]

TakenDown(x, withargs) ==
  define_exit(symbol_exit(interns_exit(local_exit(
     IF withargs THEN args_free(xlp_free(x)) ELSE xlp_free(x)))))

\* The program text comes through the pipe of -P (zpl_read has none).
Started(x, withargs) ==
  LET y == IF withargs THEN Parameters(x) ELSE x
  IN  Shown([y EXCEPT !.out = <<>>], <<"load", withargs /\ x.inppipe>>)

\* A call of f: options, the parts set up, the program loaded.  It ends early
\* at a bad option or without a file name ("bad" stands for both); the table
\* is lost then, the counter and the pipe are not.  A counter that is not zero
\* at the start counts cells of the new table that nobody writes.
Call(f, opts, loads) ==
  LET args  == f = "zpl_read_with_args"
      fresh == Fresh(p.cform, p.count)
      early == Before(opts) # DOMAIN opts
      mine  == IF args THEN getopt(p, opts) ELSE p
      other == IF args THEN getopt(fresh, opts) ELSE fresh
  IN  /\ pc = "idle" /\ call < MaxCalls
      /\ call' = call + 1 /\ api' = f /\ done' = 0 /\ first' = None
      /\ given' = Names(opts)
      /\ IF early
         THEN /\ p' = [mine EXCEPT !.param_table = {}] /\ twin' = fresh /\ pc' = "idle"
              /\ past' = past \cup {IF Given(opts, {"D", "P"}) # {} THEN "options" ELSE "usage"}
         ELSE /\ p' = Started(mine, args) /\ twin' = Started(other, args)
              /\ pc' = IF args /\ p.param_count # 0 THEN "undefined"
                       ELSE IF loads THEN "ready" ELSE "error"
              /\ past' = past

\* The next statement is scanned, parsed and executed.
Statement(s) ==
  LET mine == Round(p, s)
  IN  /\ pc = "ready" /\ done < MaxStmts
      /\ p' = mine.x /\ twin' = Round(twin, s).x
      /\ pc' = IF mine.end = "ok" THEN "ready" ELSE mine.end
      /\ done' = done + 1
      /\ first' = IF done = 0 THEN s.decl ELSE first
      /\ UNCHANGED <<call, api, given, past>>

\* The program has ended or an error jumped here; define_exit frees the
\* parameter tuple of every define.
Return ==
  /\ pc \in {"ready", "error", "eval", "syntax"}
  /\ past' = past \cup {IF pc = "ready" THEN "ok" ELSE pc}
  /\ IF \A d \in p.defines : d.param
     THEN /\ p' = TakenDown(p, api = "zpl_read_with_args") /\ pc' = "idle"
          /\ twin' = Fresh(p.cform, p.count)
     ELSE pc' = "crash" /\ UNCHANGED <<p, twin>>
  /\ given' = {}
  /\ UNCHANGED <<call, api, done, first>>

Next ==
  \/ \E loads \in BOOLEAN :
        \/ Call("zpl_read", <<>>, loads)
        \/ \E opts \in Option : Call("zpl_read_with_args", opts, loads)
  \/ \E s \in Stmt : Statement(s)
  \/ Return

Spec == Init /\ [][Next]_vars
----------------------------------------------------------------------------
TypeOK ==
  /\ \A x \in {p, twin} :
        /\ x.cform \in {"CON_FORM_NAME", "CON_FORM_MAKE"} /\ x.count \in Nat
        /\ x.yydecl \in Decl \cup {"0"}
        /\ x.param_count \in Nat /\ x.param_table \subseteq Name
        /\ x.inppipe \in BOOLEAN /\ x.internals \in Nat /\ x.frames \subseteq {Index}
        /\ x.symbols \subseteq [name : Name, type : {"NUMB", "VAR"}, from : {"-D", "text"}]
        \* (Index: with yydecl of an earlier error, do print installs it)
        /\ x.defines \subseteq [name : Name \cup {Index}, param : BOOLEAN]
  /\ pc \in {"idle", "ready", "error", "eval", "syntax", "crash", "undefined"}
  /\ call \in 0 .. MaxCalls /\ done \in 0 .. MaxStmts
  /\ given \subseteq Name /\ first \in Decl \cup {"DO", None}
  /\ past \subseteq {"ok", "error", "eval", "syntax", "options", "usage"}

\* A call does what it would do as the first one, whatever the calls before
\* it read, printed or failed at: their symbols, defines, locals, internal
\* names, parameters and pipe are gone.  Only a call that ended early with -D
\* or -P spoils the next, and a syntax error one whose first statement
\* declares nothing (yydecl).  Names in format cm continue the numbering.
SameAsFirst ==
  "options" \notin past /\ ("syntax" \in past => first # "DO")
     => pc # "undefined" /\ p.out = twin.out

\* What -D defined in this call, and nothing of an earlier one, is known from
\* the command line, and no declaration of the program replaces or hides it.
CommandLineWins ==
  pc \in {"ready", "error", "eval", "syntax"} =>
     /\ {s.name : s \in {t \in p.symbols : t.from = "-D"}} = given
     /\ \A n \in given : Cardinality(Symbol(p, n)) = 1

\* A name is at most one thing, a symbol or a define: symbol_new and
\* define_new do not look, and lookups would find one of the two only.
OneMeaning ==
  \A n \in Name : /\ Cardinality(Symbol(p, n)) <= 1
                  /\ Cardinality({d \in p.defines : d.name = n}) <= 1
                  /\ Symbol(p, n) # {} => \A d \in p.defines : d.name # n
============================================================================
