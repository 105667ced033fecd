--------------------------- MODULE SessionProofs ---------------------------
(***************************************************************************)
(* A call of the library does what it would do as the first one: the       *)
(* static variables that survive a call are those of a fresh process, with *)
(* the exception of yydecl after a syntax error, which the keyword of a    *)
(* declaration overwrites.  Then the types of the state, the definitions   *)
(* of the command line and the one meaning of a name.                      *)
(***************************************************************************)
EXTENDS Session, FiniteSetTheorems, TLAPS

Fields == {"cform", "count", "yydecl", "param_count", "param_table", "inppipe",
           "symbols", "defines", "frames", "internals", "rows", "out"}

\* A value with the fields of a process; only that of yydecl is typed, as the
\* scanner branches on it.
Process(x) == x = [f \in Fields |-> x[f]] /\ x.yydecl \in Decl \cup {"0"}

\* The fields of x and y agree, but perhaps yydecl.
Agree(x, y) == \A f \in Fields \ {"yydecl"} : x[f] = y[f]

\* What only zpl_read_with_args sets is as in y.
SameArgs(x, y) == /\ x.param_count = y.param_count
                  /\ x.param_table = y.param_table
                  /\ x.inppipe = y.inppipe

Quiet == "options" \notin past

\* Between calls nothing is left but the settings, and yydecl after an error
\* in the syntax.
IdleInv ==
  pc = "idle" /\ Quiet =>
     /\ Agree(p, Fresh(p.cform, p.count))
     /\ twin.out = <<>>
     /\ "syntax" \notin past => p.yydecl = "0"

\* Within a call the two processes are the same, but perhaps for yydecl before
\* the first keyword; parameters and pipe belong to zpl_read_with_args.
RunningInv ==
  pc # "idle" /\ Quiet =>
     /\ pc # "undefined"
     /\ done = 0 \/ first # "DO" \/ "syntax" \notin past => Agree(p, twin)
     /\ "syntax" \notin past \/ (done # 0 /\ first # "DO") => p = twin
     /\ "syntax" \notin past /\ pc \in {"ready", "error", "eval"} => p.yydecl = "0"
     /\ api # "zpl_read_with_args" => SameArgs(p, Fresh(p.cform, p.count))

Inv == /\ Process(p) /\ Process(twin) /\ done \in Nat
       /\ IdleInv /\ RunningInv
----------------------------------------------------------------------------
\* Processes that agree, yydecl included, are equal.
LEMMA Equal ==
  ASSUME NEW x, NEW y, Process(x), Process(y), Agree(x, y), x.yydecl = y.yydecl
  PROVE  x = y
<1>1. \A f \in Fields : x[f] = y[f]
  BY DEF Agree
<1>2. [f \in Fields |-> x[f]] = [f \in Fields |-> y[f]]
  BY <1>1
<1> QED
  BY <1>2 DEF Process

\* A name that is scanned changes neither fields nor arguments, and yydecl is
\* used up unless it is an error.
LEMMA Scanned ==
  ASSUME NEW x, Process(x), NEW n
  PROVE  /\ Process(yylex(x, n).x) /\ SameArgs(yylex(x, n).x, x)
         /\ yylex(x, n).x.yydecl = "0" \/ yylex(x, n).token = "error"
<1> DEFINE r == yylex(x, n)
           plain == [x EXCEPT !.yydecl = "0"]
           entered == [plain EXCEPT !.defines = @ \cup {[name |-> n, param |-> FALSE]}]
<1>1. Process(plain) /\ SameArgs(plain, x) /\ plain.yydecl = "0"
  BY DEF Process, SameArgs, Fields, Decl
<1>2. Process(entered) /\ SameArgs(entered, x) /\ entered.yydecl = "0"
  BY DEF Process, SameArgs, Fields, Decl
<1>3. CASE x.yydecl = "DECLSUB"
  BY <1>1, <1>3 DEF yylex
<1>4. CASE x.yydecl \in {"DECLPAR", "DECLVAR", "DEFNUMB"} /\ InUse(x, n)
  <2>1. r = Taken(x)
    BY <1>4 DEF yylex
  <2> QED
    BY <1>1, <2>1 DEF Taken, SameArgs
<1>5. CASE x.yydecl = "DEFNUMB" /\ ~InUse(x, n)
  <2>1. r.x = entered
    BY <1>5 DEF yylex
  <2> QED
    BY <1>2, <2>1
<1>6. CASE x.yydecl \in {"DECLPAR", "DECLVAR"} /\ ~InUse(x, n)
  <2>1. r.x = plain
    BY <1>6 DEF yylex
  <2> QED
    BY <1>1, <2>1
<1>7. CASE x.yydecl = "0"
  <2>1. r.x = x
    BY <1>7 DEF yylex
  <2> QED
    BY <1>7, <2>1 DEF SameArgs
<1> QED
  BY <1>3, <1>4, <1>5, <1>6, <1>7 DEF Process, Decl

\* A parsed statement, too; only an error in the syntax may leave yydecl.
LEMMA Parsed ==
  ASSUME NEW x, Process(x), NEW s \in Stmt
  PROVE  LET r == stmt_parse(x, s)
         IN  /\ r.end \in {"syntax", "nop", "parsed"}
             /\ Process(r.x) /\ SameArgs(r.x, x)
             /\ x.yydecl = "0" /\ r.end # "syntax" => r.x.yydecl = "0"
<1> DEFINE keyword == IF s.decl = "DO" THEN x ELSE [x EXCEPT !.yydecl = s.decl]
           name == IF s.decl = "DO" THEN [x |-> keyword, token |-> "none"]
                   ELSE yylex(keyword, s.name)
           use  == IF s.use = None THEN [x |-> name.x, token |-> "none"]
                   ELSE yylex(name.x, s.use)
           r == stmt_parse(x, s)
<1>1. Process(keyword) /\ SameArgs(keyword, x) /\ (s.decl = "DO" => keyword = x)
  <2>1. CASE s.decl = "DO"
    BY <2>1 DEF SameArgs
  <2>2. CASE s.decl # "DO"
    <3>1. keyword = [x EXCEPT !.yydecl = s.decl] /\ s.decl \in Decl
      BY <2>2 DEF Stmt
    <3> HIDE DEF keyword
    <3> QED
      BY <2>2, <3>1 DEF Process, SameArgs, Fields
  <2> QED
    BY <2>1, <2>2
<1> HIDE DEF keyword
<1>2. /\ Process(name.x) /\ SameArgs(name.x, x)
      /\ x.yydecl = "0" => name.x.yydecl = "0" \/ name.token = "error"
  <2>1. CASE s.decl = "DO"
    BY <1>1, <2>1
  <2>2. CASE s.decl # "DO"
    <3>1. name = yylex(keyword, s.name)
      BY <2>2
    <3> HIDE DEF name
    <3> QED
      BY <1>1, <3>1, Scanned DEF SameArgs
  <2> QED
    BY <2>1, <2>2
<1> HIDE DEF name
<1>3. /\ Process(use.x) /\ SameArgs(use.x, x)
      /\ name.x.yydecl = "0" => use.x.yydecl = "0" \/ use.token = "error"
  <2>1. CASE s.use = None
    BY <1>2, <2>1
  <2>2. CASE s.use # None
    <3>1. use = yylex(name.x, s.use)
      BY <2>2
    <3> HIDE DEF use
    <3> QED
      BY <1>2, <3>1, Scanned DEF SameArgs
  <2> QED
    BY <2>1, <2>2
<1>4. use.token \in Admitted(s.decl) => use.token # "error"
  BY DEF Admitted
<1> HIDE DEF use
<1>5. s.fault \in {"none", "keyword", "name", "eval"}
  BY DEF Stmt
<1>6. CASE s.fault = "keyword"
  <2>1. r = [x |-> keyword, end |-> "syntax", token |-> "none"]
    BY <1>6 DEF stmt_parse, keyword
  <2> QED
    BY <2>1, <1>1
<1>7. CASE s.fault # "keyword" /\ name.token = "EOF"
  <2>1. r = [x |-> name.x, end |-> "nop", token |-> "none"]
    BY <1>7 DEF stmt_parse, name, keyword
  <2> QED
    BY <2>1, <1>2, <1>7
<1>8. CASE s.fault # "keyword" /\ (name.token = "error" \/ (s.fault = "name" /\ name.token # "EOF"))
  <2>1. r = [x |-> name.x, end |-> "syntax", token |-> "none"]
    BY <1>8 DEF stmt_parse, name, keyword
  <2> QED
    BY <2>1, <1>2
<1>9. CASE s.fault \in {"none", "eval"} /\ name.token \notin {"EOF", "error"}
  <2>1. r = IF use.token \in Admitted(s.decl)
            THEN [x |-> use.x, end |-> "parsed", token |-> use.token]
            ELSE [x |-> use.x, end |-> "syntax", token |-> "none"]
    BY <1>9 DEF stmt_parse, use, name, keyword
  <2> QED
    BY <2>1, <1>2, <1>3, <1>4, <1>9
<1> QED
  BY <1>5, <1>6, <1>7, <1>8, <1>9

\* Executing a statement does not touch the scanner or the arguments.
LEMMA Executed ==
  ASSUME NEW x, Process(x), NEW s \in Stmt, NEW token
  PROVE  LET r == stmt_execute(x, s, token)
         IN  /\ r.end \in {"ok", "eval"}
             /\ Process(r.x) /\ SameArgs(r.x, x) /\ r.x.yydecl = x.yydecl
<1> DEFINE r == stmt_execute(x, s, token)
<1>1. CASE Fails(x, s, token)
  <2>1. r.end = "eval" /\ (r.x = x \/ \E F, c : r.x = [x EXCEPT !.frames = F, !.count = c])
    BY <1>1 DEF stmt_execute
  <2>2. CASE r.x = x
    BY <2>1, <2>2 DEF SameArgs
  <2>3. CASE \E F, c : r.x = [x EXCEPT !.frames = F, !.count = c]
    BY <2>1, <2>3 DEF Process, SameArgs, Fields
  <2> QED
    BY <2>1, <2>2, <2>3
<1>2. CASE ~Fails(x, s, token)
  <2>0. s.decl \in Decl \cup {"DO"}
    BY DEF Stmt
  <2>1. r.end = "ok"
    BY <1>2 DEF stmt_execute
  <2>2. CASE s.decl \in {"DECLPAR", "DECLVAR"}
    <3>1. \E S, o : r.x = [x EXCEPT !.symbols = S, !.out = o]
      BY <1>2, <2>2 DEF stmt_execute, Shown
    <3> QED
      BY <2>1, <3>1 DEF Process, SameArgs, Fields
  <2>3. CASE s.decl = "DEFNUMB"
    <3>1. \E S : r.x = [x EXCEPT !.defines = S]
      BY <1>2, <2>3 DEF stmt_execute
    <3> QED
      BY <2>1, <3>1 DEF Process, SameArgs, Fields
  <2>4. CASE s.decl = "DECLSUB"
    <3>1. \E R, c, i, o : r.x = [x EXCEPT !.rows = R, !.count = c, !.internals = i, !.out = o]
      BY <1>2, <2>4 DEF stmt_execute, Shown
    <3> QED
      BY <2>1, <3>1 DEF Process, SameArgs, Fields
  <2>5. CASE s.decl = "DO"
    <3>1. \E o : r.x = [x EXCEPT !.out = o]
      BY <1>2, <2>5 DEF stmt_execute, Shown
    <3> QED
      BY <2>1, <3>1 DEF Process, SameArgs, Fields
  <2> QED
    BY <2>0, <2>2, <2>3, <2>4, <2>5 DEF Decl
<1> QED
  BY <1>1, <1>2

\* A round of the loop of prog_execute.
LEMMA RoundKeeps ==
  ASSUME NEW x, Process(x), NEW s \in Stmt
  PROVE  LET r == Round(x, s)
         IN  /\ r.end \in {"ok", "eval", "syntax"}
             /\ Process(r.x) /\ SameArgs(r.x, x)
             /\ x.yydecl = "0" /\ r.end # "syntax" => r.x.yydecl = "0"
<1> DEFINE parsed == stmt_parse(x, s)
           run    == IF parsed.end = "parsed" THEN stmt_execute(parsed.x, s, parsed.token)
                     ELSE [x |-> parsed.x, end |-> IF parsed.end = "nop" THEN "ok" ELSE "syntax"]
           shown  == [run EXCEPT !.x = Shown(run.x, <<"error", run.end>>)]
           r == Round(x, s)
<1>1. /\ parsed.end \in {"syntax", "nop", "parsed"}
      /\ Process(parsed.x) /\ SameArgs(parsed.x, x)
      /\ x.yydecl = "0" /\ parsed.end # "syntax" => parsed.x.yydecl = "0"
  BY Parsed
<1>2. /\ run.end \in {"ok", "eval", "syntax"}
      /\ Process(run.x) /\ SameArgs(run.x, x)
      /\ x.yydecl = "0" /\ run.end # "syntax" => run.x.yydecl = "0"
  <2>1. CASE parsed.end = "parsed"
    <3>1. run = stmt_execute(parsed.x, s, parsed.token)
      BY <2>1
    <3> HIDE DEF run, parsed
    <3>2. /\ run.end \in {"ok", "eval"}
          /\ Process(run.x) /\ SameArgs(run.x, parsed.x) /\ run.x.yydecl = parsed.x.yydecl
      BY <1>1, <3>1, Executed
    <3> QED
      BY <1>1, <2>1, <3>2 DEF SameArgs
  <2>2. CASE parsed.end # "parsed"
    <3>1. run = [x |-> parsed.x, end |-> IF parsed.end = "nop" THEN "ok" ELSE "syntax"]
      BY <2>2
    <3> HIDE DEF run, parsed
    <3> QED
      BY <1>1, <2>2, <3>1
  <2> QED
    BY <2>1, <2>2
<1>3. r = IF run.end = "ok" THEN run ELSE shown
  BY DEF Round
<1> HIDE DEF run, parsed
<1>4. CASE run.end = "ok"
  BY <1>2, <1>3, <1>4
<1>5. CASE run.end # "ok"
  <2>1. DOMAIN run = {"x", "end"}
    BY Executed DEF run, stmt_execute
  <2>2. r.end = run.end /\ r.x = [run.x EXCEPT !.out = Append(@, <<"error", run.end>>)]
    BY <1>3, <1>5, <2>1 DEF Shown
  <2> QED
    BY <1>2, <2>2 DEF Process, SameArgs, Fields
<1> QED
  BY <1>4, <1>5

\* A keyword makes processes equal that agree but for yydecl.
LEMMA Overwritten ==
  ASSUME NEW x, NEW y, Process(x), Process(y), Agree(x, y), NEW s \in Stmt, s.decl # "DO"
  PROVE  Round(x, s) = Round(y, s)
<1>1. [x EXCEPT !.yydecl = s.decl] = [y EXCEPT !.yydecl = s.decl]
  <2>1. Process([x EXCEPT !.yydecl = s.decl]) /\ Process([y EXCEPT !.yydecl = s.decl])
    BY DEF Process, Fields, Stmt
  <2>2. Agree([x EXCEPT !.yydecl = s.decl], [y EXCEPT !.yydecl = s.decl])
    BY DEF Agree, Process, Fields
  <2> QED
    BY <2>1, <2>2, Equal DEF Process, Fields
<1>2. stmt_parse(x, s) = stmt_parse(y, s)
  BY <1>1 DEF stmt_parse
<1> QED
  BY <1>2 DEF Round
----------------------------------------------------------------------------
\* The options of a call that ends early change nothing but the format, and
\* processes that agree still do when they are set up.
LEMMA Options ==
  ASSUME NEW x, Process(x), NEW opts
  PROVE  /\ Process(getopt(x, opts)) /\ getopt(x, opts).yydecl = x.yydecl
         /\ Agree(x, Fresh(x.cform, x.count)) /\ Given(opts, {"D", "P"}) = {}
            => LET y == [getopt(x, opts) EXCEPT !.param_table = {}]
               IN  Agree(y, Fresh(y.cform, y.count))
<1> DEFINE g == getopt(x, opts)
<1>1. Process(g) /\ g.yydecl = x.yydecl
  BY DEF getopt, Process, Fields
<1>2. ASSUME Agree(x, Fresh(x.cform, x.count)), Given(opts, {"D", "P"}) = {}
      PROVE  LET y == [g EXCEPT !.param_table = {}] IN Agree(y, Fresh(y.cform, y.count))
  <2>1. Given(opts, {"D"}) = {} /\ Given(opts, {"P"}) = {}
    BY <1>2 DEF Given
  <2>2. x.param_count = 0 /\ x.inppipe = FALSE /\ x.symbols = {} /\ x.defines = {}
        /\ x.frames = {} /\ x.internals = 0 /\ x.rows = {} /\ x.out = <<>>
    BY <1>2 DEF Agree, Fresh, Fields
  <2>3. g.param_count = 0
    <3>1. Cardinality(Given(opts, {"D"})) = 0
      BY <2>1, FS_EmptySet
    <3>2. g.param_count = x.param_count + Cardinality(Given(opts, {"D"}))
      BY DEF getopt, Process, Fields
    <3> QED
      BY <2>2, <3>1, <3>2
  <2>4. g.inppipe = FALSE
    BY <2>1, <2>2 DEF getopt, Process, Fields
  <2>5. g.symbols = {} /\ g.defines = {} /\ g.frames = {} /\ g.internals = 0
        /\ g.rows = {} /\ g.out = <<>>
    BY <2>2 DEF getopt, Process, Fields
  <2> HIDE DEF g
  <2> DEFINE y == [g EXCEPT !.param_table = {}]
  <2>6. /\ y.cform = g.cform /\ y.count = g.count
        /\ y.param_count = 0 /\ y.param_table = {} /\ y.inppipe = FALSE
        /\ y.symbols = {} /\ y.defines = {} /\ y.frames = {}
        /\ y.internals = 0 /\ y.rows = {} /\ y.out = <<>>
    BY <1>1, <2>3, <2>4, <2>5 DEF Process, Fields
  <2> HIDE DEF y
  <2>7. Agree(y, Fresh(y.cform, y.count))
    <3> DEFINE z == Fresh(y.cform, y.count)
    <3>1. /\ z.cform = y.cform /\ z.count = y.count
          /\ z.param_count = 0 /\ z.param_table = {} /\ z.inppipe = FALSE
          /\ z.symbols = {} /\ z.defines = {} /\ z.frames = {}
          /\ z.internals = 0 /\ z.rows = {} /\ z.out = <<>>
      BY DEF Fresh
    <3> HIDE DEF z
    <3>2. y.inppipe = z.inppipe
      BY <2>6, <3>1, Zenon
    <3>3. Agree(y, z)
      BY <2>6, <3>1, <3>2 DEF Agree, Fields
    <3> QED
      BY <3>3 DEF z
  <2> QED
    BY <2>7 DEF y, g
<1> QED
  BY <1>1, <1>2

\* Setting up a program.
LEMMA SetUp ==
  ASSUME NEW x, Process(x), NEW withargs \in BOOLEAN
  PROVE  /\ Process(Started(x, withargs)) /\ Started(x, withargs).yydecl = x.yydecl
         /\ SameArgs(Started(x, withargs), x)
<1>1. CASE withargs
  BY <1>1 DEF Started, Parameters, Shown, Process, SameArgs, Fields
<1>2. CASE ~withargs
  BY <1>2 DEF Started, Shown, Process, SameArgs, Fields
<1> QED
  BY <1>1, <1>2

LEMMA SetUpAgree ==
  ASSUME NEW x, NEW y, Process(x), Process(y), Agree(x, y), NEW opts
  PROVE  /\ Agree(Started(x, FALSE), Started(y, FALSE))
         /\ Agree(Started(getopt(x, opts), TRUE), Started(getopt(y, opts), TRUE))
<1>1. ASSUME NEW v, NEW w, Process(v), Process(w), Agree(v, w)
      PROVE  /\ Agree(Started(v, FALSE), Started(w, FALSE))
             /\ Agree(Started(v, TRUE), Started(w, TRUE))
  BY <1>1 DEF Started, Parameters, Shown, Agree, Process, Fields
<1>2. Process(getopt(x, opts)) /\ Process(getopt(y, opts))
  BY Options
<1>3. Agree(getopt(x, opts), getopt(y, opts))
  BY DEF getopt, Agree, Process, Fields
<1> QED
  BY <1>1, <1>2, <1>3
----------------------------------------------------------------------------
LEMMA Initially == Init => Inv
<1> SUFFICES ASSUME Init PROVE Inv
  OBVIOUS
<1>1. Process(p) /\ p = Fresh(p.cform, p.count)
  BY DEF Init, Fresh, Process, Fields
<1>2. p.out = <<>> /\ p.yydecl = "0"
  BY DEF Init, Fresh
<1>3. Agree(p, Fresh(p.cform, p.count))
  BY <1>1 DEF Agree
<1> QED
  BY <1>1, <1>2, <1>3 DEF Init, Inv, IdleInv, RunningInv

\* A call starts from what the last one left.
LEMMA CallKeeps ==
  ASSUME Inv, NEW f, NEW opts, NEW loads \in BOOLEAN, Call(f, opts, loads)
  PROVE  Inv'
<1> DEFINE fresh == Fresh(p.cform, p.count)
           args  == f = "zpl_read_with_args"
           mine  == IF args THEN getopt(p, opts) ELSE p
           other == IF args THEN getopt(fresh, opts) ELSE fresh
<1>1. Process(p) /\ Process(fresh) /\ fresh.yydecl = "0" /\ fresh.out = <<>>
  BY DEF Inv, Process, Fresh, Fields
<1>2. Process(mine) /\ Process(other) /\ mine.yydecl = p.yydecl /\ other.yydecl = "0"
  BY <1>1, Options
<1>3. Quiet => /\ Agree(p, fresh) /\ ("syntax" \notin past => p.yydecl = "0")
  BY DEF Call, Inv, IdleInv
<1>4. CASE Before(opts) # DOMAIN opts
  <2>1. /\ p' = [mine EXCEPT !.param_table = {}] /\ twin' = fresh /\ pc' = "idle" /\ done' = 0
        /\ past' = past \cup {IF Given(opts, {"D", "P"}) # {} THEN "options" ELSE "usage"}
    BY <1>4 DEF Call
  <2>2. Process(p') /\ Process(twin') /\ p'.yydecl = p.yydecl
    BY <1>1, <1>2, <2>1 DEF Process, Fields
  <2>3. ASSUME Quiet' PROVE IdleInv'
    <3>1. Quiet /\ Given(opts, {"D", "P"}) = {} /\ ("syntax" \in past' <=> "syntax" \in past)
      BY <2>1, <2>3 DEF Quiet
    <3>2. Agree(p', Fresh(p'.cform, p'.count))
      <4>1. CASE args
        BY <1>1, <1>3, <2>1, <3>1, <4>1, Options
      <4>2. CASE ~args
        <5>1. p' = [p EXCEPT !.param_table = {}]
          BY <2>1, <4>2
        <5> QED
          BY <1>1, <1>3, <3>1, <5>1 DEF Agree, Fresh, Fields, Process
      <4> QED
        BY <4>1, <4>2
    <3> QED
      BY <1>1, <1>3, <2>1, <2>2, <3>1, <3>2 DEF IdleInv
  <2> QED
    BY <2>1, <2>2, <2>3 DEF Inv, IdleInv, RunningInv
<1>5. CASE Before(opts) = DOMAIN opts
  <2>1. /\ p' = Started(mine, args) /\ twin' = Started(other, args)
        /\ pc' = IF args /\ p.param_count # 0 THEN "undefined"
                 ELSE IF loads THEN "ready" ELSE "error"
        /\ past' = past /\ done' = 0 /\ api' = f
    BY <1>5 DEF Call
  <2> HIDE DEF mine, other
  <2>2. /\ Process(p') /\ Process(twin') /\ p'.yydecl = p.yydecl /\ twin'.yydecl = "0"
        /\ SameArgs(p', mine)
    BY <1>2, <2>1, SetUp
  <2>3. ASSUME Quiet PROVE RunningInv'
    <3>1. Agree(p', twin')
      <4>1. CASE args
        BY <1>1, <1>3, <2>1, <2>3, <4>1, SetUpAgree DEF mine, other
      <4>2. CASE ~args
        BY <1>1, <1>3, <2>1, <2>3, <4>2, SetUpAgree DEF mine, other
      <4> QED
        BY <4>1, <4>2
    <3>2. "syntax" \notin past => p' = twin'
      BY <1>3, <2>2, <2>3, <3>1, Equal
    <3>3. p.param_count = 0
      BY <1>3, <2>3 DEF Agree, Fresh, Fields
    <3>4. ~args => SameArgs(p', Fresh(p'.cform, p'.count))
      <4>1. ~args => SameArgs(p', p)
        BY <2>2 DEF mine
      <4>2. SameArgs(p, fresh)
        BY <1>3, <2>3 DEF Agree, SameArgs, Fields
      <4> QED
        BY <4>1, <4>2 DEF SameArgs, Fresh
    <3> QED
      BY <1>3, <2>1, <2>2, <2>3, <3>1, <3>2, <3>3, <3>4 DEF RunningInv
  <2>4. pc' # "idle"
    BY <2>1
  <2> QED
    BY <2>1, <2>2, <2>3, <2>4 DEF Inv, IdleInv, RunningInv, Quiet
<1> QED
  BY <1>4, <1>5
\* A statement: processes that differ only in yydecl are the same from the
\* first keyword on.
LEMMA StatementKeeps ==
  ASSUME Inv, NEW s \in Stmt, Statement(s)
  PROVE  Inv'
<1> DEFINE mine == Round(p, s)
           other == Round(twin, s)
<1>1. /\ pc = "ready" /\ p' = mine.x /\ twin' = other.x
      /\ pc' = IF mine.end = "ok" THEN "ready" ELSE mine.end
      /\ done' = done + 1 /\ first' = IF done = 0 THEN s.decl ELSE first
      /\ api' = api /\ past' = past
  BY DEF Statement
<1>2. /\ Process(p) /\ Process(twin) /\ done \in Nat /\ RunningInv
  BY DEF Inv
<1>3. /\ mine.end \in {"ok", "eval", "syntax"}
      /\ Process(p') /\ SameArgs(p', p) /\ Process(twin')
      /\ p.yydecl = "0" /\ mine.end # "syntax" => p'.yydecl = "0"
  BY <1>1, <1>2, RoundKeeps
<1>4. p = twin => p' = twin'
  BY <1>1
<1>5. done = 0 /\ Agree(p, twin) /\ s.decl # "DO" => p' = twin'
  BY <1>1, <1>2, Overwritten
<1>6. p' = twin' => Agree(p', twin')
  BY DEF Agree
<1>7. done' \in Nat /\ done' # 0 /\ pc' \in {"ready", "eval", "syntax"}
  BY <1>1, <1>2, <1>3
<1> HIDE DEF mine, other
<1>8. ASSUME Quiet PROVE RunningInv'
  <2>1. /\ done = 0 \/ first # "DO" \/ "syntax" \notin past => Agree(p, twin)
        /\ "syntax" \notin past \/ (done # 0 /\ first # "DO") => p = twin
        /\ "syntax" \notin past => p.yydecl = "0"
        /\ api # "zpl_read_with_args" => SameArgs(p, Fresh(p.cform, p.count))
    BY <1>1, <1>2, <1>8 DEF RunningInv
  <2>2. "syntax" \notin past' \/ (done' # 0 /\ first' # "DO") => p' = twin'
    <3>1. CASE "syntax" \notin past
      BY <1>4, <2>1, <3>1
    <3>2. CASE done # 0
      BY <1>1, <1>4, <2>1, <3>2
    <3>3. CASE "syntax" \in past /\ done = 0
      BY <1>1, <1>5, <2>1, <3>3
    <3> QED
      BY <3>1, <3>2, <3>3
  <2>3. api' # "zpl_read_with_args" => SameArgs(p', Fresh(p'.cform, p'.count))
    BY <1>1, <1>3, <2>1 DEF SameArgs, Fresh
  <2>4. "syntax" \notin past' /\ pc' \in {"ready", "error", "eval"} => p'.yydecl = "0"
    BY <1>1, <1>3, <2>1
  <2> QED
    BY <1>6, <1>7, <2>2, <2>3, <2>4 DEF RunningInv
<1> QED
  BY <1>1, <1>3, <1>7, <1>8 DEF Inv, IdleInv, RunningInv, Quiet

\* The end of a call takes everything down.
LEMMA ReturnKeeps ==
  ASSUME Inv, Return
  PROVE  Inv'
<1>1. /\ pc \in {"ready", "error", "eval", "syntax"} /\ done' = done /\ first' = first /\ api' = api
      /\ past' = past \cup {IF pc = "ready" THEN "ok" ELSE pc}
  BY DEF Return
<1>2. Process(p) /\ Process(twin) /\ done \in Nat /\ RunningInv
  BY DEF Inv
<1>3. Quiet' => Quiet
  BY <1>1 DEF Quiet
<1>4. CASE pc' = "idle"
  <2>1. p' = TakenDown(p, api = "zpl_read_with_args") /\ twin' = Fresh(p.cform, p.count)
    BY <1>4 DEF Return
  <2>2. /\ Process(p') /\ p'.yydecl = p.yydecl
        /\ p'.symbols = {} /\ p'.defines = {} /\ p'.frames = {} /\ p'.internals = 0
        /\ p'.rows = {} /\ p'.out = <<>>
    <3>1. CASE api = "zpl_read_with_args"
      BY <1>2, <2>1, <3>1 DEF TakenDown, args_free, xlp_free, local_exit, interns_exit,
                              symbol_exit, define_exit, Process, Fields
    <3>2. CASE api # "zpl_read_with_args"
      BY <1>2, <2>1, <3>2 DEF TakenDown, xlp_free, local_exit, interns_exit,
                              symbol_exit, define_exit, Process, Fields
    <3> QED
      BY <3>1, <3>2
  <2>3. ASSUME Quiet' PROVE SameArgs(p', Fresh(p'.cform, p'.count))
    <3>1. CASE api = "zpl_read_with_args"
      BY <1>2, <2>1, <3>1 DEF TakenDown, args_free, xlp_free, local_exit, interns_exit,
                              symbol_exit, define_exit, Process, Fields, SameArgs, Fresh
    <3>2. CASE api # "zpl_read_with_args"
      <4>1. SameArgs(p', p)
        BY <1>2, <2>1, <3>2 DEF TakenDown, xlp_free, local_exit, interns_exit,
                                symbol_exit, define_exit, Process, Fields, SameArgs
      <4>2. SameArgs(p, Fresh(p.cform, p.count))
        BY <1>1, <1>2, <1>3, <2>3, <3>2 DEF RunningInv
      <4> QED
        BY <4>1, <4>2 DEF SameArgs, Fresh
    <3> QED
      BY <3>1, <3>2
  <2>4. Quiet' => Agree(p', Fresh(p'.cform, p'.count))
    <3> DEFINE z == Fresh(p'.cform, p'.count)
    <3>1. /\ z.cform = p'.cform /\ z.count = p'.count
          /\ z.symbols = {} /\ z.defines = {} /\ z.frames = {} /\ z.internals = 0
          /\ z.rows = {} /\ z.out = <<>>
      BY DEF Fresh
    <3> HIDE DEF z
    <3>2. SameArgs(p', z) => Agree(p', z)
      BY <2>2, <3>1 DEF SameArgs, Agree, Fields
    <3> QED
      BY <2>3, <3>2 DEF z
  <2>5. Quiet' /\ "syntax" \notin past' => p'.yydecl = "0"
    BY <1>1, <1>2, <1>3, <2>2 DEF RunningInv
  <2>6. Process(twin') /\ twin'.out = <<>>
    BY <2>1 DEF Fresh, Process, Fields
  <2> QED
    BY <1>1, <1>2, <1>4, <2>2, <2>4, <2>5, <2>6 DEF Inv, IdleInv, RunningInv
<1>5. CASE pc' = "crash"
  <2>1. p' = p /\ twin' = twin
    BY <1>5 DEF Return
  <2> QED
    BY <1>1, <1>2, <1>3, <1>5, <2>1 DEF Inv, IdleInv, RunningInv, Agree, SameArgs
<1> QED
  BY <1>4, <1>5 DEF Return

\* However many calls are made before, with whatever options, programs and
\* errors: a call prints, declares and stores what it would as the first one.
\* Only a call that ended early with -D or -P, and a syntax error before a
\* program that begins with do, are excepted (see SameAsFirst).
THEOREM CallsAreIndependent == Spec => []SameAsFirst
<1>1. Init => Inv
  BY Initially
<1>2. Inv /\ [Next]_vars => Inv'
  <2> SUFFICES ASSUME Inv, [Next]_vars PROVE Inv'
    OBVIOUS
  <2>1. CASE Next
    <3>1. ASSUME NEW loads \in BOOLEAN, Call("zpl_read", <<>>, loads) PROVE Inv'
      BY <3>1, CallKeeps
    <3>2. ASSUME NEW loads \in BOOLEAN, NEW opts \in Option,
                 Call("zpl_read_with_args", opts, loads)
          PROVE Inv'
      BY <3>2, CallKeeps
    <3>3. ASSUME NEW s \in Stmt, Statement(s) PROVE Inv'
      BY <3>3, StatementKeeps
    <3> QED
      BY <2>1, <3>1, <3>2, <3>3, ReturnKeeps DEF Next
  <2>2. CASE UNCHANGED vars
    <3>1. /\ p' = p /\ twin' = twin /\ pc' = pc /\ api' = api /\ done' = done
          /\ first' = first /\ past' = past
      BY <2>2 DEF vars
    <3>2. Process(p') /\ Process(twin') /\ done' \in Nat /\ (Quiet' <=> Quiet)
      BY <3>1 DEF Inv, Quiet
    <3>3. IdleInv'
      BY <3>1, <3>2 DEF Inv, IdleInv
    <3>4. RunningInv'
      BY <3>1, <3>2 DEF Inv, RunningInv
    <3> QED
      BY <3>2, <3>3, <3>4 DEF Inv
  <2> QED
    BY <2>1, <2>2
<1>3. Inv => SameAsFirst
  <2> SUFFICES ASSUME Inv, Quiet, "syntax" \in past => first # "DO"
               PROVE  pc # "undefined" /\ p.out = twin.out
    BY DEF SameAsFirst, Quiet
  <2>1. CASE pc = "idle"
    <3>1. p.out = <<>>
      BY <2>1 DEF Inv, IdleInv, Agree, Fresh, Fields
    <3> QED
      BY <2>1, <3>1 DEF Inv, IdleInv
  <2>2. CASE pc # "idle"
    <3>1. pc # "undefined" /\ Agree(p, twin)
      BY <2>2 DEF Inv, RunningInv
    <3> QED
      BY <3>1 DEF Agree, Fields
  <2> QED
    BY <2>1, <2>2
<1> QED
  BY <1>1, <1>2, <1>3, PTL DEF Spec
----------------------------------------------------------------------------
(* The names of a process: what a call declares, and where it is from.     *)

\* The types of the static variables.
Typed(x) ==
  /\ Process(x)
  /\ x.cform \in {"CON_FORM_NAME", "CON_FORM_MAKE"} /\ x.count \in Nat
  /\ x.param_count \in Nat /\ x.param_table \subseteq Name
  /\ x.inppipe \in BOOLEAN /\ x.internals \in Nat /\ x.frames \subseteq {Index}
  /\ x.symbols \subseteq [name : Name, type : {"NUMB", "VAR"}, from : {"-D", "text"}]
  /\ x.defines \subseteq [name : Name \cup {Index}, param : BOOLEAN]

\* No name stands for two things.
Unique(x) ==
  /\ \A s, t \in x.symbols : s.name = t.name => s = t
  /\ \A d, e \in x.defines : d.name = e.name => d = e
  /\ \A s \in x.symbols, d \in x.defines : s.name # d.name

FromD(x) == {s.name : s \in {t \in x.symbols : t.from = "-D"}}

\* Outside of a call no name is known, and within one those of -D are the
\* given ones, whatever the earlier calls left behind.
NamesInv ==
  /\ Typed(p) /\ Typed(twin) /\ Unique(p)
  /\ pc = "idle" => p.symbols = {} /\ p.defines = {}
  /\ pc \in {"ready", "error", "eval", "syntax"} => FromD(p) = given
  /\ pc \in {"idle", "ready", "error", "eval", "syntax", "crash", "undefined"}
  /\ call \in 0 .. MaxCalls /\ done \in 0 .. MaxStmts
  /\ given \subseteq Name /\ first \in Decl \cup {"DO", None}
  /\ past \subseteq {"ok", "error", "eval", "syntax", "options", "usage"}

\* A name that is scanned is entered only where it is not in use yet, and as a
\* define only.
LEMMA ScannedNames ==
  ASSUME NEW x, Typed(x), Unique(x), NEW n \in Name \cup {Index}
  PROVE  LET r == yylex(x, n)
         IN  /\ Typed(r.x) /\ Unique(r.x) /\ r.x.symbols = x.symbols
             /\ x.yydecl # "DEFNUMB" => r.x.defines = x.defines
             /\ x.yydecl \in {"DECLPAR", "DECLVAR"} /\ r.token \notin {"EOF", "error"}
                => ~InUse(x, n)
             /\ x.yydecl = "DEFNUMB" /\ r.token \notin {"EOF", "error"}
                => [name |-> n, param |-> FALSE] \in r.x.defines
<1> DEFINE r == yylex(x, n)
           plain == [x EXCEPT !.yydecl = "0"]
           entered == [plain EXCEPT !.defines = @ \cup {[name |-> n, param |-> FALSE]}]
<1>1. /\ Typed(plain) /\ Unique(plain)
      /\ plain.symbols = x.symbols /\ plain.defines = x.defines
  BY DEF Typed, Unique, Process, Fields
<1>2. ASSUME ~InUse(x, n)
      PROVE  /\ Typed(entered) /\ Unique(entered)
             /\ entered.symbols = x.symbols
             /\ entered.defines = x.defines \cup {[name |-> n, param |-> FALSE]}
  <2>1. /\ Process(entered) /\ entered.symbols = x.symbols
        /\ entered.defines = x.defines \cup {[name |-> n, param |-> FALSE]}
    BY DEF Typed, Process, Fields
  <2>2. [name |-> n, param |-> FALSE] \in [name : Name \cup {Index}, param : BOOLEAN]
    OBVIOUS
  <2>3. Typed(entered)
    <3>1. entered.defines \subseteq [name : Name \cup {Index}, param : BOOLEAN]
      BY <2>1, <2>2 DEF Typed
    <3>2. /\ entered.cform = x.cform /\ entered.count = x.count
          /\ entered.param_count = x.param_count /\ entered.param_table = x.param_table
          /\ entered.inppipe = x.inppipe /\ entered.internals = x.internals
          /\ entered.frames = x.frames
      BY DEF Typed, Process, Fields
    <3> HIDE DEF entered
    <3> QED
      BY <2>1, <3>1, <3>2 DEF Typed
  <2>4. Unique(entered)
    <3>1. \A s \in x.symbols : s.name # n
      BY <1>2 DEF InUse, Symbol
    <3>2. \A d \in x.defines : d.name # n
      BY <1>2 DEF InUse
    <3> DEFINE new == [name |-> n, param |-> FALSE]
    <3>3. new.name = n
      OBVIOUS
    <3> HIDE DEF entered, new
    <3>4. entered.symbols = x.symbols /\ entered.defines = x.defines \cup {new}
      BY <2>1 DEF new
    <3>5. \A d, e \in x.defines \cup {new} : d.name = e.name => d = e
      BY <3>2, <3>3 DEF Unique
    <3>6. \A s \in x.symbols, d \in x.defines \cup {new} : s.name # d.name
      BY <3>1, <3>3 DEF Unique
    <3> QED
      BY <3>4, <3>5, <3>6 DEF Unique
  <2> QED
    BY <2>1, <2>3, <2>4
<1>3. CASE x.yydecl = "DECLSUB"
  BY <1>1, <1>3 DEF yylex
<1>4. CASE x.yydecl \in {"DECLPAR", "DECLVAR", "DEFNUMB"} /\ InUse(x, n)
  <2>1. r = Taken(x)
    BY <1>4 DEF yylex
  <2> QED
    BY <1>1, <2>1 DEF Taken
<1>5. CASE x.yydecl = "DEFNUMB" /\ ~InUse(x, n)
  <2>1. r.x = entered
    BY <1>5 DEF yylex
  <2> HIDE DEF entered, r
  <2> QED
    BY <1>2, <1>5, <2>1 DEF r
<1>6. CASE x.yydecl \in {"DECLPAR", "DECLVAR"} /\ ~InUse(x, n)
  <2>1. r.x = plain
    BY <1>6 DEF yylex
  <2> QED
    BY <1>1, <1>6, <2>1
<1>7. CASE x.yydecl = "0"
  <2>1. r.x = x
    BY <1>7 DEF yylex
  <2> QED
    BY <1>7, <2>1
<1> QED
  BY <1>3, <1>4, <1>5, <1>6, <1>7 DEF Typed, Process, Decl

\* What a statement declares is a new name when the statement is parsed.
LEMMA ParsedNames ==
  ASSUME NEW x, Typed(x), Unique(x), NEW s \in Stmt
  PROVE  LET r == stmt_parse(x, s)
         IN  /\ Typed(r.x) /\ Unique(r.x) /\ r.x.symbols = x.symbols
             /\ r.end = "parsed" /\ s.decl \in {"DECLPAR", "DECLVAR"} => ~InUse(r.x, s.name)
             /\ r.end = "parsed" /\ s.decl = "DEFNUMB"
                => [name |-> s.name, param |-> FALSE] \in r.x.defines
<1> DEFINE keyword == IF s.decl = "DO" THEN x ELSE [x EXCEPT !.yydecl = s.decl]
           name == IF s.decl = "DO" THEN [x |-> keyword, token |-> "none"]
                   ELSE yylex(keyword, s.name)
           use  == IF s.use = None THEN [x |-> name.x, token |-> "none"]
                   ELSE yylex(name.x, s.use)
           r == stmt_parse(x, s)
<1>0. /\ s.decl \in Decl \cup {"DO"} /\ s.fault \in {"none", "keyword", "name", "eval"}
      /\ s.decl # "DO" => s.name \in Name /\ s.name \in Name \cup {Index}
      /\ s.use # None => s.use \in Name \cup {Index}
      /\ s.decl = "DEFNUMB" => s.use = None
  BY DEF Stmt
<1>1. /\ Typed(keyword) /\ Unique(keyword) /\ Process(keyword)
      /\ keyword.symbols = x.symbols /\ keyword.defines = x.defines
      /\ s.decl # "DO" => keyword.yydecl = s.decl
  <2>1. CASE s.decl = "DO"
    BY <2>1 DEF Typed
  <2>2. CASE s.decl # "DO"
    <3>1. keyword = [x EXCEPT !.yydecl = s.decl] /\ s.decl \in Decl
      BY <1>0, <2>2
    <3> HIDE DEF keyword
    <3> QED
      BY <2>2, <3>1 DEF Typed, Unique, Process, Fields
  <2> QED
    BY <2>1, <2>2
<1> HIDE DEF keyword
<1>2. /\ Typed(name.x) /\ Unique(name.x) /\ name.x.symbols = x.symbols /\ Process(name.x)
      /\ s.decl \in {"DECLPAR", "DECLVAR"} /\ name.token \notin {"EOF", "error"}
         => ~InUse(name.x, s.name) /\ name.x.yydecl = "0"
      /\ s.decl = "DEFNUMB" /\ name.token \notin {"EOF", "error"}
         => [name |-> s.name, param |-> FALSE] \in name.x.defines
  <2>1. CASE s.decl = "DO"
    BY <1>1, <2>1
  <2>2. CASE s.decl # "DO"
    <3>1. name = yylex(keyword, s.name)
      BY <2>2
    <3> HIDE DEF name
    <3>2. /\ Typed(name.x) /\ Unique(name.x) /\ name.x.symbols = keyword.symbols
          /\ keyword.yydecl # "DEFNUMB" => name.x.defines = keyword.defines
          /\ keyword.yydecl \in {"DECLPAR", "DECLVAR"} /\ name.token \notin {"EOF", "error"}
             => ~InUse(keyword, s.name)
          /\ keyword.yydecl = "DEFNUMB" /\ name.token \notin {"EOF", "error"}
             => [name |-> s.name, param |-> FALSE] \in name.x.defines
      BY <1>0, <1>1, <2>2, <3>1, ScannedNames
    <3>3. name.x.yydecl = "0" \/ name.token = "error"
      BY <1>1, <3>1, Scanned
    <3> QED
      BY <1>1, <2>2, <3>2, <3>3 DEF Typed, InUse, Symbol
  <2> QED
    BY <2>1, <2>2
<1> HIDE DEF name
<1>3. /\ Typed(use.x) /\ Unique(use.x) /\ use.x.symbols = x.symbols
      /\ name.x.yydecl = "0" => use.x.defines = name.x.defines
      /\ s.use = None => use.x = name.x
  <2>1. CASE s.use = None
    BY <1>2, <2>1
  <2>2. CASE s.use # None
    <3>1. use = yylex(name.x, s.use)
      BY <2>2
    <3> HIDE DEF use
    <3> QED
      BY <1>0, <1>2, <2>2, <3>1, ScannedNames
  <2> QED
    BY <2>1, <2>2
<1> HIDE DEF use
<1>6. CASE s.fault = "keyword"
  <2>1. r = [x |-> keyword, end |-> "syntax", token |-> "none"]
    BY <1>6 DEF stmt_parse, keyword
  <2> QED
    BY <2>1, <1>1
<1>7. CASE s.fault # "keyword" /\ name.token = "EOF"
  <2>1. r = [x |-> name.x, end |-> "nop", token |-> "none"]
    BY <1>7 DEF stmt_parse, name, keyword
  <2> QED
    BY <2>1, <1>2, <1>7
<1>8. CASE s.fault # "keyword" /\ (name.token = "error" \/ (s.fault = "name" /\ name.token # "EOF"))
  <2>1. r = [x |-> name.x, end |-> "syntax", token |-> "none"]
    BY <1>8 DEF stmt_parse, name, keyword
  <2> QED
    BY <2>1, <1>2
<1>9. CASE s.fault \in {"none", "eval"} /\ name.token \notin {"EOF", "error"}
  <2>1. r.x = use.x
    BY <1>9 DEF stmt_parse, use, name, keyword
  <2> HIDE DEF r
  <2>2. s.decl \in {"DECLPAR", "DECLVAR"} => ~InUse(use.x, s.name)
    BY <1>2, <1>3, <1>9 DEF InUse, Symbol
  <2>3. s.decl = "DEFNUMB" => [name |-> s.name, param |-> FALSE] \in use.x.defines
    BY <1>0, <1>2, <1>3, <1>9
  <2>4. /\ Typed(r.x) /\ Unique(r.x) /\ r.x.symbols = x.symbols
        /\ s.decl \in {"DECLPAR", "DECLVAR"} => ~InUse(r.x, s.name)
        /\ s.decl = "DEFNUMB" => [name |-> s.name, param |-> FALSE] \in r.x.defines
    BY <2>1, <2>2, <2>3, <1>3
  <2> QED
    BY <2>4 DEF r
<1> QED
  BY <1>0, <1>6, <1>7, <1>8, <1>9

\* A statement that is executed adds the name it declares, and none with -D.
LEMMA ExecutedNames ==
  ASSUME NEW x, Typed(x), Unique(x), NEW s \in Stmt, NEW token,
         s.decl \in {"DECLPAR", "DECLVAR"} => ~InUse(x, s.name),
         s.decl = "DEFNUMB" => [name |-> s.name, param |-> FALSE] \in x.defines
  PROVE  LET r == stmt_execute(x, s, token)
         IN  Typed(r.x) /\ Unique(r.x) /\ FromD(r.x) = FromD(x)
<1> DEFINE r == stmt_execute(x, s, token)
<1>0. /\ s.decl \in Decl \cup {"DO"}
      /\ s.decl # "DO" => s.name \in Name
  BY DEF Stmt
<1>1. CASE Fails(x, s, token)
  <2>1. r.x = x \/ \E F \in SUBSET {Index}, c \in Nat : r.x = [x EXCEPT !.frames = F, !.count = c]
    <3>1. x.frames \subseteq {Index} /\ x.count \in Nat
      BY DEF Typed
    <3>2. CASE s.decl # "DECLSUB"
      BY <1>1, <3>2 DEF stmt_execute
    <3>3. CASE s.decl = "DECLSUB"
      <4> DEFINE F == IF Duplicate(x, s) THEN x.frames ELSE x.frames \cup {Index}
                 c == IF x.cform = "CON_FORM_NAME" THEN 1 ELSE x.count
      <4>1. r.x = [x EXCEPT !.frames = F, !.count = c]
        BY <1>1, <3>3 DEF stmt_execute
      <4>2. F \in SUBSET {Index} /\ c \in Nat
        BY <3>1
      <4> HIDE DEF F, c
      <4> QED
        BY <4>1, <4>2
    <3> QED
      BY <3>2, <3>3
  <2>2. CASE r.x = x
    BY <2>2
  <2>3. CASE \E F \in SUBSET {Index}, c \in Nat : r.x = [x EXCEPT !.frames = F, !.count = c]
    BY <2>3 DEF Process, Typed, Unique, FromD, Fields
  <2> QED
    BY <2>1, <2>2, <2>3
<1>2. CASE ~Fails(x, s, token)
  <2>2. CASE s.decl \in {"DECLPAR", "DECLVAR"}
    <3>0. PICK type \in {"NUMB", "VAR"} : \E o :
             r.x = [x EXCEPT !.symbols = @ \cup {[name |-> s.name, type |-> type,
                                                  from |-> "text"]},
                             !.out = o]
      BY <1>2, <2>2 DEF stmt_execute, Shown
    <3>1. PICK o : r.x = [x EXCEPT !.symbols = @ \cup {[name |-> s.name, type |-> type,
                                                         from |-> "text"]},
                                   !.out = o]
      BY <3>0
    <3> DEFINE new == [name |-> s.name, type |-> type, from |-> "text"]
    <3>2. /\ new.name = s.name /\ new.from # "-D"
          /\ new \in [name : Name, type : {"NUMB", "VAR"}, from : {"-D", "text"}]
      BY <1>0, <2>2
    <3>3. r.x = [x EXCEPT !.symbols = @ \cup {new}, !.out = o]
      BY <3>1
    <3> HIDE DEF new, r
    <3>4. r.x.symbols = x.symbols \cup {new} /\ r.x.defines = x.defines
      BY <3>3 DEF Typed, Process, Fields
    <3>5. Typed(r.x)
      <4>1. r.x.symbols \subseteq [name : Name, type : {"NUMB", "VAR"}, from : {"-D", "text"}]
        BY <3>2, <3>4 DEF Typed
      <4>2. /\ Process(r.x) /\ r.x.cform = x.cform /\ r.x.count = x.count
            /\ r.x.param_count = x.param_count /\ r.x.param_table = x.param_table
            /\ r.x.inppipe = x.inppipe /\ r.x.internals = x.internals
            /\ r.x.frames = x.frames
        BY <3>3 DEF Typed, Process, Fields
      <4> QED
        BY <3>4, <4>1, <4>2 DEF Typed
    <3>6. Unique(r.x)
      <4>1. (\A t \in x.symbols : t.name # s.name) /\ (\A d \in x.defines : d.name # s.name)
        BY <2>2 DEF InUse, Symbol
      <4>2. \A t, u \in x.symbols \cup {new} : t.name = u.name => t = u
        BY <3>2, <4>1 DEF Unique
      <4>3. \A t \in x.symbols \cup {new}, d \in x.defines : t.name # d.name
        BY <3>2, <4>1 DEF Unique
      <4> QED
        BY <3>4, <4>2, <4>3 DEF Unique
    <3>7. FromD(r.x) = FromD(x)
      <4>1. {t \in x.symbols \cup {new} : t.from = "-D"} = {t \in x.symbols : t.from = "-D"}
        BY <3>2
      <4> QED
        BY <3>4, <4>1 DEF FromD
    <3> QED
      BY <3>5, <3>6, <3>7 DEF r
  <2>3. CASE s.decl = "DEFNUMB"
    <3> DEFINE old == [name |-> s.name, param |-> FALSE]
               new == [name |-> s.name, param |-> TRUE]
    <3>1. r.x = [x EXCEPT !.defines = (@ \ {old}) \cup {new}]
      BY <1>2, <2>3 DEF stmt_execute
    <3>2. /\ old.name = s.name /\ new.name = s.name /\ old \in x.defines
          /\ new \in [name : Name \cup {Index}, param : BOOLEAN]
      BY <1>0, <2>3
    <3> HIDE DEF old, new, r
    <3>3. r.x.symbols = x.symbols /\ r.x.defines = (x.defines \ {old}) \cup {new}
      BY <3>1 DEF Typed, Process, Fields
    <3>4. Typed(r.x)
      <4>1. r.x.defines \subseteq [name : Name \cup {Index}, param : BOOLEAN]
        BY <3>2, <3>3 DEF Typed
      <4>2. /\ Process(r.x) /\ r.x.cform = x.cform /\ r.x.count = x.count
            /\ r.x.param_count = x.param_count /\ r.x.param_table = x.param_table
            /\ r.x.inppipe = x.inppipe /\ r.x.internals = x.internals
            /\ r.x.frames = x.frames
        BY <3>1 DEF Typed, Process, Fields
      <4> QED
        BY <3>3, <4>1, <4>2 DEF Typed
    <3>5. Unique(r.x)
      <4>1. \A d \in x.defines \ {old} : d.name # s.name
        BY <3>2 DEF Unique
      <4>2. \A t \in x.symbols : t.name # s.name
        BY <3>2 DEF Unique
      <4>3. \A d, e \in (x.defines \ {old}) \cup {new} : d.name = e.name => d = e
        BY <3>2, <4>1 DEF Unique
      <4>4. \A t \in x.symbols, d \in (x.defines \ {old}) \cup {new} : t.name # d.name
        BY <3>2, <4>2 DEF Unique
      <4> QED
        BY <3>3, <4>3, <4>4 DEF Unique
    <3> QED
      BY <3>3, <3>4, <3>5 DEF r, FromD
  <2>4. CASE s.decl = "DECLSUB"
    <3> DEFINE R == x.rows \cup {RowName(x, s.name)}
               c == IF x.cform = "CON_FORM_NAME" THEN 2 ELSE x.count + 1
               i == x.internals + 1
               o == Append(x.out, <<"row", RowName(x, s.name), x.internals>>)
    <3>1. r.x = [x EXCEPT !.rows = R, !.count = c, !.internals = i, !.out = o]
      BY <1>2, <2>4 DEF stmt_execute, Shown, Typed, Process, Fields
    <3>2. c \in Nat /\ i \in Nat
      BY DEF Typed
    <3> HIDE DEF R, c, i, o, r
    <3>3. Typed(r.x) /\ Unique(r.x) /\ FromD(r.x) = FromD(x)
      BY <3>1, <3>2 DEF Typed, Unique, FromD, Process, Fields
    <3> QED
      BY <3>3 DEF r
  <2>5. CASE s.decl = "DO"
    <3>1. \E o : r.x = [x EXCEPT !.out = o]
      BY <1>2, <2>5 DEF stmt_execute, Shown
    <3> QED
      BY <3>1 DEF Typed, Unique, FromD, Process, Fields
  <2> QED
    BY <1>0, <2>2, <2>3, <2>4, <2>5 DEF Decl
<1> QED
  BY <1>1, <1>2

\* So is a round of the loop of prog_execute, whatever its outcome.
LEMMA RoundNames ==
  ASSUME NEW x, Typed(x), Unique(x), NEW s \in Stmt
  PROVE  LET y == Round(x, s).x IN Typed(y) /\ Unique(y) /\ FromD(y) = FromD(x)
<1> DEFINE parsed == stmt_parse(x, s)
           run    == IF parsed.end = "parsed" THEN stmt_execute(parsed.x, s, parsed.token)
                     ELSE [x |-> parsed.x, end |-> IF parsed.end = "nop" THEN "ok" ELSE "syntax"]
           shown  == [run EXCEPT !.x = Shown(run.x, <<"error", run.end>>)]
           r == Round(x, s)
<1>1. /\ Typed(parsed.x) /\ Unique(parsed.x) /\ FromD(parsed.x) = FromD(x)
      /\ parsed.end = "parsed" /\ s.decl \in {"DECLPAR", "DECLVAR"} => ~InUse(parsed.x, s.name)
      /\ parsed.end = "parsed" /\ s.decl = "DEFNUMB"
         => [name |-> s.name, param |-> FALSE] \in parsed.x.defines
  BY ParsedNames DEF FromD
<1>2. Typed(run.x) /\ Unique(run.x) /\ FromD(run.x) = FromD(x)
  <2>1. CASE parsed.end = "parsed"
    <3>1. run = stmt_execute(parsed.x, s, parsed.token)
      BY <2>1
    <3> HIDE DEF run, parsed
    <3> QED
      BY <1>1, <2>1, <3>1, ExecutedNames
  <2>2. CASE parsed.end # "parsed"
    <3>1. run.x = parsed.x
      BY <2>2
    <3> HIDE DEF run, parsed
    <3> QED
      BY <1>1, <3>1
  <2> QED
    BY <2>1, <2>2
<1>3. DOMAIN run = {"x", "end"}
  BY DEF run, stmt_execute
<1>4. r = IF run.end = "ok" THEN run ELSE shown
  BY DEF Round
<1> HIDE DEF run, parsed
<1>5. r.x = run.x \/ \E o : r.x = [run.x EXCEPT !.out = o]
  BY <1>3, <1>4 DEF Shown
<1> HIDE DEF r
<1>6. Typed(r.x) /\ Unique(r.x) /\ FromD(r.x) = FromD(x)
  <2>1. CASE r.x = run.x
    BY <1>2, <2>1
  <2>2. CASE \E o : r.x = [run.x EXCEPT !.out = o]
    BY <1>2, <2>2 DEF Typed, Unique, FromD, Process, Fields
  <2> QED
    BY <1>5, <2>1, <2>2
<1> QED
  BY <1>6 DEF r

\* The options of a call give names.
LEMMA OptionNames ==
  ASSUME NEW x, Typed(x), NEW opts \in Option \cup {<<>>}
  PROVE  Typed(getopt(x, opts)) /\ Names(opts) \subseteq Name
<1>1. /\ opts \in Seq([opt : {"D"}, name : Name] \cup [opt : {"nm", "nn", "bad", "P"}, name : {None}])
      /\ None \notin Name
  <2> DEFINE O == [opt : {"D"}, name : Name] \cup [opt : {"nm", "nn", "bad", "P"}, name : {None}]
  <2>1. \A o \in Option : o \in Seq(O)
    BY SessionAssumption
  <2> HIDE DEF O
  <2>2. opts \in Seq(O)
    <3>1. <<>> \in Seq(O)
      OBVIOUS
    <3> QED
      BY <2>1, <3>1, Zenon
  <2> QED
    BY <2>2, SessionAssumption DEF O
<1>2. Names(opts) \subseteq Name
  <2>1. ASSUME NEW i \in DOMAIN opts, opts[i].opt = "D" PROVE opts[i].name \in Name
    BY <1>1, <2>1
  <2> QED
    BY <2>1 DEF Names, Given, Before
<1>3. Cardinality(Given(opts, {"D"})) \in Nat
  <2>1. IsFiniteSet(1 .. Len(opts)) /\ DOMAIN opts = 1 .. Len(opts)
    BY <1>1, FS_Interval
  <2>2. Given(opts, {"D"}) \subseteq 1 .. Len(opts)
    BY <2>1 DEF Given, Before
  <2> QED
    BY <2>1, <2>2, FS_Subset, FS_CardinalityType
<1>4. /\ getopt(x, opts).param_count = x.param_count + Cardinality(Given(opts, {"D"}))
      /\ getopt(x, opts).param_table = Names(opts)
  BY DEF getopt, Typed, Process, Fields
<1>5. /\ Process(getopt(x, opts))
      /\ getopt(x, opts).cform \in {"CON_FORM_NAME", "CON_FORM_MAKE"}
      /\ getopt(x, opts).inppipe \in BOOLEAN
  BY DEF getopt, Typed, Process, Fields
<1>6. /\ getopt(x, opts).count = x.count /\ getopt(x, opts).internals = x.internals
      /\ getopt(x, opts).frames = x.frames /\ getopt(x, opts).symbols = x.symbols
      /\ getopt(x, opts).defines = x.defines
  BY DEF getopt, Typed, Process, Fields
<1> QED
  BY <1>2, <1>3, <1>4, <1>5, <1>6 DEF Typed

\* A program starts with the names of -D, and nothing else.
LEMMA StartNames ==
  ASSUME NEW x, Typed(x), x.symbols = {}, x.defines = {}, NEW withargs \in BOOLEAN
  PROVE  LET y == Started(x, withargs)
         IN  Typed(y) /\ Unique(y) /\ FromD(y) = IF withargs THEN x.param_table ELSE {}
<1> DEFINE y == Started(x, withargs)
<1>1. CASE withargs
  <2> DEFINE S == {[name |-> n, type |-> "NUMB", from |-> "-D"] : n \in x.param_table}
  <2>1. \E o : y = [x EXCEPT !.symbols = S, !.out = o]
    <3>1. x.symbols \cup S = S
      OBVIOUS
    <3>2. Parameters(x) = [x EXCEPT !.symbols = S]
      BY <3>1 DEF Parameters, Typed, Process, Fields
    <3> HIDE DEF S
    <3> DEFINE o == Append(<<>>, <<"load", withargs /\ x.inppipe>>)
    <3>3. y = [[[x EXCEPT !.symbols = S] EXCEPT !.out = <<>>] EXCEPT !.out = Append(@, <<"load", withargs /\ x.inppipe>>)]
      BY <1>1, <3>2 DEF Started, Shown
    <3>4. y = [x EXCEPT !.symbols = S, !.out = o]
      BY <3>3 DEF Typed, Process, Fields
    <3> QED
      BY <3>4
  <2>2. S \subseteq [name : Name, type : {"NUMB", "VAR"}, from : {"-D", "text"}]
    BY DEF Typed
  <2>3. \A s, t \in S : s.name = t.name => s = t
    OBVIOUS
  <2>4. {s.name : s \in {t \in S : t.from = "-D"}} = x.param_table
    <3>1. \A s \in S : s.from = "-D" /\ s.name \in x.param_table
      OBVIOUS
    <3>2. ASSUME NEW n \in x.param_table PROVE \E s \in S : s.name = n
      <4>1. [name |-> n, type |-> "NUMB", from |-> "-D"] \in S
        OBVIOUS
      <4> HIDE DEF S
      <4> QED
        BY <4>1
    <3> HIDE DEF S
    <3>3. {t \in S : t.from = "-D"} = S
      BY <3>1
    <3> QED
      BY <3>1, <3>2, <3>3
  <2> HIDE DEF S, y
  <2>5. y.symbols = S /\ y.defines = {} /\ Typed(y)
    BY <2>1, <2>2 DEF Typed, Process, Fields
  <2>6. Unique(y) /\ FromD(y) = x.param_table
    BY <2>3, <2>4, <2>5 DEF Unique, FromD
  <2> QED
    BY <1>1, <2>5, <2>6 DEF y
<1>2. CASE ~withargs
  <2>1. \E o : y = [x EXCEPT !.out = o]
    BY <1>2 DEF Started, Shown
  <2> HIDE DEF y
  <2>2. y.symbols = {} /\ y.defines = {} /\ Typed(y)
    BY <2>1 DEF Typed, Process, Fields
  <2>3. Unique(y) /\ FromD(y) = {}
    BY <2>2 DEF Unique, FromD
  <2> QED
    BY <1>2, <2>2, <2>3 DEF y
<1> QED
  BY <1>1, <1>2

LEMMA FreshNames ==
  ASSUME NEW c \in {"CON_FORM_NAME", "CON_FORM_MAKE"}, NEW n \in Nat
  PROVE  LET x == Fresh(c, n)
         IN  Typed(x) /\ Unique(x) /\ x.symbols = {} /\ x.defines = {}
BY DEF Fresh, Typed, Process, Fields, Unique, Decl
----------------------------------------------------------------------------
LEMMA NamesInitially == Init => NamesInv
<1> SUFFICES ASSUME Init PROVE NamesInv
  OBVIOUS
<1>1. p = Fresh("CON_FORM_NAME", 1) /\ twin = p
  BY DEF Init
<1>2. /\ Typed(p) /\ Typed(twin) /\ Unique(p) /\ p.symbols = {} /\ p.defines = {}
  BY <1>1, FreshNames
<1>3. 0 \in 0 .. MaxCalls /\ 0 \in 0 .. MaxStmts
  BY SessionAssumption
<1> QED
  BY <1>2, <1>3 DEF Init, NamesInv

\* A call starts without a name but those of its own -D.
LEMMA CallNames ==
  ASSUME NamesInv, Unique(twin),
         NEW f, NEW opts \in Option \cup {<<>>}, NEW loads \in BOOLEAN,
         f # "zpl_read_with_args" => opts = <<>>, Call(f, opts, loads)
  PROVE  NamesInv' /\ Unique(twin)'
<1> DEFINE fresh == Fresh(p.cform, p.count)
           args  == f = "zpl_read_with_args"
           mine  == IF args THEN getopt(p, opts) ELSE p
           other == IF args THEN getopt(fresh, opts) ELSE fresh
<1>1. /\ Typed(p) /\ p.symbols = {} /\ p.defines = {} /\ pc = "idle"
      /\ call < MaxCalls /\ call \in 0 .. MaxCalls
      /\ past \subseteq {"ok", "error", "eval", "syntax", "options", "usage"}
  BY DEF NamesInv, Call
<1>2. Typed(fresh) /\ Unique(fresh) /\ fresh.symbols = {} /\ fresh.defines = {}
  BY <1>1, FreshNames DEF Typed
<1>3. /\ call' \in 0 .. MaxCalls /\ done' \in 0 .. MaxStmts /\ first' = None
      /\ given' = Names(opts) /\ given' \subseteq Name
  BY <1>1, OptionNames, SessionAssumption DEF Call
<1>4. /\ Typed(mine) /\ mine.symbols = {} /\ mine.defines = {}
      /\ Typed(other) /\ other.symbols = {} /\ other.defines = {}
      /\ args => mine.param_table = Names(opts)
  <2>1. ASSUME NEW x, Typed(x), x.symbols = {}, x.defines = {}
        PROVE  /\ Typed(getopt(x, opts))
               /\ getopt(x, opts).symbols = {} /\ getopt(x, opts).defines = {}
               /\ getopt(x, opts).param_table = Names(opts)
    <3>1. /\ getopt(x, opts).symbols = {} /\ getopt(x, opts).defines = {}
          /\ getopt(x, opts).param_table = Names(opts)
      BY <2>1 DEF getopt, Typed, Process, Fields
    <3> QED
      BY <2>1, <3>1, OptionNames
  <2> HIDE DEF fresh
  <2>2. CASE args
    BY <1>1, <1>2, <2>1, <2>2
  <2>3. CASE ~args
    BY <1>1, <1>2, <2>3
  <2> QED
    BY <2>2, <2>3
<1>5. CASE Before(opts) # DOMAIN opts
  <2>1. /\ p' = [mine EXCEPT !.param_table = {}] /\ twin' = fresh /\ pc' = "idle"
        /\ past' = past \cup {IF Given(opts, {"D", "P"}) # {} THEN "options" ELSE "usage"}
    BY <1>5 DEF Call
  <2> HIDE DEF mine, fresh
  <2>2. /\ Typed(p') /\ Unique(p') /\ p'.symbols = {} /\ p'.defines = {}
    BY <1>4, <2>1 DEF Typed, Unique, Process, Fields
  <2>3. past' \subseteq {"ok", "error", "eval", "syntax", "options", "usage"}
    BY <1>1, <2>1
  <2> QED
    BY <1>2, <1>3, <2>1, <2>2, <2>3 DEF NamesInv
<1>6. CASE Before(opts) = DOMAIN opts
  <2>1. /\ p' = Started(mine, args) /\ twin' = Started(other, args)
        /\ pc' = IF args /\ p.param_count # 0 THEN "undefined"
                 ELSE IF loads THEN "ready" ELSE "error"
        /\ past' = past
    BY <1>6 DEF Call
  <2>2. ~args => Names(opts) = {}
    BY DEF Names, Given, Before
  <2> HIDE DEF mine, other
  <2>3. /\ Typed(p') /\ Unique(p') /\ FromD(p') = IF args THEN mine.param_table ELSE {}
        /\ Typed(twin') /\ Unique(twin')
    BY <1>4, <2>1, StartNames
  <2>4. FromD(p)' = given'
    BY <1>3, <1>4, <2>2, <2>3
  <2> QED
    BY <1>1, <1>3, <2>1, <2>3, <2>4 DEF NamesInv
<1> QED
  BY <1>5, <1>6

LEMMA StatementNames ==
  ASSUME NamesInv, Unique(twin), NEW s \in Stmt, Statement(s)
  PROVE  NamesInv' /\ Unique(twin)'
<1>1. /\ pc = "ready" /\ p' = Round(p, s).x /\ twin' = Round(twin, s).x
      /\ pc' = IF Round(p, s).end = "ok" THEN "ready" ELSE Round(p, s).end
      /\ done' = done + 1 /\ done < MaxStmts /\ first' = IF done = 0 THEN s.decl ELSE first
      /\ call' = call /\ given' = given /\ past' = past
  BY DEF Statement
<1>2. /\ Typed(p) /\ Unique(p) /\ Typed(twin) /\ FromD(p) = given
  BY <1>1 DEF NamesInv
<1>3. /\ Typed(p') /\ Unique(p') /\ FromD(p)' = given' /\ Typed(twin') /\ Unique(twin')
  BY <1>1, <1>2, RoundNames
<1>4. Round(p, s).end \in {"ok", "eval", "syntax"}
  BY <1>2, RoundKeeps DEF Typed
<1>5. done' \in 0 .. MaxStmts /\ first' \in Decl \cup {"DO", None}
  BY <1>1, SessionAssumption DEF NamesInv, Stmt
<1> QED
  BY <1>1, <1>3, <1>4, <1>5 DEF NamesInv

LEMMA ReturnNames ==
  ASSUME NamesInv, Unique(twin), Return
  PROVE  NamesInv' /\ Unique(twin)'
<1>1. /\ pc \in {"ready", "error", "eval", "syntax"}
      /\ past' = past \cup {IF pc = "ready" THEN "ok" ELSE pc} /\ given' = {}
      /\ call' = call /\ done' = done /\ first' = first
  BY DEF Return
<1>2. past' \subseteq {"ok", "error", "eval", "syntax", "options", "usage"}
  BY <1>1 DEF NamesInv
<1>3. CASE pc' = "idle"
  <2>1. p' = TakenDown(p, api = "zpl_read_with_args") /\ twin' = Fresh(p.cform, p.count)
    BY <1>3 DEF Return
  <2>2. Typed(p') /\ p'.symbols = {} /\ p'.defines = {}
    <3>1. Typed(p)
      BY DEF NamesInv
    <3>2. CASE api = "zpl_read_with_args"
      BY <2>1, <3>1, <3>2 DEF TakenDown, args_free, xlp_free, local_exit, interns_exit,
                              symbol_exit, define_exit, Typed, Process, Fields
    <3>3. CASE api # "zpl_read_with_args"
      BY <2>1, <3>1, <3>3 DEF TakenDown, xlp_free, local_exit, interns_exit,
                              symbol_exit, define_exit, Typed, Process, Fields
    <3> QED
      BY <3>2, <3>3
  <2>3. Typed(twin') /\ Unique(twin')
    BY <2>1, FreshNames DEF NamesInv, Typed
  <2>4. Unique(p')
    BY <2>2 DEF Unique
  <2> QED
    BY <1>1, <1>2, <1>3, <2>2, <2>3, <2>4 DEF NamesInv
<1>4. CASE pc' = "crash"
  <2>1. p' = p /\ twin' = twin
    BY <1>4 DEF Return
  <2> QED
    BY <1>1, <1>2, <1>4, <2>1 DEF NamesInv
<1> QED
  BY <1>3, <1>4 DEF Return

\* What the calls declare, and that they take it all down.
LEMMA NamesKept == Spec => [](NamesInv /\ Unique(twin))
<1>1. Init => NamesInv /\ Unique(twin)
  BY NamesInitially DEF Init, NamesInv
<1>2. (NamesInv /\ Unique(twin)) /\ [Next]_vars => (NamesInv /\ Unique(twin))'
  <2> SUFFICES ASSUME NamesInv, Unique(twin), [Next]_vars PROVE NamesInv' /\ Unique(twin)'
    OBVIOUS
  <2>1. CASE Next
    <3>1. ASSUME NEW loads \in BOOLEAN, Call("zpl_read", <<>>, loads)
          PROVE  NamesInv' /\ Unique(twin)'
      BY <3>1, CallNames
    <3>2. ASSUME NEW loads \in BOOLEAN, NEW opts \in Option,
                 Call("zpl_read_with_args", opts, loads)
          PROVE  NamesInv' /\ Unique(twin)'
      BY <3>2, CallNames
    <3>3. ASSUME NEW s \in Stmt, Statement(s) PROVE NamesInv' /\ Unique(twin)'
      BY <3>3, StatementNames
    <3> QED
      BY <2>1, <3>1, <3>2, <3>3, ReturnNames DEF Next
  <2>2. CASE UNCHANGED vars
    BY <2>2 DEF vars, NamesInv
  <2> QED
    BY <2>1, <2>2
<1> QED
  BY <1>1, <1>2, PTL DEF Spec

\* The static variables and the bookkeeping of the calls have their types.
THEOREM SessionTyped == Spec => []TypeOK
<1>1. NamesInv => TypeOK
  BY DEF NamesInv, Typed, Process, TypeOK
<1> QED
  BY <1>1, NamesKept, PTL

\* In every call, after whatever calls before it, what -D names is a symbol of
\* the program with the value of the command line, the only one of its name, and
\* nothing else is known from the command line (symbol_add_entry at the start
\* of zpl_read_with_args and the scanner's treatment of a second declaration).
THEOREM OptionsWin == Spec => []CommandLineWins
<1>1. NamesInv => CommandLineWins
  <2> SUFFICES ASSUME NamesInv, pc \in {"ready", "error", "eval", "syntax"}
               PROVE  /\ FromD(p) = given
                      /\ \A n \in given : Cardinality(Symbol(p, n)) = 1
    BY DEF CommandLineWins, FromD
  <2>1. FromD(p) = given /\ Unique(p)
    BY DEF NamesInv
  <2>2. ASSUME NEW n \in given PROVE Cardinality(Symbol(p, n)) = 1
    <3>1. PICK s \in p.symbols : s.name = n
      BY <2>1 DEF FromD
    <3>2. Symbol(p, n) = {s}
      BY <2>1, <3>1 DEF Symbol, Unique
    <3> QED
      BY <3>2, FS_Singleton
  <2> QED
    BY <2>1, <2>2
<1> QED
  BY <1>1, NamesKept, PTL

\* No name ever stands for two symbols, two defines, or one of each: the
\* scanner keeps symbol_new and define_new, which do not look, from it.
THEOREM NamesMeanOneThing == Spec => []OneMeaning
<1>1. NamesInv => OneMeaning
  <2> SUFFICES ASSUME NamesInv, NEW n \in Name
               PROVE  /\ Cardinality(Symbol(p, n)) <= 1
                      /\ Cardinality({d \in p.defines : d.name = n}) <= 1
                      /\ Symbol(p, n) # {} => \A d \in p.defines : d.name # n
    BY DEF OneMeaning
  <2>1. Unique(p)
    BY DEF NamesInv
  <2>2. ASSUME NEW S, \A s, t \in S : s = t PROVE Cardinality(S) <= 1
    <3>1. CASE S = {}
      BY <3>1, FS_EmptySet
    <3>2. CASE S # {}
      <4>1. PICK s \in S : S = {s}
        BY <2>2, <3>2
      <4>2. Cardinality({s}) = 1
        BY FS_Singleton
      <4> QED
        BY <4>1, <4>2
    <3> QED
      BY <3>1, <3>2
  <2>3. \A s, t \in Symbol(p, n) : s = t
    BY <2>1 DEF Symbol, Unique
  <2>4. \A d, e \in {d \in p.defines : d.name = n} : d = e
    BY <2>1 DEF Unique
  <2>5. Symbol(p, n) # {} => \A d \in p.defines : d.name # n
    BY <2>1 DEF Symbol, Unique
  <2> QED
    BY <2>2, <2>3, <2>4, <2>5
<1> QED
  BY <1>1, NamesKept, PTL
============================================================================
