------------------------------- MODULE MCInput -------------------------------
(***************************************************************************)
(* Worlds for Input.  A program file is a sequence of units, a data file a *)
(* sequence of lines; beside its characters each unit and each line has    *)
(* what it was written to say, from which the wanted statements, values    *)
(* and errors are put together.                                            *)
(***************************************************************************)
EXTENDS Input

Unit(raw, text, e) == [raw |-> raw, text |-> text, err |-> e]
Nothing == <<>>
Good  == <<Unit(<<"k", "t", ";">>, <<"k", "t", ";">>, 0),
           Unit(<<EOL, "k", EOL, "t", ";">>, <<"k", " ", "t", ";">>, 0),
           Unit(<<"k", "t", Quote, ";", Hash, Quote, ";", EOL>>, <<"k", "t", Quote, ";", Hash, Quote, ";">>, 0),
           Unit(<<"k", "t", Hash, ";", EOL, "t", ";">>, <<"k", "t", "t", ";">>, 0),
           Unit(<<Hash, Quote, "t", EOL>>, Nothing, 0),
           Unit(<<"i", ";">>, <<"i">>, 0), Unit(<<Hash, "t", EOL, "j", " ", ";">>, <<"j">>, 0)>>
Bad   == <<Unit(<<" ", ";">>, Nothing, 163), Unit(<<"t", ";">>, Nothing, 163),
           Unit(<<"k", Quote, ";", EOL>>, Nothing, 161), Unit(<<"k", Quote>>, Nothing, 161),
           Unit(<<"u", ";">>, Nothing, NoFile)>>
Rest  == Unit(<<"k", "t">>, <<"rest">>, 0)
MCIncludes == [i |-> <<"b">>, j |-> <<"/", "b">>, u |-> <<"c">>]
Cpp   == <<Hash, "t", EOL, Hash, Marker, EOL, Hash, Marker, EOL, Hash, "t", EOL>>

Raw(units) == FlattenSeq([i \in DOMAIN units |-> units[i].raw])
Lines(chars) == Len(SelectSeq(chars, LAMBDA c : c = EOL))
\* the line the i-th unit ends in: a line end behind its semicolon is the next one's
EndLine(units, i) ==
  1 + Lines(Raw(SubSeq(units, 1, i))) - (IF Last(units[i].raw) = EOL THEN 1 ELSE 0)

Main == <<"d", "m">>
Resolve(path, token) ==
  CASE token = "i" -> Append(Front(path), "b") [] token = "j" -> <<"/", "b">> [] OTHER -> Append(Front(path), "c")

NoFileSays == [stmts |-> <<>>, err |-> NoFile, trailing |-> 0]
Says(stmts, e, trailing) == [stmts |-> stmts, err |-> e, trailing |-> trailing]
Join(a, b) == IF a.err # 0 THEN a ELSE Says(a.stmts \o b.stmts, b.err, a.trailing + b.trailing)
UnitSays(path, units, i) ==
  CASE units[i].text = <<"rest">> -> Says(<<>>, 0, 1)
    [] units[i].text = Nothing    -> Says(<<>>, units[i].err, 0)
    [] OTHER -> Says(<<[file |-> path, line |-> EndLine(units, i), text |-> units[i].text]>>, 0, 0)
\* the statements of a file, its error and the texts left over, with d more files open
Wanted(files, main) ==
  LET Of[d \in 0 .. MaxOpen] ==
        [path \in DOMAIN files |->
           IF d = 0 THEN NoFileSays
           ELSE FoldLeft(Join, Says(<<>>, 0, 0),
                  [i \in DOMAIN files[path] |->
                     IF files[path][i].text \in {<<"i">>, <<"j">>}
                     THEN Of[d - 1][Resolve(path, files[path][i].text[1])]
                     ELSE UnitSays(path, files[path], i)])]
  IN Of[MaxOpen][main]

NoReads == [t \in {} |-> Nothing]
OnDisk(files) == [key \in {<<p, "">> : p \in DOMAIN files} |-> Raw(files[key[1]])]
ProgWorld(main, b, form, verbose) ==
  LET decoy == <<Good[1]>>
      files == (Main :> main) @@ (<<"d", "b">> :> b) @@ (<<"b">> :> decoy) @@ (<<"/", "b">> :> decoy)
      want  == Wanted(files, Main)
  IN [main |-> IF form = "zpl" THEN <<"d", "m">> ELSE Main, pipe |-> form = "pipe", verbose |-> verbose,
      prelude |-> Cpp, reads |-> NoReads, data |-> NoReads,
      files |-> IF form = "zpl" THEN (<<Main, ".zpl">> :> Raw(main)) @@ [k \in DOMAIN OnDisk(files) \ {<<Main, "">>} |-> OnDisk(files)[k]]
                ELSE OnDisk(files),
      strgs |-> IF form = "strg" THEN Main :> Raw(main) ELSE NoReads,
      want |-> [stmts |-> want.stmts, err |-> want.err, trailing |-> want.trailing, reads |-> NoReads]]

Ended(units) == units \o <<Rest>>
Files(set, n) == UNION {[1 .. k -> set] : k \in 0 .. n}
Half  == {Good[1], Good[2], Good[3], Good[4], Good[5]}
ProgWorlds ==
  {ProgWorld(main, b, form, "normal") :
     main \in Files(ToSet(Good), 2) \cup {<<Good[6], g, Good[6]>> : g \in Half}, b \in {<<Good[2]>>, <<Good[5], Good[1]>>},
     form \in {"file", "pipe"}}
  \cup {ProgWorld(main, <<Good[1]>>, form, "normal") :
     main \in {<<g, h>> : g \in Half, h \in ToSet(Bad)} \cup {<<Good[6], g>> : g \in ToSet(Bad)} \cup {<<g, Good[6], h>> : g, h \in Half},
     form \in {"strg", "zpl"}}
  \cup {ProgWorld(Ended(main), b, form, verbose) :
     main \in Files({Good[1], Good[6]}, 2), b \in {<<Rest>>, <<Good[3], Good[6]>>, <<Bad[1]>>},
     form \in {"file", "strg"}, verbose \in {"quiet", "normal", "chatter"}}
-----------------------------------------------------------------------------
\* ---- data
\* a line: its characters, its fields with and without "#" as comment
Line(chars, all, cut) == [chars |-> chars, all |-> all, cut |-> cut]
Same(chars, all) == Line(chars, all, all)
Q == Quote
DataLines == <<
  Same(<<"1", " ", "a">>, << <<"1">>, <<"a">> >>),
  Same(<<Q, "1", Q, ",", "a">>, << <<"1">>, <<"a">> >>),
  Same(<<",", "1">>, << <<>>, <<"1">> >>),
  Line(<<"1", " ", "1", " ", "#", "a">>, << <<"1">>, <<"1">>, <<"#", "a">> >>, << <<"1">>, <<"1">> >>),
  Same(<<>>, <<>>),
  Line(<<" ", "#", "a">>, << <<"#", "a">> >>, <<>>),
  Same(<<Q, "a", " ", "1", Q, " ", "1">>, << <<"a", " ", "1">>, <<"1">> >>),
  Same(<<"1">>, << <<"1">> >>),
  Same(<<" ", "1", " ", ",", " ", "a">>, << <<"1">>, <<"a">> >>),
  Same(<<"-", "1", ";", "1", ":", "a", ":", "1">>, << <<"-", "1">>, <<"1">>, <<"a">>, <<"1">> >>)>>

F(no, type) == [kind |-> "field", no |-> no, type |-> type]
T(kind)     == [kind |-> kind, no |-> 1, type |-> "s"]
S(type)     == [kind |-> "+", no |-> 1, type |-> type]
Templates == <<
  [t |-> <<T("<"), F(1, "s"), T(">")>>, err |-> 0], [t |-> <<T("<"), F(1, "n"), T(">"), F(2, "s")>>, err |-> 0],
  [t |-> <<T("<"), F(2, "s"), F(1, "n"), T(">")>>, err |-> 0], [t |-> <<F(2, "n")>>, err |-> 0],
  [t |-> <<S("n")>>, err |-> 0], [t |-> <<T("<"), S("s"), T(">")>>, err |-> 0],
  [t |-> <<T("<"), F(1, "n")>>, err |-> 151], [t |-> <<T("<"), F(1, "n"), T(">"), T(">")>>, err |-> 151],
  [t |-> <<S("n"), F(1, "n")>>, err |-> 151], [t |-> <<T("word")>>, err |-> 152], [t |-> <<F(0, "n")>>, err |-> 153],
  [t |-> <<F(9, "n")>>, err |-> 153], [t |-> <<F(1, "q")>>, err |-> 154], [t |-> <<T("<"), T(">")>>, err |-> 155],
  [t |-> <<F(1, "n"), F(2, "n")>>, err |-> 201], [t |-> <<>>, err |-> 201]>>

P(kind, val, int, chars, char) == [kind |-> kind, val |-> val, int |-> int, chars |-> chars, char |-> char]
Use(n)   == P("use", n, TRUE, {}, "")
Skip(n)  == P("skip", n, TRUE, {}, "")
Cmt      == P("comment", 0, TRUE, {"#"}, "")
Match(c) == P("match", 0, TRUE, {}, c)

\* the value of the last parameter of a kind
Setting(params, kind, d) ==
  LET those == SelectSeq(params, LAMBDA p : p.kind = kind) IN IF those = <<>> THEN d ELSE Last(those)
ParamsError(params) ==
  LET bad == SelectSeq(params, LAMBDA p : ~ p.int \/ (p.kind = "use" /\ p.val < 1) \/ (p.kind = "skip" /\ p.val < 0))
  IN CASE bad = <<>> -> 0
       [] Head(bad).kind = "use" -> IF Head(bad).int THEN 148 ELSE 147
       [] OTHER -> IF Head(bad).int THEN 150 ELSE 149

Number(f) == f \in {<<"1">>, <<"-", "1">>}
Val(type, f) == <<type, f>>
Bare(t)     == SelectSeq(t, LAMBDA x : x.kind = "field")
HasValue(t) == T(">") \notin ToSet(t) \/ Last(t).kind = "field"
WantLine(t, fields) ==     \* [err, items] of a line, the fields in the order of the template
  IF S("n") \in ToSet(t) \/ S("s") \in ToSet(t)
  THEN LET type == IF S("n") \in ToSet(t) THEN "n" ELSE "s"
           got  == SubSeq(fields, 1, Min({Len(fields), MAX_FIELDS}))
       IN IF type = "n" /\ \E i \in DOMAIN got : ~ Number(got[i]) THEN [err |-> 174, items |-> <<>>]
          ELSE [err |-> 0, items |-> [i \in DOMAIN got |-> IF HasValue(t) THEN Item(<<>>, Val(type, got[i]))
                                                           ELSE Item(<<Val(type, got[i])>>, <<>>)]]
  ELSE LET ask == Bare(t)
           Wrong(i) == CASE ask[i].no > Len(fields) -> IF HasValue(t) /\ i = Len(ask) THEN 157 ELSE 156
                         [] ask[i].type = "n" /\ ~ Number(fields[ask[i].no]) -> 174
                         [] OTHER -> 0
           wrong == {i \in DOMAIN ask : Wrong(i) # 0}
           vals  == [i \in DOMAIN ask |-> Val(ask[i].type, fields[ask[i].no])]
       IN IF wrong # {} THEN [err |-> Wrong(Min(wrong)), items |-> <<>>]
          ELSE [err |-> 0, items |-> <<IF HasValue(t) THEN Item(Front(vals), Last(vals)) ELSE Item(vals, <<>>)>>]

WantRead(lines, template, params) ==
  LET cmt   == Setting(params, "comment", P("comment", 0, TRUE, {}, "")).chars # {}
      match == Setting(params, "match", Match("")).char
      own(l) == IF cmt THEN l.cut ELSE l.all
      kept  == SelectSeq(lines, LAMBDA l : own(l) # <<>> /\ (match = "" \/ match \in ToSet(FlattenSeq(own(l)))))
      from  == Setting(params, "skip", Skip(0)).val + 1
      use   == Setting(params, "use", Use(Len(lines) + 1)).val
      rows  == SubSeq(kept, from, Min({Len(kept), from + use - 1}))
      got   == [i \in DOMAIN rows |-> WantLine(template.t, own(rows[i]))]
      bad   == SelectSeq(got, LAMBDA g : g.err # 0)
      items == FlattenSeq([i \in DOMAIN got |-> got[i].items])
  IN CASE ParamsError(params) # 0 -> [err |-> ParamsError(params), items |-> <<>>, full |-> 0]
       [] template.err # 0 -> [err |-> template.err, items |-> <<>>, full |-> 0]
       [] bad # <<>> -> [err |-> Head(bad).err, items |-> <<>>, full |-> 0]
       [] OTHER -> [err |-> 0, full |-> IF "+" \in {x.kind : x \in ToSet(template.t)}
                                        THEN Len(SelectSeq(rows, LAMBDA l : Len(own(l)) >= MAX_FIELDS)) ELSE 0,
                    items |-> IF items # <<>> THEN items
                              ELSE <<Item(<<>>, IF HasValue(template.t) THEN <<"set", <<>> >> ELSE <<>>)>>]

\* the lines with their ends; the last one may have none
RawLines(lines, ended) ==
  [i \in DOMAIN lines |->
     [raw |-> lines[i].chars \o IF i = Len(lines) /\ ~ ended THEN <<>> ELSE <<EOL>>]]

Reader == <<"d", "r">>
Prog1  == <<Unit(<<"k", "p1", ";">>, <<"k", "p1", ";">>, 0)>>
Prog2  == Prog1 \o <<Unit(<<"k", "p2", ";">>, <<"k", "p2", ";">>, 0)>>
DataWorld(lines, ended, form, verbose, units, first, second) ==
  LET name == <<"data">>
      key  == <<name, IF form = "gz" THEN ".gz" ELSE "">>
      raw  == RawLines(lines, ended)
      text == FlattenSeq([i \in DOMAIN raw |-> raw[i].raw])
      readof(r) == [file |-> IF form = "none" THEN <<"nodata">> ELSE name, pattern |-> r.template.t, params |-> r.params]
      wanted(r) == IF form = "none" /\ r.template.err = 0 /\ ParamsError(r.params) = 0
                   THEN [err |-> NoFile, items |-> <<>>, full |-> 0]
                   ELSE WantRead(lines, r.template, r.params)
  IN [main |-> Reader, pipe |-> FALSE, verbose |-> verbose, prelude |-> Cpp,
      reads |-> [p1 |-> readof(first), p2 |-> readof(second)],
      data |-> key :> raw,
      files |-> (<<Reader, "">> :> Raw(units)) @@ (IF form = "strg" THEN NoReads ELSE key :> text),
      strgs |-> IF form = "strg" THEN name :> text ELSE NoReads,
      want |-> [stmts |-> [i \in DOMAIN units |-> [file |-> Reader, line |-> 1, text |-> units[i].text]],
                err |-> 0, trailing |-> 0, reads |-> [p1 |-> wanted(first), p2 |-> wanted(second)]]]
R(i, params) == [template |-> Templates[i], params |-> params]

DataWorlds ==
  {DataWorld(lines, ended, "file", "normal", Prog1, r, r) :
     lines \in Files(ToSet(DataLines), 2), ended \in BOOLEAN,
     r \in {R(1, <<Cmt>>), R(2, <<>>), R(3, <<Cmt>>), R(4, <<>>), R(5, <<Cmt>>), R(6, <<>>), R(2, <<Match("a"), Cmt>>)}}
  \cup {DataWorld(lines, TRUE, form, verbose, Prog2, first, second) :
     lines \in [1 .. 3 -> {DataLines[1], DataLines[6], DataLines[10]}], form \in {"strg", "gz"}, verbose \in {"normal", "chatter"},
     first \in {R(1, <<Skip(1), Use(1)>>), R(6, <<>>)},
     second \in {R(2, <<Cmt, Skip(1)>>), R(6, <<Match("1")>>), R(6, <<Skip(1), Match("1"), Skip(0), Use(2)>>)}}
  \cup {DataWorld(<<DataLines[1]>>, TRUE, form, "normal", Prog2, R(1, <<>>), r) :
     form \in {"strg", "none"},
     r \in {R(i, <<>>) : i \in DOMAIN Templates} \cup
           {R(1, <<p>>) : p \in {Use(0), Skip(-1), P("use", 0, FALSE, {}, ""), P("skip", 0, FALSE, {}, "")}}}
  \cup {DataWorld(<<DataLines[10], DataLines[10], DataLines[10]>>, TRUE, "file", v, Prog2, R(6, <<>>), r) :
     v \in {"quiet", "normal", "chatter"}, r \in {R(6, <<>>), R(1, <<>>)}}

MCWorlds == ProgWorlds \cup DataWorlds
=============================================================================
