-------------------------------- MODULE Input --------------------------------
(***************************************************************************)
(* From the text of a program to the data it reads: prog_load cuts the     *)
(* statements out of a file and the files it includes, prog_execute runs   *)
(* them one after the other, and a statement that reads a file gets its    *)
(* list line by line.  A world is a set of files, the reads of its         *)
(* program, and, for the properties, what the files were written to say.   *)
(***************************************************************************)
EXTENDS ProgText, Iread

CONSTANTS Worlds,    \* the programs and data files to run
          MaxOpen    \* files a process may have open at once

VARIABLES world, pc, err,
          stack,     \* the activations of prog_load, the innermost last
          prog,      \* the list of statements
          stmt,      \* the statement to be executed
          rd,        \* the read it makes
          result,    \* what the statements executed so far have read
          offset,    \* where the reading of a string file is
          warning_count, told, supp   \* counted, printed and suppressed warnings

vars == <<world, pc, err, stack, prog, stmt, rd, result, offset, warning_count, told, supp>>
loading == <<stack, prog>>
messages == <<warning_count, told, supp>>

NoFile   == 1          \* exit without an error number
Warnings == {162, 213}
NoWarnings     == [w \in Warnings |-> 0]
Idle     == [rdef |-> rdef_new(<<>>, <<>>), left |-> <<>>, fp |-> NotOpened, pos |-> 1,
             size |-> 1, buf |-> <<>>, line |-> 0, s |-> 1, text |-> <<>>, fields |-> <<>>,
             list |-> <<>>]

\* ---- a file that is read: strings keep their place in the string itself
Pos(f) == IF f.fp.type = "STRG" THEN offset[f.fp.key[1]] ELSE f.pos
MovedTo(f, p) == [f EXCEPT !.pos = p]
Advanced(fp, p) == IF fp.type = "STRG" THEN [offset EXCEPT ![fp.key[1]] = p] ELSE offset
\* mutant: the string is read on where the last reader stopped
Rewound_Not(offs, fp) == offs
Rewound(offs, fp) == IF fp.type = "STRG" THEN [offs EXCEPT ![fp.key[1]] = 1] ELSE offs

\* ---- warnings: stmt_trigger_warning prints the first of a kind only
\* mutant: the counters of the statement before are kept
activate_warnings_Kept == warning_count
activate_warnings == NoWarnings
Trigger(no) ==
  /\ warning_count' = [warning_count EXCEPT ![no] = @ + 1]
  /\ told' = [told EXCEPT ![no] = @ + IF \/ world.verbose = "chatter"
                                         \/ world.verbose = "normal" /\ warning_count[no] = 0
                                      THEN 1 ELSE 0]
  /\ UNCHANGED supp
show_suppressed_warnings ==
  IF world.verbose # "normal" THEN NoWarnings
  ELSE [w \in Warnings |-> IF warning_count[w] > 1 THEN warning_count[w] - 1 ELSE 0]

Init ==
  /\ world \in Worlds
  /\ pc = "start" /\ err = 0 /\ stack = <<>> /\ prog = prog_new /\ stmt = 0
  /\ rd = Idle /\ result = <<>> /\ offset = [n \in DOMAIN world.strgs |-> 1]
  /\ warning_count = NoWarnings /\ told = NoWarnings /\ supp = NoWarnings

Stop(n) == pc' = "error" /\ err' = n
-----------------------------------------------------------------------------
\* ---- prog_load
Program(path) == IF world.pipe THEN mio_popen(world, path) ELSE mio_open(world, path, ".zpl")

\* An activation of prog_load begins, unless its file cannot be opened or
\* the process has no more files.
Load(frames, offs, path) ==
  LET fp == Program(path)
  IN IF fp.type = "ERR" \/ Len(frames) = MaxOpen
     THEN Stop(NoFile) /\ UNCHANGED <<stack, offset>>
     ELSE /\ stack' = Append(frames, Frame(fp, path))
          /\ offset' = Rewound(offs, fp)
          /\ pc' = "load" /\ UNCHANGED err

Start ==
  /\ pc = "start" /\ Load(<<>>, offset, world.main)
  /\ UNCHANGED <<world, prog, stmt, rd, result, messages>>

Top     == Last(stack)
Char    == At(Top.fp.src, Pos(Top))
Loading == pc = "load" /\ UNCHANGED <<world, stmt, rd, result>>
Becomes(f) == stack' = Append(Front(stack), f)

LoadUnterminated ==                                       \* Error 161
  /\ Loading /\ Unterminated(Top, Char)
  /\ Stop(161) /\ UNCHANGED <<loading, offset, messages>>

LoadChar ==
  /\ Loading /\ Char # EOF
  /\ ~ Unterminated(Top, Char) /\ ~ StartsComment(Top, Char) /\ ~ EndsStatement(Top, Char)
  /\ Becomes(MovedTo(Taken(Top, Char), Pos(Top) + 1)) /\ offset' = Advanced(Top.fp, Pos(Top) + 1)
  /\ UNCHANGED <<pc, err, prog, messages>>

LoadComment ==                                            \* skip_comment
  /\ Loading /\ StartsComment(Top, Char)
  /\ LET end == Find(Top.fp.src, Pos(Top), {EOL})
     IN /\ Becomes([Top EXCEPT !.lineno = CommentLine(Top, SubSeq(Top.fp.src, Pos(Top) + 1, end - 1)),
                               !.pos = end + 1])
        /\ offset' = Advanced(Top.fp, end + 1)
  /\ UNCHANGED <<pc, err, prog, messages>>

Between(f) == [f EXCEPT !.text = <<>>, !.pos = Pos(f) + 1]
IsInclude(f) == f.text # <<>> /\ Head(f.text) \in DOMAIN Includes
LoadInclude ==
  /\ Loading /\ EndsStatement(Top, Char) /\ IsInclude(Top)
  /\ Load(Append(Front(stack), Between(Top)), Advanced(Top.fp, Pos(Top) + 1),
          make_pathname(Top.path, Includes[Head(Top.text)]))
  /\ UNCHANGED <<prog, messages>>

\* add_stmt, Error 163 where there is no keyword (nothing but a semicolon,
\* too: the test for an empty line does not see it)
LoadStmt ==
  /\ Loading /\ EndsStatement(Top, Char) /\ ~ IsInclude(Top)
  /\ IF Top.text # <<>> /\ Head(Top.text) = Keyword
     THEN /\ prog' = prog_add_stmt(prog, Stmt(Taken(Top, Char)))
          /\ Becomes(Between(Top)) /\ offset' = Advanced(Top.fp, Pos(Top) + 1)
          /\ UNCHANGED <<pc, err>>
     ELSE Stop(163) /\ UNCHANGED <<loading, offset>>
  /\ UNCHANGED messages

\* mutant: at the end of a file get_line gives an empty statement, and goes on
Returned_On(frames) == frames
Returned(frames) == Front(frames)
\* The file ends: what is left over is reported; the program is complete
\* when the outermost file has been read.
LoadEnd ==
  /\ Loading /\ Char = EOF /\ ~ Unterminated(Top, Char)
  /\ IF Top.text = <<>> THEN UNCHANGED messages ELSE Trigger(162)
  /\ stack' = Returned(stack)
  /\ pc' = IF Returned(stack) = <<>> THEN "exec" ELSE "load"
  /\ UNCHANGED <<err, prog, offset>>
-----------------------------------------------------------------------------
\* ---- prog_execute: statement by statement
Executing == UNCHANGED <<world, loading>>
Token(k)  == prog.stmt[k].text[2]
Read(k)   == world.reads[Token(k)]

Execute ==
  /\ pc = "exec" /\ stmt < Len(prog.stmt) /\ Executing
  /\ stmt' = stmt + 1
  /\ warning_count' = activate_warnings /\ told' = NoWarnings /\ supp' = NoWarnings
  /\ IF Token(stmt + 1) \in DOMAIN world.reads
     THEN /\ pc' = "param"
          /\ rd' = [Idle EXCEPT !.rdef = rdef_new(Read(stmt + 1).file, Read(stmt + 1).pattern),
                                !.left = Read(stmt + 1).params]
          /\ UNCHANGED result
     ELSE /\ pc' = "exec" /\ result' = Append(result, <<>>)
          /\ UNCHANGED rd
  /\ UNCHANGED <<err, offset>>

Finish ==
  /\ pc = "exec" /\ stmt = Len(prog.stmt) /\ pc' = "done"
  /\ UNCHANGED <<world, err, loading, stmt, rd, result, offset, messages>>

Reading == UNCHANGED <<world, loading, stmt>>

\* i_read_use, i_read_skip, ... and i_read_param: one parameter of the read
ReadParam ==
  /\ pc = "param" /\ rd.left # <<>> /\ Reading
  /\ IF ParamError(Head(rd.left)) # 0
     THEN Stop(ParamError(Head(rd.left))) /\ UNCHANGED rd
     ELSE /\ rd' = [rd EXCEPT !.rdef = rdef_set_param(@, Head(rd.left)), !.left = Tail(@)]
          /\ UNCHANGED <<pc, err>>
  /\ UNCHANGED <<result, offset, messages>>

\* i_read: template, file
ReadOpen ==
  /\ pc = "param" /\ rd.left = <<>> /\ Reading
  /\ LET fp == mio_open(world, rd.rdef.file, ".gz")
         template == TemplateError(rd.rdef.pattern)
     IN IF template # 0 \/ fp.type = "ERR"
        THEN Stop(IF template # 0 THEN template ELSE NoFile) /\ UNCHANGED <<rd, offset>>
        ELSE /\ rd' = [rd EXCEPT !.fp = fp, !.pos = 1]
             /\ offset' = Rewound(offset, fp) /\ pc' = "block" /\ UNCHANGED err
  /\ UNCHANGED <<result, messages>>

\* mio_get_line: one block of the line
ReadBlock ==
  /\ pc = "block" /\ Reading
  /\ LET got  == mio_gets(rd.fp.src, Pos(rd))
         size == rd.size + BUF_SIZE_INC - 1
         buf  == rd.buf \o got
     IN /\ rd' = [rd EXCEPT !.size = size, !.buf = buf, !.pos = Pos(rd) + Len(got)]
        /\ offset' = Advanced(rd.fp, Pos(rd) + Len(got))
        /\ pc' = CASE LineGoesOn(buf, size, got) -> "block"
                   [] NothingRead(size, got)     -> "end"
                   [] OTHER                      -> "line"
  /\ UNCHANGED <<err, result, messages>>

\* the line is counted, cleaned, and passed over or split; skip counts
\* only the lines that are left
NextLine(r) == [r EXCEPT !.size = 1, !.buf = <<>>, !.s = 1, !.fields = <<>>]
LineSkips(text) ==
  IF text # <<>> /\ Matches(rd.rdef.match, text) THEN rd.rdef.skip - 1 ELSE rd.rdef.skip
ReadLine ==
  /\ pc = "line" /\ Reading
  /\ LET text == Cleaned(rd.buf, rd.rdef.comment)
         this == [rd EXCEPT !.line = @ + 1, !.text = text, !.rdef.skip = LineSkips(text)]
     IN IF text = <<>> \/ ~ Matches(rd.rdef.match, text) \/ rd.rdef.skip > 0
        THEN rd' = NextLine(this) /\ pc' = "block"
        ELSE rd' = this /\ pc' = "field"
  /\ UNCHANGED <<err, result, offset, messages>>

\* split_fields: one field, until the line ends or has given all it is
\* asked for
FieldsDone(s, n) == s > Len(rd.text) \/ n = hi_field_no(rd.rdef.pattern) + 1
ReadField ==
  /\ pc = "field" /\ Reading
  /\ LET s == NextField(rd.s, rd.text)
         fields == Append(rd.fields, Field(rd.s, rd.text))
     IN /\ rd' = [rd EXCEPT !.s = s, !.fields = fields]
        /\ pc' = IF FieldsDone(s, Len(fields)) THEN "store" ELSE "field"
        /\ IF FieldsDone(s, Len(fields)) /\ Streams(rd.rdef.pattern) /\ Len(fields) = MAX_FIELDS
           THEN Trigger(213) ELSE UNCHANGED messages
  /\ UNCHANGED <<err, result, offset>>

\* process_line and its like
ReadStore ==
  /\ pc = "store" /\ Reading
  /\ LET e == LineError(rd.rdef.pattern, rd.fields)
     IN IF e # 0 THEN Stop(e) /\ UNCHANGED rd
        ELSE /\ rd' = NextLine([rd EXCEPT !.list = @ \o LineItems(rd.rdef.pattern, rd.fields),
                                          !.rdef.use = @ - 1])
             /\ pc' = IF rd.rdef.use = 1 THEN "end" ELSE "block"
             /\ UNCHANGED err
  /\ UNCHANGED <<result, offset, messages>>

\* the end of i_read, and of the statement
ReadEnd ==
  /\ pc = "end" /\ Reading
  /\ result' = Append(result, IF rd.list = <<>> THEN Dummy(rd.rdef.pattern) ELSE rd.list)
  /\ rd' = Idle /\ pc' = "exec" /\ supp' = show_suppressed_warnings
  /\ UNCHANGED <<err, offset, warning_count, told>>
-----------------------------------------------------------------------------
Next ==
  \/ Start \/ LoadUnterminated \/ LoadChar \/ LoadComment \/ LoadInclude \/ LoadStmt \/ LoadEnd
  \/ Execute \/ ReadParam \/ ReadOpen \/ ReadBlock \/ ReadLine \/ ReadField \/ ReadStore \/ ReadEnd
  \/ Finish

\* One thread runs the program to its end: it does not stop between steps.
Spec == Init /\ [][Next]_vars /\ WF_vars(Next)
-----------------------------------------------------------------------------
\* The state is well formed: the statements fit the array, a line of text
\* has a number, counts of warnings are what was printed at least.
TypeOK ==
  /\ pc \in {"start", "load", "exec", "param", "block", "line", "field", "store", "end", "done", "error"}
  /\ err \in Nat /\ (pc = "error") = (err # 0)
  /\ Len(prog.stmt) <= prog.size /\ stmt \in 0 .. Len(prog.stmt)
  /\ \A k \in DOMAIN prog.stmt : prog.stmt[k].line \in Nat \ {0}     \* the assertion of stmt_new
  /\ \A k \in DOMAIN stack : stack[k].fp.type \in {"STRG", "FILE", "PIPE"}
  /\ Len(stack) <= MaxOpen
  /\ \A w \in Warnings : warning_count[w] \in Nat /\ told[w] <= warning_count[w]

Loaded == pc \notin {"start", "load"} /\ (pc = "error" => stmt > 0)

\* What load.c makes of the text is the program that was written: strings
\* with semicolons and hashes in them, comments inside of statements and
\* directives between them, files included from the directory of the file
\* that names them; and text that is none ends the run before anything of
\* the program is executed.
LoadsAsWritten ==
  /\ Loaded => /\ world.want.err = 0
               /\ Len(prog.stmt) = Len(world.want.stmts)
               /\ \A k \in DOMAIN prog.stmt : /\ prog.stmt[k].file = world.want.stmts[k].file
                                              /\ prog.stmt[k].text = world.want.stmts[k].text
  /\ pc = "error" /\ ~ Loaded => err = world.want.err /\ result = <<>>

\* The line number of a statement, which all messages about it show, is the
\* line of its file it ends in, also behind includes, comments and the
\* markers of cpp.
LinesAsWritten ==
  \A k \in DOMAIN prog.stmt : /\ k \in DOMAIN world.want.stmts
                              /\ prog.stmt[k].line = world.want.stmts[k].line

\* The program loaded is the one written, statement for statement.
ProgramAsWritten == LoadsAsWritten /\ LinesAsWritten

\* A line handed over by mio_get_line is one line of the file, however its
\* length compares with the size of the blocks it is read in, and whether or
\* not the last one is ended.
LinesWhole ==
  pc = "line" => rd.buf = world.data[rd.fp.key][rd.line + 1].raw

\* A statement that has been executed has read exactly the values the file
\* was written to hold, whatever was read before; a run that fails does so
\* in the statement and with the error its data asks for.
ReadsAsWritten ==
  /\ \A k \in DOMAIN result :
       Token(k) \in DOMAIN world.reads => /\ world.want.reads[Token(k)].err = 0
                                          /\ result[k] = world.want.reads[Token(k)].items
  /\ pc = "error" /\ Loaded => /\ err = world.want.reads[Token(stmt)].err
                               /\ Len(result) = stmt - 1

\* The data read are the data written, line for line and value for value.
DataAsWritten == LinesWhole /\ ReadsAsWritten

\* A warning raised while a statement is executed is printed, or counted in
\* the message about suppressed ones, none is lost or told of twice; and
\* the first text ignored at the end of a file is always reported.
WarningsToldOf ==
  /\ pc \in {"exec", "done"} /\ stmt > 0 =>
       \A w \in Warnings : LET raised == IF w = 213 /\ Token(stmt) \in DOMAIN world.reads
                                         THEN world.want.reads[Token(stmt)].full ELSE 0
                           IN told[w] + supp[w] = IF world.verbose = "quiet" THEN 0 ELSE raised
  /\ pc = "exec" /\ stmt = 0 /\ world.verbose # "quiet" => (told[162] > 0) = (world.want.trailing > 0)

\* The text prog_tostr writes is exactly as long as the memory it asked for,
\* wherever the lines have to be broken; and the part of a statement
\* show_source prints holds the column it points at and no byte beyond it.
ListingFits ==
  Loaded =>
    LET lens == [k \in DOMAIN prog.stmt |-> Len(prog.stmt[k].text)]
    IN /\ \A prefix \in 1 .. 2, over \in 2 .. 4 :
            prog_tostr(prefix, 3, prefix + over, lens) = Room(prefix, 3, prefix + over, lens)
       /\ \A k \in DOMAIN prog.stmt : \A column \in 0 .. lens[k] + 1, half \in 1 .. 3 :
            LET w == Window(lens[k], column, half)
            IN /\ 0 <= w.beg /\ w.beg <= w.at /\ w.at <= w.end /\ w.end <= lens[k]
               /\ w.end - w.beg <= 2 * half

\* What is printed about the program is complete and stays inside the text.
MessagesOK == WarningsToldOf /\ ListingFits

\* Every run comes to an end, also one of files that include each other.
Ends == <>(pc \in {"done", "error"})
=============================================================================
