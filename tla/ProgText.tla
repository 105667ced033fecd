------------------------------ MODULE ProgText ------------------------------
(***************************************************************************)
(* How load.c cuts statements out of the text of a program.  A frame is    *)
(* one activation of prog_load: the file it reads, the line it is in and   *)
(* the statement it has gathered.  Characters stand for themselves, except *)
(* for a keyword with the blank behind it (Keyword), an include directive  *)
(* (a member of DOMAIN Includes, its path as value) and what cpp puts      *)
(* behind the hash of a line marker that names no file (Marker).           *)
(***************************************************************************)
EXTENDS MetaIO

CONSTANTS Includes, PROG_EXTEND_SIZE, MarkedLine
ASSUME ExtendSize == PROG_EXTEND_SIZE \in Nat \ {0}

Keyword == "k"
Marker  == "m"
Quote   == "\""
Hash    == "#"
Blank   == {" ", "\t", EOL}

Frame(fp, path) ==
  [fp |-> fp, pos |-> 1, path |-> path, lineno |-> 1, str |-> FALSE, text |-> <<>>]

\* skip_comment: the line number is grabbed from a marker of cpp
CommentLine(f, body) == IF body # <<>> /\ Head(body) = Marker THEN MarkedLine - 1 ELSE f.lineno + 1

\* get_line: what one character does to the statement gathered so far
Unterminated(f, c) == f.str /\ c \in {EOF, EOL}
StartsComment(f, c) == ~ f.str /\ c = Hash
\* mutant: a semicolon in a string ends the statement
EndsStatement_Anywhere(f, c) == c = ";"
EndsStatement(f, c) == ~ f.str /\ c = ";"
Spaced(c) == IF c \in Blank THEN " " ELSE c
Lineno(f, c) == IF c = EOL THEN f.lineno + 1 ELSE f.lineno
Taken(f, c) ==
  [f EXCEPT !.lineno = Lineno(f, c), !.str = IF c = Quote THEN ~ @ ELSE @,
            !.text = IF @ = <<>> /\ c \in Blank THEN @ ELSE Append(@, Spaced(c))]

\* make_pathname: relative to the directory of the file that includes
make_pathname(path, name) == IF Head(name) = "/" THEN name ELSE Front(path) \o name

\* the list of statements
Stmt(f) == [file |-> f.path, line |-> f.lineno, text |-> f.text]
prog_new == [size |-> PROG_EXTEND_SIZE, extend |-> PROG_EXTEND_SIZE, stmt |-> <<>>]
\* mutant: the array grows when it is already too small
prog_add_stmt_Late(prog, s) ==
  LET full == Len(prog.stmt) = prog.size + 1
  IN [size |-> IF full THEN prog.size + prog.extend ELSE prog.size,
      extend |-> IF full THEN 2 * prog.extend ELSE prog.extend, stmt |-> Append(prog.stmt, s)]
prog_add_stmt(prog, s) ==
  LET full == Len(prog.stmt) = prog.size
  IN [size |-> IF full THEN prog.size + prog.extend ELSE prog.size,
      extend |-> IF full THEN 2 * prog.extend ELSE prog.extend, stmt |-> Append(prog.stmt, s)]

\* prog_tostr: the room for the statements as comments of an output file,
\* a prefix in front of each line of at most max characters
CeilDiv(a, b) == (a + b - 1) \div b
Room(prefix, title, max, lens) ==
  prefix + title + 2
    + FoldLeft(LAMBDA n, len : n + len + CeilDiv(len, max - prefix - 1) * (prefix + 1), 0, lens)
\* what is written for one statement: k counts the line, pos the text
Written(prefix, max, len, pos) ==
  FoldLeft(LAMBDA w, i : [k |-> (IF w.k % max = 0 THEN prefix + 1 ELSE w.k) + 1,
                          pos |-> w.pos + (IF w.k % max = 0 THEN prefix + 1 ELSE 0) + 1],
           [k |-> 0, pos |-> pos], [i \in 1 .. len |-> i]).pos
prog_tostr(prefix, title, max, lens) ==     \* with the line end and the '\0'
  FoldLeft(LAMBDA pos, len : Written(prefix, max, len, pos), prefix + title, lens) + 2

\* show_source: the part of a text around a column, half characters wide on
\* either side where there are so many
Window(len, column, half) ==
  LET c    == IF column > 0 THEN column - 1 ELSE column
      end1 == IF c - half < 0 THEN 2 * half ELSE c + half
      beg1 == IF c - half < 0 THEN 0 ELSE c - half
      beg2 == IF end1 > len THEN beg1 - (end1 - len) ELSE beg1
  IN [beg |-> IF beg2 < 0 THEN 0 ELSE beg2, end |-> IF end1 > len THEN len ELSE end1, at |-> c]
=============================================================================
