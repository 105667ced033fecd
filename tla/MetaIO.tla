------------------------------- MODULE MetaIO -------------------------------
(***************************************************************************)
(* Files as metaio.c sees them: a string registered under a name, the      *)
(* output of a command, a file on disk; and the line that is put together  *)
(* from blocks of BUF_SIZE_INC.  A file is a sequence of characters, its   *)
(* name a sequence of path components.  A world w has the files on disk    *)
(* (by name and extension) and the string files (by name).                 *)
(***************************************************************************)
EXTENDS Integers, Sequences, SequencesExt, FiniteSetsExt

CONSTANT BUF_SIZE_INC
ASSUME BlockSize == BUF_SIZE_INC \in Nat \ {0, 1}

EOF == "EOF"
EOL == "\n"

At(src, pos) == IF pos <= Len(src) THEN src[pos] ELSE EOF

\* the first position from pos on that holds one of chars or the end
Find(src, pos, chars) ==
  CHOOSE q \in pos .. Len(src) + 1 : /\ q > Len(src) \/ src[q] \in chars
                                     /\ \A r \in pos .. q - 1 : src[r] \notin chars

\* mio_open: [type, name, src], the type "ERR" where nothing can be read
Opened(type, key, src) == [type |-> type, key |-> key, src |-> src]
NotOpened == Opened("ERR", <<>>, <<>>)
mio_open(w, name, ext) ==
  CASE name \in DOMAIN w.strgs      -> Opened("STRG", <<name, "">>, w.strgs[name])
    [] <<name, "">> \in DOMAIN w.files  -> Opened("FILE", <<name, "">>, w.files[<<name, "">>])
    [] <<name, ext>> \in DOMAIN w.files -> Opened("FILE", <<name, ext>>, w.files[<<name, ext>>])
    [] OTHER -> NotOpened

\* popen of the command line option -P: the command writes the markers of
\* cpp in front of the file, and nothing where there is no file
mio_popen(w, name) ==
  Opened("PIPE", <<name, "">>, IF <<name, "">> \in DOMAIN w.files
                               THEN w.prelude \o w.files[<<name, "">>] ELSE <<>>)

\* strgfile_gets, fgets: up to BUF_SIZE_INC - 1 characters of one line
mio_gets(src, pos) ==
  SubSeq(src, pos, Min({Find(src, pos, {EOL}), Len(src), pos + BUF_SIZE_INC - 2}))

\* mio_get_line reads on while the block it asked for is full and does not
\* end the line
LineGoesOn(buf, size, got) == got # <<>> /\ Len(buf) = size - 1 /\ Last(buf) # EOL
NothingRead(size, got) == got = <<>> /\ size = BUF_SIZE_INC
=============================================================================
