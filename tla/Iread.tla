-------------------------------- MODULE Iread --------------------------------
(***************************************************************************)
(* The read statement, iread.c and rdefpar.c: what a template asks for,    *)
(* the parameters of a read, the cleaning of a line, its fields, and the   *)
(* items a line gives.  A template is the sequence of its tokens: the      *)
(* brackets, fields with their number and type, and n+ or s+; a field is   *)
(* the sequence of its characters.                                         *)
(***************************************************************************)
EXTENDS MetaIO

CONSTANT MAX_FIELDS
ASSUME MaxFields == MAX_FIELDS \in Nat \ {0}

Digits     == {"1"}
Separators == {",", ";", ":"}
Blanks     == {" ", "\t"}
Types      == {"n", "s"}

\* ---- rdef_new, rdef_set_param, i_read_use, i_read_skip
rdef_new(file, pattern) ==
  [file |-> file, pattern |-> pattern, comment |-> {}, match |-> "", use |-> -1, skip |-> 0]
ParamError(p) ==
  CASE p.kind = "use"  /\ ~ p.int      -> 147
    [] p.kind = "use"  /\ p.val <= 0   -> 148
    [] p.kind = "skip" /\ ~ p.int      -> 149
    [] p.kind = "skip" /\ p.val < 0    -> 150
    [] OTHER -> 0
rdef_set_param(rdef, p) ==
  CASE p.kind = "use"     -> [rdef EXCEPT !.use = p.val]
    [] p.kind = "skip"    -> [rdef EXCEPT !.skip = p.val]
    [] p.kind = "comment" -> [rdef EXCEPT !.comment = p.chars]
    [] p.kind = "match"   -> [rdef EXCEPT !.match = p.char]

\* ---- parse_pattern
Tokens(t, kinds) == SelectSeq(t, LAMBDA x : x.kind \in kinds)
Streams(t) == Tokens(t, {"+"}) # <<>>
Fields(t)  == Tokens(t, {"field", "word"})
IsStream(t) == /\ \A i \in DOMAIN t : t[i].kind = "+" => t[i].type \in Types
               /\ [i \in DOMAIN t |-> t[i].kind] \in {<<"+">>, <<"<", "+", ">">>}
\* a template with brackets that ends with them has no value
IsTupleList(t) == t # <<>> /\ Last(t).kind = ">"

FieldError(x) ==
  CASE x.kind = "word"                    -> 152
    [] x.no < 1 \/ x.no > MAX_FIELDS      -> 153
    [] x.type \notin Types                -> 154
    [] OTHER -> 0
CountError(t) ==
  CASE Tokens(t, {">"}) = <<>> -> IF Len(Fields(t)) # 1 THEN 201 ELSE 0
    [] OTHER -> IF Len(Fields(t)) < (IF IsTupleList(t) THEN 1 ELSE 2) THEN 155 ELSE 0
TemplateError(t) ==
  LET bad == SelectInSeq(Fields(t), LAMBDA x : FieldError(x) # 0)
  IN CASE Len(Tokens(t, {"<"})) # Len(Tokens(t, {">"})) \/ Len(Tokens(t, {"<"})) > 1 -> 151
       [] Streams(t) -> IF IsStream(t) THEN 0 ELSE 151
       [] bad # 0    -> FieldError(Fields(t)[bad])
       [] OTHER      -> CountError(t)
hi_field_no(t) ==      \* counted from 0
  IF Streams(t) THEN MAX_FIELDS - 1
  ELSE CHOOSE m \in 0 .. MAX_FIELDS - 1 :
         /\ m = 0 \/ \E i \in DOMAIN Fields(t) : Fields(t)[i].no = m + 1
         /\ \A i \in DOMAIN Fields(t) : Fields(t)[i].no <= m + 1

\* ---- i_read: the line up to the first comment character, its leading
\* blanks skipped; a match is a character the text has to contain
Cleaned(buf, comment) ==
  LET text == SubSeq(buf, 1, Find(buf, 1, comment \cup {EOL, "\r"}) - 1)
  IN SubSeq(text, SelectInSeq(Append(text, EOF), LAMBDA c : c \notin Blanks), Len(text))
Matches(match, text) == match = "" \/ match \in ToSet(text)

\* ---- split_fields: the field that starts at s.  A quote starts the field
\* anew behind it, up to the next quote.
Quoted(s, text) == At(text, Find(text, s, Blanks \cup Separators \cup {"\""})) = "\""
FieldFrom(s, text) == IF Quoted(s, text) THEN Find(text, s, {"\""}) + 1 ELSE s
FieldTo(s, text) ==     \* the position the '\0' is put at
  Find(text, FieldFrom(s, text),
       IF Quoted(s, text) THEN {"\""} ELSE Blanks \cup Separators)
Field(s, text) == SubSeq(text, FieldFrom(s, text), FieldTo(s, text) - 1)
AfterBlanks(s, text) ==
  CHOOSE q \in s .. Len(text) + 1 : /\ At(text, q) \notin Blanks
                                    /\ \A r \in s .. q - 1 : text[r] \in Blanks
AfterSeparator(s, text) == IF At(text, s) \in Separators THEN s + 1 ELSE s
NextField(s, text) ==
  LET to == FieldTo(s, text)
  IN AfterBlanks(AfterSeparator(AfterBlanks(IF At(text, to) = "\"" THEN to + 1 ELSE to, text), text), text)

\* ---- numb_is_number looks at the first characters, gmp_str2mpq leaves out
\* what is neither a digit nor part of the notation
numb_is_number(f) ==
  LET Digit(i) == At(f, i) \in Digits
  IN \/ Digit(1)
     \/ At(f, 1) \in {"+", "-", "."} /\ (Digit(2) \/ (At(f, 2) = "." /\ Digit(3)))
numb_new_ascii(f) ==
  (IF Head(f) = "-" THEN <<"-">> ELSE <<>>) \o SelectSeq(f, LAMBDA c : c \in Digits \cup {"."})

\* ---- process_line, process_entry_stream, process_tuple_stream
Readable(type, f) == type = "n" => numb_is_number(f)
Value(type, f) == IF type = "n" THEN <<"n", numb_new_ascii(f)>> ELSE <<"s", f>>
\* what is wrong with the i-th field a template asks for
AskError(t, i, fields) ==
  CASE t[i].no > Len(fields) -> IF i = Len(t) /\ t[i].value THEN 157 ELSE 156
    [] ~ Readable(t[i].type, fields[t[i].no]) -> 174
    [] OTHER -> 0
\* the fields a template asks for, the last one marked where it is a value
Asked(t) == [i \in DOMAIN Fields(t) |->
              [no |-> Fields(t)[i].no, type |-> Fields(t)[i].type,
               value |-> i = Len(Fields(t)) /\ ~ IsTupleList(t)]]
StreamType(t) == Tokens(t, {"+"})[1].type

LineError(t, fields) ==
  IF Streams(t)
  THEN IF \E i \in DOMAIN fields : ~ Readable(StreamType(t), fields[i]) THEN 174 ELSE 0
  ELSE LET bad == SelectInSeq([i \in DOMAIN Asked(t) |-> AskError(Asked(t), i, fields)], LAMBDA e : e # 0)
       IN IF bad = 0 THEN 0 ELSE AskError(Asked(t), bad, fields)

\* an item: its tuple and, in a list of entries, its value
Item(key, val) == [key |-> key, val |-> val]
StreamItems(t, fields) ==
  [i \in DOMAIN fields |-> IF IsTupleList(t) THEN Item(<<Value(StreamType(t), fields[i])>>, <<>>)
                           ELSE Item(<<>>, Value(StreamType(t), fields[i]))]
AskedItem(ask, fields) ==
  LET vals == [i \in DOMAIN ask |-> Value(ask[i].type, fields[ask[i].no])]
  IN IF Last(ask).value THEN Item(Front(vals), Last(vals)) ELSE Item(vals, <<>>)
LineItems(t, fields) == IF Streams(t) THEN StreamItems(t, fields) ELSE <<AskedItem(Asked(t), fields)>>

\* a file that gave nothing: an empty tuple, or a pseudo set as value
Dummy(t) == <<Item(<<>>, IF IsTupleList(t) THEN <<>> ELSE <<"set", <<>> >>)>>
=============================================================================
