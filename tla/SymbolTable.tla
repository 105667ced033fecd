----------------------------- MODULE SymbolTable -----------------------------
(***************************************************************************)
(* The declarations of sets, parameters and variables: the list of values  *)
(* a statement is evaluated to (i_entry, i_entry_list_add, i_list_matrix,  *)
(* a read), the symbol it creates, the entries added one by one, the value *)
(* found for an index, and the end of the session, with the references and *)
(* the cells everything takes.  Index sets are sequences of keys in the    *)
(* order they are walked; values are members of small sets.                *)
(***************************************************************************)
EXTENDS Entries

CONSTANTS SYMBOL_EXTEND_SIZE,
          Decls,        \* the statements a program is made of
          Params,       \* the definitions of the command line
          MaxStmts, MaxSessions

VARIABLES mem,      \* stores, tuples and entries
          syms,     \* the symbols, the newest last
          tree,     \* what the nodes of the program hold: tuples, entries, and
                    \* the entries in the cells of the lists
          cur,      \* the statement being executed
          pc,       \* where it is
          err,      \* the error that ended the session, 0 if none
          carried,  \* blk_count when the session started
          stmts, sessions

vars == <<mem, syms, tree, cur, pc, err, carried, stmts, sessions>>

Internal == "@@"          \* SYMBOL_NAME_INTERNAL
Nothing  == [tup |-> <<>>, ent |-> <<>>, cells |-> <<>>]
NoStmt   == [decl |-> [kind |-> "none"], list |-> <<>>, read |-> <<>>, left |-> 0,
             deflt |-> 0, held |-> Nothing]

Used(name)   == \E s \in ToSet(syms) : s.name = name
Symbol(name) == syms[SelectInSeq(syms, LAMBDA s : s.name = name)]
This         == syms[Len(syms)]    \* the symbol of the statement

symbol_new(name, type, iset, deflt) ==
  [name |-> name, type |-> type, iset |-> iset, size |-> 1, extend |-> SYMBOL_EXTEND_SIZE,
   entry |-> <<>>, hash |-> <<>>, deflt |-> deflt]

SymbolMem(m, deflt) == IF deflt = 0 THEN m ELSE entry_copy(m, deflt)

\* symbol_lookup_entry: the value of the key, else the default for every
\* other key of the index set, else 0
\* mutant: a default goes first
symbol_lookup_entry_Deflt(m, s, key) ==
  IF s.deflt # 0 /\ key \in ToSet(s.iset) THEN s.deflt ELSE hash_lookup_entry(m, s.hash, key)
symbol_lookup_entry(m, s, key) ==
  LET e == hash_lookup_entry(m, s.hash, key)
  IN IF e = 0 /\ key \in ToSet(s.iset) THEN s.deflt ELSE e

\* symbol_add_entry: the array grows first, also for a duplicate
\* mutant: the array grows one entry too late
Room_Late(s) == IF Len(s.entry) <= s.size THEN s
                ELSE [s EXCEPT !.size = @ + s.extend, !.extend = 2 * @]
Room(s) == IF Len(s.entry) < s.size THEN s
           ELSE [s EXCEPT !.size = @ + s.extend, !.extend = 2 * @]
\* mutant: what is in the hash is not asked
Duplicate_No(m, s, e) == FALSE
Duplicate(m, s, e) == hash_lookup_entry(m, s.hash, Key(m, e)) # 0
Typed(s, type) == IF s.type = "ERR" /\ s.entry = <<>> THEN [s EXCEPT !.type = type] ELSE s
AddSym(m, s, e) ==
  IF Duplicate(m, s, e) THEN Room(s)
  ELSE [Typed(Room(s), m.ent[e].type) EXCEPT !.entry = Append(@, e), !.hash = <<e>> \o @]
AddMem(m, s, e) == IF Duplicate(m, s, e) THEN entry_free(m, e) ELSE hash_add_entry(m)

\* What i_symbol_deref does with an index: a value, an error, or the
\* assertion in entry_get_numb and its like.
i_symbol_deref(m, s, key) ==
  LET e == symbol_lookup_entry(m, s, key)
  IN IF e = 0 THEN [is |-> "error 142"]
     ELSE IF m.ent[e].type = s.type THEN [is |-> "value", val |-> m.ent[e].val]
     ELSE [is |-> "asserted"]
-----------------------------------------------------------------------------
\* ---- a session starts: zpl_read, zpl_read_with_args
FreshMem(m) == [blk |-> blk_init(m.blk), elem |-> m.elem, numb |-> numb_init(m.numb),
                tup |-> <<>>, ent |-> <<>>]

Start ==
  /\ pc = "none" /\ sessions < MaxSessions
  /\ mem' = FreshMem(mem) /\ carried' = mem.blk.count
  /\ syms' = <<symbol_new(Internal, "VAR", << <<>> >>, 0)>>
  /\ pc' = "args" /\ sessions' = sessions + 1 /\ stmts' = 0 /\ err' = 0
  /\ tree' = Nothing /\ cur' = NoStmt

\* zpl_add_parameter: the entry is eaten, the tuple freed
ParamAdded(m, s, t, e) ==
  /\ syms' = Append(syms, AddSym(m, s, e))
  /\ mem' = tuple_free(AddMem(m, s, e), t)
zpl_add_parameter(p) ==
  /\ pc = "args" /\ ~ Used(p.name)
  /\ ParamAdded(entry_new(tuple_new(mem, <<>>), NewTup(mem), p.type, p.val),
                symbol_new(p.name, "ERR", << <<>> >>, 0), NewTup(mem), NewEnt(mem))
  /\ UNCHANGED <<tree, cur, pc, err, carried, stmts, sessions>>

Load == pc = "args" /\ pc' = "idle" /\ UNCHANGED <<mem, syms, tree, cur, err, carried, stmts, sessions>>

\* zpl_exit: the frames of the statement are left behind with what they hold
Fail(n, held) ==
  /\ pc' = "exit" /\ err' = n /\ cur' = [cur EXCEPT !.held = held]
  /\ UNCHANGED <<carried, stmts, sessions>>
Left(ts, es) == [tup |-> ts, ent |-> es, cells |-> <<>>]
LeftLists    == [tup |-> <<>>, ent |-> <<>>, cells |-> cur.list \o cur.read]
-----------------------------------------------------------------------------
\* ---- the scanner meets a declaration
MatrixLine(cols, line) ==
  [j \in DOMAIN cols |-> [key |-> Append(line.idx, cols[j]), type |-> line.vals[j][1], val |-> line.vals[j][2]]]
Fitting(cols, lines) ==       \* the lines before the first of another length
  SelectInSeq(Append(lines, [vals |-> <<>>]), LAMBDA l : Len(l.vals) # Len(cols)) - 1
MatrixItems(cols, lines) == FlattenSeq([i \in 1 .. Fitting(cols, lines) |-> MatrixLine(cols, lines[i])])
Misfit(head) == head.from = "matrix" /\ Fitting(head.cols, head.lines) < Len(head.lines)

\* the entries of the part of a list that comes from a file or a matrix
HeadItems(d) == IF d.head.from = "matrix" THEN MatrixItems(d.head.cols, d.head.lines) ELSE d.head.items

\* What the grammar makes of a declaration: keys are sequences, entries have
\* a value of their type, bounds are numbers.
IsKey(k)          == k \in Seq(ToSet(k))
IsItem(x, types)  == IsKey(x.key) /\ x.type \in types
IsItems(s, types) == s \in Seq(ToSet(s)) /\ \A i \in DOMAIN s : IsItem(s[i], types)
Values == {"NUMB", "STRG"}
IsDecl(d) ==
  /\ d.kind \in {"para1", "set2", "set1", "para2", "var"}
  /\ IsKey(d.iset) /\ \A i \in DOMAIN d.iset : IsKey(d.iset[i])
  /\ <<>> \in ToSet(d.iset) => d.iset = << <<>> >>
  /\ d.kind \in {"para1", "set2"} =>
       /\ IsItems(d.items, IF d.kind = "set2" THEN {"SET"} ELSE Values \cup {"NAME"})
       /\ IsItems(HeadItems(d), IF d.kind = "set2" THEN {"SET"} ELSE Values \cup {"SET"})
       /\ d.head.from \notin {"read", "matrix"} => HeadItems(d) = <<>>
       /\ d.deflt # <<>> => IsItem(d.deflt[1], Values)
  /\ d.kind = "para2" => \A i \in DOMAIN d.iset : d.vals[i][1] \in Values \cup {"NAME"}
  /\ d.kind = "var" => \A b \in {d.lower, d.upper} : b[2] \in Int /\ (b[1] # "value" => b[2] = 0)

ASSUME SymbolTableAssumption ==
  /\ SYMBOL_EXTEND_SIZE \in Nat \ {0}
  /\ \A d \in Decls : IsDecl(d)
  /\ \A p \in Params : p.type \in Values

Declare(d) ==
  /\ pc = "idle" /\ stmts < MaxStmts
  /\ stmts' = stmts + 1 /\ UNCHANGED <<mem, syms, tree, carried, sessions>>
  /\ \/ /\ Used(d.name) /\ d.kind \in {"para1", "para2"}    \* Warning 252
        /\ UNCHANGED <<cur, pc, err>>
     \/ /\ Used(d.name) /\ d.kind \notin {"para1", "para2"}
        /\ pc' = "exit" /\ err' = 801 /\ UNCHANGED cur
     \/ /\ ~ Used(d.name)
        /\ pc' = (IF d.kind \in {"para1", "set2"} THEN "list" ELSE "begin")
        /\ cur' = [NoStmt EXCEPT !.decl = d, !.left = IF d.kind \in {"para1", "set2"} THEN Len(d.items) ELSE 0]
        /\ UNCHANGED err
-----------------------------------------------------------------------------
\* ---- i_entry and i_entry_list_new / _add: the literals, last to first
NodeEntry(m, item) == entry_new(tuple_new(m, item.key), NewTup(m), item.type, item.val)

EntryNode ==
  /\ pc = "list" /\ cur.left > 0
  /\ LET item == cur.decl.items[cur.left]
         t    == NewTup(mem)
         e    == NewEnt(mem)
     IN \/ /\ item.type = "NAME"                            \* Error 133
           /\ mem' = tuple_new(mem, item.key)
           /\ tree' = [tree EXCEPT !.tup = Append(@, t)]
           /\ Fail(133, LeftLists) /\ UNCHANGED syms
        \/ /\ item.type # "NAME"
           /\ mem' = list_data_new(NodeEntry(mem, item), e)
           /\ tree' = [tree EXCEPT !.tup = Append(@, t), !.ent = Append(@, e)]
           /\ cur' = [cur EXCEPT !.list = <<e>> \o @, !.left = @ - 1]
           /\ UNCHANGED <<syms, pc, err, carried, stmts, sessions>>

\* The head of the list: one entry of the file or the matrix after the other,
\* each kept by the list of the head alone.
ReadItem(m, item) ==
  entry_free(tuple_free(list_data_new(NodeEntry(m, item), NewEnt(m)), NewTup(m)), NewEnt(m))

HeadRead == /\ pc = "list" /\ cur.left = 0
            /\ cur.decl.head.from \in {"read", "matrix"} => Len(cur.read) = Len(HeadItems(cur.decl))

MatrixError ==                                              \* Error 172
  /\ HeadRead /\ Misfit(cur.decl.head)
  /\ Fail(172, LeftLists) /\ UNCHANGED <<mem, syms, tree>>

ReadEntry ==
  /\ pc = "list" /\ cur.left = 0
  /\ cur.decl.head.from \in {"read", "matrix"}
  /\ Len(cur.read) < Len(HeadItems(cur.decl))
  /\ mem' = ReadItem(mem, HeadItems(cur.decl)[Len(cur.read) + 1])
  /\ cur' = [cur EXCEPT !.read = Append(@, NewEnt(mem))]
  /\ UNCHANGED <<syms, tree, pc, err, carried, stmts, sessions>>

\* A list of a head alone is that list; to a longer one the entries of the
\* head are put in front one at a time, the last one ends up first.
ListNode ==
  /\ HeadRead /\ ~ Misfit(cur.decl.head) /\ cur.decl.head.from # "tuples"
  /\ IF cur.read = <<>> \/ cur.list = <<>>
     THEN /\ cur' = [cur EXCEPT !.list = cur.read \o cur.list]
          /\ tree' = [tree EXCEPT !.cells = @ \o cur.read \o cur.list]
          /\ pc' = "deflt"
     ELSE /\ cur' = [cur EXCEPT !.left = 1]
          /\ tree' = [tree EXCEPT !.cells = @ \o cur.read]
          /\ pc' = "front"
  /\ UNCHANGED <<mem, syms, err, carried, stmts, sessions>>

InFront ==
  /\ pc = "front"
  /\ \/ /\ cur.left <= Len(cur.read)
        /\ mem' = list_data_new(mem, cur.read[cur.left])
        /\ cur' = [cur EXCEPT !.list = <<cur.read[cur.left]>> \o @, !.left = @ + 1]
        /\ UNCHANGED <<tree, pc>>
     \/ /\ cur.left > Len(cur.read)
        /\ tree' = [tree EXCEPT !.cells = @ \o cur.list]
        /\ pc' = "deflt" /\ UNCHANGED <<mem, cur>>
  /\ UNCHANGED <<syms, err, carried, stmts, sessions>>

\* A file read with a template that has no values: Error 132 when it is the
\* whole list, an assertion of list_get_entry when literals follow.
TupleList ==
  /\ pc = "list" /\ cur.left = 0 /\ cur.decl.head.from = "tuples"
  /\ IF cur.list = <<>> THEN Fail(132, LeftLists) /\ UNCHANGED <<mem, syms, tree>>
     ELSE pc' = "asserted" /\ UNCHANGED <<mem, syms, tree, cur, err, carried, stmts, sessions>>

\* the default of a parameter is the entry of an empty tuple
Default ==
  /\ pc = "deflt" /\ pc' = "begin"
  /\ IF cur.decl.deflt = <<>> THEN UNCHANGED <<mem, tree, cur>>
     ELSE /\ mem' = NodeEntry(mem, cur.decl.deflt[1])
          /\ tree' = [tree EXCEPT !.tup = Append(@, NewTup(mem)), !.ent = Append(@, NewEnt(mem))]
          /\ cur' = [cur EXCEPT !.deflt = NewEnt(mem)]
  /\ UNCHANGED <<syms, err, carried, stmts, sessions>>
-----------------------------------------------------------------------------
\* ---- the symbol is created
Begun(type, iset, next) ==
  /\ syms' = Append(syms, symbol_new(cur.decl.name, type, iset, cur.deflt))
  /\ mem' = SymbolMem(mem, cur.deflt)
  /\ cur' = [cur EXCEPT !.left = 1] /\ pc' = next
  /\ UNCHANGED <<tree, err, carried, stmts, sessions>>
Refused(n) == Fail(n, Nothing) /\ UNCHANGED <<mem, syms, tree>>

ByIndex == /\ Len(cur.list) > 1 /\ Key(mem, cur.list[1]) = <<>>
           /\ cur.decl.iset # << <<>> >>
EmptyFile == mem.ent[cur.list[1]].type = "SET"

i_newsym_para1 ==
  /\ pc = "begin" /\ cur.decl.kind = "para1"
  /\ \/ /\ EmptyFile
        /\ Begun(IF cur.deflt = 0 THEN "ERR" ELSE mem.ent[cur.deflt].type, cur.decl.iset, "finish")
     \/ ~ EmptyFile /\ cur.decl.iset = <<>> /\ Refused(135)
     \/ /\ ~ EmptyFile /\ cur.decl.iset # <<>>
        /\ Begun("ERR", cur.decl.iset, IF ByIndex THEN "by index" ELSE "by list")

\* A set declared with [] takes the index set of its list.
ListIndex == FoldLeft(LAMBDA seen, e : IF Key(mem, e) \in ToSet(seen) THEN seen ELSE Append(seen, Key(mem, e)),
                      <<>>, cur.list)
i_newsym_set2 ==
  /\ pc = "begin" /\ cur.decl.kind = "set2"
  /\ \/ cur.decl.iset = <<>> /\ Refused(197)
     \/ cur.decl.iset # <<>> /\ Begun("SET", IF cur.decl.iset = << <<>> >> THEN ListIndex ELSE cur.decl.iset, "by list")

i_newsym_each ==     \* i_newsym_set1, i_newsym_para2, i_newsym_var
  /\ pc = "begin" /\ cur.decl.kind \in {"set1", "para2", "var"}
  /\ \/ cur.decl.iset = <<>> /\ cur.decl.kind = "set1" /\ Refused(197)
     \/ cur.decl.iset = <<>> /\ cur.decl.kind = "para2" /\ Refused(135)
     \/ /\ cur.decl.iset = <<>> => cur.decl.kind = "var"
        /\ Begun(CASE cur.decl.kind = "set1" -> "SET" [] cur.decl.kind = "para2" -> "ERR"
                   [] cur.decl.kind = "var" -> "VAR", cur.decl.iset, "each")
-----------------------------------------------------------------------------
\* ---- the entries, one at a time
Added(m, e) ==
  /\ syms' = [syms EXCEPT ![Len(syms)] = AddSym(m, @, e)]
  /\ cur' = [cur EXCEPT !.left = @ + 1]
  /\ UNCHANGED <<tree, pc, err, carried, stmts, sessions>>

\* check_tuple_set_compatible, then the member check
IndexError(iset, key) ==
  CASE iset # <<>> /\ Len(key) # Len(iset[1]) -> 188
    [] iset # <<>> /\ Len(key) = Len(iset[1]) /\ (\E i \in DOMAIN key : key[i][1] # iset[1][i][1]) -> 198
    [] OTHER -> IF key \in ToSet(iset) THEN 0 ELSE IF cur.decl.kind = "set2" THEN 131 ELSE 134

TypeError(m, e) == cur.left > 1 /\ This.type # m.ent[e].type

AddByList ==        \* insert_param_list_by_list and the loop of i_newsym_set2
  /\ pc = "by list" /\ cur.left <= Len(cur.list)
  /\ LET e == cur.list[cur.left]
         n == IndexError(This.iset, Key(mem, e))
     IN \/ n # 0 /\ Refused(n)
        \/ n = 0 /\ cur.decl.kind = "para1" /\ TypeError(mem, e) /\ Refused(173)
        \/ /\ n = 0 /\ (cur.decl.kind = "para1" => ~ TypeError(mem, e))
           /\ mem' = AddMem(entry_copy(mem, e), This, e) /\ Added(entry_copy(mem, e), e)

\* A new entry for the next key of the index set; its tuple is the loop's.
AddNew(m, t, e) == mem' = tuple_free(AddMem(m, This, e), t) /\ Added(m, e)
AddTyped(m, t, e) ==
  \/ TypeError(m, e) /\ mem' = m /\ Fail(173, Left(<<t>>, <<e>>)) /\ UNCHANGED <<syms, tree>>
  \/ ~ TypeError(m, e) /\ AddNew(m, t, e)

\* insert_param_list_by_index: values without keys, in the order of the set
AddByIndex ==
  /\ pc = "by index" /\ cur.left <= Len(cur.list) /\ cur.left <= Len(This.iset)
  /\ LET e == cur.list[cur.left]
     IN AddTyped(entry_new(tuple_new(mem, This.iset[cur.left]), NewTup(mem), mem.ent[e].type, mem.ent[e].val),
               NewTup(mem), NewEnt(mem))

\* the value of i_newsym_para2 for a key is evaluated with the key's tuple
AddPara2 ==
  /\ pc = "each" /\ cur.decl.kind = "para2" /\ cur.left <= Len(This.iset)
  /\ LET v == cur.decl.vals[cur.left]
     IN \/ /\ v[1] = "NAME" /\ mem' = tuple_new(mem, This.iset[cur.left])
           /\ Fail(133, Left(<<NewTup(mem)>>, <<>>)) /\ UNCHANGED <<syms, tree>>
        \/ /\ v[1] # "NAME"
           /\ AddTyped(entry_new(tuple_new(mem, This.iset[cur.left]), NewTup(mem), v[1], v[2]),
                     NewTup(mem), NewEnt(mem))

AddSet1 ==
  /\ pc = "each" /\ cur.decl.kind = "set1" /\ cur.left <= Len(This.iset)
  /\ AddNew(entry_new(tuple_new(mem, This.iset[cur.left]), NewTup(mem), "SET", cur.decl.vals[cur.left]),
            NewTup(mem), NewEnt(mem))

\* Bounds of a variable in halves: <<kind, 2 * value>>.  Integer variables
\* get the integers inside (Warnings 139 and 140).
\* mutant: both bounds are rounded down
Ceil_Floor(b) == <<b[1], 2 * (b[2] \div 2)>>
Ceil(b)  == IF b[1] = "value" THEN <<"value", 2 * ((b[2] + 1) \div 2)>> ELSE b
Floor(b) == IF b[1] = "value" THEN <<"value", 2 * (b[2] \div 2)>> ELSE b
Lower(d) == IF d.class = "con" THEN d.lower ELSE Ceil(d.lower)
Upper(d) == IF d.class = "con" THEN d.upper ELSE Floor(d.upper)
Conflict(d) == Lower(d)[1] = "value" /\ Upper(d)[1] = "value" /\ Lower(d)[2] > Upper(d)[2]

AddVar ==           \* the loop of i_newsym_var
  /\ pc = "each" /\ cur.decl.kind = "var" /\ cur.left <= Len(This.iset)
  /\ \/ /\ Conflict(cur.decl) /\ mem' = tuple_new(mem, This.iset[cur.left])
        /\ Fail(141, Left(<<NewTup(mem)>>, <<>>)) /\ UNCHANGED <<syms, tree>>
     \/ /\ ~ Conflict(cur.decl)
        /\ AddNew(entry_new(tuple_new(mem, This.iset[cur.left]), NewTup(mem), "VAR",
                            <<Lower(cur.decl), Upper(cur.decl)>>),
                  NewTup(mem), NewEnt(mem))

\* The loop ends; a key fetched when the values are used up is given back.
LoopOver ==
  \/ pc = "finish"
  \/ pc = "by list" /\ cur.left > Len(cur.list)
  \/ pc = "by index" /\ (cur.left > Len(cur.list) \/ cur.left > Len(This.iset))
  \/ pc = "each" /\ cur.left > Len(This.iset)
Finish ==
  /\ LoopOver /\ pc' = "idle" /\ cur' = NoStmt
  /\ mem' = IF pc = "by index" /\ cur.left <= Len(This.iset)
            THEN tuple_free(tuple_new(mem, This.iset[cur.left]), NewTup(mem)) ELSE mem
  /\ UNCHANGED <<syms, tree, err, carried, stmts, sessions>>
-----------------------------------------------------------------------------
\* ---- a name is used: the scanner wants a type, i_symbol_deref a value
Use(s, key) ==
  /\ pc = "idle"
  /\ \/ /\ s.type = "ERR"                                   \* not initialised
        /\ pc' = "exit" /\ err' = 801
     \/ /\ s.type # "ERR" /\ i_symbol_deref(mem, s, key).is = "error 142"
        /\ pc' = "exit" /\ err' = 142
     \/ /\ s.type # "ERR" /\ i_symbol_deref(mem, s, key).is = "asserted"
        /\ pc' = "asserted" /\ UNCHANGED err
  /\ UNCHANGED <<mem, syms, tree, cur, carried, stmts, sessions>>

\* ---- the end: prog_free, symbol_exit, elem_exit, numb_exit, blk_exit
EndOfProgram == pc = "idle" /\ pc' = "exit" /\ UNCHANGED <<mem, syms, tree, cur, err, carried, stmts, sessions>>

\* One object of a node at a time; the order of the nodes makes no difference.
prog_free ==
  /\ pc = "exit"
  /\ \/ /\ tree.cells # <<>>
        /\ mem' = list_data_free(mem, tree.cells[1])
        /\ tree' = [tree EXCEPT !.cells = Tail(@)] /\ UNCHANGED pc
     \/ /\ tree.cells = <<>> /\ tree.ent # <<>>
        /\ mem' = entry_free(mem, tree.ent[1])
        /\ tree' = [tree EXCEPT !.ent = Tail(@)] /\ UNCHANGED pc
     \/ /\ tree.cells = <<>> /\ tree.ent = <<>> /\ tree.tup # <<>>
        /\ mem' = tuple_free(mem, tree.tup[1])
        /\ tree' = [tree EXCEPT !.tup = Tail(@)] /\ UNCHANGED pc
     \/ tree = Nothing /\ pc' = "symbols" /\ UNCHANGED <<mem, tree>>
  /\ UNCHANGED <<syms, cur, err, carried, stmts, sessions>>

\* The newest symbol first: its entries with the cells of the hash, in an
\* order that makes no difference, then its default.
OneEntryLess(s) == [s EXCEPT !.entry = Front(@), !.hash = Tail(@)]
symbol_exit ==
  /\ pc = "symbols"
  /\ \/ /\ syms # <<>> /\ This.entry # <<>>
        /\ mem' = hash_elem_free(entry_free(mem, Last(This.entry)))
        /\ syms' = [syms EXCEPT ![Len(syms)] = OneEntryLess(@)]
        /\ UNCHANGED pc
     \/ /\ syms # <<>> /\ This.entry = <<>>
        /\ mem' = IF This.deflt = 0 THEN mem ELSE entry_free(mem, This.deflt)
        /\ syms' = Front(syms) /\ UNCHANGED pc
     \/ syms = <<>> /\ pc' = "stores" /\ UNCHANGED <<mem, syms>>
  /\ UNCHANGED <<tree, cur, err, carried, stmts, sessions>>

stores_exit ==
  /\ pc = "stores" /\ pc' = "none"
  /\ mem' = [blk |-> blk_exit(mem.blk), elem |-> elem_exit(mem.elem), numb |-> numb_exit(mem.numb),
             tup |-> <<>>, ent |-> <<>>]
  /\ cur' = NoStmt /\ UNCHANGED <<syms, tree, err, carried, stmts, sessions>>
-----------------------------------------------------------------------------
Init ==
  /\ mem = [blk |-> EmptyPool, elem |-> EmptyPool, numb |-> EmptyPool, tup |-> <<>>, ent |-> <<>>]
  /\ syms = <<>> /\ tree = Nothing /\ cur = NoStmt /\ pc = "none"
  /\ err = 0 /\ carried = 0 /\ stmts = 0 /\ sessions = 0

Keys == UNION {ToSet(d.iset) : d \in Decls} \cup {<<>>}

Next ==
  \/ Start \/ (\E p \in Params : zpl_add_parameter(p)) \/ Load
  \/ \E d \in Decls : Declare(d)
  \/ EntryNode \/ MatrixError \/ ReadEntry \/ ListNode \/ InFront \/ TupleList \/ Default
  \/ i_newsym_para1 \/ i_newsym_set2 \/ i_newsym_each
  \/ AddByList \/ AddByIndex \/ AddPara2 \/ AddSet1 \/ AddVar \/ Finish
  \/ \E s \in ToSet(syms) : \E key \in Keys : Use(s, key)
  \/ EndOfProgram \/ prog_free \/ symbol_exit \/ stores_exit

Spec == Init /\ [][Next]_vars
-----------------------------------------------------------------------------
\* ---- properties

Holds(x, list) == Cardinality({i \in DOMAIN list : list[i] = x})

\* the lists the statement holds that are not yet lists of nodes
ListHeld == IF pc \in {"list", "front", "asserted"} THEN cur.list ELSE <<>>
ReadHeld == IF pc \in {"list", "asserted"} THEN cur.read ELSE <<>>

\* where symbols hold an entry
EntryPlaces(ss, e)   == UNION {{i} \X {j \in DOMAIN ss[i].entry : ss[i].entry[j] = e} : i \in DOMAIN ss}
DefaultPlaces(ss, e) == {i \in DOMAIN ss : ss[i].deflt = e}

\* the places that hold a reference to an entry: nodes, lists, symbols,
\* defaults and frames that were left
EntryHolders(e) ==
  Holds(e, tree.ent) + Holds(e, cur.held.ent) + Holds(e, tree.cells) + Holds(e, cur.held.cells)
  + Holds(e, ListHeld) + Holds(e, ReadHeld)
  + Cardinality(EntryPlaces(syms, e)) + Cardinality(DefaultPlaces(syms, e))
Users(ent, t) == {e \in DOMAIN ent : ent[e].tuple = t}
TupleHolders(t) ==
  Holds(t, tree.tup) + Holds(t, cur.held.tup) + Cardinality(Users(mem.ent, t))

\* The state of a session: objects have references, symbols room.
TypeOK ==
  /\ pc \in {"none", "args", "idle", "list", "front", "deflt", "begin", "by list", "by index", "each",
             "finish", "exit", "symbols", "stores", "asserted"}
  /\ \A e \in DOMAIN mem.ent : /\ mem.ent[e].tuple \in DOMAIN mem.tup /\ mem.ent[e].refc > 0
                               /\ mem.ent[e].type \in {"NUMB", "STRG", "SET", "VAR"}
  /\ \A i \in DOMAIN syms : /\ Len(syms[i].entry) <= syms[i].size
                            /\ ToSet(syms[i].entry) \subseteq DOMAIN mem.ent

\* Every entry and every tuple is counted once for each place that holds it,
\* in the middle of a statement, after an error and while a session is taken
\* down: nothing is freed that is still reachable, nothing unreachable stays.
RefsExact ==
  /\ \A e \in DOMAIN mem.ent : mem.ent[e].refc = EntryHolders(e)
  /\ \A t \in DOMAIN mem.tup : mem.tup[t].refc = TupleHolders(t)

\* The cells of the three stores: those in use are those of live objects,
\* all others are on the free list, and the counts say so; the count of
\* blkmem.c also has what earlier sessions lost.
ElemPlaces(tup) == UNION {{t} \X DOMAIN tup[t].key : t \in DOMAIN tup}
NumbPlaces(tup) == UNION {{t} \X Numeric(tup[t].key) : t \in DOMAIN tup}
Numbers(ent)    == {e \in DOMAIN ent : ent[e].type = "NUMB"}
ListCells == Len(tree.cells) + Len(cur.held.cells) + Len(ListHeld) + Len(ReadHeld)
HashPlaces(ss) == UNION {{i} \X DOMAIN ss[i].hash : i \in DOMAIN ss}
Conserved(p, used, before) ==
  /\ p.free + used = p.cells
  /\ p.count = used + before
PoolsExact ==
  pc # "none" =>
    /\ Conserved(mem.blk, Cardinality(DOMAIN mem.tup) + ListCells + Cardinality(HashPlaces(syms)), carried)
    /\ Conserved(mem.elem, Cardinality(ElemPlaces(mem.tup)), 0)
    /\ Conserved(mem.numb, 4 + Cardinality(NumbPlaces(mem.tup)) + Cardinality(Numbers(mem.ent)), 0)

\* Memory is accounted for to the last cell and reference.
MemoryExact == RefsExact /\ PoolsExact

\* Entry array and hash agree: every key once, inside the index set, all
\* values of the type of the symbol.
TableOK ==
  \A i \in DOMAIN syms :
    /\ syms[i].hash = Reverse(syms[i].entry)
    /\ IsInjective([j \in DOMAIN syms[i].entry |-> Key(mem, syms[i].entry[j])])
    /\ \A e \in ToSet(syms[i].entry) : /\ Key(mem, e) \in ToSet(syms[i].iset)
                                       /\ mem.ent[e].type = syms[i].type

\* What a finished declaration binds, taken from its text.  A key gets the
\* value written first for it (values without keys count in the order of the
\* index set), else the default, else Error 142.  In front of literals the
\* lines of a file or a matrix count backwards, the last one first.  (A file
\* without entries makes the literals behind it void.)
Written(d)  == IF d.items = <<>> THEN HeadItems(d) ELSE Reverse(HeadItems(d)) \o d.items
Unkeyed(d)  == Len(Written(d)) > 1 /\ Written(d)[1].key = <<>> /\ d.iset # << <<>> >>
Place(d, key) == SelectInSeq(d.iset, LAMBDA k : k = key)
First(d, key) == IF Unkeyed(d) THEN (IF Place(d, key) <= Len(Written(d)) THEN Place(d, key) ELSE 0)
                 ELSE SelectInSeq(Written(d), LAMBDA x : x.key = key)
NoEntries(d)  == d.kind = "para1" /\ Written(d) # <<>> /\ Written(d)[1].type = "SET"
Answer(d, key) ==
  CASE d.kind = "set1" -> <<d.vals[Place(d, key)]>>
    [] d.kind = "para2" -> <<d.vals[Place(d, key)][2]>>
    [] d.kind = "var" -> << <<Lower(d), Upper(d)>> >>
    [] d.kind \in {"para1", "set2"} /\ ~ NoEntries(d) /\ First(d, key) # 0 -> <<Written(d)[First(d, key)].val>>
    [] OTHER -> IF d.deflt = <<>> THEN <<>> ELSE <<d.deflt[1].val>>
Found(s, key) == LET e == symbol_lookup_entry(mem, s, key) IN IF e = 0 THEN <<>> ELSE <<mem.ent[e].val>>
BindsAsWritten == LoopOver => \A key \in ToSet(This.iset) : Found(This, key) = Answer(cur.decl, key)

\* The table holds, and a lookup finds, what the program says.
TableAsWritten == TableOK /\ BindsAsWritten

\* The bounds stored for an integer variable are integers and admit the same
\* integers as the bounds written; those of a real variable are unchanged.
Admits(low, up, n) == (low[1] = "value" => low[2] <= 2 * n) /\ (up[1] = "value" => 2 * n <= up[2])
IntegerPoints ==
  pc = "each" /\ cur.decl.kind = "var" =>
    \A e \in ToSet(This.entry) :
      IF cur.decl.class = "con" THEN mem.ent[e].val = <<cur.decl.lower, cur.decl.upper>>
      ELSE /\ \A i \in 1 .. 2 : mem.ent[e].val[i][2] % 2 = 0
           /\ \A n \in -3 .. 3 : Admits(mem.ent[e].val[1], mem.ent[e].val[2], n)
                                 <=> Admits(cur.decl.lower, cur.decl.upper, n)

\* The table implements the partial functions of Bindings: a value once bound
\* to a key is never replaced or lost before the session ends.
Bound(s) == [key \in {Key(mem, e) : e \in ToSet(s.entry)} |->
               mem.ent[hash_lookup_entry(mem, s.hash, key)].val]
Table == IF pc = "symbols" THEN <<>> ELSE [n \in {s.name : s \in ToSet(syms)} |-> Bound(Symbol(n))]
Abstract  == INSTANCE Bindings WITH bind <- Table
Refines == Abstract!Spec
=============================================================================
