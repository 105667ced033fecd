# A TLA+ verification of ZIMPL

ZIMPL reads a mathematical model, a program of declarations over sets,
parameters and variables, and writes the mixed integer program it stands for.
This directory holds TLA+ modules for the parts of the translator
(`src/src/zimpl`, C, about 29 000 lines) in which order, state and arithmetic at
the boundary decide whether the output is right, the TLC configurations that
check them, and proofs for the TLA+ proof system.

Source positions below are relative to `src/src/zimpl` unless a path is given.
`PROJECT.json` holds the map from every definition to its lines, the hazards,
the findings, and for every checked property a mutated definition that breaks
it.

## 1. The system

ZIMPL is a sequential interpreter: one thread, no signals, no messages. What is
hard about it is not interleaving but *shared mutable state over long
sequences of steps*: values kept inside the syntax tree, a list of locals
shared by all calls, static variables that survive from one statement and one
library session to the next, errors that leave by `longjmp` from anywhere,
hand-made pools and doubly linked lists, names that must be unique across the
whole run, and linearisations with computed big-M constants.

| Component | Files | State | Operations | What makes it correct |
|---|---|---|---|---|
| Library session, command line | zimpllib.c, zimpl.c, prog.c | statics of `zpl_read`, `zpl_read_with_args`; `is_longjmp_ok`; program | init of all parts, load, execute, exit of all parts | a session behaves like a first one; every exit path releases what was set up |
| Program text | load.c, stmt.c, source.c | line buffer, list of statements, warning counts | `get_line`, `prog_load` (includes, pipes), `stmt_parse`, `stmt_execute` | the statements are those of the text, in order; each is parsed after the ones before it were executed |
| Scanner, grammar | mmlscan.l, mmlparse2.y | `yydecl`, current statement, root of the tree | tokens depend on the symbols and defines known so far | a name means what the executed statements made it |
| Evaluation | code.c, inst.c, local.c, define.c | values in the nodes, list of frames, defines | `code_eval` and one function per instruction | the value of a tree; no value used after it is freed; frames balanced |
| Symbols | symbol.c, hash.c, entry.c | tables of entries by tuple, default | add, look up | a partial function with default; first entry wins |
| Elements, tuples, lists | elem.c, tuple.c, list.c | reference counts, pool of elements | copy, free | no value freed while referenced |
| Sets | set4.c, set*.c, idxset.c, heap.c | six representations | constructors, iterators with patterns, comparison, lookup | each iterator delivers the matching members exactly once |
| Input files | iread.c, rdefpar.c, metaio.c | read definition, open files and strings | template, skip, use, match, comment | the entries the template describes |
| Terms | term2.c, mono.c, bound.c, inst.c | arrays of monos | add, multiply, simplify, bounds, hand over | value preserved; bounds valid |
| Conditions on variables | vinst.c | rows and internal variables | vbool, vabs, vif | feasible points are those of the condition |
| Objective, QUBO | vinst.c, xlpglue.c, inst.c | costs, objective terms | objective, penalty conversion | the penalty vanishes exactly on feasible points |
| LP store | ratlpstore.c | struct pool, column and row lists, counters, name hash | add, delete, change | the lists are the matrix |
| Names | conname.c, ratlpstore.c | prefix, counter, global number | `conname_set/get/next/free`, name mangling | no two rows share a name |
| Writers | rat*write.c | none | LP, MPS, HUM, OPB, QBO, MST, ORD, SOS | what is written is the store |
| Presolve | ratpresolve.c | none | none | disabled with `#if 0` |
| Numbers | numbgmp.c, gmpmisc.c, random.c | pool of numbers, constants | rational arithmetic (GMP) | pool sound |
| Memory, strings | blkmem.c, strstore2.c, mshell.c, stkchk.c | free lists | allocate, free | no block handed out twice |
| LP interface | xlpglue.c, zlpglue.c | the current LP | adds rows, sets, objective terms | forwards every call faithfully |

Interactions. `zpl_read` runs `prog_execute`, which for each statement lets the
scanner and parser build a tree (`stmt_parse`) and evaluates it
(`stmt_execute`). Instructions read and write symbols and locals, and call
`conname_*`, vinst.c and xlpglue.c to create rows; xlpglue.c writes the LP
store, which the writers walk at the end. Errors call `zpl_exit`, which jumps
back into `zpl_read` when ZIMPL runs as a library.

Not part of the logic and left aside: `src/src/WIN` (a getopt),
`src/extra/zcplex.c`, `lint`, `make`, `talk`, `web`, `example`; `numbdbl.c` is an
alternative that is not compiled.

## 2. The modules

| Module | Models | Checked by | Proved in |
|---|---|---|---|
| `LpStore` | the nonzeros of ratlpstore.c | `MCLpStore`, `LpStore.cfg` | `LpStoreProofs` |
| `LpMatrix` | abstract matrix, implemented by `LpStore` | property `MatrixSpec` | `LpStoreProofs` |
| `LinRows` | the rows vinst.c makes for one operator, over integers | assumptions, through `VInst` | `VInstProofs` |
| `VInst` | conditions on variables, built on `LinRows` | `MCVInst`, `VInst.cfg` | `VInstProofs` |
| `Qubo` | objective statements and `addcon_as_qubo` | `MCQubo`, `Qubo.cfg` | `QuboProofs` |
| `SetRange` | the arithmetic of ranges | through `Sets` | `SetsProofs` |
| `SetReps` | the representations of sets | through `Sets` | |
| `Heap` | heap.c and what argmin and argmax do with it | through `Sets` | `SetsProofs` |
| `Sets` | set expressions and loops | `MCSets`, `Sets.cfg` | |
| `SetAlgebra` | abstract: sets of tuples, implemented by `Sets` | property `Refines` | |
| `Entries` | stores of cells; tuples, entries, lists with their references | through `SymbolTable` | `SymbolTableProofs` |
| `SymbolTable` | declarations, symbols, end of a session | `MCSymbolTable`, `SymbolTable.cfg` | `SymbolTableProofs` |
| `Bindings` | abstract: partial functions, implemented by `SymbolTable` | property `Refines` | `SymbolTableProofs` |
| `MetaIO`, `ProgText`, `Iread` | files and lines; the text of a program; templates and fields | through `Input` | |
| `Input` | from the text to the data read | `MCInput`, `Input.cfg` | |
| `Terms`, `XlpGlue` | mono.c, term2.c, xlpglue.c | through `TermEval` | |
| `TermEval` | expressions in variables and the statements they end in | `MCTermEval`, `TermEval.cfg` | `TermEvalProofs` |
| `Meaning` | abstract: functions of points, implemented by `TermEval` | property `Refines` | `TermEvalProofs` |
| `ConName` | names of rows and sets | through `Output` | |
| `LpFiles` | names in files; the writers | through `Output` | |
| `Output` | `ConName`, then all files of one problem and what they mean to a reader | `MCOutput`, `Output.cfg`, `OutputTable.cfg` | |
| `Values` | rational arithmetic; values, operators, pruning | through `CodeEval` | |
| `Denotation` | reference: the value of an expression | through `CodeEval` | |
| `CodeEval` | the machine of nodes, frames and defines | `MCCodeEval`, `CodeEval.cfg`, `CodeEvalRecursion.cfg` | |
| `Session` | calls of the library, the scanner's view of names | `MCSession`, `Session.cfg` | `SessionProofs` |
| `Iteration` | lemmas: induction over numbers, repeated application, sums, loops over lists | | itself |

Composition: `EXTENDS` runs `Terms`, `XlpGlue`, then either
`TermEval` or `LpFiles`; `Output` joins this chain with `ConName`; `Sets` stands
on `SetReps`, `SetRange` and `Heap`; `Input` joins `ProgText` and `Iread` over `MetaIO`. The four
refinements are `INSTANCE ... WITH` a mapping of the concrete state, and the
abstract specification is a property of the run.

### LpStore and LpMatrix

A nonzero is a struct in two doubly linked lists, the column of its variable and
the row of its constraint; unused structs are chained through the same field
`var_next` that links a column, and blocks of `LPS_STO_SIZE` structs are added
when the chain is empty. The pointer fields are functions from structs to
structs, variables or `NULL`, one action per operation (`lps_addvar`,
`lps_addcon`, `lps_addnzo`, `lps_delnzo`, `lps_setval`). The splices are the
operators `PushNext`, `PushPrev`, `UnlinkNext`, `UnlinkPrev`, used for both
dimensions, as the C code repeats the same lines for `var_*` and `con_*`.

- `WellLinked`: the chain of unused structs is acyclic, holds each exactly once
  and ends in `NULL` (`FreeListOK`, `NoStructLost`); each list starts at its
  head, `next` and `prev` are inverse, and everything in it belongs to the owner,
  in both dimensions at once (`ColumnsOK`, `RowsOK`), stated locally together
  with the order in which the structs were inserted, so that it is inductive;
  and the debug check of the code, `lps_valid`, never fails, as far as it is
  about nonzeros and storage (its tests on the lists of variables, rows and sets
  and on the sides of rows are left out).
- `CountsOK`: the three counters that writers and statistics rely on.
- `MatrixSpec`: refinement. Walking the lists gives the abstract `column` and
  `row` of `LpMatrix`; each operation changes one entry in one column and the
  same entry in one row. `lps_addnzo` inserts in front, so the order in which
  writers see a row is part of it.

Bounds: two variables, two constraints, two values, up to four structs in two
blocks of two. A splice touches a struct, its two neighbours and a head: three
structs in one list and one elsewhere are all the cases there are, and two
blocks make the store grow while structs are in use and after some were given
back. `VIEW` drops fields of unused structs, which are always written before
they are read; `SYMMETRY` permutes variables and constraints, which no invariant
tells apart, and all properties of the run are safety properties.

### LinRows and VInst

vinst.c turns `x <= y and not (vabs(z - 3) >= 2)` into linear rows with internal
binary and integer variables. `LinRows` states, for each operator, the rows as
predicates over the value `t` of the term, the result `re` and the internal
variables, exactly as the code writes their coefficients: the split
`t = x^+ - x^-` with `b^+ + b^- <= 1` and bounds `PlusBound`, `MinusBound`
(`handle_vbool_cmp`), rows of `and`, `or`, `xor`, `not`, of `vabs`, and the
big-M rows of `generate_conditional_constraint`. `VInst` is the evaluation: a
stack of result variables, operators that pop their operands, bounds of terms
as term2.c computes them, the short cut `check_if_fixed`, the error exits 106,
177, 179, 181 to 185, then and else parts, big-M and indicator form, and
ordinary constraints. The program built so far is represented by `points`, the
set of pairs (values of the user's variables, values of the result variables)
that satisfy all rows; other internal variables occur in one operator's rows
only and are quantified there.

- `NothingCut`: every point that the model admits, completed with the truth
  values of its conditions, satisfies all rows. A big-M that is too small
  violates it.
- `NothingAdded`: every point of the rows is admitted, and every result variable
  has the value of its condition: a solver cannot switch a condition off.

Numbers are counted in fractions `1/One`; the run has `One = 1`. It starts from
two sources: one nests up to three boolean operators over terms that are open,
fixed by their bounds, or empty; the other has a variable with negative bounds,
an unbounded continuous one, terms with negative coefficients and constants, and
all constraint types. Two or three operators are enough because every operator
sees its operands only through one result variable and its bounds. Terms of
conditions are linear here; Error 222, for a then or else part that is not, is in
`TermEval`.

### Qubo

Objective statements (`objective`, `xlp_addtoobj`, `lps_clearobj`) and
`addcon_as_qubo`, each iteration of its two loops a step: `qubo_double` adds
slack variables with coefficients 1, 2, 4, ... while `p2` fits, `qubo_bits` adds
the digits of the rest, `qubo_square` squares the result into the objective.
A term is represented by its value at every point of the user's variables, the
slack by the set `reach` of values it can take.

- `SlackCovered`: the slack variables take every value from 0 to the largest
  slack and no other.
- `PenaltyExact`: the squared term can be made zero exactly at the points that
  satisfy the constraint.
- `PenaltyCounts`: when a minimisation is declared first, points that satisfy
  all converted constraints keep their declared value and all others cost at
  least the factor more.

`Limit` stands for `1 << 30`; 8 with slacks up to 12 makes the loops run through
all shapes of the decomposition and reach errors 401 to 403.

### Sets, their representations and the heap

A set is one of six structs behind a table of functions: empty, pseudo (the one
empty tuple), list (a sequence of elements, with a hash above
`HASH_THRESHOLD`), range (three numbers), product (of two sets) and
multi-dimensional (an array of indices into one list set per component, and an
order for each component). `SetReps` translates each representation's
constructor, lookup, numbering and iterator, `SetRange` the division arithmetic
of setrange.c, `Heap` the binary heap of heap.c, its loops as functions of
their rounds. `Sets` is the evaluation: a stack
of sets; operations on the topmost (union, intersection, differences, cross
product, projection, comparison, membership, `ord`, `card`, permutation,
`subsets`, `powerset`) are single steps, and a loop (`StartLoop`, `Step`,
`Finish`) takes one member at a time from its iterator, so that the state of an
iterator between two members is part of the state: index sets, `exists`,
`forall`, `union` and `inter` over a condition, `argmin` and `argmax` with their
heap.

- `Refines`: every operation does what `SetAlgebra` says of sets of tuples,
  whatever the representations, and a loop delivers each member that matches its
  pattern and condition once. `argmin(n)` gives a best choice of n members.
- `OneOrder`: the number of a tuple found by lookup is the one it has in the
  array (`NumbersMatch`), a loop walks in this order (`LoopInOrder`), and the
  fore part a product iterator keeps is that of the member delivered last
  (`CacheFollows`). `ord`, `subsets` and products use numbers.
- `HeapBest`: the heap stays one, never exceeds its size and holds a best choice
  among the members met so far.
- `KindsKept`: elements of different types end with Error 160 and never meet in
  a set, unless a literal is long enough to be hashed.

Index sets over a set of dimension 0, such as the literal `{}`, become the set
of the empty tuple (inst.c:2783-2791), so that what is indexed by `{}` exists
once; if such a set does have the empty tuple as a member, `i_idxset_new` fails
an assertion (inst.c:3638), which ends the run of the model.

Bounds: two operations on twelve stacks of named sets, among them sets of
dimension 0, ranges with a
step that does not hit the end, a product of a product, a product with a
multi-dimensional back part, and lists that collide in the hash. An operation
sees other sets through the table of functions only, so a result of one
operation as the operand of another is all there is to compose.

### Entries, SymbolTable

`Entries` has the three stores of cells (blkmem.c with blocks that double,
elem.c, numbgmp.c), a free list being its length, and the tuples, entries, list
and hash elements that take cells and count references; `SymbolTable` the
statements that declare sets, parameters and variables. A statement is executed
as the code does: arguments (`args`), the list one entry at a time (from
literals, a file, or a table of lines), the default, the symbol, the entries
into array and hash one by one, and the releases in between; a dereference can
follow. `zpl_exit` leaves in the middle of it, with what the tree and the
frames hold. The end of a session frees the nodes, the symbols, then the stores,
one object at a time, and a second session starts with what the code does not
reset. A store is its number of free cells, of all cells, the size of its newest
block and its count; the symbols are a sequence with the newest, the head of the
code's chain, last. `IsDecl` is what the grammar guarantees of a declaration:
the items of a set are sets, those of a parameter numbers, strings or names
(which are Error 133), bounds are numbers or infinite.

- `MemoryExact`: each tuple and entry is counted once for each place that holds
  it, at every step (`RefsExact`); the cells of each store are those of live
  objects plus the free list, and the counts say so (`PoolsExact`).
- `TableAsWritten`: array and hash agree, one value per key, of one type, inside
  the index set (`TableOK`); and a lookup finds what the text of the
  declaration says (`BindsAsWritten`): the first value written for the key, the
  default, or Error 142. Lines of a file or a table in front of literals count
  backwards, the last one first, since `i_entry_list_add` puts each of them in
  front of the list.
- `IntegerPoints`: rounded bounds admit the same integers as those written.
- `Refines`: the table implements `Bindings`: a value bound to a key is never
  replaced or lost while the session lasts.

Bounds: two statements out of 36 in two sessions; blocks of two and three cells
so that every store grows in the middle of a statement; an index set of two
keys, since a key can be the first, a duplicate, missing or outside.

### MetaIO, ProgText, Iread, Input

Characters stand for classes (blank, digit, quote, separator, hash, end of
line). `MetaIO` opens strings, pipes and files with their extensions and puts a
line together from blocks; `ProgText` cuts statements out of text (strings,
comments, include directives, markers of cpp) and has the listing and the
excerpt of a message as pure functions; `Iread` has templates, parameters,
fields and items. `Input` runs them: the activations of `prog_load` are a stack
(`LoadChar`, `LoadComment`, `LoadInclude`, `LoadStmt`, `LoadEnd`), then each
statement is executed and may read a file line by line (`ReadParam`, `ReadOpen`,
`ReadBlock`, `ReadLine`, `ReadField`, `ReadStore`, `ReadEnd`).

- `ProgramAsWritten`: statements, their order, files and line numbers are those
  of the text; text that is none ends the run before anything is executed.
- `DataAsWritten`: a line handed over is one line of the file, whatever its
  length is compared with the blocks; the values read are those the file was
  written to hold, and an error is the one its data asks for.
- `MessagesOK`: a warning is printed or counted as suppressed, once; the listing
  of a program has the length its memory was computed for, and an excerpt stays
  inside the statement.
- `Ends`: every run ends. Files that include each other end it by the number of
  open files.

A world pairs files with what they were written to say; both are composed from
the same pieces in `MCInput`, so that the expected statements and items are not
computed by the model. Bounds: up to three pieces of text, up to three lines of
data, blocks of three characters with lines of one to five, two reads one after
the other, three open files.

### Terms, XlpGlue, TermEval

A mono is a coefficient and variables in the order of their addresses; a term a
constant and an array. `Terms` translates copy, add, subtract, multiply, power,
scaling and `term_simplify` with its hash table of `HASH_SIZE` buckets;
`XlpGlue` what rows, ranges, indicators, sets and the objective become in the
store. `TermEval` evaluates bottom up: instructions push and pop terms, then a
statement makes a row, a range, an indicator constraint, a set or the objective,
with errors 106 to 109, 181, 199 and 222 and those for exponents. Warning 215
about start values is printed, with `-m`, once per statement, and changes nothing;
it is left out.

- `Refines`: `TermEval` implements `Meaning`, where an expression is a function
  of points and a constraint a set of points: joining, cancelling, splitting off
  constants and moving them between the sides never changes what a point is
  worth, and an error about infeasibility is only given for a constraint that no
  point satisfies.
- `Simplified`: a nonlinear row or objective in the store has no two monos in the
  same variables.

Bounds: three instructions, degree three, two statements; terms are compared as
functions at four points, of which no two agree in any two variables; addresses
that put the variables in another order than their declaration; points are
enough to tell apart the polynomials of this size that occur.

### ConName, LpFiles, Output

`conname.c` has three formats: `cm` numbers all constraints, `cn` numbers those
of a statement behind its name, `cf` appends the locals. The actions of
`ConName` are the uses: `i_constraint` (also converted to a penalty), the rows
of vinst.c (`i_vbool` with the global number `internal_cons`, `i_vif_else`),
sets, objectives, errors inside a statement, the end of a session. Names are
strings. `Output` continues when the program has been read: rows, sets,
variables and objective get their contents, and main writes the order file, the
start values, the problem and the table, each step one file, or ends at one
that cannot be opened. `LpFiles` mangles names (`make_full_name`, `lpfstrncpy`,
`lps_makename`), computes the size each writer asks for, and translates
the writers section by section, with `lps_scale` before them. A file is a record
of what it says; the digits of numbers and the layout are left out. The second
part of `Output` is the other side: the points, costs and direction a reader of
each format gets.

- `UniqueByFormat`: in `cm`, and in `cn` while no name is used twice and none is
  that of a generated row without its number (`LikeGenerated`, as `c_1_a` beside
  `c`), no two rows or sets have the same name, over two sessions and any mixture
  of rows.
- `NamesIdentify`: in a file no two variables, and no two rows, have the same
  name, and all files agree on the names of the variables.
- `ReadsBack`: whoever reads the file gets the problem that is in the store, as
  far as the format can say it (`Expressible` lists what each cannot).
- `TableTells`: the table shows the names of the file; violated (section 3).

Bounds: three rows over three programs in two sessions, since a clash is between
two names and a third row moves both counters past a previous one; the names are
a short and a long one, one like the generated rows of the short one, and one
like the rows of a then part of the long one, which does not clash. Then twelve
problems, each made to hold what one or more formats treat in a special way
(ranges, cuts, a fixed variable, products, an indicator, a row that vanishes, a
variable only in a set, binaries, a maximised matrix, a row to be scaled that
has no nonzeros).

### Values, Denotation, CodeEval

A value lives in the node that computed it and is freed by the next evaluation
of the node; instructions hold pointers to the values of their children while
they evaluate others; a define that calls itself evaluates nodes that are in
use. `CodeEval` is the machine: `stack` of running instructions, `val` of the
nodes with a stamp that tells a pointer to an old value, `locals` the list of
local.c. Before a statement is evaluated, its constant parts are
(`code_prune_tree`) and their values stay in the nodes (`code`). Instructions:
the operators on numbers, strings and truth values, if-then-else, all loops over
an index set (`sum`, `prod`, `min`, `max`, `forall`, `exists`, and `min` and
`max` of a set), `check`, lists
of elements with `min` and `max`, defines, locals and constants. Where C leaves
the order of evaluation open (`numb_new_add(code_get_numb(child),
code_eval_child_numb(self, 1))`), both orders are taken. Reading a freed value
ends in the status "undefined", a division by zero inside GMP in "abort".

`Values` computes with fractions as numbgmp.c does, and says what each
instruction makes of its operands, the errors for wrong ones included, and which
trees are pruned. `Denotation` is the reference: it defines the functions by their properties (the quotient as the number whose
distance is least, and so on) and the value of an expression without nodes,
pointers or frames.

- `Result`: the machine ends with the value `Worth` gives, or with an error if
  there is none, unless a define needs the value of one child across another
  child that leads back to it (`Guarded`). This says exactly which recursive
  defines ZIMPL can evaluate: those like `ack` in check/define.zpl, where
  recursion happens in branches and arguments. A constant that has no value ends
  the run even where it would not be reached.
- `Scoped`: locals are scoped dynamically, so a define sees its caller's, even as
  a value for its own index; when the names are apart (`Hygienic`), its value
  depends on its arguments only (`Lexical`). The list of locals is exactly what
  the running instructions installed (`LocalsMatch`).

Programs: about 2300. All bodies of a small grammar times eight uses, two
defines that call each other, the Ackermann function of check/define.zpl, the
two questions of doc/zimplfaq.tex, and every operator on constants (pruned) and
on arguments (evaluated) at boundary values: zero, halves, negative operands,
mixed types.

### Session

All state of ZIMPL is static. `zpl_read` and `zpl_read_with_args` set it up, run
the program under `setjmp` and take it down again. A record holds what survives
a call or could: the name format and counter of conname.c, `yydecl` of the
scanner, parameters, pipe and their count, symbols, defines, locals, the number
of internal rows, the rows of the LP, and what was shown to the caller. The
module runs two such records: `p`, the process that makes all the calls, and
`twin`, a process started afresh for the current call with the settings that
are meant to survive (the format of `-n`, and the counter, which format `cm`
continues).

A call (`Call`) treats its options in order, ends early at a bad one, or starts
the program; `Statement` is a round of `prog_execute`: scan, parse, execute. The
scanner is modelled as far as it depends on state (`yylex`): names of
constraints are not looked up, names to be declared must be unused, a parameter
declared again is skipped, a define is entered at once, and the token of a name
in use is what executed statements made it. Statements declare a parameter, a
variable, a define or a constraint, or print; each may use another name, and be
wrong behind its keyword, behind its name, or when it is evaluated. `Return`
takes everything down, after the end or an error.

- `SameAsFirst`: whatever was called before, a call shows what its twin shows.
  Two exceptions are stated with it, because they are in the code: a call that
  ended early after `-D` or `-P` leaves its counter and pipe (zimpllib.c returns
  before the take-down), and a syntax error before a name leaves `yydecl`, which
  matters if the next program begins with `do`.
- `CommandLineWins`: exactly the names given with `-D` in this call come from the
  command line, and no declaration replaces or hides them.
- `OneMeaning`: a name is one symbol or one define; this rests on the scanner
  alone, as `symbol_new` and `define_new` do not look.

A name is given at most once with `-D` in a call (`SessionAssumption`):
`add_parameter` calls `symbol_new` without looking (zimpllib.c:193-194), so that a
second one makes a second symbol of the name.

Bounds: three calls, so that a call with leftovers lies between two others;
programs of three statements over two names and the index of a `forall`: one
that defines, one that uses, one that fails; nine lists of options with every
kind of early return. The model is that of a build without assertions: with
them, an error in a `subto` leaves `cname` set and the next call's first `subto`
stops at conname.c:82.

## 3. Runs

Deadlock is not checked where the program may end or its caller stop (all runs
but the two of `CodeEval`, where a program that has ended stutters explicitly
and any other state must have a next step).

| Run | States | Shows |
|---|---|---|
| `lpstore` | 28 617 | lists, counters and pool stay sound, and implement the matrix |
| `vinst` | 70 113 | conditions neither cut nor add points; all error exits |
| `qubo` | 69 338 | slack decomposition and penalties are exact |
| `sets` | 47 951 | six representations and all loops implement sets of tuples |
| `data` | 102 253 | references and cells are exact, the table is what was declared |
| `input` | 74 957 | program and data are what the files say; every run ends |
| `terms` | 261 574 | rows and costs have the values of the expressions |
| `output` | 232 504 | names are unique, every file reads back as the problem |
| `codeeval` | 84 457 | evaluation gives the value of the tree |
| `session` | 207 024 | a call is like a first one, names mean one thing |
| `output_table`, `codeeval_recursion` | | findings, below |

Fairness: one thread runs the program and nothing outside of it has to happen for
a step, so that it does not stop between two steps: `Input` has `WF_vars(Next)`,
for `Ends`. No other module assumes fairness; where a caller decides what comes
next, or loops are bounded by data, all properties are safety properties.

### Findings

1. `codeeval_recursion` (inst.c:386). A define of the form
   `f(i) := i + sum <j> in A with j > i : f(j)` gives a wrong number or reads
   freed memory: child 0's value is used after the inner call has evaluated the
   same node. mmlscan.l:258-259 installs defines early "so that recursive call
   succseed".
2. `output_table` (ratlpstore.c:2069). The table of names computes the names
   again with a size of its own: for format pip, or when names of rows are longer
   than all names of variables, it shows names that are not those of the file.
   zimplug.tex:286-287 says it lists "their corresponding names in the problem
   file".

### Divergences met while modelling, without a run

The model does what the code does, or its inputs leave the case out as said with
the property; none of these is checked by a run of its own.

Evaluation and numbers: `mod` of fractions is not divided by the common
denominator again (1.5 mod 1 = 1; numbgmp.c:465-491); `numb_mod` cuts off where
`numb_new_mod` is never negative; `div` cuts off, so that a is not
b*(a div b) + (a mod b) for negative a; 0^-1 ends the process inside GMP;
`numb_is_int` tests the low bits of the denominator; zimplug.tex says round is
"round towards zero", code and check/expr.zpl round halves away from zero;
constants in branches that are never reached can end the run. A define of which
only the name was executed before an error has a `NULL` tuple that
`define_exit` frees (define.c:129).

Conditions and objective: `x >= 0.5` on an integer x passes the test, which looks
at variables only (vinst.c:281), and is infeasible; a second objective keeps
the terms of degree two or more of the first (ratlpstore.c:2110;
zimplerr.tex:432-433 says it is superseded).

Names and files: in format `cn` the test for a used name overlooks statements
whose first constraint was conditional or converted (conname.c:97), and a
statement `c_1_a` beside a statement `c` whose condition makes the row `c_1_a_1`
(vinst.c:104); the comment there, conname.c:74-78, says that in the other formats
"all constraints will get a unique number anyway", which `cf` does not give them.
MPS with
`-l` above 8 cuts names to eight characters, HUM cuts after the room of an LP
name, and both can collide; MPS leaves out products and indicators silently and
writes sides of rows that are not in ROWS; rows of degree above two become a
comment in LP files while their right hand side stays; rows that cancel to
nothing are left out; qbo tests only the first variable of a product to be
binary, and the offset is not negated for a maximisation; `scale` on a row
without nonzeros divides by zero; `-r` and `-m` with formats other than lp and
mps fail an assertion; variables in no row are missing from the order file and
start values; OPB writes a degree-1 mono of a term as a square.

Input: a separator at the end starts no field (zimplug.tex says each occurrence
starts a new one); `ab"c"` drops `ab`; comment characters cut inside quotes;
`1a1` is read as 11 (zimplerr.tex:271-274 promises Error 174); fields of 32
characters fail an assertion (gmpmisc.c:135); Warning 162 of a second file is
counted and never shown; `-P` with a missing include reads an empty program;
`prog_tostr` with a width one above the prefix divides by zero.

Sets and symbols: an index set over `{}` has one member, the empty tuple, not none
(inst.c:2783-2791); mixed literals of up to 12 elements end with Error 160, longer
ones are accepted unless two types meet in a bucket; a number that is not whole
fails an assertion when it is looked up in a range (setrange.c:188); argmin over
an empty set fails one at inst.c:2339 (zimplerr.tex:374-376 describes an empty
result), `permute` of one element at inst.c:2660; the type of a default is never
compared; literals behind a read or table are put in reversed, so that the last
line wins; an empty file makes the literals behind it void; statements are freed
only at the end (stmt.c:148), and what an error leaves is carried into the
counts of the next session.

Terms: Warning 215 looks at the nonzeros only, so that for rows with products it
is given or not whatever the start values are (ratlpstore.c:2166;
zimplerr.tex:403-406); a set over a
nonlinear term fails an assertion (xlpglue.c:415), as does `power(x, 0)`
in a term of coefficient zero (vinst.c:1319).

## 4. Proofs

All proofs are for every value of the constants under the assumptions stated
with the modules, and are checked by SMT, Zenon and, for the temporal steps,
LS4.

**Iteration.** The library's induction rules take a predicate as a parameter,
which no installed prover can instantiate. What is needed of them here are facts
about sets and functions: a set of numbers with a member has a least one
(`Least`, from the well founded order of finite sets by inclusion), so a set that
has 0 and with every number its successor has all (`Induction`); a function
applied n times has its sequence of values and keeps an invariant (`Repeated`,
`SameSteps`); partial sums exist, stay in a closed set and are monotone
(`Summed`, `SumIn`, `SumMonotone`). Loops of the models are recursive functions
(`rounds[n]`), and these lemmas say what they compute.

**LpStoreProofs.** `Typing`: `Spec => []TypeOK` for any sets of variables,
constraints and values and any block size. `ListsLinked`: the free list and both
list invariants. The invariant `ListsOK` is the conjunction of the type
invariant, the shape of the chain of unused structs, and `LinkedOK` for both
dimensions; it is inductive because `LinkedOK` carries the insertion order that
makes a list acyclic. `PushLinked` and `UnlinkLinked` prove that one splice keeps
one dimension; the dimensions are independent because a splice of one writes
only its own fields, and `FreshBlock` that a new block is a chain apart from
everything. `Counts`: the counters equal the cardinalities, from `ListsLinked` and two
lemmas on cardinality.

`StoreWellLinked` is `WellLinked` as a whole. `LinkedOK` alone would admit a ring
of structs that no head leads to, and `lps_valid`, which walks from the heads,
would not meet it. `HeldInv` excludes this without speaking of walks: a set that
holds the heads and what its members point to holds all linked structs, and the
same for the chain of unused ones. It is kept by every splice, and with it each
list is a sequence without repetition (`ChainExists`) that a walk meets from one
end to the other in as many steps as it has members (`WalkIs`).
`ImplementsMatrix` is the refinement: these sequences are the columns and rows of
`LpMatrix`, a new struct is an entry in front of both (`ChainPush`), a splice
takes the entry out of both (`ChainDrop`), and setting a value changes it in
both.

**VInstProofs.** The rows of one operator (`LinRows`) first. For every operator,
all integers and all valid bounds: the rows have a solution with result `re` exactly if `re` is the truth value
(`CmpExact`, `BoolExact`), `vabs` is exact (`AbsExact`), deciding a comparison by
bounds is right (`FixedSound`), and the big-M rows are equivalent to the
conditional constraint for every valid bound (`CondExact`).

Then the composition: `TranslationTyped`, `NoPointLost`
(`NothingCut`) and `NoPointGained` (`NothingAdded`) for programs of any length.
The invariant is `TypeInv`, by which the value meant by every result is within
the bounds computed for it, and `Exactly`: the rows made so far admit the points
of the model, each with the values that are meant and no others. A step adds
the rows of one operator, which are exact by the first part for a term that is
whole and within its bounds (`Enclosed`). The hypothesis `WholeConstants` says that the constants of the program are whole:
`handle_vbool_cmp` tests only that the variables are integer (vinst.c:281), and
with the condition `x >= 0.5` the rows are indeed not exact; this is the first
of the divergences on conditions above.

**QuboProofs.** `SlackInduction` proves the inductive invariant `SlackInv` of the
two loops: after the first loop `reach` is `0 .. p2 - 1`; in the second, with the
bits below `bit` treated, the rest `sval` is `bit * q + r` and `reach` is
`0 .. p2 - 1 + r`. A single slack with a coefficient not larger than the next
value extends a full range (`Extend`). `Covered` and `Exact` follow for every
constraint, bound and limit. `LoopsTyped` and `PenaltiesCount` are about any
number of statements: the objective is, at every point, the sum of what each
statement has added (`AddsUp`), and a penalty, with its constant, adds zero where
its constraint holds, since some slack makes the square vanish by `Exact`, and
more than zero elsewhere, so that points which satisfy all constraints keep the
declared cost and others pay.

**SetsProofs.** Module `Sets` reaches recursive operators (`SetReps`), so that
`HeapBest` and `OneOrder` themselves stay with TLC; what is proved is about the
operators its actions are made of. `SiftUp` and `SiftDown`: a heap that is wrong
at one place at most is a heap after the loop, with the same entries (the
invariants of the rounds are `UpRound` and `DownRound`). From these `Push` and
`Pop`; `OfferKeepsBest`: one round of argmin or argmax keeps a best choice of
the entries met; `Delivered`: emptying the heap lists it in order;
`ArgSelection`: the whole loop, over any sequence of entries and any size.
`RangeNumbered`: the division arithmetic of setrange.c, which cuts off towards
zero, numbers the members of a range without gap or repetition and finds
exactly them, in both directions; its hypothesis that the step leads from the
first member towards the last is what `i_set_range` and `i_set_range2` see to
(`Directed`).

**SessionProofs.** `CallsAreIndependent`: `Spec => []SameAsFirst`, for any names,
options and numbers of calls and statements. The invariant `Inv` has two parts.
Between calls (`IdleInv`) nothing is left but the settings and, after a syntax
error, `yydecl`. Within a call (`RunningInv`) the process and its twin are equal,
but perhaps for `yydecl` as long as no keyword was read; only after a syntax
error of an earlier call and a program that begins with `do` may they differ.
Parameters and pipe belong to `zpl_read_with_args`, so that the take-down of
`zpl_read`, which does not touch them, finds them empty (`SameArgs`). It is
inductive because a round of the loop is a function of the record
(`RoundKeeps`), a keyword overwrites `yydecl` (`Overwritten`), and only errors in
the syntax leave it (`Scanned`, `Parsed`). That a record is determined by its
fields (`Process`, `Equal`) is all that is needed of types.

`SessionTyped`, `OptionsWin` (`CommandLineWins`) and `NamesMeanOneThing`
(`OneMeaning`) have the invariant `NamesInv`: the static variables have their
types; no two symbols or defines of a call have the same name, and no symbol has
that of a define; outside of a call there are none; and within one the symbols
that come from the command line are those given. It is kept because the scanner
lets a name through to a declaration only where it is unused (`ScannedNames`).

**SymbolTableProofs.** `Accounted`: the inductive invariant `Inv`, for any
declarations that satisfy `IsDecl`, any numbers of statements and sessions, and
any sizes of the stores and of the first array of entries. From it
`CellsAndReferencesExact` (`MemoryExact`), `EntriesTyped` (`TypeOK`),
`TablesAgree` (`TableOK`, the first half of `TableAsWritten`) and `SameIntegers`
(`IntegerPoints`; the lemma `BoundsRounded` has it for all integers, where the
property has a range that TLC can enumerate).

`MemoryExact` is not inductive: that a count is the number of holders does not
say that a statement holds what it is about to release. `Inv` adds that.
`InStage` says for each stage of a statement what it has: a list has become a
node before its entries are used, a default has too, and nothing is left in
frames before an error. `InLoop` says that a loop fills the symbol it made, which
is still empty and untyped while the test of types is skipped (`count > 0`, inst.c:2982);
`SetLists` that the lists of a set hold sets, so that `symbol_add_entry` meets
the type it asserts. `InMemory` is the ledger. `Places` collects all that can
hold a reference, the nodes, lists, abandoned frames, tables and defaults;
`Refs`, `TupRefs` and `CellCount` add them up; and `Sound(m, f, g, l, b)` says
that memory `m` has live objects counted as `f` and `g` say and `l` cells of lists
and hashes. The proof is in two halves. One is about a memory alone:
`SoundTupNew`, `SoundEntNew`, `SoundCopy`, `SoundTupFree`, `SoundEntFree` and
`SoundCells` say that each operation keeps it sound with one reference more or
less (`Less` only of one that is held, so that nothing is freed twice). The other
is about the places alone: `HoldsGrow`, `NodesDiffer`, `SymbolChanged` and
`SymbolAppended` say how the sums change when one place does. Each action then
has a lemma in which both halves meet, one reference at a time; where a
reference moves from a local to a list or a table, both sides change by the same
entry (`Unmoved`, `EntryAdded`). At the end of a session the places shrink one by
one (`CellFreed` to `LastSymbolFreed`), and when none is left neither is any
object (`NothingHeld`), so that the stores end with nothing in use but what an
error abandoned. `TableOK` is kept because the hash is the array in reverse
(`ReverseGrown`), and an entry is added only if no key in the chain is equal
(`NotFound`).

`BindingsKept` (`Refines`): a step of a statement is a step of `Bindings` or
leaves its function as it is. Beyond `Inv` it needs that names are never given
twice in a session and that the name a statement is about to give is still free
(`Names`): `SelectInSeq` then finds the symbol of a name, wherever it is. Every
action leaves the symbols alone, appends one, or changes the last (`AllStir`,
with `Unmarked`, `Enlisted` and `Entered`). `BoundKept` says that a table whose
entries stay alive binds what it bound, whatever memory is taken or freed
meanwhile; `BoundGrown` that an entry with a new key adds this key and nothing
else, since the hash finds an entry by its key wherever it is in the chain
(`HashFinds`); `TableNamed` and `TableChanged` lift this to all symbols.

`BoundAsWritten` (`TableAsWritten`) is about the whole of a statement. That the
table at the end is what the text says is proved by telling, for every stage,
how far it is: `ListTold` (the list built so far holds the literals behind
`cur.left`, the second list the lines read), `FrontTold` (the lines moved in
front, in reverse), `ListsTold` (the list in full, line by line that of
`Written`), `DefaultTold` and `LoopTold`. The last one is the core: after n
rounds of a loop exactly the keys of the first n rounds have an entry, and each
has the value of the first round with its key (`FirstWins`, kept by `RoundMore`);
it is the same for all five loops, which differ in what they want to add
(`Wanted`). When the loop is over, `FoundFirst` and `FoundNone` turn this into
what `symbol_lookup_entry` finds, and `WrittenFirst` and `PlaceOf` into what the
text says. That entries keep their values while references to them come and go
is `Keeps`, from the ledger. `Iteration` has what these proofs need about
sequences, numbers of occurrences and families of sets.

**TermEvalProofs.** For any variables, declarations, injective addresses, size of
the hash and of the arrays, any numbers, exponents, priorities and points, and any
terms to start from that fit and name neither a function nor the result of a
condition (`TermEvalAssumption`): `TermsWellFormed` (`TypeOK`),
`StoredSimplified` (`Simplified`) and `ExpressionsMean` (`Refines`). The inductive invariant `IInv` says that the terms at work are in `Term` (they fit
into their arrays, no coefficient is zero, variables are in order) and that the
store is one the statements leave (`Store`): the variables are as declared, but
for the one of the objective's constant, and rows and objective hold simplified
terms.

Every loop of mono.c, term2.c and xlpglue.c is a recursive function of its
rounds: `RoundsExist` gives its values and `RoundsKeep` its invariant (`Rounds`
joins the two). `EntryPlace` says where `mono_mul_entry` puts a variable,
behind all that lie before it, so that the order is kept (`EntryOrdered`); and
`CopyIsSame`: a copy, which begins with the first variable and inserts the
others one by one, gives the same sequence, since each goes to the end
(`LargestLast`). With these, each operation on terms has a lemma that it gives
a `Term` again (`TermAppend` to `TermConditional`). `TermSimple` is the core of
`Simplified`. In the first half of `term_simplify` no two of the monos joined so
far have the same variables (`JoinedApart`): a mono is looked up in one bucket
only, and this suffices because monos with the same variables have the same hash
(`SameFound`). In the second half a mono that cancelled is replaced by the last one and the place
looked at again; `CancelKeeps` is the invariant that what is in front of the
place is not zero, and that n rounds see everything. `SortedDiffer` carries
this to the property: two sequences in order that contain every variable equally often
are equal. `RowMade`, `RowAdded`, `SosAdded` and `ObjAdded` say what the
statements do to the store, and there is one lemma for each action
(`SymbolKept` to `IndicatorKept`).

`ExpressionsMean`: `Spec => Refines`, every step of the program is one of
`Meaning` or leaves its variables as they are. The value of a term is a sum over
its array of products over the variables of a mono. `Iteration` reduces every
such loop to one operator, the value `ListSum` of a list under a function of its
members, with the laws a proof needs (`SumLaws`: appending, joining two lists,
replacing a member, leaving out the last; `SumMapped` and `SumPairs` for scaling
and for all products of two lists), and likewise `ListProd`; `ListInduction`
says that a set of lists that has the empty one and is closed under appending has
all. With them each operation of term2.c has a lemma about its value (`IsWorth`):
`AddWorth`, `SubWorth`, `CoeffWorth`, `ProductWorth`, `SumWorth`, `PowerWorth`.
`SimplifiedWorth` is the core. Joining (`JoinWorth`) replaces a mono by
one with the sum of the coefficients, which is right only because monos that
`mono_equal` takes for equal have the same variables, although it compares
lengths and runs rather than the arrays (`EqualVars`); cancelling takes away monos
that are worth nothing at any point (`DropWorth`).

The rows come next. `Weighed` is the sum over the nonzeros, a function on a set
of variables rather than a list; `WeighedChanged`, `WeighedMore` and `NzoAddedWorth` say
what it becomes when a coefficient is entered, changed or deleted because it has
become zero, `LineFilled` that a row filled from a linear term sums to the
value of the term, and `SidesJudge` what the type of a row makes of its sides.
`PlainRow` and `ConditionalRow` put this together: a point satisfies the row of
a term exactly if the value of the term is within the sides, or, in an indicator
row, if the condition does not apply. `ObjectiveWorth` is the same for the costs,
with the constant on `ObjOffset`, whose bounds fix it to one (`OffsetWorth`).
`KInv`, the invariant of the refinement, adds to `IInv` that terms at work
name no function and no result variable, and that there is no `ObjOffset` before
the objective. `ValueMeans` makes a step of `Meaning` of any instruction whose
term has the right value, `RowMeans` and `NoRowMeans` of a statement that makes
a row or decides without one; `SideMoved` and `SidesMoved` are about the constant
that goes to the right hand side.

All properties of `LpStore`, `VInst`, `Qubo`, `Session`, `SymbolTable` and
`TermEval` are proved; nothing is proved about whole runs of `Sets`, `Input`, `Output` and `CodeEval`, whose properties are only
model-checked.
Out of the prover's reach: liveness (`Ends`); modules with recursive operators
(`SetReps`, `Sets`, `Values`, `Denotation`, `CodeEval`), whose data are trees;
and strings taken apart character by character (`UniqueByFormat`,
`NamesIdentify`).

## 5. Not modelled, and the plan

Left out on purpose: presolve (disabled), the generated parser tables, text
layout of the writers and the conversion of numbers to and from text, GMP itself,
the functions computed in double precision (square root, logarithms and so on,
also those of `i_vexpr_fun` on variables), random numbers, `print`,
`numbdbl.c`, `lps_delvar` and `lps_delcon` (no caller), `rathumwrite.c` and `ratsoswrite.c` (not called), products of variables
in conditions (not documented there), Warning 215 (`check_con_is_invalid`,
which prints and changes nothing else), the main program's handling of `-s`, `-m`
and `-v`.

Open, in the order of their worth:

1. `Input`: `TypeOK`, and that the line handed over is a whole one.
2. `Values`: fractions stay in lowest terms; order and rounding.
