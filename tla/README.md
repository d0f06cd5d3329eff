# A verification project for Infernal

Infernal is an interpreter of a shell-like scripting language in C. This
directory models the parts of it whose correctness depends on the order in
which things happen: what the evaluator saves and restores around calls,
loops, errors and executed scripts; which names are taken by variables and by
constants; what the parser accepts, how it divides a script into statements and
expressions, and the state it keeps between scripts; which arguments a script's
flags are given; files that several interpreters share; what statements do to
values; and what a variable refers to when it holds an item of a list or map.
TLC checks every model on small instances, TLAPS proves the theorems listed
below for all of them.

Paths are relative to `src/src/` unless they begin with `src/`. `PROJECT.json`
maps each definition of the models to the lines it stands for, names for every
property a change of the code that would break it, and lists the hazards the
properties are there for.

## 1. The system

One process, one thread. `main` reads options, arguments and environment,
creates the two outermost scopes, registers constants and native functions,
arms the outermost `setjmp`, parses the script into a tree and evaluates it.
An error is a `longjmp` to the handler in `exception_env`.

| Component | State | Operations | Talks to | Models |
|---|---|---|---|---|
| evaluator (`runtime/evaluator/`, `evaluator.c`, `error.c`) | C stack, `control_flow`, `exception_env`, `current_scope`, script context | every statement and every expression that calls | all others | Evaluator, TryCatch |
| scopes, variables (`scope.c`, `variables.c`) | entries per scope, parent links | define, assign, find, `mkvar`, `delvar` | constants | Names, References |
| constants (`constants.c`) | table, `definition_allowed`, the settings behind it | register, define, make mutable | scopes, execute, native modules | Names |
| parser (`parser.c`, `lexer.c`) | `ts`, `fi_block_nesting`, `current_import_prefix`, function tables | parse a script, import, register functions; divide it into statements | execute, try | Parser, Grammar, Statements |
| expression parser (`expression.c`) | the position in `ts` | parse an expression | parser | Expressions, Syntax |
| embedded commands (`command.c`) | files in `.infernal_tmp` | prepare, run, delete, sweep | other interpreters | EmbeddedTemp |
| file database (`database.c`) | the file at a path, temporaries | `tofile`, `fromfile`, `deletefile`, text and binary formats | other interpreters | AtomicFile, FileRegister, BinaryFormat, DataFormats, StoredDocuments |
| flags (`flags.c`, `eval_flag.c`) | `flags_arg_index`, `handled` | match arguments, parse and run bodies | execute, parser | Flags, Evaluator (bodies) |
| values (`value.c`, `eval_binop.c`, `eval_index.c`, `eval_slice.c`, `helpers.c`) | references in variables and containers | arithmetic, conversions, copies, slices, indexing, references | scopes | Values, Containers, Documents, References |
| native modules (`lava.c`) | 256 slots, handles, the call in progress, files in `/tmp` | search, load, register, dispatch, unload | parser, functions, constants | Lava |
| libraries (`stdlib/`) | none | one call each | values | Containers (list and map ones), Texts, StoredDocuments |
| lexer proper, tree, compiler and virtual machine, embedded data, input and output, debug | | | | none |

What is hard in it:

* *Errors skip code.* Every construct that saves a global and restores it
  afterwards is jumped over by an error that is caught further out. Five
  constructs arm handlers of their own and pass errors on.
* *Control flow is a variable.* `break`, `continue`, `return` and `repeat` set
  `control_flow`; who consumes it, and what still runs while it is set, is
  decided by each construct.
* *Scopes are freed by hand* while saved pointers to them are on the C stack.
* *Scripts run scripts*: `execute` replaces arguments, source lines, tokens
  and the permission to define constants; its functions remain.
* *The parser keeps globals* that an error leaves half changed, and looks ahead
  for the end of a `case` by counting keywords.
* *A command needs no mark*: each line is a statement or a shell command by its
  first words, decided in several functions by looking one or two tokens ahead.
* *A reference is a name*: `l[1]` without `$` is looked up again whenever it is
  used, in the scopes of that moment.
* *Flags are dealt by a cursor* that nested bodies and executed scripts move.
* *Each container operation is written several times*, for lists, maps, strings,
  texts and binary files, by characters and by bytes, and they must agree.
* *Interpreters share directories*: temporary files are made, swept and
  renamed by several processes, and any of them can be killed.

What makes each component correct: the evaluator raises every error to the
`try` that encloses it in the script, never uses a freed scope or a dead
handler, and returns from a call in the state it entered it; no name is a
variable and a constant at once, a constant is written once, a setting keeps
its type; the parser accepts exactly what has the block structure, and says so;
an expression has the one reading of its grammar, and a line is one statement;
an assignment changes one place and is read back;
a file is its old or its new contents, and no temporary stays; an embedded
binary is there when it is run; an argument is given to one flag; a value is
exact or refused, and reads back as it was written.

## 2. Modules

| Module | Contents |
|---|---|
| `Evaluator` | activation records, handlers, scopes, `control_flow`, script context: one action per entry, step and exit of every construct |
| `TryCatch` | abstract: a stack of plain and try blocks, errors land in the innermost try |
| `EvaluatorProofs` | types, and handlers nest; what the records save is given back, scopes outlive their users, errors are structured |
| `Names` | variables and constants under the statements that change the lookup order |
| `NamesProofs` | types, settings keep theirs, constants written once, names disjoint (of MCNames, for the history) |
| `Parser` | recursive descent over blocks, the masks of `case`, imports, function tables, executed scripts |
| `ParserProofs` | masks nest, open blocks are counted, the descent decides what the grammar decides |
| `Grammar` | abstract: which token sequences have a block structure, read left to right |
| `Expressions` | recursive descent over expressions: a tree and the position after it, or failure |
| `Syntax` | abstract: the grammar of the trees, as the set of trees the tokens from one position to another have |
| `Statements` | the loop of `parse_block` over the simple statements: declarations, assignments, commands, jumps |
| `EmbeddedTemp`, `EmbeddedTempProofs` | files of embedded commands of several interpreters; no litter, directory removed |
| `AtomicFile`, `AtomicFileProofs` | `write_file_atomic` and `read_file_safe` call by call, with failures, kills and crashes |
| `FileRegister` | abstract: an atomic register with a durable value |
| `FlagsProofs` | arguments are the script's own, dealt once, in order, within the table |
| `Flags`, `MCFlags` | which argument each flag is given, over nested bodies and executed scripts |
| `Values` | operators on values: arithmetic, comparison, slices, conversions |
| `Containers` | typed maps, reading and assigning by nested indices |
| `BinaryFormat` | the binary format of files: writer and reader |
| `DataFormats` | copies; the text format of files: writer and reader |
| `Texts` | the functions on texts: finding, counting, cutting, replacing, trimming, by characters and by bytes |
| `Documents` | a variable and the statements that compute with it, cut it, assign into it, convert it and keep it in a binary file |
| `StoredDocuments`, `MCDocuments` | the same variable, passed to the functions on texts, written to text files and read back |
| `References`, `MCReferences` | variables that hold references, assigned, declared, passed, returned and looped over in nested scopes |
| `ValuesProofs` | of Documents and References: arithmetic, ranges, assignments by index, by name and by reference, parameters; the binary format |
| `Lava`, `LavaProofs` | import of native modules: search, file, registration in the trampolines, calls, the end |
| `MCEvaluator`, `MCNames`, `MCAtomicFile`, `MCLava` | symmetry sets and values of constants for TLC |
| `MCParser`, `MCStatements` | the texts TLC parses |

### Evaluator

`frames` is the C stack: one record per `exec_stmt`, `eval_call`, `eval_map`,
`exec_flags` in progress (and per native call, which also stands for the
handler of `eval_binop`), with the locals that matter (`old_scope`,
`saved_env`, `saved_cf`, `saved_ts` ...). A `setjmp` is a record whose phase
makes it `Armed`; `exception_env` is the depth of the record that filled it.
`chain` holds, for each allocated scope, the scopes its parent links reach;
`scope_free` removes it, so a dangling pointer is a scope that is not in
`DOMAIN chain`. Scripts are not fixed: the next statement, the outcome of a
condition and whether a step fails are chosen, so the behaviours are those of
all scripts that stay within the bounds. `Raise` sets `mode` to "unwind", and
`Catch`, `Rethrow` and `Uncaught` are what the handler that is jumped to does.

Left out: `return_value` and `exception_raised` (no condition of the code that
the model keeps reads them), values, `VAL_REFERENCE`, portals. `LoopLimit` is
constant although a script can redefine the setting behind it. `repeat line`
lands on any statement of the running block or of one around it, or nowhere.

### Names

A scope maps each name to the sequence of its entries, newest first, since
declaring a name twice leaves both. `chain` is `current_scope` and its parents,
`saved` the contexts entered (`func` also stands for `while` and a local
`for`), `try` saves nothing but catches, and the chain stays what it was where
the error was raised. Values are a type and a payload; `x++` is an assignment
of the same type. The type a script writes before a name only converts the value
once, so entries have none of their own. The bodies of flags, parsed as they run, are not among
the moments at which scripts are being parsed (`parsing`).

### Parser

A text is a sequence of tokens; expressions, commands and declarations are one
token each, and a statement that is wrong in itself is the token "malformed".
`blocks` is the recursive descent, `ts.masked` the positions whose token reads
as EOF while a case body is parsed. `Error` keeps every global, as the
`longjmp` does; after it an executed script may go on in the `try` around
`execute`. Keywords inside shell commands are not tokens here, while the code's
scans do count them.

### Expressions, Syntax, Statements

A token is its kind, or its text where that matters: names, numbers, literals.
`Expressions` returns the tree and the position after it, or `Fail` for the
error; it follows the levels of `expression.c` and its look-aheads. `Syntax`
is written from the trees alone: `Or(i, j)` is the set of trees of the tokens
from `i` to `j`, which splits them everywhere and never looks ahead. Where the
code refuses what a plainer grammar would take, `Syntax` has the code's form and
says so. `Statements` has one action for each simple statement, and `block`
keeps the positions each took. The trees of both were compared with those that a
build of `parse_block` returns, once, for all texts of the run.

Left out: blocks (in Parser), parameter lists, the heads of `if`, `while`, `for`,
`import`, flags, and the spelling of tokens; a text is given as tokens, so what
the lexer refuses is not among them, and string literals have no `=` in them.

### References

`scopes` are the scopes from the outermost to the current one, `frames` the
calls and loops in progress. `Eval` gives the value of an expression, in which
`Index` is a reference and `$` a copy; the expressions of an instance are given in
layers (`Code`), each built from those of the layers before it. `scope_assign`,
`assign_reference`, `assign_nested_index` and `val_map_set_typed` are the operators
of those names. A call binds its arguments one by one in the new scope
(`eval_call.c:70`), where the names of arguments are looked up too.

Left out: what a statement that fails half way leaves when it changes nothing,
calls whose result is dropped, `x++` on references, references into strings,
types that depend on the declaration of an empty list, imports and executed
scripts (their scopes are in Names). The scopes were compared once with those a
build shows after each of 45,000 statements of 3,000 random scripts, refused ones
included, with no difference.

### EmbeddedTemp

One state machine per interpreter, from `prepare_embedded_binary` to `unlink`,
and the sweep of `cleanup_embedded_temp_dir`. Every call can fail where the
code looks at its result. The interpreters run as one user and their scripts
are in one directory. `listing` tells a sweep that reads the present directory
from one that reads a directory that has been removed.

### AtomicFile

Each library call of `tofile`, `fromfile` and `deletefile` is a step, each can
fail. `cache` is what processes see, `disk` and `target_disk` what a crash
leaves: contents and directory entries reach the disk in any order, contents
before `fsync` returns. `FileRegister` is the promise: writes and reads are
atomic, and a crash goes back to a value that was written completely.

### Lava

One import or call at a time: `phase` says where it is, `candidates` which
sources are still to be tried, `temp` which file in `/tmp` it uses. Libraries
are numbered as they are opened, each opening counts; what they register, and
the order in which their functions declare, return, fail or misuse the
interface, is chosen. `exception_env` is who armed the handler in force, and
`raised` a history variable that counts the libraries that failed. Reading
arguments, and building lists, maps and strings, keep no state and are left
out. A module that memory is too short for is not in the list of handles and is
never closed, as in the code.

### Flags

`acts` is the stack of scripts, `exec_flags` loops and flag bodies in progress,
each script with its arguments, `flags_arg_index` and the modes parsed so far.
An argument is a name some flag may have or a plain word. What the script asks
for next is chosen: its modes, its flags statements, whether a body executes
another script or fails inside a `try`. Left out: the variables a flag defines,
their types and the conversion of arguments.

### Values, Containers, BinaryFormat, DataFormats, Texts, Documents, StoredDocuments

The operators of the first five are the functions of the same name, with Err
for an error. Floats are fractions, so rounding, infinities and the sign of zero
are left out; so are references (`d = d[k]` without `$`, in References), memory,
the limits of size of the readers, comments in texts and malformed UTF-8. In
`Texts` a string is its characters, and of `bytes.c` only what cannot split one.
In strings every character is a symbol; in files a number or a word outside
strings is one, and in a binary file so are a tag, a length and a number of any
width: a file is cut off between symbols, not inside a number.
The binary writer and reader are recursive functions over the room for levels
that is left, which TLC and the proofs evaluate alike; the text ones are
RECURSIVE operators. `Documents` has one variable, `doc`, and one action per
statement, and `StoredDocuments` adds those on texts and files; their invariants
compare the operators with definitions of their own, for the value in `doc` and
every operand of the bounds. The ranges are those the
parser lets through: positions from 1, no inverted ones, and one number read
after a value is an index. A path has at most two keys in the run and
64 in the theorems, as many as the code has room for.

`StoredDocuments` was compared once with a build that shows its variables and has a
smaller `INT_MAX`: 73,000 statements of 4,000 random scripts, refused ones
included, with no difference.

## 3. Runs

All with two workers, every one exhaustive within its bounds.

| Run | Bounds | Question |
|---|---|---|
| Evaluator | every construct, depth 3, three free scopes, one iteration, fairness | types; nothing is evaluated while control flow is pending but by flags; the innermost live handler is in force; no freed scope is reachable and none is freed twice; calls give back scope, handler and flow; executed scripts never define; structured exceptions (refinement of `TryCatch`); every raised error lands |
| Names | two local scopes, two internal constants and one a native module creates, every context, one declaration of a name in a scope | disjoint names until an import or a global for has been entered or a native module has created a constant (`PlainNoClash`; `plain` in MCNames is the history it needs), settings keep their type, constants written once |
| parser | texts of 5 of if, elseif, else, try, catch, switch, case, default, break, fi, of 6 of those of switch, of 3 of functions and imports; modules of 2, two deep; two scripts; fairness | what is accepted is what the grammar accepts, masks nest, the alarm for a missing `fi` is right where none is hidden, open blocks are counted, every parse ends |
| statements | for each kind of expression or statement, every text of 3 to 6 of its words: 492,000 scripts | an assignment stands for the only tree of its words and is refused only when there is none; a statement keeps to its line; the right of `=` means the same after any head |
| embedded_files | 3 interpreters, a command each, fairness of the sweep | no litter, the directory goes with the last, leftovers of killed interpreters go, a binary is lost only to a sweep |
| AtomicFile | 2 processes, 2 values, 3 files | atomicity (refinement of `FileRegister`), no litter, private temporaries |
| lava | 3 openings, 3 trampolines, 2 prefixes, 2 functions, 2 temporaries | names lead to their newest entry and to mapped code, the loader is left as it was, who may leave a file |
| flags | depth 5, blocks of 2 statements, modes 0 to 2, arguments that are names, letters, values or plain | arguments in force are the running script's, numbered ones are taken in order, a statement hands each out once, `handled` is long enough |
| documents | documents of up to 4 values and strings of up to 4 characters, 4-bit integers, paths of 2 keys, `DB_MAX_DEPTH` 4 | integer arithmetic is exact or refused; slices and removals agree; nested assignment reads back and touches nothing else; keys keep their type in a map that is not replaced; binary files read back, and what is left of one is refused; copies and text files read back; the functions on texts find, cut and replace at the same places |
| references | two names, four values in all variables, three scopes, calls of one function of two parameters, loops, six expressions | an assignment reads as what was assigned, it changes one place, a parameter reads as its argument |

Why these bounds: handlers interact in pairs, and depth 3 has main, a handler
and another inside it that fails; three scopes besides the global ones
are a function's, a loop's and an iteration's. `while` parses as `if` without
`else` does, so the token "block" is left out of parser. A text of six tokens holds a
switch with a case in another construct. The texts of statements have the words
of one kind each, since the functions they go through meet only in the value of
an assignment, and are long enough for every form of it twice, one inside the
other. Three scopes of references are the two outermost and a function's or a
loop's, so a loop inside a function does not occur; the parameters have the names
of the variables that are passed. Three interpreters have one that
sweeps, one that runs and one that makes the directory again. Three files are
the one at the path and a temporary for each of two processes. Three
trampolines are fewer than three imports of two functions ask for, so the table
overflows; three openings have a module imported twice and another between.
Depth 5 of Flags has the script, its flags, a body, the flags inside it and a
body of theirs. Four values reach the nesting that can be written and not read
(3, of 4), and integers of 4 bits have both ends of the range.

Fairness. The interpreter is one thread that waits for nothing between raising
an error and landing it (`WF_vars(Unwinding)`), while it parses
(`WF_vars(Parse)`), and while it sweeps (`WF_vars(Cleanup(p))` for each
process). No run assumes a script ends or a command returns.

Deadlock is not checked where a run may stop: a program that has ended, failed
or been killed, and where a bound is reached. `ParseEnds` would fail if the
parser could get stuck; it excepts the parses that want to import deeper than
`MaxImports`.

### Disagreements between the code and what it says

Two are runs that TLC ends with a counterexample; `PROJECT.json` quotes the
line of the repository that says otherwise.

| Run | What happens |
|---|---|
| parser_missing_fi | a switch in the last case of a switch is refused for a missing `fi` |
| references_read | `x = l[1]` when `x` holds a reference already puts a reference into the list instead of reading the item |

Others the models have, with no run of their own; the properties named say how
far the code can be relied on:

* After an error in an executed script is caught, the main script may not define
  constants any more (`runtime/evaluator/eval_stmt.c:1085`).
  `ExecutedCannotDefine` has one direction only.
* A module imported inside a function defines a constant with the name of a live
  local variable (`runtime/constants.c:170`). `PlainNoClash` excludes imports.
* After a caught parse error `fi_block_nesting` stays too high
  (`parser/parser.c:46`): later executed scripts with a switch are refused.
  `NestingCovers`: exact until then, never too low.
* A correct module with a switch is refused when it is imported in an open
  block (`parser/parser.c:1361`): the counter is the importer's, the tokens are
  its own. `AlarmReal` speaks of texts outside modules.
* After a caught parse error in a module the next executed script is parsed
  under the module's prefix (`parser/parser.c:1360`), so its functions cannot
  be called.
* A script that defines a function cannot be executed twice, and the message
  calls the function internal (`parser/parser.c:998`). Action `Redefine`.
* A function defined in the body of one of the same name escapes the check of
  its name (`parser/parser.c:997` and 1049) and is hidden by the outer one.
* An interpreter that ends deletes the binary another is about to run
  (`runtime/command.c:655`). `LostToSweep`: nothing else does.
* A variable declared with a type takes values of any other: `scope_assign`
  lets everything through when `vtype >= TOK_EOF`, and `TOK_EOF` is 0
  (`runtime/scope.c:160`), while `src/README.md:58` speaks of fixed typing.
  Action `Assign`.
* Embedded native modules are loaded from memory without writing to disk, says
  `runtime/lava.c:11-13`, but `SYS_memfd_create` is not defined where it is
  tested (no header that defines it is included), so they go through `/tmp`.
  Action `mkstemp`.
* An error while an embedded module registers skips the removal of that file,
  which `runtime/lava.c:1288-1290` calls ephemeral. `TempsAccounted`: no other
  way leaves one.
* `src/lava/lava.h:28` calls a native function without its prefix;
  `lava_register_fn` forbids bare names. `LavaProofs!LoaderTyped`.
* The flags of an executed script never see its first argument: their loop
  begins at 2 (`runtime/evaluator/eval_flag.c:140` and 148), numbered ones at 1.
  `flags_arg_index = 2` is called the first argument after the script
  (`runtime/globals.c:45`), which is wrong after `--shell sh script`.
* Modes belong to the process: executing a script with flags twice, or after one
  that failed in its flags, is refused (`parser/flags.c:136-147`).
* Flags inside a body take the argument of their outer flag again if both are
  numbered; a named one in a mode takes the next argument whatever its name is; a
  catch-all in a mode is given arguments an earlier statement took.
  `DealtOnce` says where an argument is given once.
* What is nested deeper than half of `DB_MAX_DEPTH` can be written as text and
  not read (`stdlib/database.c:545`), and a whole float comes back as an int.
  `TextsAgree` says what comes back.
* `x++` is not checked for overflow, `x + 1` is (`runtime/evaluator.c:80`);
  `**` of a bool or a string reads another member of the union
  (`runtime/evaluator/eval_binop.c:626`); a string makes any of `* / %` a
  concatenation; maps and null count as 0.0 in arithmetic. Lists cannot be
  compared with `==` and a map is equal to none; `1 == 1.0` is false while `<=`
  and `>=` hold. Operators `Step`, `BinOp`, `Equal`.
* `l - i` with an `i` the list does not have removes nothing, but `i = -1` and a
  slice out of range are errors. `RemoveIndex`, `RangesAgree`.
* A nested assignment that fails leaves the maps it made on its way
  (`runtime/evaluator/eval_stmt.c:193`), and one of more than 64 keys loses its
  first keys (`runtime/evaluator/eval_stmt.c:164-170`). `AssignExact` says
  nothing else changes.

* Empty separators: `cutAfter(s, "")` is empty and `cutBeforeLast(s, "")` too,
  while the functions of `bytes.c` return `s` (`stdlib/cut.c:112`,
  `stdlib/bytes.c:369`). `TextsAgree` speaks of the others.

Of statements and expressions (`ReadsAsGrammar`, `LinesApart`,
`SameRightHandSide` say what holds besides):

* `execute "s" -v` reads its argument as a subtraction, and `--flag` is refused
  (`parser/parser.c:703` reads the path as an expression).
* `x - [1, 2]` is refused, and so is anything after `x - [2:3]`; `x[3**]` and
  `x[**3]` are refused although `parse_slice_content` has them;
  `-2147483648 ** 2` is refused.
* `return a b` leaves `b` to be a statement of its own; `local global x` is
  accepted; `int y = x++` is a command where `y = x++` and `local y = x++` are
  not.
* A command takes a `fi` on its line; the `or` after a quoted command is never
  read; a `#` inside quotes ends the text of a command; in
  `int a = 1, b = ls` the command is all that follows the first `=`. The line
  it is cut from is that of the declaration's first token (`parser/parser.c:1636`,
  `parser/parser.c:1793`): after a list or a map that goes on in the next line,
  as in `list a = [1,` `2], b = ls`, the command of `b` is `[1,`.
  `SameRightHandSide` gives the text of a command only when its statement began
  in its line and it follows the first `=` there.
* A block of one line after `portal p` repeats itself for ever if it says
  `repeat p`: the portal's line is the block's, and the condition is not
  evaluated again.

Of references (`AssignmentReads`, `OnePlace`, `ParametersRead` say where they
hold):

* A reference is a name: a parameter or local of the same name captures it, and
  after a return it dangles.
* `if l[1]`, `while l[1]` and `not l[1]` take a reference as false, `switch`
  never matches one, `int x = l[1]` and a typed `return l[1]` are refused, and
  for-in over `m["k"]` needs a `$`. `$l[1]` of a list of references is still a
  reference.
* `a[b[1]]` can be assigned and not read; `x[1]` where `x` refers to a list in a
  list fails; a variable that holds a reference cannot be incremented and is
  "not defined" in a command (`runtime/command.c:43`).
* `runtime/scope.c:64-70` says that declarations with a value go before NULL
  ones; the first found is taken.

## 4. Proofs

| Theorem | For every value of | Argument |
|---|---|---|
| `EvaluatorProofs!TypeCorrect`, `HandlersNest` | scopes, constructs, depth, loop limit | `IInv` is `TypeOK` with `EnvInnermost`. `EnvInnermost` alone is not inductive: that the record a `longjmp` lands in exists and is armed needs the types, and that returning a record gives back the right handler needs every saved handler to be the innermost below its record. Actions push, update, pop or cut `frames`; one lemma for each shape, one step for each action |
| `EvaluatorProofs!FlowIsPending`, `CallsAreTransparent` | the same | `PendingFlow` needs `Discipline`: no record saves pending control flow, statements are in blocks, flags in flags and only calls in the arguments of a native function, and every saved handler is the innermost below. `CallsTransparent` is read off the records that `Discipline` allows |
| `EvaluatorProofs!ExecutedAreLocked` | the same | `Locked` adds that of two scripts executed in one another the inner one saved that definitions are forbidden, which is what it gives back |
| `EvaluatorProofs!NothingDangles` | the same | `ScopesKept`: current and saved scopes are allocated with all their parents, each scope is its own first parent, and what a record will free is reached by no record below it, so freeing it leaves the others whole |
| `EvaluatorProofs!ErrorsAreStructured` | the same | the refinement of `TryCatch`: a stack of the records a script can tell apart, as a sequence of marks; each shape of step is a step of `TryCatch` or none. A cut that a `longjmp` makes keeps the marks below the innermost live handler, which `EnvInnermost` says it is |
| `NamesProofs!NamesTyped`, `SettingsTyped`, `ConstantsWrittenOnce` | scopes, names, types, contexts | types first; `ConstantsWrittenOnce` also needs that `execute` on the stack means definitions are forbidden |
| `NamesProofs!DisjointTillImport`, `NamesDisjoint` | the same | `ClashInv`: every saved chain is within the current one, unreachable scopes are empty, and no scope at all has a variable with the name of a constant. So a constant, which is defined only when no scope in sight has the name, meets none anywhere. What breaks it is an import, a global for (see the disagreements) and a native module's constant: `PlainNoClash` holds till the first of them, `NoClash` for good where `Contexts` and `LavaNames` exclude them |
| `ParserProofs!CasesHideTheirEnds`, `NestingIsCovered` | texts, names, prefixes, imports, scripts | the calls of the descent by what they are counted for (`ClassesOf`: a text, a module, a case, a block that waits); a step appends one, drops one or neither, and `OneMore` says which of the three counts that changes. `Inv` pairs the masks of the n-th text with the cases between the n-1st module and the next, since the end of a module drops its tokens: its text must have no mask left. That a token is never read twice as its own mask needs every mask to be at or ahead of the position |
| `ParserProofs!ParserDecidesAsGrammar`, `AlarmIsReal` | the same | `Mirror` pairs the calls of the descent, on the running text and on those that wait under an import, with the stack the grammar has after the same tokens: a block with its opener, a case with its switch, and a mask with the token that will close the case. The grammar is a fold from the left, so a step of the descent must be a step of the fold, and the scan ahead for the end of a case must stop where the fold would leave the case: an induction over the tokens scanned, counting the blocks open (`Level`). For a missing `fi` the same count says that the rest of the text has too few, unless one is masked |
| `FlagsProofs!ArgumentsAreOwn`, `HandledIsLongEnough`, `NothingDealtTwice`, `ArgumentsTakenInOrder` | arguments, specifications, programs, depth | `Inv` speaks of every script on the stack, not of the running one: its own arguments (`Keeps`) and the next one that is due (`Good`) are in force, or saved by the script it executes, or, for the due one, in the numbered statement at work; and of every statement: its table has the length of the script's own arguments (`Fits`), and what it dealt is marked and is what lies before its cursor (`Serves`). A step makes the stack one higher or one lower or turns the top; one lemma for each, and one for `execute` |
| `AtomicFileProofs!TempsPrivate`, `NothingLittered`, `FilesAtomic` | processes, values, files | an inductive invariant over the open files; every error path gives up its descriptor only after the name is gone; `FilesAtomic` is the refinement of `FileRegister`, step by step |
| `EmbeddedTempProofs!NothingLeft`, `DirectoryRemoved`, `LossesAreSwept` | interpreters, commands | types and `NoLitter` need each other; `DirWatched` (while the directory exists somebody has not ended) makes `DirRemoved` inductive: if `rmdir` finds a file, its owner has not ended. `LostToSweep` says nothing of a binary that is gone but not yet run: `MissingSwept` does |
| `LavaProofs!LoaderTyped`, `NamesLeadToCode`, `LoaderIsRestored`, `HandlesAreOpen`, `TempsAreAccounted`, `PrefixesStayApart` | modules, prefixes, functions, trampolines, openings | one inductive invariant: the properties with `LibrariesOpen` (whatever a table mentions is mapped, and the library being tried is in no table yet, so closing it is safe) and `Searching` (a file is in use only while a candidate is tried). `TempsAccounted` counts: the one step that leaves a file adds one to `raised` |
| `ValuesProofs!ValuesStayValid`, `ArithmeticIsExact`, `RangesAlwaysAgree` | width of int, operands, keys, depth and size | `DocInv`: the document is `Valid` and within the bounds. A value is valid if it is in a set all of whose members are built from members, which needs no induction over data: every operator is shown to build its result from parts of its arguments. `ArithmeticExact` rests on an invariant of the loop of `checked_int_pow` (result times factor to the exponent is the power), and on powers that only grow once a factor is out of range, so that an early refusal is right; `RangesAgree` on what the loop of `remove_slice` has kept after each item |
| `ValuesProofs!AssignmentIsExact` | the same, paths of up to 64 keys | from `Valid` alone. `OneStep` follows two paths, that of the assignment and any other, key by key: as long as they agree the other is in the container the assignment is in (`On`), and where they part it reads what it read, because `Around` and `AssignLast` change one item (`OnlyItem`) and keep the types of a map's other keys (`KeepsTypes`). An induction over the keys gives what the whole path reads (`TraceIs`) |
| `ValuesProofs!DocumentsReadBack` | the same, depth of the format | from `Valid` again, by induction over the room for levels that is left (`ReadsWritten`): where a file has what is written of a value, as far as the file goes (`Stands`), the reader gives that value if the file has all of it and nothing if it ends before (`ReadAs`). A list is read item by item (`ItemsRead`) and a map pair by pair (`PairsRead`): a key is new to the pairs before it, so `val_map_set` appends it. The tag of a value decides the case (`SymbolsRead`); the whole file and each that ends early are instances (`ReadsFile`) |
| `ValuesProofs!ScopesHoldValues` | names, expressions, functions, paths, scopes, size | `RefInv`: every declaration of every scope holds a valid value, the two global scopes are below the frames', and what a loop has still to visit is valid |
| `ValuesProofs!AssignmentChangesOnePlace`, `AssignmentIsRead`, `ParametersAreRead` | the same | from `RefInv`, in a state: the newest declaration of a name is the least position in the greatest scope that has one (`FindIs`), so `Put` and `scope_define` change what is found for one name only. `ParametersRead` compares two evaluations, by the caller and in the function: an expression has the same value in scopes that agree on the names it looks up (`EvalKeeps`, by induction over the layers of `Code`), and each parameter declared adds one name on which they differ |

Assumptions are the named `ASSUME`s of the modules, which TLC evaluates in
every run; `MaxKeys` is the 64 keys the code has room for. That a bounded set of
naturals has a greatest element, which takes the place of an induction over the stack
(the innermost script, the innermost handler), follows from the library's theorem
that strict inclusion of finite sets is well founded; induction over naturals, and
that the recursive functions of Values, Containers and References exist, from the
one that `<` on them is. `ValuesProofs` is about the statements of Documents, binary files among
them; the functions on texts and the text files of StoredDocuments are TLC's only.

Every safety invariant and action property of Evaluator, Names, Parser, Flags,
EmbeddedTemp, AtomicFile, Lava, Documents and References is proved. Only
model-checked:

* liveness (`RaisedErrorLands`, `ParseEnds`, `KilledSwept`): TLAPS proves no
  fairness argument here;
* `TextsAgree` of StoredDocuments, and `ReadsAsGrammar`, `LinesApart` and
  `SameRightHandSide` of Statements: the reader and writer of text
  files, the functions on texts, expressions and their grammar are RECURSIVE
  operators, which tlapm cannot reason about. The runs documents and statements
  check them on the texts and values of their bounds;
* what the two runs that end with a counterexample show.

## 5. Not modelled

Bytecode compiler and machine (`main` never calls them; the evaluator only keeps
their copy of global variables, which nothing else reads), the characters of the
lexer (a pure function of a line), printing and reading lines, the case of
letters and the functions that list or split bytes, debug output, generated data,
demos, Makefile and configuration. Portals, and the lines that `repeat` names, are a
choice in Evaluator. No property covers three hazards: a function defined in the
body of one of its name (`parser/parser.c:997`), modes that outlive their script
(`parser/flags.c:147`) and what an error in a module leaves
(`parser/parser.c:1362`); the models have all three, and they are among the
disagreements above. `PROJECT.json` gives the reason for each part.

## 6. Plan

In order:

1. *Portals and repeat*: `repeat line` with line numbers and files, portals in
   their scopes, what a repeat that finds no line does. Composes with
   Evaluator's records.
2. *Function tables*: a property of the names registered while bodies are parsed.
3. *The text format, proved*: what `TextsAgree` says of copies and text files, for
   every document that is not nested too deeply, which needs DataFormats written
   with recursive functions, as BinaryFormat is.
