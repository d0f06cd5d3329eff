------------------------------- MODULE Parser -------------------------------
(***************************************************************************)
(* The block structure the parser recognises (parser/parser.c): parse_block *)
(* and the constructs that call it, over any token sequence, with the state *)
(* it keeps in globals: the token stream ts, the counter fi_block_nesting,  *)
(* current_import_prefix and the table of functions, which fills while      *)
(* scripts and modules are parsed. A script is parsed when the interpreter  *)
(* starts and whenever execute runs one; an error in the latter can be      *)
(* caught, and then the globals stay as they were when it was raised.       *)
(* Expressions, commands and declarations are one token each, and lines are *)
(* left out. "block" stands for while and for up to their then, "else if"   *)
(* for elseif, "stmt" for any simple statement but break, "malformed" for a *)
(* statement that is wrong in itself, an import that finds no file too.     *)
(***************************************************************************)
EXTENDS Naturals, FiniteSetsExt, SequencesExt, Grammar

CONSTANTS
  Scripts,      \* bound: the texts of the main script
  Executed,     \* bound: those of the scripts it executes
  Modules,      \* bound: those of modules
  FuncName,     \* names functions are given
  Builtin,      \* those of them that are native functions
  Alias,        \* prefixes modules are imported under
  NoName,       \* no function, no prefix
  MaxImports,   \* bound: modules importing modules
  MaxParses     \* bound: scripts executed, and the main one

Token == {"stmt", "break", "block", "if", "elseif", "else", "try", "catch",
          "switch", "case", "default", "function", "global function",
          "import", "fi", "malformed"}

ASSUME TextsAssumption == Scripts \cup Executed \cup Modules \subseteq Seq(Token)
ASSUME ParserNames ==
  /\ Builtin \subseteq FuncName
  /\ NoName \notin FuncName \cup Alias
ASSUME ParserBounds ==
  MaxImports \in Nat /\ MaxParses \in Nat \ {0}

VARIABLES
  phase,        \* "parsing", "running" a script, "failed"
  ts,           \* the token stream: tokens, position, tokens now read as EOF
  blocks,       \* the calls of the recursive descent in progress
  importing,    \* per import in progress, the ts and the prefix it will restore
  fi_block_nesting,
  current_import_prefix,
  func_table,   \* <<prefix, name>>: functions a call can name
  super_func_table,
  why,          \* what the last error was about
  parses        \* scripts parsed so far

tables == <<func_table, super_func_table>>
vars == <<phase, ts, blocks, importing, fi_block_nesting,
          current_import_prefix, tables, why, parses>>

Stream(text) == [tokens |-> text, pos |-> 1, masked |-> {}]

-----------------------------------------------------------------------------
(* The token stream.                                                        *)

ts_peek == IF ts.pos > Len(ts.tokens) \/ ts.pos \in ts.masked THEN "eof"
           ELSE ts.tokens[ts.pos]
ts_advance == ts' = [ts EXCEPT !.pos = @ + 1]

(* How many tokens of S there are from position a to b, not masked.         *)
Count(S, a, b) ==
  Cardinality({i \in a..b : i \notin ts.masked /\ ts.tokens[i] \in S})

count_remaining_fi == Count({"fi"}, ts.pos, Len(ts.tokens))

(* What find_switch_boundary takes to be closed by a fi.                    *)
Openers == {"block", "if", "function", "global function", "try", "switch"}

(* The positions at which the body of a case that starts at a can end; the  *)
(* first one is the fi, case or default of the same switch.                 *)
Boundaries(a) ==
  {i \in a..Len(ts.tokens) :
     /\ i \notin ts.masked
     /\ ts.tokens[i] \in {"fi", "case", "default"}
     /\ Count(Openers, a, i - 1) = Count({"fi"}, a, i - 1)}

-----------------------------------------------------------------------------
(* Calls in progress. last is the last statement of the node list, which    *)
(* default looks at; has_default is the switch's; name the function's.      *)
Kind == {"script", "module", "block", "if", "else", "function",
         "global function", "try", "catch", "switch", "case", "default"}
Block == [kind : Kind, last : {"none", "break", "stmt"},
          has_default : BOOLEAN, name : FuncName \cup {NoName}]

NewBlock(kind) == [kind |-> kind, last |-> "none", has_default |-> FALSE,
                   name |-> NoName]
Top == Last(blocks)
In(kind) == phase = "parsing" /\ Top.kind = kind

(* The tokens at which the parse_block that kind calls returns.             *)
Ends(kind) ==
  CASE kind \in {"script", "module", "case", "default"} -> {"eof"}
    [] kind = "try" -> {"catch", "eof"}
    [] OTHER -> {"fi", "else", "elseif", "eof"}

(* parse_block is about to look at a statement that begins with token.      *)
Statement(token) ==
  /\ phase = "parsing"
  /\ Top.kind # "switch"
  /\ ts_peek = token
  /\ token \notin Ends(Top.kind)

Note(last) == [blocks EXCEPT ![Len(blocks)].last = last]
Enter(b) == blocks' = Append(Note("stmt"), b)
Become(kind) == blocks' = Append(Front(blocks), NewBlock(kind))
Leave == blocks' = Front(blocks)

Unread == UNCHANGED <<phase, importing, current_import_prefix, tables, why,
                      parses>>

-----------------------------------------------------------------------------
(* error(), with the reason: the recursion is gone, the globals stay. The   *)
(* main script ends; the error of an executed one may be caught.            *)
Error(reason) ==
  /\ why' = reason
  /\ phase' \in IF parses = 1 THEN {"failed"} ELSE {"failed", "running"}
  /\ blocks' = <<>> /\ importing' = <<>>
  /\ UNCHANGED <<ts, fi_block_nesting, current_import_prefix, tables, parses>>

(* A simple statement.                                                      *)
Simple(token) ==
  /\ Statement(token)
  /\ blocks' = Note(token)
  /\ ts_advance
  /\ UNCHANGED fi_block_nesting /\ Unread

Malformed == Statement("malformed") /\ Error("malformed")

(* while, for, if and try count themselves and parse their body.            *)
Open(token) ==
  /\ Statement(token)
  /\ Enter(NewBlock(token))
  /\ fi_block_nesting' = fi_block_nesting + 1
  /\ ts_advance
  /\ Unread

(* Mutant: the closing fi is not checked.                                   *)
Close_unchecked ==
  /\ phase = "parsing"
  /\ Top.kind \in {"block", "if", "else", "catch"}
  /\ ts_peek \in {"fi", "else"}
  /\ Leave
  /\ fi_block_nesting' = fi_block_nesting - 1
  /\ ts_advance
  /\ Unread

Close ==
  /\ phase = "parsing"
  /\ Top.kind \in {"block", "if", "else", "catch"}
  /\ ts_peek = "fi"
  /\ Leave
  /\ fi_block_nesting' = fi_block_nesting - 1
  /\ ts_advance
  /\ Unread

(* elseif, else and catch go on with the next block of the construct.       *)
Continue ==
  /\ phase = "parsing"
  /\ \/ In("if") /\ ts_peek = "elseif" /\ Become("if")
     \/ In("if") /\ ts_peek = "else" /\ Become("else")
     \/ In("try") /\ ts_peek = "catch" /\ Become("catch")
  /\ ts_advance
  /\ UNCHANGED fi_block_nesting /\ Unread

(* Mutant: the end of the file in a function is not looked for.             *)
Unclosed_function ==
  /\ phase = "parsing"
  /\ ts_peek \in Ends(Top.kind)
  /\ \/ Top.kind \in {"block", "else", "catch", "global function"}
        /\ ts_peek # "fi"
     \/ In("if") /\ ts_peek = "eof"
     \/ In("try") /\ ts_peek = "eof"
  /\ Error("syntax")

(* Any other token where one of those was due.                              *)
Unclosed ==
  /\ phase = "parsing"
  /\ ts_peek \in Ends(Top.kind)
  /\ \/ Top.kind \in {"block", "else", "catch", "function", "global function"}
        /\ ts_peek # "fi"
     \/ In("if") /\ ts_peek = "eof"
     \/ In("try") /\ ts_peek = "eof"
  /\ Error("syntax")

(* fi, else, case... where no block waits for it.                           *)
Stray ==
  /\ \E token \in {"fi", "else", "elseif", "case", "default", "catch"} :
       Statement(token)
  /\ Error("syntax")

-----------------------------------------------------------------------------
(* Functions. The name is looked up bare, whatever the prefix.              *)

func_lookup(f) == <<NoName, f>> \in func_table \/ f \in super_func_table

Define(token, f) ==
  /\ Statement(token)
  /\ ~func_lookup(f)
  /\ Enter([NewBlock(token) EXCEPT !.name = f])
  /\ fi_block_nesting' = fi_block_nesting + 1
  /\ ts_advance
  /\ Unread

(* A name taken by any function, native or of a script, is refused.         *)
Redefine(token, f) ==
  /\ Statement(token)
  /\ func_lookup(f)
  /\ Error("redefined")

func_register ==
  func_table' = func_table \cup {<<current_import_prefix, Top.name>>}

Register ==
  /\ In("function") \/ In("global function")
  /\ ts_peek = "fi"
  /\ Leave
  /\ fi_block_nesting' = fi_block_nesting - 1
  /\ ts_advance
  /\ \/ In("function") /\ func_register /\ UNCHANGED super_func_table
     \/ /\ In("global function")
        /\ super_func_table' = super_func_table \cup {Top.name}
        /\ UNCHANGED func_table
  /\ UNCHANGED <<phase, importing, current_import_prefix, why, parses>>

-----------------------------------------------------------------------------
(* switch. The boundary of a case is read as EOF while its body is parsed.  *)

(* Both kinds of block start at the token after their head.                 *)
Body(kind, boundary) ==
  /\ boundary \in Boundaries(ts.pos + 1)
  /\ \A i \in Boundaries(ts.pos + 1) : boundary <= i
  /\ ts' = [ts EXCEPT !.pos = @ + 1, !.masked = @ \cup {boundary}]
  /\ blocks' = Append([blocks EXCEPT ![Len(blocks)].has_default =
                         @ \/ kind = "default"], NewBlock(kind))

(* An empty default may come before a case; one with a body may not.        *)
LateCase(boundary) == boundary # ts.pos + 1 /\ ts.tokens[boundary] = "case"

parse_case ==
  /\ In("switch") /\ ts_peek = "case"
  /\ \E boundary \in DOMAIN ts.tokens : Body("case", boundary)
  /\ UNCHANGED fi_block_nesting /\ Unread

parse_default ==
  /\ In("switch") /\ ts_peek = "default"
  /\ ~Top.has_default
  /\ \E boundary \in DOMAIN ts.tokens :
       Body("default", boundary) /\ ~LateCase(boundary)
  /\ UNCHANGED fi_block_nesting /\ Unread

(* No boundary; a second default; a case after one; no case at all.         *)
BadSwitch ==
  /\ In("switch") /\ ts_peek # "fi"
  /\ \/ ts_peek \in {"case", "default"} /\ Boundaries(ts.pos + 1) = {}
     \/ /\ ts_peek = "default"
        /\ \/ Top.has_default
           \/ \E b \in Boundaries(ts.pos + 1) :
                LateCase(b) /\ \A i \in Boundaries(ts.pos + 1) : b <= i
     \/ ts_peek \notin {"case", "default"}
  /\ Error("syntax")

(* Mutant: the boundary goes on being read as EOF.                          *)
EndCase_masked ==
  /\ In("case") \/ In("default")
  /\ ts_peek = "eof" /\ ts.pos \in ts.masked
  /\ In("default") => Top.last \in {"none", "break"}
  /\ Leave
  /\ UNCHANGED <<ts, fi_block_nesting>> /\ Unread

(* The body is over: the boundary is a token again. That of a default is    *)
(* empty or ends with break.                                                *)
EndCase ==
  /\ In("case") \/ In("default")
  /\ ts_peek = "eof" /\ ts.pos \in ts.masked
  /\ In("default") => Top.last \in {"none", "break"}
  /\ ts' = [ts EXCEPT !.masked = @ \ {ts.pos}]
  /\ Leave
  /\ UNCHANGED fi_block_nesting /\ Unread

BadDefault ==
  /\ In("default") /\ ts_peek = "eof" /\ Top.last = "stmt"
  /\ Error("syntax")

(* Mutant: a switch that is over still counts as open.                      *)
EndSwitch_uncounted ==
  /\ In("switch") /\ ts_peek = "fi"
  /\ count_remaining_fi >= fi_block_nesting
  /\ Leave
  /\ ts_advance
  /\ UNCHANGED fi_block_nesting /\ Unread

(* The fi of a switch must leave one for every block that is still open.    *)
EndSwitch ==
  /\ In("switch") /\ ts_peek = "fi"
  /\ count_remaining_fi >= fi_block_nesting
  /\ Leave
  /\ fi_block_nesting' = fi_block_nesting - 1
  /\ ts_advance
  /\ Unread

(* Mutant: the switch's own fi is not counted.                              *)
MissingFi_strict ==
  /\ In("switch") /\ ts_peek = "fi"
  /\ count_remaining_fi <= fi_block_nesting
  /\ Error("missing fi")

MissingFi ==
  /\ In("switch") /\ ts_peek = "fi"
  /\ count_remaining_fi < fi_block_nesting
  /\ Error("missing fi")

-----------------------------------------------------------------------------
(* import: the text of the module is parsed in place, under its prefix.     *)

Import ==
  /\ Statement("import")
  /\ Len(importing) < MaxImports
  /\ Enter(NewBlock("module"))
  /\ importing' = Append(importing, [ts |-> [ts EXCEPT !.pos = @ + 1],
                                     prefix |-> current_import_prefix])
  /\ \E text \in Modules : ts' = Stream(text)
  /\ current_import_prefix' \in Alias
  /\ UNCHANGED <<phase, fi_block_nesting, tables, why, parses>>

EndModule ==
  /\ In("module") /\ ts_peek = "eof"
  /\ Leave
  /\ importing' = Front(importing)
  /\ ts' = Last(importing).ts
  /\ current_import_prefix' = Last(importing).prefix
  /\ UNCHANGED <<phase, fi_block_nesting, tables, why, parses>>

(* The script is parsed, and runs.                                          *)
EndScript ==
  /\ In("script") /\ ts_peek = "eof"
  /\ phase' = "running"
  /\ why' = "none"
  /\ Leave
  /\ UNCHANGED <<ts, importing, fi_block_nesting, current_import_prefix,
                 tables, parses>>

(* The script that runs, or one it has executed, executes another.          *)
Execute ==
  /\ phase = "running"
  /\ parses < MaxParses
  /\ phase' = "parsing"
  /\ why' = "none"
  /\ parses' = parses + 1
  /\ \E text \in Executed : ts' = Stream(text)
  /\ blocks' = <<NewBlock("script")>>
  /\ UNCHANGED <<importing, fi_block_nesting, current_import_prefix, tables>>

-----------------------------------------------------------------------------
Init ==
  /\ phase = "parsing"
  /\ \E text \in Scripts : ts = Stream(text)
  /\ blocks = <<NewBlock("script")>>
  /\ importing = <<>>
  /\ fi_block_nesting = 0
  /\ current_import_prefix = NoName
  /\ func_table = {NoName} \X Builtin
  /\ super_func_table = {}
  /\ why = "none"
  /\ parses = 1

Blocks ==
  \/ \E token \in {"stmt", "break"} : Simple(token)
  \/ \E token \in {"block", "if", "try"} : Open(token)
  \/ Close \/ Continue \/ Unclosed \/ Stray \/ Malformed

Functions ==
  \/ Register
  \/ \E token \in {"function", "global function"}, f \in FuncName :
       Define(token, f) \/ Redefine(token, f)

Switches ==
  \/ Open("switch") \/ parse_case \/ parse_default \/ EndCase \/ EndSwitch
  \/ BadSwitch \/ BadDefault \/ MissingFi

Parse == Blocks \/ Functions \/ Switches \/ Import \/ EndModule \/ EndScript
Next == Parse \/ Execute
Spec == Init /\ [][Next]_vars

(* One thread parses, and does nothing else until it is done.               *)
FairSpec == Spec /\ WF_vars(Parse)

-----------------------------------------------------------------------------
(* Properties.                                                              *)

(* The parser decides as the grammar does: a script or module read to its   *)
(* end, with the blocks found by scanning ahead, has the structure found    *)
(* from left to right, and an error about the structure is never raised for *)
(* a text that has it.                                                      *)
DecidesAsGrammar ==
  /\ phase = "parsing" /\ Top.kind \in {"script", "module"}
       /\ ts.pos > Len(ts.tokens) => Grammatical(ts.tokens)
  /\ why = "syntax" => ~Grammatical(ts.tokens)

(* The token streams in progress: those of the importing texts, outermost   *)
(* first, and the one being read. The cases in progress in the n-th one.    *)
Streams == Append([n \in DOMAIN importing |-> importing[n].ts], ts)
ModulesUpTo(b) == {m \in 1..b : blocks[m].kind = "module"}
Cases(n) == {b \in DOMAIN blocks : /\ blocks[b].kind \in {"case", "default"}
                                   /\ Cardinality(ModulesUpTo(b)) + 1 = n}

(* Masking a case's end and scanning for it never loses a token: in each    *)
(* text every case in progress hides just its end, which is still ahead, so *)
(* that between two statements of a switch that is not in a case nothing of *)
(* it is read as the end of the file.                                       *)
MasksNest ==
  phase = "parsing" =>
    \A n \in DOMAIN Streams :
      /\ \A i \in Streams[n].masked :
           /\ i >= Streams[n].pos
           /\ Streams[n].tokens[i] \in {"fi", "case", "default"}
      /\ Cardinality(Streams[n].masked) = Cardinality(Cases(n))

(* How many of the blocks in progress wait for a fi.                        *)
Waiting ==
  Cardinality({b \in DOMAIN blocks :
    blocks[b].kind \notin {"script", "module", "case", "default"}})

(* The counter is the number of open blocks, until an error is caught: from *)
(* then on it is never less.                                                *)
NestingCovers ==
  phase = "parsing" =>
    IF parses = 1 THEN fi_block_nesting = Waiting
    ELSE fi_block_nesting >= Waiting

(* The check of a switch's fi against the rest of the file raises no false  *)
(* alarm in the main script and outside modules, as long as no fi is hidden *)
(* as the end of a case.                                                    *)
AlarmReal ==
  [][why' = "missing fi" /\ parses = 1 /\ importing = <<>>
       /\ (\A i \in ts.masked : ts.tokens[i] # "fi")
     => ~Grammatical(ts.tokens)]_vars

(* The bound on imports within imports keeps the model from going on.       *)
AtImportBound == Statement("import") /\ Len(importing) = MaxImports

(* Every parse ends, whatever the text and the modules it imports.          *)
ParseEnds == phase = "parsing" ~> phase # "parsing" \/ AtImportBound

-----------------------------------------------------------------------------
(* What the comments and messages of the code say, and it does not do.      *)

(* parser.c:41-45: if fewer fi remain than blocks are open, one is missing. *)
FewerFiMeansMissing == why = "missing fi" => ~Grammatical(ts.tokens)
=============================================================================
