----------------------------- MODULE Statements -----------------------------
(***************************************************************************)
(* How the parser divides a script into statements (parser/parser.c): the   *)
(* loop of parse_block over the simple statements, one action for each. The *)
(* language has no mark for a command of the shell, so each line is decided *)
(* by its first words: a statement, or a command with all that follows. The *)
(* constructs that hold blocks, functions and imports are in Parser, flags  *)
(* in Flags; here a block only ends, at the token its terminator names.     *)
(***************************************************************************)
EXTENDS Syntax, SequencesExt

CONSTANTS
  Scripts,     \* bound: the texts of scripts
  Bodies,      \* bound: those of blocks read up to their fi
  Hashed       \* string literals with a # in them

VARIABLES
  pos,         \* ts.pos
  terminator,  \* of the block: "fi", or "none" at the outermost
  block,       \* the statements, and the tokens from..to - 1 each took
  phase        \* "parsing", "read", "failed"

vars == <<ts, pos, terminator, block, phase>>

ASSUME HashedAssumption == Hashed \subseteq Strings

-----------------------------------------------------------------------------
(* Lines.                                                                   *)

LineEnd == {"newline", "eof"}
Closers == {"fi", "else", "elseif", "case", "default", "catch", "eof"}

(* The first newline or end of the text from p on.                          *)
EndOfLine(p) == Min({q \in p .. Len(ts) + 1 : Peek(q) \in LineEnd})
StartOfLine(p) == Max({1} \cup {q \in 2..p : ts[q - 1] = "newline"})

(* Mutant: whatever follows is left for the next statement.                 *)
require_statement_end_any(p) == TRUE

require_statement_end(p) == Peek(p) \in Closers \cup {"newline", "then"}

-----------------------------------------------------------------------------
(* Commands.                                                                *)

(* The words from p to the end of the line, as build_command_from_tokens    *)
(* and command_append_token put them together.                              *)
Words(p) == SubSeq(ts, p, EndOfLine(p) - 1)

(* The tokens with a = in them; string literals have none here.             *)
Equals == {"=", "==", "!=", "<=", ">=", "+=", "-=", "*=", "/=", "%="}

(* The text after the first = of the line of p, up to a # wherever it is:   *)
(* what extract_command_string finds in the source of the line.             *)
extract_command_string(p) ==
  LET line == StartOfLine(p) .. EndOfLine(p) - 1
      eq == Min({q \in line : ts[q] \in Equals})
      hash == Min({q \in line : q > eq /\ ts[q] \in Hashed} \cup {EndOfLine(p)}) IN
  (IF ts[eq] = "==" THEN <<"=">> ELSE <<>>) \o SubSeq(ts, eq + 1, hash - 1)
    \o (IF hash < EndOfLine(p) THEN <<"cut">> ELSE <<>>)

(* A name and ++ or --, alone in the line.                                  *)
rhs_is_post_op(p) == Peek(p) = "ident" /\ Peek(p + 1) \in {"++", "--"} /\ Peek(p + 2) \in LineEnd

Bare(p) == Peek(p) = "ident" /\ ts[p] \in Names
Applied(p) == Peek(p + 1) \in {"(", "["}

assigns_command(p) == Bare(p) /\ ~Applied(p) /\ ~rhs_is_post_op(p)

(* Mutant: what is called is a command too.                                 *)
declares_command_called(scope, p) ==
  Bare(p) /\ Peek(p + 1) # "[" /\ (scope # "none" => ~rhs_is_post_op(p))

(* In a declaration; without local or global x++ is a command.              *)
declares_command(scope, p) ==
  Bare(p) /\ ~Applied(p) /\ (scope # "none" => ~rhs_is_post_op(p))

-----------------------------------------------------------------------------
(* Nodes. eq is where the = of an assignment is, 0 without one, and end is  *)
(* the position after its value.                                            *)

NoValue == <<"default">>
NoIndex == <<"no index">>
Command(words) == <<"command", words>>
Assign(name, scope, type, lhs_index, value, eq, end) ==
  [kind |-> "assign", name |-> name, scope |-> scope, type |-> type,
   lhs_index |-> lhs_index, value |-> value, eq |-> eq, end |-> end]
Other(kind, value) == [kind |-> kind, value |-> value, eq |-> 0]

Ended(node, p) == IF require_statement_end(p) THEN <<node, p>> ELSE Fail

-----------------------------------------------------------------------------
(* Assignments: x = value, x += value.                                      *)

Operator == [o \in {"+=", "-=", "*=", "/=", "%="} |->
  CASE o = "+=" -> "+" [] o = "-=" -> "-" [] o = "*=" -> "*" [] o = "/=" -> "/" [] o = "%=" -> "%"]
AssignOps == {"="} \cup DOMAIN Operator

parse_assignment_expr(p) ==
  LET name == clean_var_name(ts[p])
      op == Peek(p + 1)
      node(value, end) == Assign(name, "none", "", NoIndex, value, p + 1, end) IN
  IF op = "=" /\ assigns_command(p + 2)
  THEN <<node(Command(extract_command_string(p)), EndOfLine(p)), EndOfLine(p)>>
  ELSE IF ~token_starts_expression(p + 2) THEN Fail
  ELSE Then(parse_expression(p + 2), LAMBDA value, q :
    Ended(node(IF op = "=" THEN value ELSE Binop(Operator[op], <<"var", name, FALSE>>, value), q), q))

-----------------------------------------------------------------------------
(* Declarations: [local | global] [type] x [indexes] [= value], y, ...      *)
(* Each returns the statements it adds and the position after them. The     *)
(* text of a command is looked for in the line of the declaration's first   *)
(* token, from, also when a value before it has gone on in the next lines.  *)

(* The [ ] after the name in a declaration: no slices.                      *)
RECURSIVE lhs_indexes(_, _)
lhs_indexes(node, p) ==
  IF Peek(p) # "[" THEN <<node, p>>
  ELSE Then(parse_expression(p + 1), LAMBDA index, q :
         Then(Expect("]", <<"index", node, index>>, q), lhs_indexes))

parse_typed_empty_collection(type, p) ==
  IF type \in {"list", "map"} /\ Peek(p) = "[" /\ Peek(p + 1) = "]"
  THEN <<<<type, <<>>>>, p + 2>> ELSE parse_expression(p)

RECURSIVE Declared(_, _, _, _, _)
Declared(from, scope, type, all, p) ==
  IF Peek(p) # "ident" THEN Fail
  ELSE
  LET name == clean_var_name(ts[p])
      base == <<"var", name, FALSE>>
      With(lhs, value, eq, q) ==
        Append(all, Assign(name, scope, type, IF lhs = base THEN NoIndex ELSE lhs, value, eq, q))
      (* value has been read up to q.                                       *)
      After(lhs, value, eq, q) ==
        CASE value = NoValue /\ type = "" -> Fail
          [] lhs # base \/ Peek(q) # "," -> Ended(With(lhs, value, eq, q), q)
          [] type = "" -> Fail
          [] OTHER -> Declared(from, scope, type, With(lhs, value, eq, q), q + 1) IN
  IF Peek(p + 1) = "[" /\ type \notin {"list", "map"} THEN Fail
  ELSE Then(lhs_indexes(base, p + 1), LAMBDA lhs, q :
    CASE Peek(q) # "=" -> After(lhs, NoValue, 0, q)
      [] Peek(q) = "=" /\ lhs = base /\ declares_command(scope, q + 1) ->
           <<With(lhs, Command(extract_command_string(from)), q, EndOfLine(q)), EndOfLine(q)>>
      [] OTHER -> Then(parse_typed_empty_collection(type, q + 1), LAMBDA value, r :
                    After(lhs, value, q, r)))

Declaration(p) ==
  LET scope == CASE Peek(p) = "local" /\ Peek(p + 1) = "global" -> "both"
                 [] Peek(p) \in Types -> "none"
                 [] OTHER -> Peek(p)
      q == CASE scope = "none" -> p [] scope = "both" -> p + 2 [] OTHER -> p + 1 IN
  IF Peek(q) \in Types THEN Declared(p, scope, Peek(q), <<>>, q + 1)
  ELSE Declared(p, scope, "", <<>>, q)

-----------------------------------------------------------------------------
(* Statements that begin with a name.                                       *)

RECURSIVE Root(_)
Root(node) == IF node[1] = "index" THEN Root(node[2]) ELSE node

(* a[i] = value, or a[i] on its own.                                        *)
Indexing(p) ==
  Then(parse_expression(p), LAMBDA lhs, q :
    CASE Peek(q) # "=" -> Ended(Other("expression", lhs), q)
      [] Peek(q) = "=" /\ lhs[1] = "index" /\ Root(lhs)[1] = "var" /\ token_starts_expression(q + 1) ->
           Then(parse_expression(q + 1), LAMBDA value, r :
                  Ended(Assign(Root(lhs)[2], "none", "", lhs, value, q, r), r))
      [] OTHER -> Fail)

Named(p) ==
  CASE Peek(p + 1) \in AssignOps -> parse_assignment_expr(p)
    [] Peek(p + 1) = "(" ->
         Then(parse_expression(p), LAMBDA value, q : Ended(Other("expression", value), q))
    [] Peek(p + 1) = "[" -> Indexing(p)
    [] rhs_is_post_op(p) ->
         Then(parse_expression(p), LAMBDA value, q : <<Other("expression", value), q>>)
    [] OTHER -> <<Other("shell", Command(Words(p))), EndOfLine(p)>>

-----------------------------------------------------------------------------
(* !command! or another, each tried when the one before fails.              *)

BangEnd(p) == Min({q \in p .. EndOfLine(p) : Peek(q) \in LineEnd \cup {"!"}})
AfterBang(p) == IF Peek(BangEnd(p)) = "!" THEN BangEnd(p) + 1 ELSE BangEnd(p)

RECURSIVE Alternatives(_, _)
Alternatives(node, p) ==
  IF Peek(p) # "or" THEN <<Other("try", node), p>>
  ELSE IF Peek(p + 1) = "!"
  THEN Alternatives(<<"try", node, <<"embedded", SubSeq(ts, p + 2, BangEnd(p + 2) - 1)>>>>, AfterBang(p + 2))
  ELSE LET q == Min({q \in p + 1 .. EndOfLine(p + 1) : Peek(q) \in LineEnd \cup {"or"}}) IN
       Alternatives(<<"try", node, Command(SubSeq(ts, p + 1, q - 1))>>, q)

-----------------------------------------------------------------------------
(* The loop of parse_block.                                                 *)

Ends == Peek(pos) = "eof" \/ (terminator = "fi" /\ Peek(pos) \in {"fi", "else", "elseif"})
At(tokens) == phase = "parsing" /\ ~Ends /\ Peek(pos) \in tokens

(* read is the statements and the position after them, or Fail.             *)
Add(read) ==
  /\ IF read = Fail THEN phase' = "failed" /\ UNCHANGED <<pos, block>>
     ELSE /\ phase' = "parsing"
          /\ block' = block \o [i \in DOMAIN read[1] |-> [node |-> read[1][i], from |-> pos, to |-> read[2]]]
          /\ pos' = ts_skip_newlines(read[2])
  /\ UNCHANGED <<ts, terminator>>
AddOne(read) == Add(Then(read, LAMBDA node, q : <<<<node>>, q>>))

Bang == At({"!"}) /\
  AddOne(Alternatives(<<"embedded", SubSeq(ts, pos + 1, BangEnd(pos + 1) - 1)>>, AfterBang(pos + 1)))

Quoted == At({"string literal"}) /\ AddOne(<<Other("shell", Command(Words(pos))), EndOfLine(pos)>>)

Portal == At({"portal"}) /\
  AddOne(IF Peek(pos + 1) = "ident" THEN Ended(Other("portal", ts[pos + 1]), pos + 2) ELSE Fail)

Execute == At({"execute"}) /\
  AddOne(Then(parse_expression(pos + 1), LAMBDA path, q :
    <<Other("execute", <<path, Words(q)>>), EndOfLine(q)>>))

Return == At({"return"}) /\
  LET p == IF Peek(pos + 1) \in Types THEN pos + 2 ELSE pos + 1
      nothing == Peek(p) \in LineEnd \cup {"fi"} IN
  AddOne(IF nothing THEN IF p > pos + 1 THEN Fail ELSE <<Other("return", NoValue), p>>
         ELSE Then(parse_expression(p), LAMBDA value, q : <<Other("return", value), q>>))

Jump == At({"break", "continue"}) /\ AddOne(Ended(Other(Peek(pos), NoValue), pos + 1))

Repeat == At({"repeat"}) /\
  AddOne(CASE Peek(pos + 1) = "ident" -> Ended(Other("repeat", ts[pos + 1]), pos + 2)
           [] Peek(pos + 1) = "line" /\ token_starts_expression(pos + 2) ->
                Then(parse_expression(pos + 2), LAMBDA line, q : Ended(Other("repeat line", line), q))
           [] OTHER -> Fail)

Define == At({"define"}) /\
  AddOne(IF Peek(pos + 1) = "ident" /\ token_starts_expression(pos + 2)
         THEN Then(parse_expression(pos + 2), LAMBDA value, q :
                Ended([kind |-> "define", name |-> ts[pos + 1], value |-> value, eq |-> 0], q))
         ELSE Fail)

Declare == At(Types \cup {"local", "global"}) /\ Add(Declaration(pos))

Identifier == At({"ident"}) /\ AddOne(Named(pos))

(* No statement begins with any other token; those of Constructs begin what *)
(* is not modelled here.                                                    *)
Constructs == {"if", "while", "for", "switch", "function", "import", "try", "flags"}
Beginnings ==
  {"!", "string literal", "portal", "execute", "return", "break", "continue", "repeat", "define",
   "local", "global", "ident"} \cup Types \cup Constructs

Unrecognised == phase = "parsing" /\ ~Ends /\ Peek(pos) \notin Beginnings /\ Add(Fail)

Finish ==
  /\ phase = "parsing" /\ Ends
  /\ phase' = "read"
  /\ UNCHANGED <<ts, pos, terminator, block>>

Init ==
  /\ \/ ts \in Scripts /\ terminator = "none"
     \/ ts \in Bodies /\ terminator = "fi"
  /\ pos = ts_skip_newlines(1)
  /\ block = <<>>
  /\ phase = "parsing"

Next == Bang \/ Quoted \/ Portal \/ Execute \/ Return \/ Jump \/ Repeat \/ Define \/ Declare
        \/ Identifier \/ Unrecognised \/ Finish

Spec == Init /\ [][Next]_vars

-----------------------------------------------------------------------------
(* The property of expressions. What an assignment or a statement stands    *)
(* for is the only tree the grammar gives its words, and it is refused only  *)
(* when no words up to the end of a statement have a tree: nothing the       *)
(* parser decides by looking ahead, or by what it has read, changes it.      *)
IsCommand(node) == node.value[1] = "command"

Meant(node, tree) ==
  \/ node.value = tree
  \/ ts[node.eq] \in DOMAIN Operator /\ node.value = Binop(Operator[ts[node.eq]], <<"var", node.name, FALSE>>, tree)
  \/ node.type \in {"list", "map"} /\ tree = <<"empty">> /\ node.value = <<node.type, <<>>>>

ReadsAsGrammar ==
  /\ block # <<>> =>
       LET s == Last(block) IN
       /\ s.node.kind = "assign" /\ s.node.eq # 0 /\ ~IsCommand(s.node) =>
            \E tree \in Or(s.node.eq + 1, s.node.end - 1) :
               /\ Or(s.node.eq + 1, s.node.end - 1) = {tree}
               /\ Meant(s.node, tree)
       /\ s.node.kind = "expression" => Or(s.from, s.to - 1) = {s.node.value}
  /\ phase = "failed" /\ Peek(pos) = "ident" /\ Peek(pos + 1) \in AssignOps =>
       \A q \in pos + 2 .. Len(ts) + 1 : require_statement_end(q) => Or(pos + 2, q - 1) = {}

(* Lines are kept apart, without a mark at their end. A statement goes on in *)
(* the next line only inside brackets, and another can follow it in its line *)
(* only when it gave a value back or was a command between marks.            *)
LinesApart ==
  \A i \in DOMAIN block :
    LET s == block[i] IN
    /\ \A q \in s.from .. s.to - 1 :
         ts[q] = "newline" => Cardinality({k \in s.from..q : ts[k] = "["})
                              > Cardinality({k \in s.from..q : ts[k] = "]"})
    /\ Peek(s.to) \in LineEnd \cup Closers \cup {"then"} \/ s.node.kind \in {"return", "try"}

(* The same words after = are a command, a value or an error whatever is     *)
(* declared before it, but for x++ after a type alone, which is a command;   *)
(* and a command is those words, if its statement began in the same line,    *)
(* this is the first = there and the line has no # in quotes.                *)
Plain(s) == s.node.kind = "assign" /\ s.node.eq # 0 /\ s.node.lhs_index = NoIndex /\ ts[s.node.eq] = "="
Typed(node) == node.scope = "none" /\ node.type # ""
FirstInLine(s) ==
  \A q \in StartOfLine(s.from) .. s.node.eq - 1 : ts[q] \notin {"newline"} \cup Equals

SameRightHandSide ==
  \A i \in DOMAIN block :
    Plain(block[i]) =>
      LET s == block[i].node
          words == Words(s.eq + 1) IN
      /\ IsCommand(s) /\ FirstInLine(block[i]) /\ Range(words) \cap Hashed = {} => s.value = Command(words)
      /\ \A j \in DOMAIN block :
           LET t == block[j].node
               alike == rhs_is_post_op(s.eq + 1) => Typed(s) = Typed(t) IN
           Plain(block[j]) /\ words = Words(t.eq + 1) /\ alike =>
             /\ IsCommand(s) = IsCommand(t)
             /\ s.type = t.type /\ FirstInLine(block[i]) /\ FirstInLine(block[j]) => s.value = t.value
=============================================================================
