---------------------------- MODULE Expressions ----------------------------
(***************************************************************************)
(* How the parser reads an expression (parser/expression.c): the recursive  *)
(* descent over the token stream ts, one operator per function. Each takes  *)
(* the position it reads from and returns <<node, position after it>>, or   *)
(* Fail where the code raises an error. A token is its lexeme; those whose  *)
(* lexeme varies are names, numbers and strings. Blanks, line numbers and   *)
(* the wording of errors are left out. A node is a tuple headed by its kind. *)
(***************************************************************************)
EXTENDS Integers, Sequences, Functions

CONSTANTS
  Names,        \* lexemes of identifiers
  Pointers,     \* those that begin with $, each with the name it clones
  Ints,         \* lexemes of integers, each with its value
  Floats,       \* of other numbers
  Strings,      \* of string literals
  IntMax        \* the largest integer

VARIABLE ts     \* the tokens of the script

ASSUME LexemesApart ==
  /\ DOMAIN Pointers \cap Names = {} /\ Range(Pointers) \subseteq Names
  /\ (Names \cup DOMAIN Pointers) \cap (DOMAIN Ints \cup Floats \cup Strings) = {}
  /\ Floats \cap DOMAIN Ints = {} /\ Strings \cap (Floats \cup DOMAIN Ints) = {}
ASSUME IntMaxAssumption == IntMax \in Nat \ {0} /\ \A i \in DOMAIN Ints : Ints[i] \in Nat

Types == {"int", "float", "bool", "string", "list", "map"}

TokenType(t) ==
  CASE t \in Names \cup DOMAIN Pointers -> "ident"
    [] t \in DOMAIN Ints \cup Floats -> "number"
    [] t \in Strings -> "string literal"
    [] OTHER -> t

Peek(p) == IF p > Len(ts) THEN "eof" ELSE TokenType(ts[p])

clean_var_name(t) == IF t \in DOMAIN Pointers THEN Pointers[t] ELSE t
Var(t) == <<"var", clean_var_name(t), t \in DOMAIN Pointers>>

Fail == <<"fail", 0>>
Then(read, Next(_, _)) == IF read[2] = 0 THEN Fail ELSE Next(read[1], read[2])
Expect(type, node, p) == IF Peek(p) = type THEN <<node, p + 1>> ELSE Fail

token_starts_expression(p) ==
  Peek(p) \in {"number", "string literal", "true", "false", "ident", "[", "{",
               "(", "-", "+", "not"}

RECURSIVE ts_skip_newlines(_)
ts_skip_newlines(p) == IF Peek(p) = "newline" THEN ts_skip_newlines(p + 1) ELSE p

-----------------------------------------------------------------------------
(* Slices. list is what they are taken from, NoList when they stand alone.  *)

NoList == <<"none">>

(* A whole positive number at p.                                            *)
Position(p) == p <= Len(ts) /\ ts[p] \in DOMAIN Ints /\ Ints[ts[p]] \in 1..IntMax

(* The modes: <<mode, first, last, position after it>>.                     *)
Forms(p) ==
  LET n == Ints[ts[p]]
      m == Ints[ts[p + 1]] IN
  CASE Peek(p) \in {"*", "**"} /\ Peek(p + 1) = "]" -> {<<6, 0, 0, p + 1>>}
    [] Peek(p) = "*" /\ Position(p + 1) ->
         IF Peek(p + 2) \in {"*", "**"} THEN {<<5, -1, m, p + 3>>}
                                        ELSE {<<3, -1, m, p + 2>>}
    [] Peek(p) = "**" /\ Position(p + 1) -> {<<5, -1, m, p + 2>>}
    [] Position(p) /\ Peek(p + 1) = "]" -> {<<0, n, n, p + 1>>}
    [] Position(p) /\ Peek(p + 1) = ":" /\ Position(p + 2) ->
         {<<1, n, last, p + 3>> : last \in {Ints[ts[p + 2]]} \ 0..(n - 1)}
    [] Position(p) /\ Peek(p + 1) = "*" -> {<<2, n, -1, p + 2>>}
    [] Position(p) /\ Peek(p + 1) = "**" -> {<<4, n, -1, p + 2>>}
    [] OTHER -> {}

parse_slice_content(list, p) ==
  IF Forms(p) = {} THEN Fail
  ELSE LET f == CHOOSE form \in Forms(p) : TRUE IN
       Expect("]", <<"slice", list, f[1], f[2], f[3]>>, f[4])

(* What is between [ and ] after a value is a slice.                        *)
IsSlice(p) ==
  Peek(p) = "*" \/ (Peek(p) = "number" /\ Peek(p + 1) \in {":", "*"})

(* What is between [ and ] where a value can stand is a slice.              *)
IsStandalone(p) ==
  Peek(p) \in {"*", "**"} \/ (Peek(p) = "number" /\ Peek(p + 1) \in {":", "*", "**"})

(* What is between [ and ] after a minus is.                                *)
IsRemoval(p) == Peek(p) = "[" /\ Peek(p + 1) \in {"*", "**", "number"}

-----------------------------------------------------------------------------
(* The functions of the parser call each other by the names of their rules.  *)
RECURSIVE Parse(_, _)
parse_expression(p) == Parse("or", p)

expect_index_close_bracket(node, p) == Expect("]", node, p)

parse_index_or_slice(list, p) ==
  IF IsSlice(p) THEN parse_slice_content(list, p)
  ELSE Then(parse_expression(p), LAMBDA index, q :
         expect_index_close_bracket(<<"index", list, index>>, q))

(* Every [ ] that follows a value it can be applied to.                     *)
RECURSIVE Indexes(_, _)
Indexes(node, p) ==
  IF Peek(p) = "[" THEN Then(parse_index_or_slice(node, p + 1), Indexes) ELSE <<node, p>>

(* The arguments of a call, from p, after those in args.                    *)
RECURSIVE Arguments(_, _)
Arguments(args, p) ==
  IF ~token_starts_expression(p) THEN Fail
  ELSE Then(parse_expression(p), LAMBDA arg, q :
    CASE Peek(q) = "," -> Arguments(Append(args, arg), q + 1)
      [] Peek(q) = ")" -> <<Append(args, arg), q + 1>>
      [] OTHER -> Fail)

Call(p) ==
  Then(IF Peek(p + 2) = ")" THEN <<<<>>, p + 3>> ELSE Arguments(<<>>, p + 2),
       LAMBDA args, q : Indexes(<<"call", ts[p], args>>, q))

(* The elements of a list, after those in items.                            *)
RECURSIVE Items(_, _)
Items(items, p) ==
  IF ~token_starts_expression(ts_skip_newlines(p)) THEN Fail
  ELSE Then(parse_expression(ts_skip_newlines(p)), LAMBDA item, q :
    LET after == ts_skip_newlines(q) IN
    CASE Peek(after) = "," -> Items(Append(items, item), after + 1)
      [] Peek(after) = "]" -> <<<<"list", Append(items, item)>>, after + 1>>
      [] OTHER -> Fail)

(* The entries of a map, after those in pairs. "" is no type.               *)
RECURSIVE parse_map_literal(_, _)
parse_map_literal(pairs, p0) ==
  LET p == ts_skip_newlines(p0)
      key == IF Peek(p) \in Types THEN p + 1 ELSE p
      type == IF key = p THEN "" ELSE ts[p] IN
  IF Peek(p) = "]" THEN <<<<"map", pairs>>, p + 1>>
  ELSE IF ~(key <= Len(ts) /\ ts[key] \in Names \cup Strings /\ Peek(key + 1) = "=") THEN Fail
  ELSE Then(parse_expression(key + 2), LAMBDA value, q :
    LET lines == ts_skip_newlines(q)
        after == IF Peek(lines) = "," THEN ts_skip_newlines(lines + 1) ELSE lines
        all == Append(pairs, <<type, ts[key], value>>) IN
    CASE Peek(after) = "]" -> <<<<"map", all>>, after + 1>>
      [] Peek(after) # "]" /\ after > q -> parse_map_literal(all, after)
      [] OTHER -> Fail)

(* The first token of a literal, and what follows it, say it is a map.      *)
IsMap(p) ==
  \/ Peek(p) \in {"ident", "string literal", "number"} /\ Peek(p + 1) = "="
  \/ Peek(p) \in Types /\ Peek(p + 1) = "ident" /\ Peek(p + 2) = "="

Bracket(p) ==
  LET first == ts_skip_newlines(p + 1) IN
  CASE IsStandalone(p + 1) -> parse_slice_content(NoList, p + 1)
    [] ~IsStandalone(p + 1) /\ Peek(first) = "]" -> <<<<"empty">>, first + 1>>
    [] ~IsStandalone(p + 1) /\ IsMap(first) -> parse_map_literal(<<>>, first)
    [] OTHER -> Items(<<>>, first)

Braces(p) ==
  IF Peek(p + 1) = "ident" THEN Expect("}", <<"var", ts[p + 1], FALSE>>, p + 2) ELSE Fail
Parentheses(p) == Then(parse_expression(p + 1), LAMBDA node, q : Expect(")", node, q))

parse_primary(p) ==
  CASE Peek(p) = "number" ->
         IF ts[p] \in DOMAIN Ints /\ Ints[ts[p]] > IntMax THEN Fail
         ELSE Indexes(<<"literal", ts[p]>>, p + 1)
    [] Peek(p) = "string literal" -> Indexes(<<"literal", ts[p]>>, p + 1)
    [] Peek(p) \in {"true", "false"} -> <<<<"literal", ts[p]>>, p + 1>>
    [] Peek(p) = "ident" ->
         CASE Peek(p + 1) = "(" -> Call(p)
           [] Peek(p + 1) = "{" -> Fail
           [] OTHER -> Indexes(Var(ts[p]), p + 1)
    [] Peek(p) = "[" -> Bracket(p)
    [] Peek(p) = "{" -> Braces(p)
    [] Peek(p) = "(" -> Parentheses(p)
    [] OTHER -> Fail

-----------------------------------------------------------------------------
(* Operators.                                                               *)

Binop(op, left, right) == <<"binop", op, left, right>>

RECURSIVE Posts(_, _)
Posts(node, p) ==
  CASE Peek(p) \notin {"++", "--"} -> <<node, p>>
    [] Peek(p) \in {"++", "--"} /\ node[1] = "var" -> Posts(<<"post", ts[p], node>>, p + 1)
    [] OTHER -> Fail

parse_postfix(p) == Then(Parse("primary", p), Posts)

\* Mutant: a power is one of the values to its left.
RECURSIVE Powers(_, _)
Powers(left, p) ==
  IF Peek(p) # "**" THEN <<left, p>>
  ELSE Then(Parse("postfix", p + 1), LAMBDA right, q : Powers(Binop("**", left, right), q))
parse_power_left(p) == Then(Parse("postfix", p), Powers)

parse_power(p) ==
  Then(Parse("postfix", p), LAMBDA left, q :
    IF Peek(q) # "**" THEN <<left, q>>
    ELSE Then(Parse("unary", q + 1), LAMBDA right, r : <<Binop("**", left, right), r>>))

(* The smallest integer is the one literal that is read with its sign.      *)
IntMin == <<"literal", "INT_MIN">>
Zero == <<"literal", "0">>

parse_unary(p) ==
  LET magnitude == IF p < Len(ts) /\ ts[p + 1] \in DOMAIN Ints THEN Ints[ts[p + 1]] ELSE 0 IN
  CASE Peek(p) = "+" -> Parse("unary", p + 1)
    [] Peek(p) = "-" ->
         CASE magnitude > IntMax + 1 -> Fail
           [] magnitude = IntMax + 1 -> <<IntMin, p + 2>>
           [] OTHER -> Then(Parse("unary", p + 1), LAMBDA node, q : <<Binop("-", Zero, node), q>>)
    [] OTHER -> Parse("power", p)

(* The loops over operators of one precedence, with left read up to p.      *)
RECURSIVE Terms(_, _)
Terms(left, p) ==
  IF Peek(p) \notin {"*", "/", "%"} THEN <<left, p>>
  ELSE Then(Parse("unary", p + 1), LAMBDA right, q : Terms(Binop(ts[p], left, right), q))

parse_term(p) == Then(Parse("unary", p), Terms)

RECURSIVE Sums(_, _)
Sums(left, p) ==
  CASE Peek(p) \notin {"+", "-"} -> <<left, p>>
    [] Peek(p) = "-" /\ IsRemoval(p + 1) ->
         Then(parse_slice_content(left, p + 2), LAMBDA slice, q : <<Binop("-", left, slice), q>>)
    [] OTHER -> Then(Parse("term", p + 1), LAMBDA right, q : Sums(Binop(ts[p], left, right), q))

parse_expr(p) == Then(Parse("term", p), Sums)

Comparisons == {"==", "!=", "<", ">", "<=", ">="}

parse_comparison(p) ==
  Then(Parse("sum", p), LAMBDA left, q :
    IF Peek(q) \notin Comparisons THEN <<left, q>>
    ELSE Then(Parse("sum", q + 1), LAMBDA right, r : <<Binop(ts[q], left, right), r>>))

parse_not(p) ==
  IF Peek(p) = "not" THEN Then(Parse("not", p + 1), LAMBDA node, q : <<<<"not", node>>, q>>)
  ELSE Parse("comparison", p)

RECURSIVE Ands(_, _)
Ands(left, p) ==
  IF Peek(p) # "and" THEN <<left, p>>
  ELSE Then(Parse("not", p + 1), LAMBDA right, q : Ands(Binop("and", left, right), q))

parse_logic_and(p) == Then(Parse("not", p), Ands)

RECURSIVE Ors(_, _)
Ors(left, p) ==
  IF Peek(p) # "or" THEN <<left, p>>
  ELSE Then(Parse("and", p + 1), LAMBDA right, q : Ors(Binop("or", left, right), q))

parse_logic_or(p) == Then(Parse("and", p), Ors)

Parse(rule, p) ==
  CASE rule = "primary" -> parse_primary(p)
    [] rule = "postfix" -> parse_postfix(p)
    [] rule = "power" -> parse_power(p)
    [] rule = "unary" -> parse_unary(p)
    [] rule = "term" -> parse_term(p)
    [] rule = "sum" -> parse_expr(p)
    [] rule = "comparison" -> parse_comparison(p)
    [] rule = "not" -> parse_not(p)
    [] rule = "and" -> parse_logic_and(p)
    [] rule = "or" -> parse_logic_or(p)
=============================================================================
