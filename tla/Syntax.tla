------------------------------- MODULE Syntax -------------------------------
(***************************************************************************)
(* What an expression is, whoever reads it: the trees a stretch of tokens    *)
(* i..j stands for, by the rules of precedence and of what may be indexed.   *)
(* Written from the top, splitting at the loosest operators, where the       *)
(* parser works from the left and looks at one or two tokens. Only used to   *)
(* say what the parser should do.                                            *)
(***************************************************************************)
EXTENDS Expressions, FiniteSets, FiniteSetsExt

(* The brackets that open and close in i..j match in number.                *)
Balanced(i, j) ==
  \A pair \in {<<"(", ")">>, <<"[", "]">>} :
    Cardinality({k \in i..j : ts[k] = pair[1]}) = Cardinality({k \in i..j : ts[k] = pair[2]})

(* Where a token of one of these types can divide i..j.                     *)
Splits(i, j, types) == {k \in i + 1 .. j - 1 : Peek(k) \in types /\ Balanced(i, k)}

Join(op, lefts, rights) == {Binop(op, left, right) : left \in lefts, right \in rights}
Prefixed(first, rest) == {<<x>> \o y : x \in first, y \in rest}

(* The rules refer to each other by name.                                   *)
RECURSIVE Trees(_, _, _)
Or(i, j) == Trees("or", i, j)

(* A chain of and, one of or: to the left; not takes a whole comparison.    *)
And(i, j) ==
  Trees("not", i, j) \cup UNION {Join("and", Trees("and", i, k - 1), Trees("not", k + 1, j)) : k \in Splits(i, j, {"and"})}

Chain(i, j) ==
  Trees("and", i, j) \cup UNION {Join("or", Or(i, k - 1), Trees("and", k + 1, j)) : k \in Splits(i, j, {"or"})}

Comparison(i, j) ==
  Trees("sum", i, j) \cup UNION {Join(ts[k], Trees("sum", i, k - 1), Trees("sum", k + 1, j)) : k \in Splits(i, j, Comparisons)}

Not(i, j) ==
  IF i < j /\ ts[i] = "not" THEN {<<"not", t>> : t \in Trees("not", i + 1, j)} ELSE Trees("comparison", i, j)

-----------------------------------------------------------------------------
(* Slices as they are written.                                              *)

Slice(list, i, j) ==
  LET star(k) == ts[k] \in {"*", "**"}
      Made(mode, first, last) == {<<"slice", list, mode, first, last>>}
      At(k) == Ints[ts[k]] IN
  CASE j = i /\ star(i) -> Made(6, 0, 0)
    [] j = i /\ Position(i) -> Made(0, At(i), At(i))
    [] j = i + 1 /\ star(i) /\ Position(j) -> Made(IF ts[i] = "*" THEN 3 ELSE 5, -1, At(j))
    [] j = i + 1 /\ Position(i) /\ star(j) -> Made(IF ts[j] = "*" THEN 2 ELSE 4, At(i), -1)
    [] j = i + 2 /\ ts[i] = "*" /\ Position(i + 1) /\ star(j) -> Made(5, -1, At(i + 1))
    [] j = i + 2 /\ Position(i) /\ ts[i + 1] = ":" /\ Position(j) ->
         IF At(i) > At(j) THEN {} ELSE Made(1, At(i), At(j))
    [] OTHER -> {}

(* A minus takes positions out of what is to its left, and nothing follows. *)
Removed(t) == t[1] = "binop" /\ t[2] = "-" /\ t[4][1] = "slice" /\ t[4][2] # NoList

Sum(i, j) ==
  Trees("term", i, j) \cup UNION
    {LET lefts == {t \in Trees("sum", i, k - 1) : ~Removed(t)} IN
     IF ts[k] = "-" /\ IsRemoval(k + 1)
     THEN IF Peek(j) # "]" THEN {}
          ELSE UNION {{Binop("-", l, slice) : slice \in Slice(l, k + 2, j - 1)} : l \in lefts}
     ELSE Join(ts[k], lefts, Trees("term", k + 1, j)) : k \in Splits(i, j, {"+", "-"})}

Term(i, j) ==
  Trees("unary", i, j) \cup
  UNION {Join(ts[k], Trees("term", i, k - 1), Trees("unary", k + 1, j)) : k \in Splits(i, j, {"*", "/", "%"})}

-----------------------------------------------------------------------------
(* Values, with the brackets that may follow some of them.                  *)

Name(i, j) == {Var(ts[k]) : k \in {k \in {i} : i = j /\ Peek(i) = "ident"}}
Literal(i, j, types) == {<<"literal", ts[k]>> : k \in {k \in {i} : i = j /\ Peek(i) \in types}}
Number(i, j) == IF i = j /\ ts[i] \in DOMAIN Ints /\ Ints[ts[i]] > IntMax THEN {}
                ELSE Literal(i, j, {"number"})

(* One or more expressions with commas between them; lines may break.       *)
RECURSIVE Trimmed(_, _)
Trimmed(i, j) ==
  CASE i <= j /\ ts[i] = "newline" -> Trimmed(i + 1, j)
    [] i < j /\ ts[i] # "newline" /\ ts[j] = "newline" -> Trimmed(i, j - 1)
    [] OTHER -> Or(i, j)
Element(i, j, lines) == IF lines THEN Trimmed(i, j) ELSE Or(i, j)

RECURSIVE Listed(_, _, _)
Listed(i, j, lines) ==
  {<<t>> : t \in Element(i, j, lines)} \cup
  UNION {Prefixed(Element(i, k - 1, lines), Listed(k + 1, j, lines)) : k \in Splits(i, j, {","})}

(* A value with what may be indexed: not true, (...), {...} nor [...].      *)
Base(i, j) ==
  Number(i, j) \cup Literal(i, j, {"string literal"}) \cup Name(i, j) \cup
  IF i + 2 <= j /\ Peek(i) = "ident" /\ ts[i + 1] = "(" /\ ts[j] = ")"
  THEN {<<"call", ts[i], args>> : args \in IF j = i + 2 THEN {<<>>} ELSE Listed(i + 2, j - 1, FALSE)}
  ELSE {}

RECURSIVE Indexed(_, _)
Indexed(i, j) ==
  Base(i, j) \cup
  UNION {LET lists == Indexed(i, k - 1) IN
         IF IsSlice(k + 1) THEN UNION {Slice(list, k + 1, j - 1) : list \in lists}
         ELSE {<<"index", list, t>> : list \in lists, t \in Or(k + 1, j - 1)} :
           k \in {k \in i + 1 .. j - 1 : ts[k] = "[" /\ ts[j] = "]" /\ Balanced(i, k - 1)}}

(* [type] key = value, the entry of a map.                                  *)
Entry(i, j) ==
  LET key == IF Peek(i) \in Types THEN i + 1 ELSE i IN
  IF key + 2 <= j /\ ts[key] \in Names \cup Strings /\ ts[key + 1] = "="
  THEN {<<IF key = i THEN "" ELSE ts[i], ts[key], t>> : t \in Or(key + 2, j)} ELSE {}

(* Entries with lines, a comma or both between them, and perhaps after.     *)
RECURSIVE Entries(_, _)
Entries(i, j) ==
  IF i > j THEN {<<>>}
  ELSE IF ts[i] = "newline" THEN Entries(i + 1, j)
  ELSE {<<t>> : t \in Entry(i, j)} \cup
       UNION {LET last == Max({i} \cup {l \in i..k - 1 : ts[l] # "newline"}) IN
              Prefixed(Entry(i, IF ts[k] = "," THEN last ELSE k - 1), Entries(k + 1, j)) :
                k \in {k \in i + 1 .. j : ts[k] \in {",", "newline"} /\ Balanced(i, k)}}

(* [ ]: nothing, a slice, a map or a list. The first entry of a map can     *)
(* only have a type when its key is a name.                                 *)
Bracketed(i, j) ==
  IF ~(i < j /\ ts[i] = "[" /\ ts[j] = "]") THEN {}
  ELSE IF \A k \in i + 1 .. j - 1 : ts[k] = "newline" THEN {<<"empty">>}
  ELSE IF IsStandalone(i + 1) THEN Slice(NoList, i + 1, j - 1)
  ELSE IF IsMap(ts_skip_newlines(i + 1)) THEN {<<"map", all>> : all \in Entries(i + 1, j - 1)}
  ELSE {<<"list", all>> : all \in Listed(i + 1, j - 1, TRUE)}

Primary(i, j) ==
  Indexed(i, j) \cup Literal(i, j, {"true", "false"}) \cup Bracketed(i, j) \cup
  (IF j = i + 2 /\ ts[i] = "{" /\ Peek(i + 1) = "ident" /\ ts[j] = "}"
   THEN {<<"var", ts[i + 1], FALSE>>} ELSE {}) \cup
  (IF i + 2 <= j /\ ts[i] = "(" /\ ts[j] = ")" THEN Or(i + 1, j - 1) ELSE {})

(* Only a variable, alone or in parentheses, is counted up or down.         *)
Postfix(i, j) ==
  Trees("primary", i, j) \cup
  IF i < j /\ ts[j] \in {"++", "--"}
  THEN {<<"post", ts[j], t>> : t \in {t \in Trees("primary", i, j - 1) : t[1] = "var"}} ELSE {}

Power(i, j) ==
  Trees("postfix", i, j) \cup
  UNION {Join("**", Trees("postfix", i, k - 1), Trees("unary", k + 1, j)) : k \in Splits(i, j, {"**"})}

Unary(i, j) ==
  CASE i > j -> {}
    [] i <= j /\ ts[i] = "+" -> Trees("unary", i + 1, j)
    [] i < j /\ ts[i] = "-" ->
         IF j = i + 1 /\ ts[j] \in DOMAIN Ints /\ Ints[ts[j]] = IntMax + 1 THEN {IntMin}
         ELSE Join("-", {Zero}, Trees("unary", i + 1, j))
    [] OTHER -> Trees("power", i, j)

Trees(rule, i, j) ==
  CASE rule = "or" -> Chain(i, j)
    [] rule = "and" -> And(i, j)
    [] rule = "not" -> Not(i, j)
    [] rule = "comparison" -> Comparison(i, j)
    [] rule = "sum" -> Sum(i, j)
    [] rule = "term" -> Term(i, j)
    [] rule = "unary" -> Unary(i, j)
    [] rule = "power" -> Power(i, j)
    [] rule = "postfix" -> Postfix(i, j)
    [] rule = "primary" -> Primary(i, j)
=============================================================================
